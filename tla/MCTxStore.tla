------------------------------- MODULE MCTxStore -------------------------------
(* A genesis transaction that two zones share; the creation of a holding (an   *)
(* ATA); a transfer from it, whose program an older build knows by its id only; *)
(* a raw inscription.                                                          *)
EXTENDS TxStore, TLC

AllAccounts   == {"definition", "ata", "owner"}
AllDefinition == "ata" :> "definition"
AllPrograms   == {"faucet", "ata", "token", "hex"}

Public(hash, chan, prog, accts, opens, block, full) ==
  [hash |-> hash, chan |-> chan, kind |-> "public", prog |-> prog, accts |-> accts,
   opens |-> opens, block |-> block, time |-> 2, full |-> full]
Genesis(chan) == Public(1, chan, "faucet", {"owner"}, {}, 1, TRUE)
OldGenesis    == Public(1, 2, "faucet", {"owner"}, {}, 1, FALSE)
Create        == Public(2, 1, "ata", AllAccounts, {"ata"}, 1, TRUE)
Transfer      == Public(3, 1, "token", {"ata", "owner"}, {}, 2, TRUE)
OldTransfer   == Public(3, 1, "hex", {"ata", "owner"}, {}, 2, FALSE)
Raw(t)        == [hash |-> 4, chan |-> 1, kind |-> "raw", prog |-> NoProgram, accts |-> {},
                  opens |-> {}, block |-> 0, time |-> t, full |-> FALSE]

AllDecoded == {Genesis(1), Genesis(2), Create, Transfer, OldTransfer, Raw(1)}
AllLegacy  == {{OldGenesis, Create, OldTransfer, Raw(0)}}

\* The global feed from its oldest row on, a zone's from its newest.
BothWays == {<<0, TRUE>>, <<1, FALSE>>}
================================================================================
