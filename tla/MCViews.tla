-------------------------------- MODULE MCViews --------------------------------
(***************************************************************************)
(* The components that derive what is shown from what has been read, each  *)
(* checked for itself: a behaviour picks one at the start and is one of    *)
(* that component alone.  They share no state, so the variables v1 ... v9  *)
(* hold that of the component picked; it leaves the rest of them Unused.   *)
(***************************************************************************)
EXTENDS Integers

CONSTANTS Parts, Unused,
          MaxBlocks, MaxResets, MaxBad, ChunkSize, MergeEvery, VerifCap,  \* of ChainVerify
          MaxTip, Kinds, SettleSlots,                                     \* of Settling
          Accounts, MaxBlock, MaxBalance, MaxCommits, Relabellers,        \* of PrivacyLabels
          MaxRestarts,                          \* of ChainVerify and Settling
          Txs, Sources, Cap, Queue, Page, MaxReads,                       \* of LiveFeed
          MaxSlot,                              \* of Settling and CliScan
          MaxId, MaxChunk, MaxScans, MaxPolls                             \* of CliScan

ASSUME ViewsAssumption ==
  /\ MaxBlock \in Nat /\ ChunkSize \in Nat \ {0} /\ VerifCap \in Nat
  /\ MaxSlot \in Nat /\ MaxId \in Nat
  /\ Cap \in Nat /\ Page \in Nat \ {0}
  /\ \A t, u \in Txs : t.at \in Nat \ {0} /\ (t.at = u.at => t = u)
  /\ SettleSlots \in Nat /\ Kinds \subseteq {"nothing", "clock", "user", "raw"}

VARIABLES part, v1, v2, v3, v4, v5, v6, v7, v8, v9

vars == <<part, v1, v2, v3, v4, v5, v6, v7, v8, v9>>

\* Two zones with the same genesis, and a transaction of one of them.
ThreeTxs ==
  {[hash |-> "g", zone |-> "A", at |-> 1], [hash |-> "g", zone |-> "B", at |-> 2],
   [hash |-> "h", zone |-> "A", at |-> 3]}

Verify == INSTANCE ChainVerify WITH
  minted <- v1, heard <- v2, cursor <- v3, verdict <- v4, walk <- v5, restarts <- v6, ear <- v7

Settle == INSTANCE Settling WITH
  inscribed <- v1, lib <- v2, l1 <- v3, track <- v4, readSlots <- v5, restarts <- v6

Live == INSTANCE LiveFeed WITH
  mem <- v1, seen <- v2, jobs <- v3, stored <- v4, pushes <- v5, feed <- v6, reads <- v7,
  owed <- v8, late <- v9

Labels == INSTANCE PrivacyLabels WITH
  chain <- v1, balance <- v2, label <- v3, updates <- v4, commits <- v5, known <- v6

Guessing == INSTANCE Classify WITH
  origin <- v1, samples <- v2, learned <- v3,
  Interfaces <- {"native", "enum", "token", "amm", "ata", "pinata", "clock"},
  Registered <- {"enum", "token", "pinata"}, Batches <- {4}, MaxSamples <- 4, MaxNamed <- 2

Cli == INSTANCE CliScan WITH
  zone <- v1, scan <- v2, track <- v3, scans <- v4, folded <- v5, rawOnly <- v6, watch <- v7

Init ==
  /\ part \in Parts
  /\ \/ part = "verify" /\ Verify!Init   /\ v8 = Unused /\ v9 = Unused
     \/ part = "settle" /\ Settle!Init   /\ v7 = Unused /\ v8 = Unused /\ v9 = Unused
     \/ part = "live"   /\ Live!Init
     \/ part = "labels" /\ Labels!Init   /\ v7 = Unused /\ v8 = Unused /\ v9 = Unused
     \/ part = "guess"  /\ Guessing!Init /\ v4 = Unused /\ v5 = Unused /\ v6 = Unused /\ v7 = Unused /\ v8 = Unused /\ v9 = Unused
     \/ part = "cli"    /\ Cli!Init      /\ v8 = Unused /\ v9 = Unused

Next ==
  \/ part = "verify" /\ Verify!Next   /\ UNCHANGED <<part, v8, v9>>
  \/ part = "settle" /\ Settle!Next   /\ UNCHANGED <<part, v7, v8, v9>>
  \/ part = "live"   /\ Live!Next     /\ UNCHANGED part
  \/ part = "labels" /\ Labels!Next   /\ UNCHANGED <<part, v7, v8, v9>>
  \/ part = "guess"  /\ Guessing!Next /\ UNCHANGED <<part, v4, v5, v6, v7, v8, v9>>
  \/ part = "cli"    /\ Cli!Next      /\ UNCHANGED <<part, v8, v9>>

Spec == Init /\ [][Next]_vars

--------------------------------------------------------------------------------
(* The properties of the parts; each module says what its own means. *)

\* Only a zone with a bad block is accused of one (verify_chain, SeqTrack::verify).
NotAccused == part = "verify" => Verify!NotAccused

\* What is said of a zone's health rests on what was read (settling_verdict).
SaidOfZone == part = "settle" => Settle!SaidOfZone

\* A page shows what is stored, once, and all of it (push_tx, feedMore, prependTxs).
FeedShows == part = "live" => Live!FeedShows

\* A derived privacy label is right (relabel_privacy).
LabelsRight == part = "labels" => Labels!LabelsRight

\* No built-in program is taken for another (classify).
RightName == part = "guess" => Guessing!RightName

\* A scan and a watch report what was answered (scan_channels, cmd_watch).
Reported == part = "cli" => Cli!Reported
================================================================================
