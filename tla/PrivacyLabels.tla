----------------------------- MODULE PrivacyLabels -----------------------------
(***************************************************************************)
(* Which way a privacy transaction moves its account's public funds is not *)
(* in the transaction: decoding labels it "shield", and relabel_privacy    *)
(* derives the label from the balances, by a replay of the stored blocks.  *)
(* It reads in one transaction of the store and writes in another, while   *)
(* the walk (from the top down), the sequencer's reader and the stream     *)
(* commit blocks, whose rows carry the label of decoding again.            *)
(*                                                                         *)
(* One zone, a transaction a block; accounts begin at 0.                   *)
(***************************************************************************)
EXTENDS Integers, Sequences, FiniteSets

CONSTANTS Accounts,
          MaxBlock,       \* bound: blocks
          MaxBalance,     \* bound: an account's balance
          MaxCommits,     \* bound: commits
          Relabellers     \* relabel_privacy runs after a walk, after a pass, on demand

VARIABLES chain,          \* the zone's transactions
          balance,        \* the accounts' balances after them
          label,          \* the stored rows' labels
          updates,        \* what each relabeller has read and will write
          commits,
          known           \* history: the rows whose label is derived from a complete prefix

vars == <<chain, balance, label, updates, commits, known>>

Blocks  == 1..Len(chain)
Rows    == DOMAIN label
Private == {b \in Blocks : chain[b].kind = "private"}

Plus(f, a, n) == [f EXCEPT ![a] = @ + n]

Init ==
  /\ chain = <<>> /\ balance = [a \in Accounts |-> 0]
  /\ label = <<>>
  /\ updates = [r \in Relabellers |-> <<>>]
  /\ commits = 0 /\ known = {}

--------------------------------------------------------------------------------
(* The zone *)

Mint(tx, after) ==
  /\ Len(chain) < MaxBlock
  /\ \A a \in Accounts : after[a] \in 0..MaxBalance
  /\ chain' = Append(chain, tx) /\ balance' = after
  /\ UNCHANGED <<label, updates, commits, known>>

\* An account's public funds go down (shield) or up (deshield); it shows what they are then.
MintPrivate ==
  \E a \in Accounts, n \in 0..MaxBalance :
    /\ n # balance[a]
    /\ Mint([kind |-> "private", acct |-> a, to |-> a, n |-> n,
             way |-> IF n > balance[a] THEN "deshield" ELSE "shield"],
            [balance EXCEPT ![a] = n])

MintTransfer ==
  \E a, b \in Accounts, n \in 1..MaxBalance :
    /\ a # b
    /\ Mint([kind |-> "public", acct |-> a, to |-> b, n |-> n, way |-> "none"],
            Plus(Plus(balance, a, -n), b, n))

--------------------------------------------------------------------------------
(* The store *)

Decoded(b) == IF chain[b].kind = "private" THEN "shield" ELSE "none"

\* Db::commit of blocks, by whatever reads them: a row that is there already, too, gets
\* the label of decoding.
Commit ==
  /\ commits < MaxCommits /\ commits' = commits + 1
  /\ \E lo, hi \in Blocks :
       /\ lo <= hi
       /\ label' = [b \in Rows \cup (lo..hi) |-> IF b \in lo..hi THEN Decoded(b) ELSE label[b]]
       /\ known' = known \ (lo..hi)
  /\ UNCHANGED <<chain, balance, updates>>

\* The balances a replay tracks, after the rows below b.
Tracked(b) ==
  LET bal[i \in 0..MaxBlock] ==
        IF i = 0 THEN [a \in Accounts |-> 0]
        ELSE IF i \notin Rows THEN bal[i - 1]
        ELSE LET t == chain[i] IN
             IF t.kind = "private" THEN [bal[i - 1] EXCEPT ![t.acct] = t.n]
             ELSE Plus(Plus(bal[i - 1], t.acct, -t.n), t.to, t.n)
  IN  bal[b - 1]

\* Mutant: transfers are not replayed.
DerivedFromPrivate(b) ==
  LET before == {i \in Rows \cap Private : i < b /\ chain[i].acct = chain[b].acct}
      pre == IF before = {} THEN 0
             ELSE chain[CHOOSE i \in before : \A j \in before : j <= i].n
  IN  IF chain[b].n > pre THEN "deshield" ELSE "shield"

Derived(b) == IF chain[b].n > Tracked(b)[chain[b].acct] THEN "deshield" ELSE "shield"

\* relabel_privacy, the read: the labels, and, as history, where all that is below was there.
RelabelRead(r) ==
  /\ updates[r] = <<>> /\ Rows \cap Private # {}
  /\ updates' = [updates EXCEPT ![r] =
                   [b \in Rows \cap Private |->
                      [sub |-> Derived(b), known |-> 1..b \subseteq Rows]]]
  /\ UNCHANGED <<chain, balance, label, commits, known>>

\* The write.
RelabelWrite(r) ==
  LET u == updates[r] IN
  /\ u # <<>>
  /\ label' = [b \in Rows |-> IF b \in DOMAIN u THEN u[b].sub ELSE label[b]]
  /\ known' = (known \ DOMAIN u) \cup {b \in DOMAIN u : u[b].known}
  /\ updates' = [updates EXCEPT ![r] = <<>>]
  /\ UNCHANGED <<chain, balance, commits>>

Next ==
  \/ MintPrivate \/ MintTransfer
  \/ Commit
  \/ \E r \in Relabellers : RelabelRead(r) \/ RelabelWrite(r)

Spec == Init /\ [][Next]_vars

--------------------------------------------------------------------------------
\* Whatever is committed again, and however many relabellers read and write in between:
\* a row whose label was derived when everything below it was stored, and which no
\* commit has written since, says which way the funds of its account went.
\* The code: relabel_privacy next to Db::commit.
LabelsRight == \A b \in known : label[b] = chain[b].way
================================================================================
