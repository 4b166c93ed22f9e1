------------------------------ MODULE ReadWindow -------------------------------
(***************************************************************************)
(* What a reader of a chain promises that goes from the tip down, in       *)
(* batches, and shows the transactions it finds: the window is all of the  *)
(* chain from some block up, each of its transactions is shown once, and   *)
(* what is missing are whole batches that were given up.  A window that    *)
(* was kept can be opened again later.                                     *)
(***************************************************************************)
EXTENDS Integers

CONSTANT Tip             \* the last block of the chain, a natural number

VARIABLES real,          \* the blocks with a transaction to show
          window,
          kept

Blocks == 1..Tip

\* shown: how many times the transaction of a block is shown.
Window == [low : 1..(Tip + 1), shown : [Blocks -> Nat], missing : SUBSET Blocks]
Closed == [low |-> Tip + 1, shown |-> [b \in Blocks |-> 0], missing |-> Blocks]
Top    == [low |-> Tip + 1, shown |-> [b \in Blocks |-> 0], missing |-> {}]

Init == /\ real \subseteq Blocks
        /\ window = Closed /\ kept = Closed

Close   == window' = Closed
Open    == window' = Top
Restore == window' = kept

\* The next blocks below the window, each transaction of theirs shown once.
Extend == \E lo \in 1..(window.low - 1) :
  /\ window # Closed
  /\ window' = [low |-> lo, missing |-> window.missing,
                shown |-> [b \in Blocks |-> IF b \in lo..(window.low - 1)
                                            THEN (IF b \in real THEN 1 ELSE 0) ELSE window.shown[b]]]

\* The next blocks are given up.
Lose == \E lo \in 1..(window.low - 1) :
  /\ window # Closed
  /\ window' = [low |-> lo, shown |-> window.shown,
                missing |-> window.missing \cup lo..(window.low - 1)]

Next == /\ Close \/ Open \/ Restore \/ Extend \/ Lose \/ UNCHANGED window
        /\ kept' \in {kept, window', Closed}
        /\ UNCHANGED real

Spec == Init /\ [][Next]_<<real, window, kept>>

\* In a window every block with a transaction is shown once or missing, and nothing
\* below it is shown.
Exact(w) == w = Closed \/ \A b \in Blocks :
  w.shown[b] = IF b >= w.low /\ b \in real \ w.missing THEN 1 ELSE 0
================================================================================
