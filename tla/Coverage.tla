-------------------------------- MODULE Coverage -------------------------------
(***************************************************************************)
(* What the full-history store promises to whoever reads it back, after a  *)
(* crash or a change of the configuration at any moment: its two cursors   *)
(* enclose a range of settled slots of which no block is missing.  Nothing *)
(* is said of passes, chunks and jobs.                                     *)
(***************************************************************************)
EXTENDS Naturals

CONSTANTS Channels, Slots, None

VARIABLES inscribed,    \* the slots of each channel's inscriptions, those to come included
          lib,          \* the last slot that is settled
          stored,       \* the slots of each channel's blocks in the store
          top, floor,   \* the cursors
          done          \* the walk down has ended

chain == <<inscribed, lib>>
vars  == <<chain, stored, top, floor, done>>

Complete(a, b) == \A c \in Channels : inscribed[c] \cap (a..b) \subseteq stored[c]

Init ==
  /\ inscribed \in [Channels -> SUBSET Slots] /\ lib \in Slots
  /\ stored = [c \in Channels |-> {}]
  /\ top = None /\ floor = None /\ done = FALSE

Settle ==
  /\ lib' \in Slots /\ lib' > lib
  /\ UNCHANGED <<inscribed, stored, top, floor, done>>

\* Blocks are added, settled ones only, and none is taken out.
Gather ==
  /\ \E seen \in [Channels -> SUBSET (0..lib)] :
       stored' = [c \in Channels |-> stored[c] \cup (inscribed[c] \cap seen[c])]
  /\ UNCHANGED <<chain, top, floor, done>>

\* A cursor is moved, up or down, only where the blocks between the two are there already.
MoveTop(s) ==
  /\ floor # None => Complete(floor, s)
  /\ top' = s
  /\ UNCHANGED <<chain, stored, floor, done>>

MoveFloor(s) ==
  /\ top # None /\ Complete(s, top)
  /\ floor' = s
  /\ UNCHANGED <<chain, stored, top, done>>

\* The end of the walk is for good, and no walk ends before there is a range.
End ==
  /\ top # None
  /\ done' = TRUE
  /\ UNCHANGED <<chain, stored, top, floor>>

Next == Settle \/ Gather \/ End \/ \E s \in 0..lib : MoveTop(s) \/ MoveFloor(s)

Spec == Init /\ [][Next]_vars
================================================================================
