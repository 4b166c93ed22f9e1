-------------------------------- MODULE L1Chain --------------------------------
(***************************************************************************)
(* The L1 as zonescan sees it: external code, modelled from how            *)
(* src/serve.rs uses it.  The node answers three things: an info poll      *)
(* (the last irreversible slot, lib), a range of blocks by slot, and a     *)
(* live stream of events, each carrying one block and the lib of the       *)
(* moment the event was emitted.  Only one zone's channel is followed, so  *)
(* a block is reduced to the id of the zone block inscribed in it, 0 when  *)
(* it carries no inscription of this zone.                                 *)
(*                                                                         *)
(* The chain only grows here: blocks above lib are never reorganised away. *)
(***************************************************************************)
EXTENDS Naturals, Sequences

CONSTANTS MaxBlock,   \* bound: highest zone block id the sequencer produces
          MaxSlot     \* bound: highest L1 slot

ASSUME BoundsAssumption == MaxBlock \in Nat \ {0} /\ MaxSlot \in Nat \ {0}

VARIABLES chain,      \* chain[s]: the L1 block at slot s
          lib         \* the node's last irreversible slot, 0 before there is one

l1vars == <<chain, lib>>

Blocks == 1..MaxBlock
Slots  == 1..MaxSlot

L1Block == [block : 0..MaxBlock, lib : 0..MaxSlot]

L1TypeOK ==
  /\ chain \in Seq(L1Block)
  /\ Len(chain) <= MaxSlot
  /\ lib \in 0..MaxSlot

\* A zone block with id n or above is inscribed at a slot no later than k.
OnL1By(n, k) == n = 0 \/ \E s \in 1..k : chain[s].block >= n

\* Zone blocks are settled in the order of their ids; one that is already on
\* the L1 may be inscribed again.
Settleable(b) == b = 1 \/ OnL1By(b - 1, Len(chain))

L1Init == chain = <<>> /\ lib = 0

\* The L1 mints the block of its next slot, with or without an inscription.
Mint(b) ==
  /\ Len(chain) < MaxSlot
  /\ b = 0 \/ Settleable(b)
  /\ chain' = Append(chain, [block |-> b, lib |-> lib])
  /\ UNCHANGED lib

AdvanceLib ==
  /\ lib < Len(chain)
  /\ lib' = lib + 1
  /\ UNCHANGED chain
================================================================================
