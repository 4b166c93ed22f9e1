-------------------------------- MODULE CliScan --------------------------------
(***************************************************************************)
(* The scan of a window of the L1 that the command line reports and the    *)
(* server seeds its state from (scan_channels, Agg), and the watch of a    *)
(* channel's tip (cmd_watch).                                              *)
(*                                                                         *)
(* The scan asks for its window in chunks, from lib down; a chunk that is  *)
(* not answered is left out without a word.  One channel, at most one      *)
(* inscription a slot: a raw one, or a block with its id.  The slot tells  *)
(* the transactions of two blocks apart.                                   *)
(***************************************************************************)
EXTENDS Integers, FiniteSets, FiniteSetsExt

CONSTANTS MaxSlot,        \* bound: slots of the L1
          MaxId,          \* bound: block ids
          MaxChunk,       \* bound: slots of a chunk
          MaxScans,       \* bound: scans
          MaxPolls        \* bound: polls of the watch

VARIABLES zone,           \* what the slots hold of the channel
          scan,           \* the running or last scan
          track,          \* the SeqTrack that scans seed
          scans,
          folded,         \* history: the slots whose inscriptions the track has
          rawOnly,        \* history: a scan found raw inscriptions only
          watch           \* cmd_watch

vars == <<zone, scan, track, scans, folded, rawOnly, watch>>

Slots == 0..MaxSlot
None  == -1
Raw   == MaxId + 1
Holds == {None, Raw} \cup (0..MaxId)

Inscribed(P) == {s \in P : zone[s] # None}
Ids(P) == {zone[s] : s \in P} \cap (0..MaxId)

\* latest, min: block ids; txs: the slot of the block that tx_count and tx_mix are of.
NoAgg   == [latest |-> 0, min |-> 0, count |-> 0, txs |-> None, inited |-> FALSE,
            minSlot |-> None, maxSlot |-> None]
\* answered is history: the slots the node answered for.
NoScan  == [pc |-> "off", lib |-> 0, lo |-> 0, hi |-> 0, chunk |-> 1, agg |-> NoAgg,
            answered |-> {}]
NoTrack == [latest |-> 0, first |-> 0, count |-> 0]
\* slot, tip: the last answers; slotNow, tipNow: what is; said: the status line.
NoWatch == [slot |-> None, tip |-> None, slotNow |-> 0, tipNow |-> 0,
            said |-> "nothing", before |-> <<None, None>>, polls |-> 0]

Init ==
  /\ zone = [s \in Slots |-> None] /\ scan = NoScan /\ track = NoTrack
  /\ scans = 0 /\ folded = {} /\ rawOnly = FALSE /\ watch = NoWatch

--------------------------------------------------------------------------------
(* The scan *)

Minus(a, b) == IF a >= b THEN a - b ELSE 0

\* The chain is written up to its last irreversible slot when the first scan begins.
Start ==
  /\ scan.pc = "off" /\ scans < MaxScans /\ watch = NoWatch
  /\ scans' = scans + 1
  /\ \E lib, back \in Slots, chunk \in 1..MaxChunk :
       scan' = [NoScan EXCEPT !.pc = "walk", !.lib = lib, !.lo = Minus(lib, back), !.hi = lib,
                              !.chunk = chunk]
  /\ IF scans = 0 THEN zone' \in [Slots -> Holds] ELSE UNCHANGED zone
  /\ UNCHANGED <<track, folded, rawOnly, watch>>

\* Agg::update
Update(a, s) ==
  LET block == zone[s] # Raw
      b == IF block /\ ~a.inited THEN [a EXCEPT !.latest = zone[s], !.min = zone[s]] ELSE a
  IN  [latest  |-> IF block THEN Max({b.latest, zone[s]}) ELSE b.latest,
       min     |-> IF block THEN Min({b.min, zone[s]}) ELSE b.min,
       count   |-> b.count + 1,
       txs     |-> IF block /\ zone[s] >= b.latest THEN s ELSE b.txs,
       inited  |-> b.inited \/ block,
       minSlot |-> IF b.minSlot = None THEN s ELSE Min({b.minSlot, s}),
       maxSlot |-> Max({b.maxSlot, s})]

\* The inscriptions of from..hi, in their order.
Updated(a, from, hi) ==
  LET upTo[s \in (from - 1)..hi] ==
        IF s < from THEN a
        ELSE IF zone[s] = None THEN upTo[s - 1] ELSE Update(upTo[s - 1], s)
  IN  upTo[hi]

\* Mutant: a chunk begins where the last one ended.
NextHiOverlaps(from) == from

NextHi(from) == Minus(from, 1)

\* scan_channels, an iteration.
Chunk ==
  LET from == Max({Minus(scan.hi, scan.chunk), scan.lo}) IN
  /\ scan.pc = "walk"
  /\ \E ok \in BOOLEAN :
       scan' = [scan EXCEPT !.pc = IF from <= scan.lo THEN "done" ELSE "walk",
                  !.hi = NextHi(from),
                  !.agg = IF ok THEN Updated(@, from, scan.hi) ELSE @,
                  !.answered = IF ok THEN @ \cup (from..scan.hi) ELSE @]
  /\ UNCHANGED <<zone, track, scans, folded, rawOnly, watch>>

\* discover_seed: what a channel's Agg changes in its track.
Seeded(t, a) ==
  [latest |-> Max({t.latest, a.latest}),
   first  |-> IF t.first = 0 THEN a.min ELSE Min({t.first, a.min}),
   count  |-> Max({t.count, a.count})]

Seed ==
  /\ scan.pc = "done"
  /\ scan' = NoScan
  /\ track' = IF scan.agg.count > 0 THEN Seeded(track, scan.agg) ELSE track
  /\ folded' = folded \cup scan.answered
  /\ rawOnly' = (rawOnly \/ (scan.agg.count > 0 /\ ~scan.agg.inited))
  /\ UNCHANGED <<zone, scans, watch>>

--------------------------------------------------------------------------------
(* The watch *)

\* What the status line says of a channel that answered.
Status(tip, slot) ==
  IF watch.tip = None THEN "baseline"
  ELSE IF watch.tip # tip THEN "alive"
  ELSE IF slot # None /\ watch.slot # None /\ slot > watch.slot THEN "not settling"
  ELSE "idle"

\* cmd_watch, an iteration: either request may fail.
Poll ==
  /\ watch.polls < MaxPolls /\ scans = 0
  /\ \E slotNow \in watch.slotNow..MaxSlot, tipNow \in watch.tipNow..MaxId, s, t \in BOOLEAN :
       watch' = [slotNow |-> slotNow, tipNow |-> tipNow,
                 slot |-> IF s THEN slotNow ELSE watch.slot,
                 tip |-> IF t THEN tipNow ELSE watch.tip,
                 said |-> IF t THEN Status(tipNow, IF s THEN slotNow ELSE None) ELSE "unreachable",
                 before |-> <<watch.slot, watch.tip>>,
                 polls |-> watch.polls + 1]
  /\ UNCHANGED <<zone, scan, track, scans, folded, rawOnly>>

Next == Start \/ Chunk \/ Seed \/ Poll

Spec == Init /\ [][Next]_vars

--------------------------------------------------------------------------------
\* A scan reports what it read: every slot of the window was asked for once, so the
\* inscriptions are counted once; the ids and slots are the extremes of what was
\* answered, raw inscriptions having no id; the transactions are a newest block's.  A
\* track seeded by several scans has the extremes of them all, unless a genesis (id 0)
\* or a scan with raw inscriptions only reset its first id to "unset".  The watch says
\* "not settling" only when the L1 advanced and the tip did not, since each last
\* answered.  The code: scan_channels, Agg::update, discover_seed, cmd_watch.
Reported ==
  /\ scan.pc = "done" =>
       LET I == Inscribed(scan.answered)
           B == Ids(scan.answered)
           a == scan.agg
       IN  /\ a.count = Cardinality(I)
           /\ I # {} => a.minSlot = Min(I) /\ a.maxSlot = Max(I)
           /\ B # {} => a.min = Min(B) /\ a.latest = Max(B) /\ zone[a.txs] = a.latest
  /\ Ids(folded) # {} =>
       /\ track.latest = Max(Ids(folded))
       /\ 0 \notin Ids(folded) /\ ~rawOnly => track.first = Min(Ids(folded))
  /\ watch.said = "not settling" =>
       watch.slotNow > watch.before[1] /\ watch.tipNow = watch.before[2]
================================================================================
