-------------------------------- MODULE Settling -------------------------------
(***************************************************************************)
(* What the explorer says of a zone's health: whether its blocks reach the *)
(* L1 (settling_verdict) and what its inscriptions hold (activity_state).  *)
(* The evidence comes in piece by piece: the live stream, the backward     *)
(* walk and the scan at the start read slots of the L1; two polls ask the  *)
(* L1 for the channel's record and the sequencer for its tip; a restart    *)
(* keeps what the summary persists.                                        *)
(*                                                                         *)
(* Time goes by in spans of ALIVE_TIP_SECS.  A summary that is lost in a   *)
(* crash is one that had not been read.                                    *)
(***************************************************************************)
EXTENDS Integers, FiniteSets

CONSTANTS MaxSlot,        \* bound: slots of the L1
          MaxTip,         \* bound: the sequencer's tip
          Kinds,          \* what a slot may hold of the zone: "nothing", "clock", "user", "raw"
          SettleSlots,    \* SETTLE_SLOTS
          MaxRestarts     \* bound: restarts

VARIABLES inscribed,      \* what each slot of the L1 holds of the zone
          lib,            \* lib_slot, as polled; None before the first poll
          l1,             \* L1Track: ingested_slot, first_ingested_slot
          track,          \* the zone's SeqTrack
          readSlots,      \* history: the slots read since the last restart
          restarts

vars == <<inscribed, lib, l1, track, readSlots, restarts>>

Tip   == Cardinality(DOMAIN inscribed)
None  == -1

Larger(x, y) == IF x >= y THEN x ELSE y
Minus(x, y)  == IF x >= y THEN x - y ELSE 0
Last(S) == IF S = {} THEN 0 ELSE CHOOSE x \in S : \A y \in S : y <= x

Inscribed(P) == {s \in P : inscribed[s] # "nothing"}

\* slotSeen: l1_slot_seen; advanced: whether seq_tip_change_unix is of the last span; tipSeen and
\* rpc: rpc_tip_seen, and whether there is a seq_tip; record: l1_tip_slot; counted:
\* inscriptions_seen > 0; user, raw: user_tx_seen, saw_undecodable.
NoTrack == [slotSeen |-> 0, advanced |-> FALSE, tipSeen |-> None, rpc |-> FALSE,
            record |-> 0, counted |-> FALSE, user |-> FALSE, raw |-> FALSE]
NoL1 == [ingested |-> 0, first |-> 0]

Init ==
  /\ inscribed = <<>> /\ lib = None
  /\ l1 = NoL1 /\ track = NoTrack
  /\ readSlots = {} /\ restarts = 0

--------------------------------------------------------------------------------
(* The L1, and time *)

Slot(kind) ==
  /\ Tip < MaxSlot
  /\ inscribed' = [s \in 1..(Tip + 1) |-> IF s <= Tip THEN inscribed[s] ELSE kind]
  /\ UNCHANGED <<lib, l1, track, readSlots, restarts>>

AliveTipPasses ==
  /\ track.advanced
  /\ track' = [track EXCEPT !.advanced = FALSE]
  /\ UNCHANGED <<inscribed, lib, l1, readSlots, restarts>>

--------------------------------------------------------------------------------
(* Reading slots *)

\* note_read_slot
Noted(s) == [ingested |-> Larger(l1.ingested, s), first |-> IF l1.first = 0 THEN s ELSE l1.first]

\* ingest and its callers: the newest slot, and what the inscriptions hold.  The walk
\* does not count raw ones.
IngestedFrom(P, uncounted, seen) ==
  LET I == Inscribed(P) IN
  [track EXCEPT !.slotSeen = Larger(seen, Last(I)),
                !.counted = @ \/ \E s \in I : inscribed[s] # uncounted,
                !.user = @ \/ \E s \in I : inscribed[s] = "user",
                !.raw = @ \/ \E s \in I : inscribed[s] = "raw"]

\* Mutant: the newest slot is that of what was read last.
IngestedLast(P, uncounted) ==
  IngestedFrom(P, uncounted, IF Inscribed(P) = {} THEN track.slotSeen ELSE 0)

Ingested(P, uncounted) == IngestedFrom(P, uncounted, track.slotSeen)

Read(P, uncounted) ==
  /\ track' = Ingested(P, uncounted)
  /\ readSlots' = readSlots \cup P
  /\ UNCHANGED <<inscribed, lib, restarts>>

\* handle_event: the slot at the tip; what passes while it is disconnected is missed.
StreamRead ==
  /\ Tip > 0
  /\ l1' = Noted(Tip)
  /\ Read({Tip}, "nothing")

\* A chunk of backfill_walk; some of them are lost to failed requests.
WalkRead ==
  \E hi \in 1..lib : \E lo \in 1..hi :
    /\ l1' = Noted(hi)
    /\ Read(lo..hi, "raw")

\* discover_seed, which does not move the frontier.
SeedRead ==
  \E lo \in 1..lib : Read(lo..lib, "nothing") /\ UNCHANGED l1

--------------------------------------------------------------------------------
(* Polls *)

\* refresh_info
PollInfo ==
  /\ lib' \in Larger(lib, 0)..Tip
  /\ UNCHANGED <<inscribed, l1, track, readSlots, restarts>>

\* refresh_channels: the channel's record at the L1, which may lag.
PollChannel ==
  \E s \in Inscribed(1..Tip) :
    /\ s > track.record
    /\ track' = [track EXCEPT !.record = s]
    /\ UNCHANGED <<inscribed, lib, l1, readSlots, restarts>>

\* refresh_channels: getLastBlockId of a sequencer that may start over.  An advance is
\* one between two answers to this process.
PollTip ==
  \E tip \in 0..MaxTip :
    /\ track' = [track EXCEPT !.tipSeen = tip, !.rpc = TRUE,
                   !.advanced = @ \/ (track.tipSeen # None /\ tip > track.tipSeen)]
    /\ UNCHANGED <<inscribed, lib, l1, readSlots, restarts>>

--------------------------------------------------------------------------------

\* apply_config: a new L1Track; the summary, without what is not serialised.
Restart ==
  /\ restarts < MaxRestarts /\ restarts' = restarts + 1
  /\ l1' = NoL1 /\ lib' = None
  /\ track' = [track EXCEPT !.tipSeen = None]
  /\ readSlots' = {}
  /\ UNCHANGED inscribed

Next ==
  \/ \E k \in Kinds : Slot(k)
  \/ AliveTipPasses
  \/ StreamRead \/ WalkRead \/ SeedRead
  \/ PollInfo \/ PollChannel \/ PollTip
  \/ Restart

Spec == Init /\ [][Next]_vars

--------------------------------------------------------------------------------
(* What is said *)

\* settling_verdict
Verdict ==
  IF l1.ingested = 0 THEN "unknown"
  ELSE IF track.slotSeen > 0 /\ Minus(l1.ingested, track.slotSeen) < SettleSlots THEN "settling"
  ELSE IF track.advanced /\ Minus(l1.ingested, l1.first) >= SettleSlots THEN "stalled"
  ELSE "unknown"

\* The record of the channel starts with the zone's first inscription.
HasPendingActivity ==
  /\ ~track.rpc /\ track.record > 0
  /\ \/ lib # None /\ track.record > lib
     \/ ~track.counted /\ \E s \in Inscribed(1..Tip) : s < track.record

\* activity_state
Activity ==
  IF HasPendingActivity THEN "finalizing"
  ELSE IF track.user THEN "none"
  ELSE IF track.raw THEN "raw"
  ELSE IF track.counted THEN "clock-only"
  ELSE "none"

\* The span of the L1 that the verdict is about.
Window == {s \in 1..l1.ingested : l1.ingested - s < SettleSlots}

\* What is said of a zone rests on what was read of it, however the pieces came in.
\* It is said to settle only when it did, near the frontier or above it.  It is said
\* to have stalled only when no inscription of it is in a slot of the window that was
\* read; and nowhere in the window, if what was read since the start has no hole.  It
\* is said to hold clock ticks only, or raw data, when nothing else of it was read.
\* The code: settling_verdict, note_read_slot, activity_state and their callers.
SaidOfZone ==
  /\ Verdict = "settling" => \E s \in Inscribed(1..Tip) : l1.ingested - s < SettleSlots
  /\ Verdict = "stalled" =>
       /\ Inscribed(Window \cap readSlots) = {}
       /\ l1.first..l1.ingested \subseteq readSlots => Inscribed(Window) = {}
  /\ Activity = "clock-only" =>
       {inscribed[s] : s \in readSlots} \subseteq {"nothing", "clock"}
  /\ Activity = "raw" => "user" \notin {inscribed[s] : s \in readSlots}
================================================================================
