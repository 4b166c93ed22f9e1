-------------------------------- MODULE Finality -------------------------------
(***************************************************************************)
(* How zonescan decides that a zone block is "on L1" (safe) or "final".    *)
(*                                                                         *)
(* One configured channel, L1 mode.  Four tasks share the channel's        *)
(* SeqTrack under the state lock and persist it with the rows they read:   *)
(*   stream      handle_event, two lock sections per event                 *)
(*   seed        discover_seed or backfill_seed, one pass over history     *)
(*   rpc         sequencer_loop, the zone's own account of its blocks      *)
(*   reconciler  the standing sweep of cmd_serve, driven by lib            *)
(* A task clones the summary under the lock and commits it afterwards, off *)
(* the lock, so commits of two tasks can reach the store in either order.  *)
(* A crash loses everything but the store.                                 *)
(*                                                                         *)
(* Abstractions: every block holds one transaction whose stored body does  *)
(* not change between sources; a chunk of the range walk is one slot and a *)
(* chunk of the RPC reader is one block; undecodable inscriptions, which   *)
(* touch no threshold, are blocks without an inscription.                  *)
(***************************************************************************)
EXTENDS L1Chain

CONSTANTS Seeding,       \* what may seed a run of the process: "backfill" with
                         \* config.full_history, else "discover"
          HasRpc,        \* the channel has an rpc_url
          BedrockFinal,  \* what the sequencer may say of a block: is it Finalized?
          MaxCrashes     \* bound: restarts of the process

ASSUME ConfigAssumption ==
  /\ Seeding \subseteq {"discover", "backfill"}
  /\ HasRpc \in BOOLEAN
  /\ BedrockFinal \subseteq BOOLEAN
  /\ MaxCrashes \in Nat

VARIABLES libSlot,       \* s.l1.lib_slot, 0 for None
          view,          \* s.l1.ingested_slot > 0
          streamPos,     \* slot of the last event taken off the stream
          seedPos,       \* next slot of the range walk, or Unstarted, or Finished
          track,         \* the channel's SeqTrack in memory
          job,           \* what each ingesting task is doing
          sweep,         \* what the reconciler is doing
          rows,          \* durable: the slot stored with each block's tx, Absent if none
          summary,       \* durable: the SeqTrack last committed
          crashes

memory  == <<libSlot, view, streamPos, seedPos, track, job, sweep>>
durable == <<rows, summary>>
vars    == <<l1vars, memory, durable, crashes>>

--------------------------------------------------------------------------------
Maximum(a, b) == IF a >= b THEN a ELSE b
Minimum(a, b) == IF a <= b THEN a ELSE b

Ids       == 0..MaxBlock
SlotIds   == 0..Maximum(MaxSlot, MaxBlock)  \* the RPC path stores a block id as slot
Absent    == 1 + Maximum(MaxSlot, MaxBlock)
Unstarted == MaxSlot + 1
Finished  == MaxSlot + 2

SeqTrack  == [latest : Ids, finalized : Ids, safe : Ids, l1Safe : Ids, l1Final : Ids]
NewTrack  == [latest |-> 0, finalized |-> 0, safe |-> 0, l1Safe |-> 0, l1Final |-> 0]

Tasks == {"stream", "seed", "rpc", "reconciler"}

\* The slot recorded with each block's transaction: the stored rows, or a batch
\* of them on its way to the store.
Rows   == [Blocks -> SlotIds \cup {Absent}]
NoRows == [b \in Blocks |-> Absent]

\* "head": between the two locks of handle_event; "read": rows gathered, summary
\* not yet cloned; "cloned": handed to spawn_blocking.
Job     == [pc : {"idle", "head", "read", "cloned"}, recs : Rows, sum : SeqTrack]
IdleJob == [pc |-> "idle", recs |-> NoRows, sum |-> NewTrack]

Sweep     == [pc : {"idle", "query", "apply", "failed"}, lib : 0..MaxSlot, found : Ids, last : 0..MaxSlot]
IdleSweep == [pc |-> "idle", lib |-> 0, found |-> 0, last |-> 0]

TypeOK ==
  /\ L1TypeOK
  /\ libSlot \in 0..MaxSlot
  /\ view \in BOOLEAN
  /\ streamPos \in 0..MaxSlot
  /\ seedPos \in 0..Finished
  /\ track \in SeqTrack
  /\ job \in [Tasks -> Job]
  /\ sweep \in Sweep
  /\ rows \in Rows
  /\ summary \in SeqTrack
  /\ crashes \in 0..MaxCrashes

--------------------------------------------------------------------------------
(* Operations on a SeqTrack *)

RaiseFinality(t, b, final) ==
  [t EXCEPT !.safe = Maximum(@, b),
            !.finalized = IF final THEN Maximum(@, b) ELSE @]

\* Mutant of NoteL1Settled: every block seen counts as past lib.
NoteL1SettledAnySlot(t, b, slot, libNow) ==
  [t EXCEPT !.l1Safe = Maximum(@, b), !.l1Final = Maximum(@, b)]

NoteL1Settled(t, b, slot, libNow) ==
  [t EXCEPT !.l1Safe = Maximum(@, b),
            !.l1Final = IF slot <= libNow THEN Maximum(@, b) ELSE @]

Observe(t, b) == [t EXCEPT !.latest = Maximum(@, b)]

\* A zone block read off the L1; final is the caller's own verdict.
SeenOnL1(t, b, final, slot, libNow) ==
  Observe(NoteL1Settled(RaiseFinality(t, b, final), b, slot, libNow), b)

\* ingest: the thresholds a block's own bedrock_status raises.
Ingest(t, b, bedrockFinal) ==
  IF bedrockFinal
  THEN [t EXCEPT !.safe = Maximum(@, b), !.finalized = Maximum(@, b)]
  ELSE t

--------------------------------------------------------------------------------
(* The tasks *)

Init ==
  /\ L1Init
  /\ libSlot = 0 /\ view = FALSE
  /\ streamPos = 0 /\ seedPos = Unstarted
  /\ track = NewTrack
  /\ job = [t \in Tasks |-> IdleJob]
  /\ sweep = IdleSweep
  /\ rows = NoRows /\ summary = NewTrack
  /\ crashes = 0

Idle(t) == job[t].pc = "idle"

\* One block read at a slot; the rows of a job wait for the summary to be cloned.
Row(b, slot)   == [NoRows EXCEPT ![b] = slot]
Gathered(recs) == [pc |-> "read", recs |-> recs, sum |-> NewTrack]

\* Mutant of RefreshInfo: the tip is taken for the last irreversible slot.
RefreshInfoTip ==
  /\ libSlot' = Len(chain)
  /\ UNCHANGED <<l1vars, view, streamPos, seedPos, track, job, sweep, durable, crashes>>

RefreshInfo ==
  /\ libSlot' = lib
  /\ UNCHANGED <<l1vars, view, streamPos, seedPos, track, job, sweep, durable, crashes>>

\* handle_event, first lock section: the event's own lib overwrites lib_slot.
EventHead ==
  /\ Idle("stream")
  /\ streamPos < Len(chain)
  /\ streamPos' = streamPos + 1
  /\ libSlot' = chain[streamPos + 1].lib
  /\ job' = [job EXCEPT !["stream"].pc = "head"]
  /\ UNCHANGED <<l1vars, view, seedPos, track, sweep, durable, crashes>>

\* handle_event, second lock section: lib_slot is read again.
EventBlock ==
  LET b == chain[streamPos].block IN
  /\ job["stream"].pc = "head"
  /\ view' = TRUE
  /\ IF b = 0
     THEN track' = track /\ job' = [job EXCEPT !["stream"] = IdleJob]
     ELSE /\ track' = SeenOnL1(track, b, streamPos <= libSlot, streamPos, libSlot)
          /\ job' = [job EXCEPT !["stream"] = Gathered(Row(b, streamPos))]
  /\ UNCHANGED <<l1vars, libSlot, streamPos, seedPos, sweep, durable, crashes>>

\* The event came without its block and fetching it failed.
EventWithoutBlock ==
  /\ job["stream"].pc = "head"
  /\ job' = [job EXCEPT !["stream"] = IdleJob]
  /\ UNCHANGED <<l1vars, libSlot, view, streamPos, seedPos, track, sweep, durable, crashes>>

\* The connection drops: events emitted before the reconnect are never seen.
StreamReconnect ==
  /\ Idle("stream")
  /\ streamPos < Len(chain)
  /\ streamPos' = Len(chain)
  /\ libSlot' = lib   \* stream_loop refreshes the info before it retries
  /\ UNCHANGED <<l1vars, view, seedPos, track, job, sweep, durable, crashes>>

\* backfill_seed asks the node for lib itself and does not store it.  The walk
\* covers every slot from lib down; a slot that the store's cursors make it skip
\* is here one whose fetch failed (which slots those are: module Backfill).
BackfillStart ==
  /\ "backfill" \in Seeding
  /\ seedPos = Unstarted
  /\ lib > 0
  /\ seedPos' = lib
  /\ UNCHANGED <<l1vars, libSlot, view, streamPos, track, job, sweep, durable, crashes>>

\* One chunk of backfill_walk; a failed fetch is folded as an empty chunk.
BackfillChunk(fetched) ==
  LET b == chain[seedPos].block
      settled == SeenOnL1(track, b, TRUE, seedPos, libSlot)
  IN
  /\ Idle("seed")
  /\ seedPos \in 1..MaxSlot
  /\ seedPos' = seedPos - 1
  /\ view' = (view \/ fetched)
  /\ IF fetched /\ b # 0
     THEN /\ track' = settled
          /\ job' = [job EXCEPT !["seed"] =
                       [pc |-> "cloned", recs |-> Row(b, seedPos), sum |-> settled]]
     ELSE UNCHANGED <<track, job>>
  /\ UNCHANGED <<l1vars, libSlot, streamPos, sweep, durable, crashes>>

\* The walk is over: backfill_seed persists the summary once more.
BackfillTail ==
  /\ Idle("seed")
  /\ seedPos = 0
  /\ seedPos' = Finished
  /\ job' = [job EXCEPT !["seed"] = [pc |-> "cloned", recs |-> NoRows, sum |-> track]]
  /\ UNCHANGED <<l1vars, libSlot, view, streamPos, track, sweep, durable, crashes>>

\* The batch of a scan over S: a block inscribed twice keeps its first slot.
FirstSlots(S, recs) ==
  \A b \in Blocks :
    LET at == {s \in S : chain[s].block = b} IN
    IF at = {} THEN recs[b] = Absent
    ELSE recs[b] \in at /\ \A s \in at : recs[b] <= s

\* discover_seed: the whole window is scanned first, then applied under one
\* lock.  S is the set of slots whose chunk was fetched; only the highest id,
\* with the highest slot, is noted as settled, and view is left alone.
Discover(S) ==
  LET found == {s \in S : chain[s].block # 0}
      Top(s)  == \A u \in found : chain[s].block >= chain[u].block
      Last(s) == \A u \in found : s >= u
  IN
  /\ "discover" \in Seeding
  /\ seedPos = Unstarted
  /\ lib > 0 /\ S \subseteq 1..lib
  /\ seedPos' = Finished
  /\ \/ found = {} /\ UNCHANGED <<track, job>>
     \/ /\ \E top, last \in found :
             /\ Top(top) /\ Last(last)
             /\ track' = SeenOnL1(track, chain[top].block, TRUE, last, libSlot)
        /\ \E recs \in Rows :
             FirstSlots(S, recs) /\ job' = [job EXCEPT !["seed"] = Gathered(recs)]
  /\ UNCHANGED <<l1vars, libSlot, view, streamPos, sweep, durable, crashes>>

\* ingest_seq_chunk: the block's status is the sequencer's word, and the block
\* id stands in for the slot.
RpcChunk(b, bedrockFinal) ==
  /\ HasRpc
  /\ Idle("rpc")
  /\ track' = Observe(RaiseFinality(Ingest(track, b, bedrockFinal), b, FALSE), b)
  /\ job' = [job EXCEPT !["rpc"] = Gathered(Row(b, b))]
  /\ UNCHANGED <<l1vars, libSlot, view, streamPos, seedPos, sweep, durable, crashes>>

\* persist_blocks / persist_seq_blocks: the summary is cloned under a lock of its own.
CloneSummary(t) ==
  /\ job[t].pc = "read"
  /\ job' = [job EXCEPT ![t].pc = "cloned", ![t].sum = track]
  /\ UNCHANGED <<l1vars, libSlot, view, streamPos, seedPos, track, sweep, durable, crashes>>

\* Db::commit: one transaction.  A tx already stored keeps its slot, the stored
\* summary is overwritten.
Commit(t) ==
  /\ job[t].pc = "cloned"
  /\ rows' = [b \in Blocks |-> IF rows[b] = Absent THEN job[t].recs[b] ELSE rows[b]]
  /\ summary' = job[t].sum
  /\ job' = [job EXCEPT ![t] = IdleJob]
  /\ UNCHANGED <<l1vars, libSlot, view, streamPos, seedPos, track, sweep, crashes>>

CommitFails(t) ==
  /\ job[t].pc = "cloned"
  /\ job' = [job EXCEPT ![t] = IdleJob]
  /\ UNCHANGED <<l1vars, libSlot, view, streamPos, seedPos, track, sweep, durable, crashes>>

\* The reconciler wakes: it sweeps only when lib differs from its last sweep.
SweepStart ==
  /\ sweep.pc = "idle" /\ Idle("reconciler")
  /\ libSlot # 0 /\ libSlot # sweep.last
  /\ sweep' = [sweep EXCEPT !.pc = "query", !.lib = libSlot, !.last = libSlot]
  /\ UNCHANGED <<l1vars, libSlot, view, streamPos, seedPos, track, job, durable, crashes>>

\* Mutant of FinalizedBlockFor: lib itself is left out.
FinalizedBlockBelow(f, atLib) ==
  LET below == {b \in Blocks : rows[b] < atLib} IN
  IF below = {} THEN f = 0 ELSE f \in below /\ \A b \in below : f >= b

\* Db::finalized_block_for: f is the highest stored block whose slot is at or
\* below lib, 0 if there is none.
FinalizedBlockFor(f, atLib) ==
  LET below == {b \in Blocks : rows[b] <= atLib} IN
  IF below = {} THEN f = 0 ELSE f \in below /\ \A b \in below : f >= b

SweepQuery ==
  /\ sweep.pc = "query"
  /\ \E f \in Ids : /\ FinalizedBlockFor(f, sweep.lib)
                    /\ sweep' = [sweep EXCEPT !.pc = "apply", !.found = f]
  /\ UNCHANGED <<l1vars, libSlot, view, streamPos, seedPos, track, job, durable, crashes>>

\* The store could not answer; this lib is not swept again.
SweepQueryFails ==
  /\ sweep.pc = "query"
  /\ sweep' = [sweep EXCEPT !.pc = "failed"]
  /\ UNCHANGED <<l1vars, libSlot, view, streamPos, seedPos, track, job, durable, crashes>>

\* Mutant of SweepTarget: the sweep's result replaces the finalized id.
SweepTargetFound == sweep.found

\* A finalized id above the latest block counts as unknown; otherwise it only rises.
SweepTarget ==
  Maximum(IF track.finalized > track.latest THEN 0 ELSE track.finalized, sweep.found)

SweepApply ==
  /\ sweep.pc \in {"apply", "failed"}
  /\ sweep' = [IdleSweep EXCEPT !.last = sweep.last]
  /\ track' = [track EXCEPT !.finalized = SweepTarget]
  /\ job' = IF SweepTarget = track.finalized THEN job
            ELSE [job EXCEPT !["reconciler"] =
                    [pc |-> "cloned", recs |-> NoRows, sum |-> track']]
  /\ UNCHANGED <<l1vars, libSlot, view, streamPos, seedPos, durable, crashes>>

\* The process dies and restarts: apply_config restores the stored summary.
Crash ==
  /\ crashes < MaxCrashes
  /\ crashes' = crashes + 1
  /\ libSlot' = 0 /\ view' = FALSE
  /\ streamPos' = Len(chain) /\ seedPos' = Unstarted
  /\ track' = summary
  /\ job' = [t \in Tasks |-> IdleJob]
  /\ sweep' = IdleSweep
  /\ UNCHANGED <<l1vars, durable>>

L1Step ==
  /\ AdvanceLib \/ \E b \in Ids : Mint(b)
  /\ UNCHANGED <<memory, durable, crashes>>

Stream   == EventHead \/ EventBlock \/ EventWithoutBlock \/ StreamReconnect
Backfill == BackfillStart \/ BackfillTail \/ \E fetched \in BOOLEAN : BackfillChunk(fetched)
Seed     == Backfill \/ \E S \in SUBSET (1..lib) : Discover(S)
Rpc      == \E b \in Blocks, bedrockFinal \in BedrockFinal : RpcChunk(b, bedrockFinal)
Persist  == \E t \in Tasks : CloneSummary(t) \/ Commit(t) \/ CommitFails(t)
Reconcile == SweepStart \/ SweepQuery \/ SweepQueryFails \/ SweepApply

Next == L1Step \/ RefreshInfo \/ Stream \/ Seed \/ Rpc \/ Persist \/ Reconcile \/ Crash

Spec == Init /\ [][Next]_vars

\* Every task keeps running: the polls sleep a bounded time, the stream is read
\* as it delivers, and a job handed to spawn_blocking ends.
Fairness ==
  /\ WF_vars(RefreshInfo) /\ WF_vars(EventHead) /\ WF_vars(EventBlock)
  /\ WF_vars(Reconcile)
  /\ \A t \in Tasks : WF_vars(CloneSummary(t)) /\ WF_vars(Commit(t))

FairSpec == Spec /\ Fairness

--------------------------------------------------------------------------------
(* The inductive invariant *)

\* Where the cursors point: a task reads the chain at them.
Positions ==
  /\ lib <= Len(chain)
  /\ libSlot <= lib
  /\ \A s \in 1..Len(chain) : chain[s].lib <= lib
  /\ streamPos <= Len(chain)
  /\ job["stream"].pc = "head" => streamPos >= 1
  /\ seedPos < Unstarted => seedPos <= lib

\* Every variable keeps its type, and no cursor runs past what it reads: lib
\* past the chain, the explorer's lib past the node's, the walk past lib.
TypeInv == TypeOK /\ Positions

Evidenced(t) == OnL1By(t.l1Final, lib) /\ OnL1By(t.l1Safe, Len(chain))

\* The L1 marks of the track are backed by the chain wherever a copy of the
\* track lives: in memory, in the store, or in a job on its way to the store,
\* from which a restart may bring it back.
EvidenceInv ==
  /\ Evidenced(track)
  /\ Evidenced(summary)
  /\ \A t \in Tasks : Evidenced(job[t].sum)

--------------------------------------------------------------------------------
(* What build_snapshot reports *)

\* Mutant of ReportedFinal: the zone's own account, whatever the L1 shows.
ReportedFinalUnclamped == track.finalized

ReportedFinal == IF view THEN Minimum(track.finalized, track.l1Final) ELSE track.finalized

ReportedSafe ==
  Maximum(IF view THEN Minimum(track.safe, track.l1Safe) ELSE track.safe, ReportedFinal)

--------------------------------------------------------------------------------
(* Properties *)

\* Once an L1 block has been read, a block reported final has its inscription,
\* or that of a later block, at or below the last irreversible slot: whatever
\* the sequencer claims, whichever slot the store kept, across restarts and
\* with a lib that is read late or goes backwards (build_snapshot's clamp).
FinalEvidenced == view => OnL1By(ReportedFinal, lib)

\* Likewise a block reported "on L1" is inscribed on the L1, or a later one is.
SafeEvidenced == view => OnL1By(ReportedSafe, Len(chain))

\* What is reported of a block, settled or on L1, the L1 has shown.
ReportEvidenced == FinalEvidenced /\ SafeEvidenced

\* No task lowers a threshold of the running process, except the reconciler
\* when it finds the finalized id above the latest block.
NeverLowered ==
  [][ crashes' = crashes =>
        /\ track'.safe >= track.safe
        /\ track'.latest >= track.latest
        /\ track'.l1Safe >= track.l1Safe
        /\ track'.l1Final >= track.l1Final
        /\ track.finalized <= track.latest => track'.finalized >= track.finalized ]_track

\* A stored block whose recorded slot falls at or below lib is promoted to
\* finalized by the sweep that this lib triggers, unless its query fails.
Promoted ==
  \A b \in Blocks : (rows[b] <= lib /\ sweep.last # lib) ~>
                    (track.finalized >= b \/ sweep.pc = "failed")

--------------------------------------------------------------------------------
(* What the comments say, and the code does not do *)

\* A block read off the L1 whose inscription falls at or below lib ends up
\* reported final (cmd_serve: without the sweep later blocks stay stuck
\* reading "on L1, finalizing").
CatchesUp ==
  \A b \in Blocks :
    (track.l1Safe >= b /\ OnL1By(b, lib)) ~> (ReportedFinal >= b)
================================================================================
