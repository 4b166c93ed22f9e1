------------------------------- MODULE SeqReader -------------------------------
(***************************************************************************)
(* sequencer_loop: the task that reads a zone from its own sequencer, over *)
(* JSON-RPC.  A pass polls the tip, reads the ids it has not read in       *)
(* chunks, persisting each one, and then re-reads a chunk above the        *)
(* finalized id, whose blocks may have become Finalized meanwhile.         *)
(*                                                                         *)
(* The sequencer is external: it appends blocks, finalizes them, may prune *)
(* what is finalized, and may reset, starting a chain anew.  A block is    *)
(* the pair of its chain's generation and its id: blocks of two chains     *)
(* hold different transactions.                                            *)
(*                                                                         *)
(* Fetching, ingesting and cloning a chunk are one step: the answer does   *)
(* not change in flight, and the only other writer of the track (the L1    *)
(* tasks) raises it, which commutes with ingesting.                        *)
(***************************************************************************)
EXTENDS Naturals

CONSTANTS Modes,         \* the configurations: [withL1, full : BOOLEAN]
          Genesis,       \* the id of the first block of a chain, 0 or 1
          Chunk,         \* CHUNK
          Window,        \* window
          FetchMayFail,  \* a request for blocks may fail
          CommitMayFail, \* a commit may fail
          MayPrune,      \* the sequencer drops finalized blocks
          OtherIds,      \* ids another producer inscribes in the channel
          MaxBlock,      \* bound: block ids
          MaxResets,     \* bound: resets of the sequencer
          MaxRestarts    \* bound: restarts and new configurations

ASSUME SeqAssumption ==
  /\ Modes \subseteq [withL1 : BOOLEAN, full : BOOLEAN]
  /\ Genesis \in {0, 1}
  /\ Chunk \in Nat \ {0}
  /\ Window \in Nat
  /\ FetchMayFail \in BOOLEAN /\ CommitMayFail \in BOOLEAN /\ MayPrune \in BOOLEAN
  /\ OtherIds \subseteq 0..MaxBlock
  /\ MaxBlock \in Nat \ {0} /\ MaxResets \in Nat /\ MaxRestarts \in Nat

VARIABLES gen, tip, settled, low,  \* the sequencer: which chain, its last id, its last
                                   \* Finalized id, the first id it still serves
          mode,                    \* the configuration
          pc, polled, next, have, backfilled, restored,  \* the reader
          track,                   \* the shared SeqTrack: latest and finalized ids
          job,                     \* the commit the reader awaits
          left,                    \* the commit of a superseded reader, if any
          stored, summary,         \* durable: the blocks, and the SeqTrack
          restarts

sequencer == <<gen, tip, settled, low>>
reader    == <<pc, polled, next, have, backfilled, restored>>
durable   == <<stored, summary>>
vars      == <<sequencer, mode, reader, track, job, left, durable, restarts>>

--------------------------------------------------------------------------------
Maximum(a, b) == IF a >= b THEN a ELSE b
Minimum(a, b) == IF a <= b THEN a ELSE b
Monus(a, b)   == IF a >= b THEN a - b ELSE 0

Ids    == 0..MaxBlock
Gens   == 0..MaxResets
Blocks == Gens \X Ids
Track  == [latest : Ids, finalized : Ids]

NewTrack == [latest |-> 0, finalized |-> 0]
NoJob    == [open |-> FALSE, recs |-> {}, sum |-> NewTrack]

Job == [open : BOOLEAN, recs : SUBSET Blocks, sum : Track]

TypeOK ==
  /\ gen \in Gens /\ tip \in Ids /\ settled \in Ids /\ low \in 0..MaxBlock + 1
  /\ mode \in Modes
  /\ pc \in {"poll", "walk", "reread"}
  /\ polled \in Ids /\ next \in 0..MaxBlock + 1 /\ have \in Ids
  /\ backfilled \in BOOLEAN /\ restored \in Ids
  /\ track \in Track
  /\ job \in Job /\ left \in Job
  /\ stored \subseteq Blocks /\ summary \in Track
  /\ restarts \in 0..MaxRestarts

--------------------------------------------------------------------------------
(* The sequencer *)

Served == {b \in Ids : Genesis <= b /\ low <= b /\ b <= tip}

Produce ==
  /\ tip < MaxBlock
  /\ tip' = tip + 1
  /\ UNCHANGED <<gen, settled, low>>

Settle ==
  /\ settled < tip
  /\ settled' = settled + 1
  /\ UNCHANGED <<gen, tip, low>>

Prune ==
  /\ MayPrune
  /\ low <= settled
  /\ low' = low + 1
  /\ UNCHANGED <<gen, tip, settled>>

Reset ==
  /\ gen < MaxResets
  /\ gen' = gen + 1
  /\ tip' = 0 /\ settled' = 0 /\ low' = 0

Sequencer ==
  /\ Produce \/ Settle \/ Prune \/ Reset
  /\ UNCHANGED <<mode, reader, track, job, left, durable, restarts>>

\* The L1 tasks read the same channel: what they see may carry the ids of
\* another producer.  Their own commits touch nothing that is followed here:
\* with an L1 the reader does not trust the stored summary.
L1Raises(n, final) ==
  /\ mode.withL1
  /\ track' = [latest    |-> Maximum(track.latest, n),
               finalized |-> IF final THEN Maximum(track.finalized, n) ELSE track.finalized]
  /\ UNCHANGED <<sequencer, mode, reader, job, left, durable, restarts>>

--------------------------------------------------------------------------------
(* The reader *)

Floor(t) == IF mode.full THEN 0 ELSE Monus(t, Window)

\* Mutant of StartReader: the restored latest id is trusted with an L1 too.
StartReaderTrusting(t) ==
  /\ pc' = "poll" /\ polled' = 0 /\ next' = 0 /\ have' = 0 /\ backfilled' = FALSE
  /\ restored' = t.latest

\* A reader starts: without an L1 it trusts the restored latest id.
StartReader(t) ==
  /\ pc' = "poll" /\ polled' = 0 /\ next' = 0 /\ have' = 0 /\ backfilled' = FALSE
  /\ restored' = IF mode.withL1 THEN 0 ELSE t.latest

Init ==
  /\ gen = 0 /\ tip = 0 /\ settled = 0 /\ low = 0
  /\ mode \in Modes
  /\ pc = "poll" /\ polled = 0 /\ next = 0 /\ have = 0 /\ backfilled = FALSE
  /\ restored = 0
  /\ track = NewTrack
  /\ job = NoJob /\ left = NoJob
  /\ stored = {} /\ summary = NewTrack
  /\ restarts = 0

\* Mutant of SeqReaderCursor: a cursor above the tip waits for it to climb back.
SeqReaderCursorWaits(t) == have

\* Mutant of SeqReaderCursor: the cursor is read from the shared latest id.
SeqReaderCursorShared(t) == IF track.latest <= t THEN track.latest ELSE Floor(t)

SeqReaderCursor(t) == IF have <= t THEN have ELSE Floor(t)

FirstId(t) == IF restored > 0 /\ restored <= t THEN restored + 1 ELSE Floor(t)

\* The tip is polled; the first pass starts from the floor or from what the
\* store has, later ones after the reader's own cursor.
Poll ==
  /\ pc = "poll" /\ ~job.open
  /\ pc' = "walk"
  /\ polled' = tip
  /\ IF backfilled
     THEN have' = SeqReaderCursor(tip) /\ next' = have' + 1
     ELSE have' = have /\ next' = FirstId(tip)
  /\ UNCHANGED <<sequencer, mode, backfilled, restored, track, job, left, durable, restarts>>

\* seq_fetch_chunk: the range in one call, or id by id, skipping what is not
\* served; every request may fail.
Fetched(from, to) ==
  LET served == Served \cap from..to
  IN  IF FetchMayFail THEN SUBSET served ELSE {served}

Highest(n, S) == IF S = {} THEN n = 0 ELSE n \in S /\ \A x \in S : x <= n

\* ingest_seq_chunk: every block raises latest, a Finalized one finalized too;
\* the track is then cloned and handed to the store with the blocks.  An empty
\* chunk touches nothing.
IngestChunk(ids) ==
  IF ids = {}
  THEN UNCHANGED <<track, job>>
  ELSE \E last, final \in Ids :
         /\ Highest(last, ids) /\ Highest(final, {b \in ids : b <= settled})
         /\ track' = [latest    |-> Maximum(track.latest, last),
                      finalized |-> Maximum(track.finalized, final)]
         /\ job' = [open |-> TRUE, recs |-> {gen} \X ids, sum |-> track']

ChunkEnd == Minimum(next + Chunk - 1, polled)

\* Mutant of NextStart: the last, shorter chunk counts as a whole one.
NextStartFull == next + Chunk

NextStart == ChunkEnd + 1

WalkChunk ==
  /\ pc = "walk" /\ ~job.open
  /\ next <= polled
  /\ \E ids \in Fetched(next, ChunkEnd) : IngestChunk(ids)
  /\ next' = NextStart
  /\ UNCHANGED <<sequencer, mode, pc, polled, have, backfilled, restored, left, durable, restarts>>

WalkDone ==
  /\ pc = "walk" /\ ~job.open
  /\ next > polled
  /\ pc' = "reread"
  /\ have' = Maximum(have, Monus(next, 1))
  /\ backfilled' = TRUE
  /\ UNCHANGED <<sequencer, mode, polled, next, restored, track, job, left, durable, restarts>>

\* Mutant of RereadFrom: only blocks above the latest one are read again.
RereadFromLatest == Minimum(track.latest, polled)

RereadFrom == Minimum(track.finalized, polled)

Reread ==
  /\ pc = "reread" /\ ~job.open
  /\ pc' = "poll"
  /\ IF RereadFrom + 1 <= polled
     THEN \E ids \in Fetched(RereadFrom + 1, Minimum(RereadFrom + Chunk, polled)) :
            IngestChunk(ids)
     ELSE UNCHANGED <<track, job>>
  /\ UNCHANGED <<sequencer, mode, polled, next, have, backfilled, restored, left, durable, restarts>>

\* Db::commit: rows that are new, the summary overwritten, in one transaction.
\* A commit that fails is logged, and the reader goes on.
Commit ==
  /\ job.open
  /\ \E done \in (IF CommitMayFail THEN BOOLEAN ELSE {TRUE}) :
       IF done THEN stored' = stored \cup job.recs /\ summary' = job.sum
               ELSE UNCHANGED durable
  /\ job' = NoJob
  /\ UNCHANGED <<sequencer, mode, reader, track, left, restarts>>

LeftCommit ==
  /\ left.open
  /\ stored' = stored \cup left.recs
  /\ summary' = left.sum
  /\ left' = NoJob
  /\ UNCHANGED <<sequencer, mode, reader, track, job, restarts>>

\* A new configuration that keeps this source: the state is restored from the
\* store and a new reader started, while the old one's commit may still be on
\* its way.
Reconfigure ==
  /\ restarts < MaxRestarts
  /\ restarts' = restarts + 1
  /\ track' = summary
  /\ StartReader(summary)
  /\ job' = NoJob
  /\ left' = IF job.open THEN job ELSE left
  /\ UNCHANGED <<sequencer, mode, durable>>

Crash ==
  /\ restarts < MaxRestarts
  /\ restarts' = restarts + 1
  /\ track' = summary
  /\ StartReader(summary)
  /\ job' = NoJob /\ left' = NoJob
  /\ UNCHANGED <<sequencer, mode, durable>>

External == Sequencer \/ \E n \in OtherIds, final \in BOOLEAN : L1Raises(n, final)
Reading  == Poll \/ WalkChunk \/ WalkDone \/ Reread \/ Commit
Next     == External \/ Reading \/ LeftCommit \/ Reconfigure \/ Crash

Spec == Init /\ [][Next]_vars

\* The reader runs: a poll sleeps 5 s, a request or a commit ends.
FairSpec == Spec /\ WF_vars(Reading) /\ WF_vars(LeftCommit)

--------------------------------------------------------------------------------
(* Properties *)

\* Every block below n that is still served is below the floor of a pass that
\* polls t, or among recs.
Covered(n, t, recs) ==
  \A b \in Ids : (b < n /\ Genesis <= b /\ low <= b) => (b < Floor(t) \/ <<gen, b>> \in recs)

\* "resume forward from what we already have": a reader without an L1 resumes
\* after the stored latest id.  On a chain that was never reset, the store holds
\* every block up to it that is not older than the window, whatever restarts
\* cut short and whichever commit of an old reader comes last.
NoHole ==
  (~mode.withL1 /\ gen = 0 /\ summary.latest > 0) => Covered(summary.latest + 1, tip, stored)

\* A pass that ends has stored the whole range it claims: from its floor to
\* the tip it polled, on a chain that was never reset.
PassComplete == (pc = "reread" /\ gen = 0) => Covered(polled + 1, polled, stored)

\* A cursor above the tip comes down: the reader is never stuck waiting for a
\* chain that was reset to climb back.
Unstuck == (have > tip) ~> (have <= tip)

\* A block above the cursor of a reader between two passes is stored, unless
\* the chain is reset first or the block falls out of the window of a restart,
\* whatever ids another producer writes into the shared track.
Follows ==
  \A g \in Gens, b \in Ids :
    (pc = "poll" /\ backfilled /\ gen = g /\ b <= tip /\ have < b) ~>
      (<<g, b>> \in stored \/ gen # g \/ b < Floor(tip) \/ restored > 0)

\* What the sequencer calls Finalized becomes finalized here, though the block
\* was Pending when it was first read.
FinalFollows ==
  \A b \in Ids : (b <= settled) ~> (track.finalized >= b \/ settled < b)

--------------------------------------------------------------------------------
(* The inductive invariant *)

InFlight(j) == IF j.open THEN stored \cup j.recs ELSE stored

\* On a chain that was never reset the cursors never pass the tip, and what lies
\* below a cursor is stored or in the commit the reader awaits.
CursorsCovered ==
  /\ polled <= tip /\ have <= polled /\ next <= polled + 1
  /\ mode.withL1 => restored = 0
  /\ backfilled => Covered(have + 1, polled, stored)
  /\ pc = "reread" => backfilled /\ polled <= have
  /\ pc = "walk" => Covered(next, polled, InFlight(job))

\* Without an L1, so is what lies below any copy of the latest id.
LatestCovered ==
  /\ summary.latest > 0 => Covered(summary.latest + 1, tip, stored)
  /\ restored > 0 => Covered(restored + 1, tip, stored)
  /\ track.latest > 0 => Covered(track.latest + 1, tip, InFlight(job))
  /\ job.open /\ job.sum.latest > 0 => Covered(job.sum.latest + 1, tip, InFlight(job))
  /\ left.open /\ left.sum.latest > 0 => Covered(left.sum.latest + 1, tip, InFlight(left))

HoleInv == gen = 0 => (CursorsCovered /\ (~mode.withL1 => LatestCovered))
================================================================================
