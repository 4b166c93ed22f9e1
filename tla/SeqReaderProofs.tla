---------------------------- MODULE SeqReaderProofs ----------------------------
(* Theorems about SeqReader, for every value of its constants. *)
EXTENDS SeqReader, TLAPS

\* The assumptions on the constants, as the proofs use them.
LEMMA Constants ==
  /\ MaxBlock \in Nat /\ MaxBlock >= 1 /\ MaxResets \in Nat /\ MaxRestarts \in Nat
  /\ Chunk \in Nat /\ Chunk >= 1 /\ Window \in Nat /\ Genesis \in Nat
  /\ OtherIds \subseteq Ids
  /\ \A m \in Modes : m.withL1 \in BOOLEAN /\ m.full \in BOOLEAN
  BY SeqAssumption DEF Ids

\* A fresh track and no job have their types.
LEMMA NewTypes == NewTrack \in Track /\ NoJob \in Job
  BY Constants DEF NewTrack, Track, NoJob, Job, Ids

\* The floor of a pass is an id, and not above the tip it was computed from.
LEMMA FloorType == \A t \in Ids : Floor(t) \in Ids /\ Floor(t) <= t
  BY Constants DEF Floor, Monus, Ids

\* A chunk that is fetched is made of ids that the sequencer serves.
LEMMA FetchedServed ==
  ASSUME NEW from \in Nat, NEW to \in Nat, NEW ids \in Fetched(from, to)
  PROVE  ids \subseteq Ids /\ ids \subseteq from..to
  BY DEF Fetched, Served

\* Ingesting a chunk keeps the types of the track and of the job.
LEMMA IngestType ==
  ASSUME TypeOK, NEW ids \in SUBSET Ids, IngestChunk(ids)
  PROVE  track' \in Track /\ job' \in Job
<1>1. CASE ids = {}
  BY <1>1 DEF IngestChunk, TypeOK
<1>2. CASE ids # {}
  <2>1. PICK last \in Ids, final \in Ids :
          /\ track' = [latest    |-> Maximum(track.latest, last),
                       finalized |-> Maximum(track.finalized, final)]
          /\ job' = [open |-> TRUE, recs |-> {gen} \X ids, sum |-> track']
    BY <1>2 DEF IngestChunk
  <2>2. track.latest \in Ids /\ track.finalized \in Ids /\ gen \in Gens
    BY DEF TypeOK, Track
  <2>3. track' \in Track
    BY <2>1, <2>2 DEF Track, Maximum
  <2>4. {gen} \X ids \in SUBSET Blocks
    BY <2>2 DEF Blocks
  <2>5. QED BY <2>1, <2>3, <2>4 DEF Job
<1>3. QED BY <1>1, <1>2

\* A step of the sequencer or of the L1 tasks keeps every type.
LEMMA ExternalType == TypeOK /\ External => TypeOK'
<1> SUFFICES ASSUME TypeOK, External PROVE TypeOK'
  OBVIOUS
<1> USE Constants DEF TypeOK, reader, durable, sequencer
<1>1. CASE Sequencer
  BY <1>1 DEF Sequencer, Produce, Settle, Prune, Reset, Ids, Gens
<1>2. ASSUME NEW n \in OtherIds, NEW final \in BOOLEAN, L1Raises(n, final) PROVE TypeOK'
  <2>1. track' \in Track
    BY <1>2 DEF L1Raises, Track, Maximum
  <2>2. QED BY <1>2, <2>1 DEF L1Raises
<1>3. QED BY <1>1, <1>2 DEF External

\* So does a step of the reader.
LEMMA ReadingType == TypeOK /\ Reading => TypeOK'
<1> SUFFICES ASSUME TypeOK, Reading PROVE TypeOK'
  OBVIOUS
<1> USE Constants DEF TypeOK, durable, sequencer
<1>1. CASE Poll
  <2>1. have' \in Ids /\ have' + 1 \in 0..MaxBlock + 1
    BY <1>1, FloorType DEF Poll, SeqReaderCursor, Ids
  <2>2. next' \in 0..MaxBlock + 1
    BY <1>1, <2>1, FloorType DEF Poll, FirstId, Ids
  <2>3. QED BY <1>1, <2>1, <2>2 DEF Poll
<1>2. CASE WalkChunk
  <2>1. next \in Nat /\ polled \in Nat /\ ChunkEnd \in Nat /\ ChunkEnd <= polled /\ polled <= MaxBlock
    BY <1>2 DEF WalkChunk, ChunkEnd, Minimum, Ids
  <2>2. PICK ids \in Fetched(next, ChunkEnd) : IngestChunk(ids)
    BY <1>2 DEF WalkChunk
  <2>3. track' \in Track /\ job' \in Job
    BY <2>1, <2>2, FetchedServed, IngestType
  <2>4. next' \in 0..MaxBlock + 1
    BY <1>2, <2>1 DEF WalkChunk, NextStart
  <2>5. QED BY <1>2, <2>3, <2>4 DEF WalkChunk
<1>3. CASE WalkDone
  BY <1>3 DEF WalkDone, Maximum, Monus, Ids
<1>4. CASE Reread
  <2>1. RereadFrom + 1 \in Nat /\ Minimum(RereadFrom + Chunk, polled) \in Nat
    BY DEF RereadFrom, Minimum, Track, Ids
  <2>2. track' \in Track /\ job' \in Job
    BY <1>4, <2>1, FetchedServed, IngestType DEF Reread
  <2>3. QED BY <1>4, <2>2 DEF Reread
<1>5. CASE Commit
  <2>1. \A j \in Job : j.recs \in SUBSET Blocks /\ j.sum \in Track
    BY DEF Job
  <2>2. stored' \subseteq Blocks /\ summary' \in Track
    BY <1>5, <2>1 DEF Commit
  <2>3. QED BY <1>5, <2>2, NewTypes DEF Commit, reader
<1>6. QED BY <1>1, <1>2, <1>3, <1>4, <1>5 DEF Reading

\* So does the commit of an old reader, a new configuration or a restart.
LEMMA RestartType == TypeOK /\ (LeftCommit \/ Reconfigure \/ Crash) => TypeOK'
<1> SUFFICES ASSUME TypeOK, LeftCommit \/ Reconfigure \/ Crash PROVE TypeOK'
  OBVIOUS
<1> USE Constants, NewTypes DEF TypeOK, reader, durable, sequencer
<1>1. CASE LeftCommit
  BY <1>1 DEF LeftCommit, Job
<1>2. ASSUME StartReader(summary)
      PROVE  /\ pc' \in {"poll", "walk", "reread"} /\ backfilled' \in BOOLEAN
             /\ polled' \in Ids /\ next' \in 0..MaxBlock + 1 /\ have' \in Ids /\ restored' \in Ids
  <2>1. 0 \in Ids /\ 0 \in 0..MaxBlock + 1 /\ summary.latest \in Ids
    BY DEF Track, Ids
  <2>2. QED BY <1>2, <2>1 DEF StartReader
<1>3. CASE Reconfigure
  BY <1>2, <1>3 DEF Reconfigure
<1>4. CASE Crash
  BY <1>2, <1>4 DEF Crash
<1>5. QED BY <1>1, <1>3, <1>4

\* No step changes the type of anything.
LEMMA TypeStep == TypeOK /\ [Next]_vars => TypeOK'
<1> SUFFICES ASSUME TypeOK, [Next]_vars PROVE TypeOK'
  OBVIOUS
<1>1. CASE UNCHANGED vars
  BY <1>1 DEF TypeOK, vars, sequencer, reader, durable
<1>2. QED BY <1>1, ExternalType, ReadingType, RestartType DEF Next

\* Every variable of the reader, of the sequencer and of the store keeps its type.
THEOREM SeqTypes == Spec => []TypeOK
<1>1. Init => TypeOK
  <2>1. 0 \in Ids /\ 0 \in Gens /\ 0 \in 0..MaxBlock + 1 /\ 0 \in 0..MaxRestarts
    BY Constants DEF Ids, Gens
  <2>2. QED BY <2>1, NewTypes DEF Init, TypeOK
<1>2. QED BY <1>1, TypeStep, PTL DEF Spec

--------------------------------------------------------------------------------
(* No block is skipped *)

\* Covered as a relation between values, so that both ends of a step can be
\* compared.
Cover(n, f, recs, lo, g) ==
  \A b \in Ids : (b < n /\ Genesis <= b /\ lo <= b) => (b < f \/ <<g, b>> \in recs)

\* Covered is that relation, before a step and after it.
LEMMA CoveredIsCover ==
  ASSUME mode' = mode
  PROVE
  /\ \A n, t, recs : Covered(n, t, recs) <=> Cover(n, Floor(t), recs, low, gen)
  /\ CursorsCovered' <=>
       /\ polled' <= tip' /\ have' <= polled' /\ next' <= polled' + 1
       /\ mode'.withL1 => restored' = 0
       /\ backfilled' => Cover(have' + 1, Floor(polled'), stored', low', gen')
       /\ pc' = "reread" => backfilled' /\ polled' <= have'
       /\ pc' = "walk" => Cover(next', Floor(polled'), InFlight(job)', low', gen')
  /\ LatestCovered' <=>
       /\ summary'.latest > 0 =>
            Cover(summary'.latest + 1, Floor(tip'), stored', low', gen')
       /\ restored' > 0 => Cover(restored' + 1, Floor(tip'), stored', low', gen')
       /\ track'.latest > 0 =>
            Cover(track'.latest + 1, Floor(tip'), InFlight(job)', low', gen')
       /\ job'.open /\ job'.sum.latest > 0 =>
            Cover(job'.sum.latest + 1, Floor(tip'), InFlight(job)', low', gen')
       /\ left'.open /\ left'.sum.latest > 0 =>
            Cover(left'.sum.latest + 1, Floor(tip'), InFlight(left)', low', gen')
<1>1. \A n, t, recs : Covered(n, t, recs) <=> Cover(n, Floor(t), recs, low, gen)
  BY DEF Covered, Cover, Floor
<1>2. CursorsCovered' <=>
       /\ polled' <= tip' /\ have' <= polled' /\ next' <= polled' + 1
       /\ mode'.withL1 => restored' = 0
       /\ backfilled' => Cover(have' + 1, Floor(polled'), stored', low', gen')
       /\ pc' = "reread" => backfilled' /\ polled' <= have'
       /\ pc' = "walk" => Cover(next', Floor(polled'), InFlight(job)', low', gen')
  BY DEF CursorsCovered, Covered, Cover, Floor
<1>3. LatestCovered' <=>
       /\ summary'.latest > 0 =>
            Cover(summary'.latest + 1, Floor(tip'), stored', low', gen')
       /\ restored' > 0 => Cover(restored' + 1, Floor(tip'), stored', low', gen')
       /\ track'.latest > 0 =>
            Cover(track'.latest + 1, Floor(tip'), InFlight(job)', low', gen')
       /\ job'.open /\ job'.sum.latest > 0 =>
            Cover(job'.sum.latest + 1, Floor(tip'), InFlight(job)', low', gen')
       /\ left'.open /\ left'.sum.latest > 0 =>
            Cover(left'.sum.latest + 1, Floor(tip'), InFlight(left)', low', gen')
  BY DEF LatestCovered, Covered, Cover, Floor
<1>4. QED BY <1>1, <1>2, <1>3

\* The floor rises with the tip.
LEMMA FloorMono == \A t, u \in Ids : t <= u => Floor(t) <= Floor(u)
  BY Constants DEF Floor, Monus, Ids

\* A pass from the floor on covers everything below it.
LEMMA CoverFloor == \A f \in Nat, lo \in Nat : \A R, g : Cover(f, f, R, lo, g)
  BY DEF Cover, Ids

\* A chunk that is read whole covers the ids up to its end.
LEMMA ChunkCovered ==
  ASSUME TypeOK, NEW from \in Nat, NEW to \in Nat, to <= tip,
         NEW f, Cover(from, f, stored, low, gen), ~FetchMayFail,
         NEW ids \in Fetched(from, to)
  PROVE  Cover(to + 1, f, stored \cup ({gen} \X ids), low, gen)
<1>1. ids = {b \in Ids : Genesis <= b /\ low <= b /\ b <= tip} \cap (from..to)
  BY DEF Fetched, Served
<1>2. low \in Nat /\ tip \in Nat
  BY DEF TypeOK, Ids
<1>3. SUFFICES ASSUME NEW b \in Ids, b < to + 1, Genesis <= b, low <= b
               PROVE  \/ b < f
                      \/ <<gen, b>> \in stored \cup ({gen} \X ids)
  BY DEF Cover
<1>4. CASE b < from
  BY <1>3, <1>4 DEF Cover
<1>5. CASE ~(b < from)
  <2>1. b \in ids
    BY <1>1, <1>2, <1>3, <1>5, Constants DEF Ids
  <2>2. QED BY <2>1
<1>6. QED BY <1>4, <1>5

\* Ingesting such a chunk keeps every latest id covered, and the job with it.
LEMMA IngestCovered ==
  ASSUME TypeOK, NEW from \in Nat, NEW to \in Nat, to <= tip, polled <= tip,
         Cover(from, Floor(polled), stored, low, gen), ~FetchMayFail,
         NEW ids \in Fetched(from, to), IngestChunk(ids), ~job.open,
         UNCHANGED stored
  PROVE  /\ Cover(to + 1, Floor(polled), InFlight(job)', low, gen)
         /\ stored \subseteq InFlight(job)'
         /\ track.latest > 0 /\ Cover(track.latest + 1, Floor(tip), InFlight(job), low, gen)
              => Cover(track'.latest + 1, Floor(tip), InFlight(job)', low, gen)
         /\ track.latest = 0 /\ track'.latest > 0
              => Cover(track'.latest + 1, Floor(tip), InFlight(job)', low, gen)
         /\ job'.open => job'.sum = track'
<1>1. Cover(to + 1, Floor(polled), stored \cup ({gen} \X ids), low, gen)
  BY ChunkCovered
<1>2. /\ track.latest \in Nat /\ low \in Nat
      /\ Floor(tip) \in Nat /\ Floor(polled) \in Nat /\ Floor(polled) <= Floor(tip)
  BY FloorType, FloorMono DEF TypeOK, Track, Ids
<1>3. InFlight(job) = stored
  BY DEF InFlight
<1>4. CASE ids = {}
  <2>1. track' = track /\ job' = job /\ {gen} \X ids = {}
    BY <1>4 DEF IngestChunk
  <2>2. InFlight(job)' = stored /\ stored \cup ({gen} \X ids) = stored
    BY <2>1 DEF InFlight
  <2>3. Cover(to + 1, Floor(polled), InFlight(job)', low, gen)
    BY <1>1, <2>2
  <2>4. job'.open = FALSE
    BY <2>1 DEF TypeOK, Job
  <2>5. QED BY <1>3, <2>1, <2>2, <2>3, <2>4
<1>5. CASE ids # {}
  <2>1. PICK last \in Ids, final \in Ids :
          /\ Highest(last, ids)
          /\ track' = [latest    |-> Maximum(track.latest, last),
                       finalized |-> Maximum(track.finalized, final)]
          /\ job' = [open |-> TRUE, recs |-> {gen} \X ids, sum |-> track']
    BY <1>5 DEF IngestChunk
  <2>2. last \in from..to /\ last \in Nat
    BY <1>5, <2>1, FetchedServed DEF Highest
  <2>3. InFlight(job)' = stored \cup ({gen} \X ids)
    BY <2>1 DEF InFlight
  <2>4. Cover(last + 1, Floor(tip), InFlight(job)', low, gen)
    <3>1. last + 1 \in Nat /\ to + 1 \in Nat /\ last + 1 <= to + 1
      BY <2>2
    <3>2. QED BY <1>1, <1>2, <2>3, <3>1 DEF Cover, Ids
  <2>5. CASE track.latest <= last /\ track.latest # last
    <3>1. track'.latest = last
      BY <1>2, <2>1, <2>2, <2>5 DEF Maximum
    <3>2. QED BY <1>1, <2>1, <2>3, <2>4, <3>1
  <2>6. CASE ~(track.latest <= last /\ track.latest # last)
    <3>1. track'.latest = track.latest
      BY <1>2, <2>1, <2>2, <2>6 DEF Maximum
    <3>2. Cover(track.latest + 1, Floor(tip), stored, low, gen)
            => Cover(track.latest + 1, Floor(tip), InFlight(job)', low, gen)
      <4>1. track.latest + 1 \in Nat /\ stored \subseteq InFlight(job)'
        BY <1>2, <2>3
      <4>2. QED BY <4>1 DEF Cover
    <3>3. job'.open /\ job'.sum = track' /\ stored \subseteq InFlight(job)'
      BY <2>1, <2>3
    <3>4. QED BY <1>1, <1>3, <2>3, <3>1, <3>2, <3>3
  <2>7. QED BY <2>5, <2>6
<1>6. QED BY <1>4, <1>5

\* The hypotheses of the steps below: the types, and the invariant on a chain
\* that was not reset, before and after the step.
Before == TypeOK /\ CursorsCovered /\ (~mode.withL1 => LatestCovered) /\ gen = 0

\* What the sequencer does, short of a reset, uncovers nothing: the floor only
\* rises and the ids only get fewer.
LEMMA SequencerStep ==
  ASSUME Before, TypeOK', Sequencer, gen' = 0
  PROVE  CursorsCovered' /\ (~mode'.withL1 => LatestCovered')
<1> USE DEF Sequencer, reader, durable
<1>1. mode' = mode /\ tip \in Ids /\ tip' \in Ids /\ low \in Nat /\ low' \in Nat /\ polled \in Ids
  BY DEF Before, TypeOK
<1>2. tip <= tip' /\ low <= low'
  BY <1>1 DEF Before, Produce, Settle, Prune, Reset, Ids
<1>3. \A n, f, R : Cover(n, f, R, low, gen) => Cover(n, f, R, low', gen')
  BY <1>1, <1>2, Constants DEF Cover, Before, Ids
<1>4. \A n, R : Cover(n, Floor(tip), R, low, gen) => Cover(n, Floor(tip'), R, low', gen')
  <2>1. Floor(tip) <= Floor(tip') /\ Floor(tip) \in Nat /\ Floor(tip') \in Nat
    BY <1>1, <1>2, FloorType, FloorMono DEF Ids
  <2>2. QED BY <1>3, <2>1 DEF Cover, Ids
<1>5. InFlight(job)' = InFlight(job) /\ InFlight(left)' = InFlight(left)
  BY DEF InFlight
<1>6. CursorsCovered'
  <2>1. polled' <= tip'
    BY <1>1, <1>2 DEF Before, CursorsCovered, Ids
  <2>2. QED BY <1>1, <1>3, <1>5, <2>1, CoveredIsCover DEF Before, CursorsCovered
<1>7. ~mode'.withL1 => LatestCovered'
  BY <1>1, <1>4, <1>5, CoveredIsCover DEF Before, LatestCovered
<1>8. QED BY <1>6, <1>7

\* Nor does a write of the L1 tasks: a reader beside an L1 has no use for latest.
LEMMA L1Step ==
  ASSUME Before, NEW n, NEW final, L1Raises(n, final)
  PROVE  CursorsCovered' /\ (~mode'.withL1 => LatestCovered')
<1>1. mode' = mode /\ mode.withL1
  BY DEF L1Raises
<1>2. CursorsCovered'
  BY DEF L1Raises, reader, sequencer, durable, Before, CursorsCovered, Covered, Floor, InFlight
<1>3. QED BY <1>1, <1>2

\* A poll starts a walk at the floor, after the restored id or after the cursor,
\* and everything below that is covered.
LEMMA PollStep ==
  ASSUME Before, TypeOK', Poll
  PROVE  CursorsCovered' /\ (~mode'.withL1 => LatestCovered')
<1> USE DEF Poll, reader, durable, sequencer
<1>1. /\ mode' = mode /\ tip \in Ids /\ low \in Nat /\ polled \in Ids /\ have \in Ids /\ restored \in Ids
      /\ polled <= tip /\ have <= polled /\ polled' = tip
      /\ Floor(tip) \in Ids /\ Floor(tip) <= tip
  BY FloorType DEF Before, TypeOK, CursorsCovered
<1>2. Floor(polled) <= Floor(tip) /\ Floor(polled) \in Nat
  BY <1>1, FloorMono, FloorType DEF Ids
<1>3. InFlight(job)' = InFlight(job) /\ InFlight(job) = stored /\ InFlight(left)' = InFlight(left)
  BY DEF InFlight
<1>4. have' = have
  BY <1>1 DEF SeqReaderCursor, Ids
<1>5. backfilled => Cover(have + 1, Floor(tip), stored, low, gen)
  BY <1>1, <1>2, CoveredIsCover DEF Before, CursorsCovered, Cover, Ids
<1>6. next' <= tip + 1 /\ Cover(next', Floor(tip), stored, low, gen)
  <2>1. CASE backfilled
    BY <1>1, <1>4, <1>5, <2>1 DEF Ids
  <2>2. CASE ~backfilled /\ restored > 0 /\ restored <= tip
    <3>1. ~mode.withL1
      BY <1>1, <2>2 DEF Before, CursorsCovered, Ids, TypeOK
    <3>2. Cover(restored + 1, Floor(tip), stored, low, gen)
      BY <1>1, <2>2, <3>1, CoveredIsCover DEF Before, LatestCovered
    <3>3. QED BY <1>1, <2>2, <3>2 DEF FirstId, Ids
  <2>3. CASE ~backfilled /\ ~(restored > 0 /\ restored <= tip)
    BY <1>1, <2>3, CoverFloor DEF FirstId, Ids
  <2>4. QED BY <2>1, <2>2, <2>3
<1>7. CursorsCovered'
  BY <1>1, <1>3, <1>4, <1>5, <1>6, CoveredIsCover DEF Before, CursorsCovered, Ids
<1>8. ~mode'.withL1 => LatestCovered'
  BY <1>1, <1>3, CoveredIsCover DEF Before, LatestCovered
<1>9. QED BY <1>7, <1>8

\* A chunk that is ingested, of the walk or read again, keeps the latest ids
\* covered, given that the ids below the chunk are.
LEMMA ChunkKeepsLatest ==
  ASSUME Before, ~FetchMayFail, NEW from \in Nat, NEW to \in Nat, to <= tip,
         Cover(from, Floor(polled), stored, low, gen),
         NEW ids \in Fetched(from, to), IngestChunk(ids), ~job.open,
         UNCHANGED <<sequencer, mode, restored, left, durable>>, ~mode.withL1
  PROVE  LatestCovered'
<1> USE DEF sequencer, durable
<1>1. LatestCovered /\ polled <= tip /\ InFlight(left)' = InFlight(left)
  BY DEF Before, CursorsCovered, InFlight
<1>2. /\ track.latest > 0 /\ Cover(track.latest + 1, Floor(tip), InFlight(job), low, gen)
           => Cover(track'.latest + 1, Floor(tip), InFlight(job)', low, gen)
      /\ track.latest = 0 /\ track'.latest > 0
           => Cover(track'.latest + 1, Floor(tip), InFlight(job)', low, gen)
      /\ job'.open => job'.sum = track'
  BY <1>1, IngestCovered DEF Before
<1>3. track.latest \in Nat
  BY DEF Before, TypeOK, Track, Ids
<1>4. track'.latest > 0 => Cover(track'.latest + 1, Floor(tip), InFlight(job)', low, gen)
  BY <1>1, <1>2, <1>3, CoveredIsCover DEF LatestCovered
<1>5. QED BY <1>1, <1>2, <1>4, CoveredIsCover DEF LatestCovered

LEMMA WalkChunkStep ==
  ASSUME Before, TypeOK', WalkChunk, ~FetchMayFail
  PROVE  CursorsCovered' /\ (~mode'.withL1 => LatestCovered')
<1> USE DEF WalkChunk, durable
<1>1. PICK ids \in Fetched(next, ChunkEnd) : IngestChunk(ids)
  OBVIOUS
<1>2. /\ next \in Nat /\ ChunkEnd \in Nat /\ ChunkEnd <= polled /\ ChunkEnd <= tip
      /\ polled <= tip /\ have <= polled
      /\ next' = ChunkEnd + 1 /\ next' <= polled + 1
  BY Constants DEF Before, TypeOK, CursorsCovered, ChunkEnd, Minimum, NextStart, Ids
<1>3. Cover(next, Floor(polled), stored, low, gen)
  BY CoveredIsCover DEF Before, CursorsCovered, InFlight
<1>4. Cover(next', Floor(polled), InFlight(job)', low, gen)
  BY <1>1, <1>2, <1>3, IngestCovered DEF Before, sequencer
<1>5. CursorsCovered'
  BY <1>2, <1>4, CoveredIsCover DEF Before, CursorsCovered, sequencer
<1>6. ~mode'.withL1 => LatestCovered'
  BY <1>1, <1>2, <1>3, ChunkKeepsLatest
<1>7. QED BY <1>5, <1>6

LEMMA RereadStep ==
  ASSUME Before, TypeOK', Reread, ~FetchMayFail
  PROVE  CursorsCovered' /\ (~mode'.withL1 => LatestCovered')
<1> USE DEF Reread, durable
<1> DEFINE from == RereadFrom + 1
           to   == Minimum(RereadFrom + Chunk, polled)
<1>1. /\ from \in Nat /\ to \in Nat /\ polled \in Nat /\ have \in Nat
      /\ RereadFrom \in Nat /\ RereadFrom <= polled /\ to <= polled /\ to <= tip
      /\ polled <= tip /\ polled <= have /\ backfilled
  BY Constants DEF Before, TypeOK, Track, CursorsCovered, RereadFrom, Minimum, Ids
<1>2. Cover(have + 1, Floor(polled), stored, low, gen)
  BY <1>1, CoveredIsCover DEF Before, CursorsCovered
<1>3. Cover(from, Floor(polled), stored, low, gen)
  BY <1>1, <1>2 DEF Cover, Ids
<1>4. CursorsCovered'
  BY CoveredIsCover DEF Before, CursorsCovered, sequencer
<1>5. CASE from <= polled
  <2>1. PICK ids \in Fetched(from, to) : IngestChunk(ids)
    BY <1>5
  <2>2. QED BY <1>1, <1>3, <1>4, <2>1, ChunkKeepsLatest
<1>6. CASE ~(from <= polled)
  BY <1>4, <1>6, CoveredIsCover DEF Before, LatestCovered, InFlight, sequencer
<1>7. QED BY <1>5, <1>6

\* A walk that is over has covered all of the tip it polled.
LEMMA WalkDoneStep ==
  ASSUME Before, TypeOK', WalkDone
  PROVE  CursorsCovered' /\ (~mode'.withL1 => LatestCovered')
<1> USE DEF WalkDone, durable
<1>1. /\ next \in Nat /\ have \in Nat /\ polled \in Nat /\ have <= polled /\ next <= polled + 1
      /\ have' = polled /\ next = polled + 1
  BY DEF Before, TypeOK, CursorsCovered, Maximum, Monus, Ids
<1>2. InFlight(job) = stored /\ InFlight(job)' = stored /\ InFlight(left)' = InFlight(left)
  BY DEF InFlight
<1>3. Cover(polled + 1, Floor(polled), stored, low, gen)
  BY <1>1, <1>2, CoveredIsCover DEF Before, CursorsCovered
<1>4. CursorsCovered'
  BY <1>1, <1>3, CoveredIsCover DEF Before, CursorsCovered, sequencer
<1>5. ~mode'.withL1 => LatestCovered'
  BY <1>2, CoveredIsCover DEF Before, LatestCovered, sequencer
<1>6. QED BY <1>4, <1>5

\* A commit, of the reader or of an old one, moves what was in flight to the
\* store, and a restart takes over what is in the store.
LEMMA StoreStep ==
  ASSUME Before, TypeOK', Commit \/ LeftCommit, ~CommitMayFail
  PROVE  CursorsCovered' /\ (~mode'.withL1 => LatestCovered')
<1> USE DEF reader
<1>1. /\ mode' = mode /\ stored \subseteq stored'
      /\ InFlight(job) \subseteq InFlight(job)' /\ InFlight(left) \subseteq InFlight(left)'
  BY DEF Commit, LeftCommit, InFlight, NoJob
<1>2. /\ \A n, f : Cover(n, f, stored, low, gen) => Cover(n, f, stored', low, gen)
      /\ \A n, f : Cover(n, f, InFlight(job), low, gen) => Cover(n, f, InFlight(job)', low, gen)
      /\ \A n, f : Cover(n, f, InFlight(left), low, gen) => Cover(n, f, InFlight(left)', low, gen)
  BY <1>1 DEF Cover
<1>3. low' = low /\ gen' = gen /\ tip' = tip /\ UNCHANGED reader /\ track' = track
  BY DEF Commit, LeftCommit, sequencer
<1>4. CursorsCovered'
  BY <1>1, <1>2, <1>3, CoveredIsCover DEF Before, CursorsCovered
<1>5. ~mode.withL1 => (summary'.latest > 0 => Cover(summary'.latest + 1, Floor(tip), stored', low, gen))
  <2>1. CASE Commit
    <3>1. summary' = job.sum /\ stored' = InFlight(job) /\ job.open
      BY <2>1 DEF Commit, InFlight
    <3>2. QED BY <1>1, <3>1, CoveredIsCover DEF Before, LatestCovered
  <2>2. CASE LeftCommit
    <3>1. summary' = left.sum /\ stored' = InFlight(left) /\ left.open
      BY <2>2 DEF LeftCommit, InFlight
    <3>2. QED BY <1>1, <3>1, CoveredIsCover DEF Before, LatestCovered
  <2>3. QED BY <2>1, <2>2
<1>6. (job'.open => job' = job) /\ (left'.open => left' = left)
  <2>1. NoJob.open = FALSE
    BY DEF NoJob
  <2>2. QED BY <2>1 DEF Commit, LeftCommit
<1>7. ~mode'.withL1 => LatestCovered'
  BY <1>1, <1>2, <1>3, <1>5, <1>6, CoveredIsCover DEF Before, LatestCovered
<1>8. QED BY <1>4, <1>7

LEMMA RestartStep ==
  ASSUME Before, TypeOK', Reconfigure \/ Crash
  PROVE  CursorsCovered' /\ (~mode'.withL1 => LatestCovered')
<1> USE DEF StartReader, durable, sequencer
<1>1. /\ mode' = mode /\ stored' = stored /\ summary' = summary /\ track' = summary
      /\ gen' = gen /\ low' = low /\ tip' = tip /\ tip \in Nat
      /\ ~job'.open /\ InFlight(job)' = stored
      /\ pc' = "poll" /\ polled' = 0 /\ next' = 0 /\ have' = 0 /\ backfilled' = FALSE
      /\ mode.withL1 => restored' = 0
      /\ ~mode.withL1 => restored' = summary.latest
  BY DEF Reconfigure, Crash, NoJob, InFlight, Before, TypeOK, Ids
<1>2. left'.open => \/ left' = left /\ InFlight(left)' = InFlight(left)
                    \/ left' = job /\ job.open /\ InFlight(left)' = InFlight(job)
  BY DEF Reconfigure, Crash, NoJob, InFlight
<1>3. CursorsCovered'
  BY <1>1, CoveredIsCover
<1>4. ~mode'.withL1 => LatestCovered'
  BY <1>1, <1>2, CoveredIsCover DEF Before, LatestCovered
<1>5. QED BY <1>3, <1>4

\* Without failing requests and commits, HoleInv is inductive.
LEMMA HoleStep ==
  ASSUME TypeOK, TypeOK', HoleInv, [Next]_vars, ~FetchMayFail, ~CommitMayFail
  PROVE  HoleInv'
<1> SUFFICES ASSUME gen' = 0 PROVE CursorsCovered' /\ (~mode'.withL1 => LatestCovered')
  BY DEF HoleInv
<1>1. gen = 0 /\ Before
  <2>1. gen = 0
    <3>1. gen \in Nat
      BY Constants DEF TypeOK, Gens
    <3>2. CASE Sequencer
      BY <3>1, <3>2 DEF Sequencer, Produce, Settle, Prune, Reset
    <3>3. CASE ~Sequencer
      BY <3>3 DEF Next, vars, External, L1Raises, Reading, Poll, WalkChunk, WalkDone, Reread,
                  Commit, LeftCommit, Reconfigure, Crash, sequencer
    <3>4. QED BY <3>2, <3>3
  <2>2. QED BY <2>1 DEF HoleInv, Before
<1>2. CASE UNCHANGED vars
  <2>1. UNCHANGED <<gen, tip, low, mode, pc, polled, next, have, backfilled, restored>>
    BY <1>2 DEF vars, sequencer, reader
  <2>2. UNCHANGED <<track, job, left, stored, summary>>
    BY <1>2 DEF vars, durable
  <2>3. InFlight(job)' = InFlight(job) /\ InFlight(left)' = InFlight(left)
    BY <2>2 DEF InFlight
  <2>4. QED BY <1>1, <2>1, <2>2, <2>3, CoveredIsCover DEF Before, CursorsCovered, LatestCovered
<1>3. CASE External
  BY <1>1, <1>3, SequencerStep, L1Step DEF External
<1>4. CASE Poll
  BY <1>1, <1>4, PollStep
<1>5. CASE WalkChunk
  BY <1>1, <1>5, WalkChunkStep
<1>6. CASE WalkDone
  BY <1>1, <1>6, WalkDoneStep
<1>7. CASE Reread
  BY <1>1, <1>7, RereadStep
<1>8. CASE Commit \/ LeftCommit
  BY <1>1, <1>8, StoreStep
<1>9. CASE Reconfigure \/ Crash
  BY <1>1, <1>9, RestartStep
<1>10. QED BY <1>2, <1>3, <1>4, <1>5, <1>6, <1>7, <1>8, <1>9 DEF Next, Reading

\* HoleInv holds of every reachable state.
LEMMA HoleInvariant ==
  ASSUME ~FetchMayFail, ~CommitMayFail
  PROVE  Spec => [](TypeOK /\ HoleInv)
<1>1. Init => HoleInv
  BY Constants DEF Init, HoleInv, CursorsCovered, LatestCovered, NewTrack, NoJob
<1>2. TypeOK /\ TypeOK' /\ HoleInv /\ [Next]_vars => HoleInv'
  BY HoleStep
<1>3. QED BY <1>1, <1>2, SeqTypes, PTL DEF Spec

\* Of a chain that was never reset, the store of a reader without an L1 holds
\* every block up to the id it resumes after, but for the blocks older than its
\* window and those the sequencer dropped before they were read: through restarts,
\* new configurations and the late commits of old readers.
THEOREM NothingSkipped ==
  ASSUME ~FetchMayFail, ~CommitMayFail
  PROVE  Spec => []NoHole
<1>1. HoleInv => NoHole
  BY DEF HoleInv, LatestCovered, NoHole
<1>2. QED BY <1>1, HoleInvariant, PTL

\* And every pass, with an L1 or without, ends with all of its range stored.
THEOREM PassesAreComplete ==
  ASSUME ~FetchMayFail, ~CommitMayFail
  PROVE  Spec => []PassComplete
<1>1. TypeOK /\ HoleInv => PassComplete
  <2> SUFFICES ASSUME TypeOK, HoleInv, pc = "reread", gen = 0
               PROVE  Covered(polled + 1, polled, stored)
    BY DEF PassComplete
  <2>1. Covered(have + 1, polled, stored) /\ polled = have
    BY DEF HoleInv, CursorsCovered, TypeOK, Ids
  <2>2. QED BY <2>1
<1>2. QED BY <1>1, HoleInvariant, PTL
================================================================================
