----------------------------- MODULE FinalityProofs -----------------------------
(* Theorems about Finality, for every value of its constants. *)
EXTENDS Finality, TLAPS

\* The assumptions on the constants, as the proofs use them.
LEMMA Bounds ==
  /\ MaxBlock \in Nat /\ MaxSlot \in Nat /\ MaxBlock >= 1 /\ MaxSlot >= 1
  /\ MaxCrashes \in Nat
  /\ \A b \in Blocks : b \in SlotIds /\ b \in Ids
  /\ \A s \in 0..MaxSlot : s \in SlotIds
  /\ Absent \in Nat
  BY BoundsAssumption, ConfigAssumption
  DEF Blocks, SlotIds, Ids, Absent, Maximum

\* What a task does to a SeqTrack leaves a SeqTrack.
LEMMA TrackOperations ==
  ASSUME NEW t \in SeqTrack, NEW b \in Ids
  PROVE  /\ Observe(t, b) \in SeqTrack
         /\ \A f \in BOOLEAN : RaiseFinality(t, b, f) \in SeqTrack /\ Ingest(t, b, f) \in SeqTrack
         /\ \A slot, libNow : NoteL1Settled(t, b, slot, libNow) \in SeqTrack
         /\ \A f \in BOOLEAN : \A slot, libNow : SeenOnL1(t, b, f, slot, libNow) \in SeqTrack
<1>1. \A u \in SeqTrack :
        /\ Observe(u, b) \in SeqTrack
        /\ \A f \in BOOLEAN : RaiseFinality(u, b, f) \in SeqTrack /\ Ingest(u, b, f) \in SeqTrack
        /\ \A slot, libNow : NoteL1Settled(u, b, slot, libNow) \in SeqTrack
  BY Bounds DEF SeqTrack, Ids, Maximum, Observe, RaiseFinality, Ingest, NoteL1Settled
<1>2. QED BY <1>1 DEF SeenOnL1

\* The values tasks start from, and a batch of one row, have their types.
LEMMA RowTypes ==
  /\ NoRows \in Rows /\ NewTrack \in SeqTrack /\ IdleJob \in Job
  /\ IdleJob.pc = "idle" /\ IdleJob.sum = NewTrack
  /\ \A last \in 0..MaxSlot : [IdleSweep EXCEPT !.last = last] \in Sweep
  /\ IdleSweep \in Sweep
  /\ \A b \in Blocks, s \in SlotIds : Row(b, s) \in Rows
<1>1. NoRows \in Rows /\ \A b \in Blocks, s \in SlotIds : Row(b, s) \in Rows
  BY Bounds DEF Rows, NoRows, Row
<1>2. NewTrack \in SeqTrack
  BY Bounds DEF NewTrack, SeqTrack, Ids
<1>3. IdleJob \in Job /\ IdleJob.pc = "idle" /\ IdleJob.sum = NewTrack
  BY <1>1, <1>2 DEF IdleJob, Job
<1>4. 0 \in 0..MaxSlot /\ 0 \in Ids
  BY Bounds DEF Ids
<1>5. IdleSweep \in Sweep /\ \A last \in 0..MaxSlot : [IdleSweep EXCEPT !.last = last] \in Sweep
  BY <1>4 DEF IdleSweep, Sweep
<1>6. QED BY <1>1, <1>2, <1>3, <1>5

\* What a task finds in an L1 block.
LEMMA ChainEntry ==
  ASSUME L1TypeOK
  PROVE  /\ Len(chain) \in Nat /\ lib \in Nat
         /\ \A s \in 1..Len(chain) :
              /\ chain[s].block \in Ids /\ chain[s].lib \in 0..MaxSlot
              /\ chain[s].block # 0 => chain[s].block \in Blocks
<1>1. \A e \in L1Block : e.block \in Ids /\ e.lib \in 0..MaxSlot /\ (e.block # 0 => e.block \in Blocks)
  BY Bounds DEF L1Block, Ids, Blocks
<1>2. \A s \in 1..Len(chain) : chain[s] \in L1Block
  BY DEF L1TypeOK
<1>3. QED BY <1>1, <1>2 DEF L1TypeOK

--------------------------------------------------------------------------------
(* Types and positions *)

\* The initial state has its types.
LEMMA InitTypeInv == Init => TypeInv
<1> SUFFICES ASSUME Init PROVE TypeInv
  OBVIOUS
<1> USE Bounds, RowTypes DEF Init, L1Init, Unstarted, Finished
<1>1. chain \in Seq(L1Block) /\ Len(chain) = 0
  OBVIOUS
<1>2. job \in [Tasks -> Job] /\ job["stream"].pc = "idle"
  BY DEF Tasks
<1>3. view \in BOOLEAN
  BY Zenon
<1>4. lib \in 0..MaxSlot /\ libSlot \in 0..MaxSlot /\ streamPos \in 0..MaxSlot
      /\ seedPos \in 0..Finished /\ crashes \in 0..MaxCrashes
  OBVIOUS
<1>5. TypeOK
  BY <1>1, <1>2, <1>3, <1>4 DEF TypeOK, L1TypeOK
<1>6. Positions
  BY <1>1, <1>2 DEF Positions
<1>7. QED BY <1>5, <1>6 DEF TypeInv

\* The chain grows, and no cursor moves.
LEMMA L1StepTypeInv == TypeInv /\ L1Step => TypeInv'
<1> SUFFICES ASSUME TypeInv, L1Step PROVE TypeInv'
  OBVIOUS
<1> USE Bounds DEF TypeInv, TypeOK, L1TypeOK
<1>1. CASE AdvanceLib
  <2>1. lib' \in 0..MaxSlot /\ lib' = lib + 1 /\ lib' <= Len(chain) /\ chain' = chain
    BY <1>1, ChainEntry DEF AdvanceLib
  <2>2. \A s \in 1..Len(chain) : chain[s].lib <= lib'
    BY <2>1, ChainEntry DEF Positions
  <2>3. QED BY <2>1, <2>2 DEF L1Step, Positions, memory, durable
<1>2. ASSUME NEW b \in Ids, Mint(b) PROVE TypeInv'
  <2>1. [block |-> b, lib |-> lib] \in L1Block
    BY DEF L1Block, Ids
  <2>2. /\ chain' \in Seq(L1Block) /\ Len(chain') = Len(chain) + 1
        /\ \A s \in 1..Len(chain) : chain'[s] = chain[s]
        /\ chain'[Len(chain) + 1] = [block |-> b, lib |-> lib]
    BY <1>2, <2>1 DEF Mint
  <2>3. \A s \in 1..Len(chain') : chain'[s].lib <= lib
    BY <2>2 DEF Positions
  <2>4. TypeOK'
    BY <1>2, <2>2 DEF Mint, L1Step, memory, durable
  <2>5. Positions'
    BY <1>2, <2>2, <2>3 DEF Mint, L1Step, memory, durable, Positions
  <2>6. QED BY <2>4, <2>5
<1>3. QED BY <1>1, <1>2 DEF L1Step

\* The stream never runs past the chain.
LEMMA StreamTypeInv == TypeInv /\ Stream => TypeInv'
<1> SUFFICES ASSUME TypeInv, Stream PROVE TypeInv'
  OBVIOUS
<1> USE Bounds, RowTypes DEF TypeInv, TypeOK, L1TypeOK, l1vars, durable
<1>1. CASE EventHead
  <2>1. streamPos + 1 \in 1..Len(chain)
    BY <1>1 DEF EventHead
  <2>2. chain[streamPos + 1].lib \in 0..MaxSlot /\ chain[streamPos + 1].lib <= lib
    BY <2>1, ChainEntry DEF Positions
  <2>3. libSlot' \in 0..MaxSlot /\ streamPos' \in 0..MaxSlot
    BY <1>1, <2>1, <2>2 DEF EventHead
  <2>4. job' \in [Tasks -> Job]
    BY <1>1 DEF EventHead, Job, Tasks
  <2>5. QED BY <1>1, <2>1, <2>2, <2>3, <2>4 DEF EventHead, Positions
<1>2. CASE EventBlock
  <2> DEFINE b == chain[streamPos].block
  <2>1. streamPos \in 1..Len(chain)
    BY <1>2 DEF EventBlock, Positions
  <2>2. b \in Ids /\ (b # 0 => b \in Blocks)
    BY <2>1, ChainEntry
  <2>3. SeenOnL1(track, b, streamPos <= libSlot, streamPos, libSlot) \in SeqTrack
    <3>1. (streamPos <= libSlot) \in BOOLEAN
      OBVIOUS
    <3>2. QED BY <2>2, <3>1, TrackOperations
  <2>20. track' \in SeqTrack
    BY <1>2, <2>3 DEF EventBlock
  <2>4. job' \in [Tasks -> Job] /\ job'["stream"].pc # "head"
    BY <1>2, <2>1, <2>2 DEF EventBlock, Job, Tasks, Gathered, IdleJob
  <2>5. QED BY <1>2, <2>20, <2>4 DEF EventBlock, Positions
<1>3. CASE EventWithoutBlock
  BY <1>3 DEF EventWithoutBlock, Positions, Tasks, IdleJob
<1>4. CASE StreamReconnect
  BY <1>4 DEF StreamReconnect, Positions, Idle
<1>5. QED BY <1>1, <1>2, <1>3, <1>4 DEF Stream

\* The walk over history never leaves 0..lib.
LEMMA SeedTypeInv == TypeInv /\ Seed => TypeInv'
<1> SUFFICES ASSUME TypeInv, Seed PROVE TypeInv'
  OBVIOUS
<1> USE Bounds, RowTypes DEF TypeInv, TypeOK, L1TypeOK, l1vars, durable
<1>1. CASE BackfillStart
  BY <1>1 DEF BackfillStart, Positions, Unstarted, Finished
<1>0. CASE BackfillTail
  <2>1. job' \in [Tasks -> Job] /\ job'["stream"] = job["stream"]
    BY <1>0 DEF BackfillTail, Job, Tasks
  <2>2. QED BY <1>0, <2>1 DEF BackfillTail, Positions, Unstarted, Finished
<1>2. ASSUME NEW fetched \in BOOLEAN, BackfillChunk(fetched) PROVE TypeInv'
  <2> DEFINE b == chain[seedPos].block
             settled == SeenOnL1(track, b, TRUE, seedPos, libSlot)
  <2>1. seedPos \in 1..Len(chain) /\ seedPos <= lib /\ seedPos \in SlotIds
    BY <1>2 DEF BackfillChunk, Positions, Unstarted
  <2>2. b \in Ids /\ (b # 0 => b \in Blocks)
    BY <2>1, ChainEntry
  <2>3. settled \in SeqTrack
    BY <2>2, TrackOperations
  <2>4. track' \in SeqTrack
    BY <1>2, <2>3 DEF BackfillChunk
  <2>5. b # 0 => [pc |-> "cloned", recs |-> Row(b, seedPos), sum |-> settled] \in Job
    BY <2>1, <2>2, <2>3 DEF Job
  <2>6. job' \in [Tasks -> Job] /\ job'["stream"] = job["stream"]
    BY <1>2, <2>5 DEF BackfillChunk, Tasks
  <2>7. view' \in BOOLEAN /\ seedPos' \in 0..Finished /\ seedPos' <= lib
    BY <1>2, <2>1 DEF BackfillChunk, Unstarted, Finished
  <2>8. QED BY <1>2, <2>4, <2>6, <2>7 DEF BackfillChunk, Positions
<1>3. ASSUME NEW S \in SUBSET (1..lib), Discover(S) PROVE TypeInv'
  <2>1. \A s \in S : chain[s].block \in Ids
    BY ChainEntry DEF Positions
  <2>2. \A s, last \in S : SeenOnL1(track, chain[s].block, TRUE, last, libSlot) \in SeqTrack
    BY <2>1, TrackOperations
  <2>20. track' \in SeqTrack
    BY <1>3, <2>2 DEF Discover
  <2>3. \A recs \in Rows : Gathered(recs) \in Job
    BY DEF Gathered, Job
  <2>4. job' \in [Tasks -> Job] /\ job'["stream"] = job["stream"]
    BY <1>3, <2>3 DEF Discover, Tasks
  <2>5. QED BY <1>3, <2>20, <2>4 DEF Discover, Positions, Unstarted, Finished
<1>4. QED BY <1>0, <1>1, <1>2, <1>3 DEF Seed, Backfill

\* The RPC reader touches no cursor.
LEMMA RpcTypeInv == TypeInv /\ Rpc => TypeInv'
<1> SUFFICES ASSUME TypeInv, NEW b \in Blocks, NEW f \in BedrockFinal, RpcChunk(b, f)
             PROVE  TypeInv'
  BY DEF Rpc
<1> USE Bounds, RowTypes DEF TypeInv, TypeOK, L1TypeOK, l1vars, durable
<1>1. track' \in SeqTrack
  BY TrackOperations, ConfigAssumption DEF RpcChunk
<1>2. job' \in [Tasks -> Job] /\ job'["stream"] = job["stream"]
  BY DEF RpcChunk, Gathered, Job, Tasks
<1>3. QED BY <1>1, <1>2 DEF RpcChunk, Positions

\* What is committed is a batch of rows and a SeqTrack.
LEMMA PersistTypeInv == TypeInv /\ Persist => TypeInv'
<1> SUFFICES ASSUME TypeInv, NEW t \in Tasks,
                    CloneSummary(t) \/ Commit(t) \/ CommitFails(t)
             PROVE  TypeInv'
  BY DEF Persist
<1> USE Bounds, RowTypes DEF TypeInv, TypeOK, L1TypeOK, l1vars, durable
<1>1. CASE CloneSummary(t)
  <2>1. job' \in [Tasks -> Job] /\ (job'["stream"].pc = "head" => job["stream"].pc = "head")
    BY <1>1 DEF CloneSummary, Job, Tasks
  <2>2. QED BY <1>1, <2>1 DEF CloneSummary, Positions
<1>2. ASSUME job' = [job EXCEPT ![t] = IdleJob]
      PROVE  job' \in [Tasks -> Job] /\ (job'["stream"].pc = "head" => job["stream"].pc = "head")
  BY <1>2 DEF IdleJob, Tasks
<1>3. CASE Commit(t)
  <2>1. job[t] \in Job
    OBVIOUS
  <2>2. rows' \in Rows /\ summary' \in SeqTrack
    BY <1>3, <2>1 DEF Commit, Rows, Job
  <2>3. QED BY <1>2, <1>3, <2>2 DEF Commit, Positions
<1>4. CASE CommitFails(t)
  BY <1>2, <1>4 DEF CommitFails, Positions
<1>5. QED BY <1>1, <1>3, <1>4

\* The sweep finds the id of a block.
LEMMA ReconcileTypeInv == TypeInv /\ Reconcile => TypeInv'
<1> SUFFICES ASSUME TypeInv, Reconcile PROVE TypeInv'
  OBVIOUS
<1> USE Bounds, RowTypes DEF TypeInv, TypeOK, L1TypeOK, l1vars, durable
<1>1. CASE SweepStart
  BY <1>1 DEF SweepStart, Sweep, Positions
<1>2. CASE SweepQuery
  BY <1>2 DEF SweepQuery, Sweep, Positions
<1>20. CASE SweepQueryFails
  BY <1>20 DEF SweepQueryFails, Sweep, Positions
<1>3. CASE SweepApply
  <2>0. track.finalized \in Ids /\ track.latest \in Ids /\ sweep.found \in Ids /\ 0 \in Ids
    BY DEF SeqTrack, Sweep, Ids
  <2>10. SweepTarget \in Ids
    BY <2>0 DEF SweepTarget, Maximum
  <2>1. SweepTarget \in Ids /\ track' \in SeqTrack
    BY <1>3, <2>10 DEF SweepApply, SeqTrack
  <2>2. job' \in [Tasks -> Job] /\ job'["stream"] = job["stream"]
    BY <1>3, <2>1 DEF SweepApply, Job, Tasks
  <2>3. sweep' \in Sweep
    BY <1>3 DEF SweepApply, Sweep
  <2>4. QED BY <1>3, <2>1, <2>2, <2>3 DEF SweepApply, Positions
<1>4. QED BY <1>1, <1>2, <1>20, <1>3 DEF Reconcile

\* Every variable keeps its type, and no cursor runs past what it reads: lib
\* past the chain, the explorer's lib past the node's, the walk past lib.
THEOREM TypeCorrect == Spec => []TypeInv
<1>1. TypeInv /\ RefreshInfo => TypeInv'
  BY DEF RefreshInfo, TypeInv, TypeOK, Positions, l1vars, durable, L1TypeOK
<1>2. TypeInv /\ Crash => TypeInv'
  <2> SUFFICES ASSUME TypeInv, Crash PROVE TypeInv'
    OBVIOUS
  <2> USE Bounds, RowTypes DEF Crash, TypeInv, l1vars, durable, Unstarted, Finished
  <2>1. job' \in [Tasks -> Job] /\ job'["stream"].pc = "idle"
    BY DEF Tasks
  <2>10. view' \in BOOLEAN
    BY Zenon
  <2>11. libSlot' \in 0..MaxSlot /\ streamPos' \in 0..MaxSlot /\ seedPos' \in 0..Finished
         /\ crashes' \in 0..MaxCrashes
    BY DEF TypeOK, L1TypeOK
  <2>2. TypeOK'
    BY <2>1, <2>10, <2>11 DEF TypeOK, L1TypeOK
  <2>3. Positions'
    BY <2>1 DEF Positions, TypeOK, L1TypeOK
  <2>4. QED BY <2>2, <2>3
<1>3. TypeInv /\ UNCHANGED vars => TypeInv'
  BY DEF TypeInv, TypeOK, Positions, L1TypeOK, vars, l1vars, memory, durable
<1>4. TypeInv /\ [Next]_vars => TypeInv'
  BY <1>1, <1>2, <1>3, L1StepTypeInv, StreamTypeInv, SeedTypeInv, RpcTypeInv,
     PersistTypeInv, ReconcileTypeInv
  DEF Next
<1>5. QED BY InitTypeInv, <1>4, PTL DEF Spec

--------------------------------------------------------------------------------
(* Evidence *)

\* A smaller id is evidenced where a larger one is, and at later slots.
LEMMA OnL1ByWeaker ==
  ASSUME NEW n \in Nat, NEW m \in Nat, NEW j \in Nat, NEW k \in Nat,
         m <= n, j <= k, k <= Len(chain), L1TypeOK, OnL1By(n, j)
  PROVE  OnL1By(m, k)
<1>1. CASE n = 0
  BY <1>1 DEF OnL1By
<1>2. CASE n # 0
  <2>1. PICK s \in 1..j : chain[s].block >= n
    BY <1>2 DEF OnL1By
  <2>2. s \in 1..k /\ s \in 1..Len(chain)
    OBVIOUS
  <2>3. chain[s].block >= m
    BY <2>1, <2>2, ChainEntry, Bounds DEF Ids
  <2>4. QED BY <2>2, <2>3 DEF OnL1By
<1>3. QED BY <1>1, <1>2

\* Of two evidenced ids the larger one is evidenced.
LEMMA OnL1ByMaximum ==
  ASSUME NEW n \in Nat, NEW m \in Nat, NEW k, OnL1By(n, k), OnL1By(m, k)
  PROVE  OnL1By(Maximum(n, m), k)
  BY DEF Maximum

\* A block read off the chain at or before the slot it is noted with leaves the
\* marks of a track backed by the chain.
LEMMA SeenIsEvidenced ==
  ASSUME TypeInv, NEW t \in SeqTrack, Evidenced(t), NEW f \in BOOLEAN,
         NEW s \in 1..Len(chain), NEW slot \in Nat, s <= slot
  PROVE  Evidenced(SeenOnL1(t, chain[s].block, f, slot, libSlot))
<1> DEFINE b == chain[s].block
           u == SeenOnL1(t, b, f, slot, libSlot)
<1>1. L1TypeOK /\ b \in Ids /\ b \in Nat /\ lib \in Nat /\ libSlot \in Nat /\ Len(chain) \in Nat
      /\ libSlot <= lib /\ lib <= Len(chain)
  BY ChainEntry, Bounds DEF TypeInv, TypeOK, Positions, Ids
<1>2. t.l1Safe \in Nat /\ t.l1Final \in Nat
  BY Bounds DEF SeqTrack, Ids
<1>3. /\ u.l1Safe = Maximum(t.l1Safe, b)
      /\ u.l1Final = IF slot <= libSlot THEN Maximum(t.l1Final, b) ELSE t.l1Final
  BY DEF SeenOnL1, Observe, NoteL1Settled, RaiseFinality, SeqTrack
<1>4. OnL1By(b, Len(chain)) /\ (slot <= libSlot => OnL1By(b, lib))
  BY <1>1 DEF OnL1By
<1>5. OnL1By(u.l1Safe, Len(chain))
  BY <1>1, <1>2, <1>3, <1>4, OnL1ByMaximum DEF Evidenced
<1>6. OnL1By(u.l1Final, lib)
  BY <1>1, <1>2, <1>3, <1>4, OnL1ByMaximum DEF Evidenced
<1>7. QED BY <1>5, <1>6 DEF Evidenced

\* What was evidenced before the chain or lib grew still is.
LEMMA EvidenceGrows ==
  ASSUME TypeInv, L1Step, NEW t \in SeqTrack, Evidenced(t)
  PROVE  OnL1By(t.l1Final, lib)' /\ OnL1By(t.l1Safe, Len(chain))'
<1> USE Bounds DEF TypeInv, TypeOK, L1TypeOK, OnL1By
<1>1. lib \in Nat /\ Len(chain) \in Nat /\ lib <= Len(chain)
  BY DEF Positions
<1>2. CASE AdvanceLib
  BY <1>1, <1>2 DEF AdvanceLib, Evidenced
<1>3. ASSUME NEW b \in Ids, Mint(b)
      PROVE  OnL1By(t.l1Final, lib)' /\ OnL1By(t.l1Safe, Len(chain))'
  <2>1. [block |-> b, lib |-> lib] \in L1Block
    BY DEF L1Block, Ids
  <2>2. /\ Len(chain') = Len(chain) + 1 /\ lib' = lib
        /\ \A s \in 1..Len(chain) : chain'[s] = chain[s]
    BY <1>3, <2>1 DEF Mint
  <2>3. QED BY <1>1, <2>2 DEF Evidenced
<1>4. QED BY <1>2, <1>3 DEF L1Step

\* A step that leaves the chain alone keeps the invariant if every copy of the
\* track it writes carries marks that were evidenced before.
LEMMA CopiesEvidenced ==
  ASSUME UNCHANGED l1vars, Evidenced(track'), Evidenced(summary'),
         \A t \in Tasks : Evidenced(job'[t].sum)
  PROVE  EvidenceInv'
  BY DEF EvidenceInv, Evidenced, OnL1By, l1vars

\* What the invariants say of the track in memory.
LEMMA TrackEvidenced == TypeInv /\ EvidenceInv => track \in SeqTrack /\ Evidenced(track)
  BY DEF TypeInv, TypeOK, EvidenceInv

\* A task that replaces its job by one with an evidenced summary.
LEMMA JobEvidence ==
  ASSUME TypeInv, EvidenceInv, NEW task \in Tasks, NEW j, Evidenced(j.sum),
         job' = [job EXCEPT ![task] = j]
  PROVE  \A t \in Tasks : Evidenced(job'[t].sum)
  BY DEF TypeInv, TypeOK, EvidenceInv

\* What SeenIsEvidenced says of the track in memory.
LEMMA SeenByTrack ==
  TypeInv /\ EvidenceInv =>
    \A f \in BOOLEAN : \A s \in 1..Len(chain) : \A slot \in Nat :
      s <= slot => Evidenced(SeenOnL1(track, chain[s].block, f, slot, libSlot))
  BY SeenIsEvidenced, TrackEvidenced

\* An event notes a block with its own slot.
LEMMA StreamEvidence == TypeInv /\ EvidenceInv /\ Stream => EvidenceInv'
<1> SUFFICES ASSUME TypeInv, EvidenceInv, Stream PROVE EvidenceInv'
  OBVIOUS
<1>1. Evidenced(NewTrack) /\ Evidenced(IdleJob.sum)
  BY RowTypes DEF Evidenced, OnL1By, NewTrack
<1>2. CASE EventHead
  <2>1. \A t \in Tasks : Evidenced(job'[t].sum)
    BY <1>2 DEF EventHead, TypeInv, TypeOK, EvidenceInv
  <2>2. QED BY <1>2, <2>1, CopiesEvidenced DEF EventHead, EvidenceInv, durable
<1>3. CASE EventBlock
  <2> DEFINE b == chain[streamPos].block
  <2>1. streamPos \in 1..Len(chain) /\ streamPos \in Nat /\ streamPos <= streamPos
    BY <1>3, ChainEntry, Bounds DEF EventBlock, Positions, TypeInv, TypeOK
  <2>2. Evidenced(SeenOnL1(track, b, streamPos <= libSlot, streamPos, libSlot))
    <3>1. CASE streamPos <= libSlot
      <4>1. (streamPos <= libSlot) = TRUE
        BY <3>1
      <4>2. Evidenced(SeenOnL1(track, b, TRUE, streamPos, libSlot))
        BY <2>1, SeenByTrack
      <4>3. QED BY <4>1, <4>2
    <3>2. CASE ~(streamPos <= libSlot)
      <4>1. (streamPos <= libSlot) = FALSE
        BY <3>2
      <4>2. Evidenced(SeenOnL1(track, b, FALSE, streamPos, libSlot))
        BY <2>1, SeenByTrack
      <4>3. QED BY <4>1, <4>2
    <3>3. QED BY <3>1, <3>2
  <2>3. Evidenced(track')
    BY <1>3, <2>2 DEF EventBlock, EvidenceInv
  <2>4. \E j : Evidenced(j.sum) /\ job' = [job EXCEPT !["stream"] = j]
    BY <1>1, <1>3 DEF EventBlock, Gathered
  <2>5. \A t \in Tasks : Evidenced(job'[t].sum)
    BY <2>4, JobEvidence DEF Tasks
  <2>6. QED BY <1>3, <2>3, <2>5, CopiesEvidenced DEF EventBlock, EvidenceInv, durable
<1>4. CASE EventWithoutBlock
  <2>1. \A t \in Tasks : Evidenced(job'[t].sum)
    BY <1>1, <1>4, JobEvidence DEF EventWithoutBlock, Tasks
  <2>2. QED BY <1>4, <2>1, CopiesEvidenced DEF EventWithoutBlock, EvidenceInv, durable
<1>5. CASE StreamReconnect
  BY <1>5, CopiesEvidenced DEF StreamReconnect, EvidenceInv, durable
<1>6. QED BY <1>2, <1>3, <1>4, <1>5 DEF Stream

\* A walk over history notes blocks at or below lib.
LEMMA SeedEvidence == TypeInv /\ EvidenceInv /\ Seed => EvidenceInv'
<1> SUFFICES ASSUME TypeInv, EvidenceInv, Seed PROVE EvidenceInv'
  OBVIOUS
<1>1. Evidenced(NewTrack)
  BY DEF Evidenced, OnL1By, NewTrack
<1>2. CASE BackfillStart
  BY <1>2, CopiesEvidenced DEF BackfillStart, EvidenceInv, durable
<1>20. CASE BackfillTail
  <2> DEFINE j == [pc |-> "cloned", recs |-> NoRows, sum |-> track]
  <2>1. Evidenced(j.sum) /\ job' = [job EXCEPT !["seed"] = j]
    BY <1>20, TrackEvidenced DEF BackfillTail
  <2>2. \A t \in Tasks : Evidenced(job'[t].sum)
    BY <2>1, JobEvidence DEF Tasks
  <2>3. QED BY <1>20, <2>2, CopiesEvidenced DEF BackfillTail, EvidenceInv, durable
<1>3. ASSUME NEW fetched \in BOOLEAN, BackfillChunk(fetched) PROVE EvidenceInv'
  <2> DEFINE settled == SeenOnL1(track, chain[seedPos].block, TRUE, seedPos, libSlot)
  <2>1. seedPos \in 1..Len(chain) /\ seedPos \in Nat /\ seedPos <= seedPos
    BY <1>3, ChainEntry, Bounds
    DEF BackfillChunk, Positions, Unstarted, TypeInv, TypeOK, L1TypeOK
  <2>2. Evidenced(settled)
    BY <2>1, SeenByTrack
  <2>3. Evidenced(track')
    BY <1>3, <2>2 DEF BackfillChunk, EvidenceInv
  <2>4. CASE job' = job
    BY <1>3, <2>3, <2>4, CopiesEvidenced DEF BackfillChunk, EvidenceInv, durable
  <2>5. ASSUME NEW j, Evidenced(j.sum), job' = [job EXCEPT !["seed"] = j]
        PROVE  EvidenceInv'
    <3>1. \A t \in Tasks : Evidenced(job'[t].sum)
      BY <2>5, JobEvidence DEF Tasks
    <3>2. QED BY <1>3, <2>3, <3>1, CopiesEvidenced DEF BackfillChunk, EvidenceInv, durable
  <2>6. job' = job \/ \E j : Evidenced(j.sum) /\ job' = [job EXCEPT !["seed"] = j]
    BY <1>3, <2>2 DEF BackfillChunk
  <2>7. QED BY <2>4, <2>5, <2>6
<1>4. ASSUME NEW S \in SUBSET (1..lib), Discover(S) PROVE EvidenceInv'
  <2>1. \A s \in S : s \in 1..Len(chain) /\ s \in Nat
    BY ChainEntry DEF Positions, TypeInv, TypeOK, L1TypeOK
  <2>2. \A top, last \in S : top <= last =>
          Evidenced(SeenOnL1(track, chain[top].block, TRUE, last, libSlot))
    BY <2>1, SeenByTrack
  <2>3. Evidenced(track')
    BY <1>4, <2>1, <2>2 DEF Discover, EvidenceInv
  <2>4. CASE job' = job
    BY <1>4, <2>3, <2>4, CopiesEvidenced DEF Discover, EvidenceInv, durable
  <2>5. ASSUME NEW recs \in Rows, job' = [job EXCEPT !["seed"] = Gathered(recs)]
        PROVE  EvidenceInv'
    <3>1. Evidenced(Gathered(recs).sum)
      BY <1>1 DEF Gathered
    <3>2. \A t \in Tasks : Evidenced(job'[t].sum)
      BY <2>5, <3>1, JobEvidence DEF Tasks
    <3>3. QED BY <1>4, <2>3, <3>2, CopiesEvidenced DEF Discover, EvidenceInv, durable
  <2>6. QED BY <1>4, <2>4, <2>5 DEF Discover
<1>5. QED BY <1>2, <1>20, <1>3, <1>4 DEF Seed, Backfill

\* The sequencer's word leaves the L1 marks alone.
LEMMA RpcEvidence == TypeInv /\ EvidenceInv /\ Rpc => EvidenceInv'
<1> SUFFICES ASSUME TypeInv, EvidenceInv, NEW b \in Blocks, NEW f \in BedrockFinal, RpcChunk(b, f)
             PROVE  EvidenceInv'
  BY DEF Rpc
<1>1. Evidenced(NewTrack)
  BY DEF Evidenced, OnL1By, NewTrack
<1>2. track' = Observe(RaiseFinality(Ingest(track, b, f), b, FALSE), b)
  BY DEF RpcChunk
<1>3. track'.l1Safe = track.l1Safe /\ track'.l1Final = track.l1Final
  BY <1>2 DEF Observe, RaiseFinality, Ingest, TypeInv, TypeOK, SeqTrack
<1>4. \A t \in Tasks : Evidenced(job'[t].sum)
  BY <1>1 DEF RpcChunk, Gathered, Tasks, EvidenceInv, TypeInv, TypeOK
<1>5. QED BY <1>3, <1>4, CopiesEvidenced DEF RpcChunk, EvidenceInv, Evidenced, durable

\* A commit copies marks that were evidenced before.
LEMMA PersistEvidence == TypeInv /\ EvidenceInv /\ Persist => EvidenceInv'
<1> SUFFICES ASSUME TypeInv, EvidenceInv, NEW t \in Tasks,
                    CloneSummary(t) \/ Commit(t) \/ CommitFails(t)
             PROVE  EvidenceInv'
  BY DEF Persist
<1>1. Evidenced(NewTrack)
  BY DEF Evidenced, OnL1By, NewTrack
<1> USE <1>1, RowTypes, CopiesEvidenced DEF TypeInv, TypeOK, EvidenceInv, durable
<1>2. CASE CloneSummary(t)
  BY <1>2 DEF CloneSummary
<1>3. CASE Commit(t)
  BY <1>3 DEF Commit
<1>4. CASE CommitFails(t)
  BY <1>4 DEF CommitFails
<1>5. QED BY <1>2, <1>3, <1>4

\* The sweep leaves the L1 marks alone.
LEMMA ReconcileEvidence == TypeInv /\ EvidenceInv /\ Reconcile => EvidenceInv'
<1> SUFFICES ASSUME TypeInv, EvidenceInv, Reconcile PROVE EvidenceInv'
  OBVIOUS
<1> USE CopiesEvidenced DEF TypeInv, TypeOK, EvidenceInv, durable
<1>1. CASE SweepStart
  BY <1>1 DEF SweepStart
<1>2. CASE SweepQuery
  BY <1>2 DEF SweepQuery
<1>20. CASE SweepQueryFails
  BY <1>20 DEF SweepQueryFails
<1>3. CASE SweepApply
  <2>1. track'.l1Safe = track.l1Safe /\ track'.l1Final = track.l1Final
    BY <1>3 DEF SweepApply, SeqTrack
  <2>2. Evidenced(track')
    BY <2>1 DEF Evidenced
  <2>3. \A t \in Tasks : Evidenced(job'[t].sum)
    BY <1>3, <2>2 DEF SweepApply
  <2>4. QED BY <1>3, <2>2, <2>3 DEF SweepApply
<1>4. QED BY <1>1, <1>2, <1>20, <1>3 DEF Reconcile

\* The L1 marks of the track are backed by the chain in every copy of the track:
\* in memory, in the store, and in each job on its way to the store.
THEOREM Evidence == Spec => []EvidenceInv
<1>1. Init => EvidenceInv
  BY RowTypes DEF Init, EvidenceInv, Evidenced, OnL1By, NewTrack
<1>2. TypeInv /\ EvidenceInv /\ L1Step => EvidenceInv'
  <2> SUFFICES ASSUME TypeInv, EvidenceInv, L1Step PROVE EvidenceInv'
    OBVIOUS
  <2>1. UNCHANGED <<track, summary, job>>
    BY DEF L1Step, memory, durable
  <2>2. track \in SeqTrack /\ summary \in SeqTrack /\ \A t \in Tasks : job[t].sum \in SeqTrack
    BY DEF TypeInv, TypeOK, Job
  <2>3. \A t \in SeqTrack : Evidenced(t) => OnL1By(t.l1Final, lib)' /\ OnL1By(t.l1Safe, Len(chain))'
    BY EvidenceGrows
  <2>4. QED BY <2>1, <2>2, <2>3 DEF EvidenceInv, Evidenced
<1>3. TypeInv /\ EvidenceInv /\ RefreshInfo => EvidenceInv'
  BY CopiesEvidenced DEF RefreshInfo, EvidenceInv, durable
<1>4. TypeInv /\ EvidenceInv /\ Crash => EvidenceInv'
  <2> SUFFICES ASSUME TypeInv, EvidenceInv, Crash PROVE EvidenceInv'
    OBVIOUS
  <2>1. Evidenced(NewTrack)
    BY DEF Evidenced, OnL1By, NewTrack
  <2>2. \A t \in Tasks : Evidenced(job'[t].sum)
    BY <2>1, RowTypes DEF Crash
  <2>3. QED BY <2>2, CopiesEvidenced DEF Crash, EvidenceInv, durable
<1>5. EvidenceInv /\ UNCHANGED vars => EvidenceInv'
  BY CopiesEvidenced DEF EvidenceInv, vars, memory, durable
<1>6. TypeInv /\ EvidenceInv /\ [Next]_vars => EvidenceInv'
  BY <1>2, <1>3, <1>4, <1>5, StreamEvidence, SeedEvidence, RpcEvidence,
     PersistEvidence, ReconcileEvidence
  DEF Next
<1>7. QED BY <1>1, <1>6, TypeCorrect, PTL DEF Spec

--------------------------------------------------------------------------------
(* What the snapshot reports *)

\* The reported thresholds never exceed the L1 marks once an L1 block was read.
LEMMA ReportIsEvidenced == TypeInv /\ EvidenceInv => FinalEvidenced /\ SafeEvidenced
<1> SUFFICES ASSUME TypeInv, EvidenceInv, view
             PROVE  OnL1By(ReportedFinal, lib) /\ OnL1By(ReportedSafe, Len(chain))
  BY DEF FinalEvidenced, SafeEvidenced
<1>1. /\ track.finalized \in Nat /\ track.safe \in Nat
      /\ track.l1Safe \in Nat /\ track.l1Final \in Nat
  BY Bounds DEF TypeInv, TypeOK, SeqTrack, Ids
<1>2. L1TypeOK /\ lib \in Nat /\ Len(chain) \in Nat /\ lib <= Len(chain)
  BY ChainEntry DEF TypeInv, TypeOK, Positions
<1>3. ReportedFinal \in Nat /\ ReportedFinal <= track.l1Final
  BY <1>1 DEF ReportedFinal, Minimum
<1>4. OnL1By(ReportedFinal, lib) /\ OnL1By(ReportedFinal, Len(chain))
  BY <1>1, <1>2, <1>3, OnL1ByWeaker DEF EvidenceInv, Evidenced
<1>5. Minimum(track.safe, track.l1Safe) \in Nat /\ Minimum(track.safe, track.l1Safe) <= track.l1Safe
  BY <1>1 DEF Minimum
<1>6. OnL1By(Minimum(track.safe, track.l1Safe), Len(chain))
  BY <1>1, <1>2, <1>5, OnL1ByWeaker DEF EvidenceInv, Evidenced
<1>7. OnL1By(ReportedSafe, Len(chain))
  BY <1>3, <1>4, <1>5, <1>6, OnL1ByMaximum DEF ReportedSafe
<1>8. QED BY <1>4, <1>7

\* Once an L1 block has been read, a block reported final is inscribed, or a
\* later one is, at or below the last irreversible slot.
THEOREM FinalIsEvidenced == Spec => []FinalEvidenced
<1>1. QED BY ReportIsEvidenced, TypeCorrect, Evidence, PTL

\* Once an L1 block has been read, a block reported "on L1" is inscribed, or a
\* later one is.
THEOREM SafeIsEvidenced == Spec => []SafeEvidenced
<1>1. QED BY ReportIsEvidenced, TypeCorrect, Evidence, PTL

\* Once an L1 block has been read, whatever is reported of a block, settled or on
\* L1, the L1 has shown of it or of a later one.
THEOREM ReportHasEvidence == Spec => []ReportEvidenced
<1>1. FinalEvidenced /\ SafeEvidenced => ReportEvidenced
  BY DEF ReportEvidenced
<1>2. QED BY <1>1, FinalIsEvidenced, SafeIsEvidenced, PTL

--------------------------------------------------------------------------------
(* Thresholds only rise *)

\* Every threshold of u is at least that of t.
AtLeast(u, t) ==
  /\ u.latest >= t.latest /\ u.finalized >= t.finalized /\ u.safe >= t.safe
  /\ u.l1Safe >= t.l1Safe /\ u.l1Final >= t.l1Final

\* What a task does to a SeqTrack lowers none of its thresholds.
LEMMA OperationsRaise ==
  ASSUME NEW t \in SeqTrack, NEW b \in Ids
  PROVE  /\ AtLeast(Observe(t, b), t)
         /\ \A f \in BOOLEAN : AtLeast(RaiseFinality(t, b, f), t) /\ AtLeast(Ingest(t, b, f), t)
         /\ \A slot, libNow : AtLeast(NoteL1Settled(t, b, slot, libNow), t)
<1>1. /\ t.latest \in Nat /\ t.finalized \in Nat /\ t.safe \in Nat
      /\ t.l1Safe \in Nat /\ t.l1Final \in Nat /\ b \in Nat
  BY Bounds DEF SeqTrack, Ids
<1>2. \A m, n \in Nat : Maximum(m, n) >= m /\ m >= m
  BY DEF Maximum
<1>3. AtLeast(Observe(t, b), t)
  BY <1>1, <1>2 DEF AtLeast, Observe, SeqTrack
<1>4. \A f \in BOOLEAN : AtLeast(RaiseFinality(t, b, f), t)
  BY <1>1, <1>2 DEF AtLeast, RaiseFinality, SeqTrack
<1>5. \A f \in BOOLEAN : AtLeast(Ingest(t, b, f), t)
  BY <1>1, <1>2 DEF AtLeast, Ingest, SeqTrack
<1>6. \A slot, libNow : AtLeast(NoteL1Settled(t, b, slot, libNow), t)
  BY <1>1, <1>2 DEF AtLeast, NoteL1Settled, SeqTrack
<1>7. QED BY <1>3, <1>4, <1>5, <1>6

\* Raising twice is raising, and doing nothing lowers nothing.
LEMMA AtLeastOrder ==
  /\ \A t \in SeqTrack : AtLeast(t, t)
  /\ \A t, u, v \in SeqTrack : AtLeast(u, t) /\ AtLeast(v, u) => AtLeast(v, t)
  BY Bounds DEF AtLeast, SeqTrack, Ids

\* A zone block read off the L1 lowers nothing, nor does one the sequencer sent.
LEMMA ReadsRaise ==
  ASSUME NEW t \in SeqTrack, NEW b \in Ids, NEW f \in BOOLEAN
  PROVE  /\ \A slot, libNow : AtLeast(SeenOnL1(t, b, f, slot, libNow), t)
         /\ AtLeast(Observe(RaiseFinality(Ingest(t, b, f), b, FALSE), b), t)
<1>1. ASSUME NEW slot, NEW libNow PROVE AtLeast(SeenOnL1(t, b, f, slot, libNow), t)
  <2> DEFINE u == RaiseFinality(t, b, f)
             v == NoteL1Settled(u, b, slot, libNow)
  <2>1. u \in SeqTrack /\ AtLeast(u, t)
    BY TrackOperations, OperationsRaise
  <2>2. v \in SeqTrack /\ AtLeast(v, u)
    BY <2>1, TrackOperations, OperationsRaise
  <2>3. Observe(v, b) \in SeqTrack /\ AtLeast(Observe(v, b), v)
    BY <2>2, TrackOperations, OperationsRaise
  <2>4. SeenOnL1(t, b, f, slot, libNow) = Observe(v, b)
    BY DEF SeenOnL1
  <2> HIDE DEF u, v
  <2>5. QED BY <2>1, <2>2, <2>3, <2>4, AtLeastOrder
<1>2. AtLeast(Observe(RaiseFinality(Ingest(t, b, f), b, FALSE), b), t)
  <2> DEFINE u == Ingest(t, b, f)
             v == RaiseFinality(u, b, FALSE)
  <2>1. u \in SeqTrack /\ AtLeast(u, t)
    BY TrackOperations, OperationsRaise
  <2>2. v \in SeqTrack /\ AtLeast(v, u)
    BY <2>1, TrackOperations, OperationsRaise
  <2>3. Observe(v, b) \in SeqTrack /\ AtLeast(Observe(v, b), v)
    BY <2>2, TrackOperations, OperationsRaise
  <2> HIDE DEF u, v
  <2>4. AtLeast(Observe(v, b), t)
    BY <2>1, <2>2, <2>3, AtLeastOrder
  <2>5. QED BY <2>4 DEF u, v
<1>3. QED BY <1>1, <1>2

\* The reconciler moves finalized alone, and lowers it only from above latest.
LEMMA SweepRaises ==
  TypeInv /\ SweepApply =>
    /\ track'.safe = track.safe /\ track'.latest = track.latest
    /\ track'.l1Safe = track.l1Safe /\ track'.l1Final = track.l1Final
    /\ track.finalized <= track.latest => track'.finalized >= track.finalized
<1> SUFFICES ASSUME TypeInv, SweepApply
             PROVE  /\ track'.safe = track.safe /\ track'.latest = track.latest
                    /\ track'.l1Safe = track.l1Safe /\ track'.l1Final = track.l1Final
                    /\ track.finalized <= track.latest => track'.finalized >= track.finalized
  OBVIOUS
<1>1. track.finalized \in Nat /\ track.latest \in Nat /\ sweep.found \in Nat
  BY Bounds DEF TypeInv, TypeOK, SeqTrack, Sweep, Ids
<1>2. track.finalized <= track.latest => SweepTarget >= track.finalized
  BY <1>1 DEF SweepTarget, Maximum
<1>3. track' = [track EXCEPT !.finalized = SweepTarget] /\ track \in SeqTrack
  BY DEF SweepApply, TypeInv, TypeOK
<1>4. QED BY <1>2, <1>3 DEF SeqTrack

\* No task lowers a threshold of the running process, except the reconciler
\* when it finds the finalized id above the latest block; only a restart, which
\* takes the track back from the store, does.
THEOREM ThresholdsNeverLowered == Spec => NeverLowered
<1> DEFINE Raised ==
             crashes' = crashes =>
               /\ track'.safe >= track.safe
               /\ track'.latest >= track.latest
               /\ track'.l1Safe >= track.l1Safe
               /\ track'.l1Final >= track.l1Final
               /\ track.finalized <= track.latest => track'.finalized >= track.finalized
<1>1. TypeInv /\ AtLeast(track', track) => Raised
  BY DEF AtLeast
<1>2. TypeInv /\ track' = track => Raised
  BY <1>1, AtLeastOrder DEF TypeInv, TypeOK
<1>3. TypeInv /\ Stream => Raised
  <2> SUFFICES ASSUME TypeInv, Stream PROVE Raised
    OBVIOUS
  <2>1. CASE EventHead \/ EventWithoutBlock \/ StreamReconnect
    BY <1>2, <2>1 DEF EventHead, EventWithoutBlock, StreamReconnect
  <2>2. CASE EventBlock
    <3> DEFINE b == chain[streamPos].block
    <3>1. b \in Ids /\ (streamPos <= libSlot) \in BOOLEAN
      BY <2>2, ChainEntry DEF EventBlock, Positions, TypeInv, TypeOK
    <3>2. AtLeast(SeenOnL1(track, b, streamPos <= libSlot, streamPos, libSlot), track)
      BY <3>1, ReadsRaise DEF TypeInv, TypeOK
    <3>3. track' = track \/ AtLeast(track', track)
      BY <2>2, <3>2 DEF EventBlock
    <3>4. QED BY <1>1, <1>2, <3>3
  <2>3. QED BY <2>1, <2>2 DEF Stream
<1>4. TypeInv /\ Seed => Raised
  <2> SUFFICES ASSUME TypeInv, Seed PROVE Raised
    OBVIOUS
  <2>1. CASE BackfillStart \/ BackfillTail
    BY <1>2, <2>1 DEF BackfillStart, BackfillTail
  <2>2. ASSUME NEW fetched \in BOOLEAN, BackfillChunk(fetched) PROVE Raised
    <3> DEFINE b == chain[seedPos].block
    <3>0. seedPos \in 1..Len(chain)
      BY <2>2, ChainEntry, Bounds
      DEF BackfillChunk, Positions, Unstarted, TypeInv, TypeOK, L1TypeOK
    <3>1. b \in Ids
      BY <3>0, ChainEntry DEF TypeInv, TypeOK
    <3>2. AtLeast(SeenOnL1(track, b, TRUE, seedPos, libSlot), track)
      BY <3>1, ReadsRaise DEF TypeInv, TypeOK
    <3>3. track' = track \/ AtLeast(track', track)
      BY <2>2, <3>2 DEF BackfillChunk
    <3>4. QED BY <1>1, <1>2, <3>3
  <2>3. ASSUME NEW S \in SUBSET (1..lib), Discover(S) PROVE Raised
    <3>1. \A s \in S : chain[s].block \in Ids
      BY ChainEntry DEF Positions, TypeInv, TypeOK
    <3>2. \A s, last \in S : AtLeast(SeenOnL1(track, chain[s].block, TRUE, last, libSlot), track)
      BY <3>1, ReadsRaise DEF TypeInv, TypeOK
    <3>3. track' = track \/ AtLeast(track', track)
      BY <2>3, <3>2 DEF Discover
    <3>4. QED BY <1>1, <1>2, <3>3
  <2>4. QED BY <2>1, <2>2, <2>3 DEF Seed, Backfill
<1>5. TypeInv /\ Rpc => Raised
  <2> SUFFICES ASSUME TypeInv, NEW b \in Blocks, NEW f \in BedrockFinal, RpcChunk(b, f)
               PROVE  Raised
    BY DEF Rpc
  <2>1. AtLeast(Observe(RaiseFinality(Ingest(track, b, f), b, FALSE), b), track)
    BY ReadsRaise, Bounds, ConfigAssumption DEF TypeInv, TypeOK
  <2>2. QED BY <1>1, <2>1 DEF RpcChunk
<1>6. TypeInv /\ Persist => Raised
  BY <1>2 DEF Persist, CloneSummary, Commit, CommitFails
<1>7. TypeInv /\ Reconcile => Raised
  <2>1. TypeInv /\ SweepApply => Raised
    BY SweepRaises DEF TypeInv, TypeOK, SeqTrack, Ids
  <2>2. QED BY <1>2, <2>1 DEF Reconcile, SweepStart, SweepQuery, SweepQueryFails
<1>8. TypeInv /\ Crash => Raised
  BY DEF Crash, TypeInv, TypeOK
<1>9. TypeInv /\ (L1Step \/ RefreshInfo \/ UNCHANGED vars) => Raised
  BY <1>2 DEF L1Step, RefreshInfo, vars, memory
<1>10. TypeInv /\ [Next]_vars => [Raised]_track
  BY <1>3, <1>4, <1>5, <1>6, <1>7, <1>8, <1>9 DEF Next
<1>11. QED BY <1>10, TypeCorrect, PTL DEF Spec, NeverLowered

================================================================================
