----------------------------- MODULE BackfillProofs -----------------------------
(* Theorems about Backfill, for every value of its constants. *)
EXTENDS Backfill, TLAPS

\* The assumptions on the constants, as the proofs use them.
LEMMA Constants ==
  /\ MaxSlot \in Nat /\ Recent \in Nat /\ Chunk \in Nat /\ IdleLimit \in Nat
  /\ IdleLimit >= 1 /\ MaxRestarts \in Nat
  /\ \A s \in Slots : s \in Nat /\ s # None /\ s \in Marks
  /\ None \in Marks /\ None \in Nat
  /\ \A m \in Marks : m \in Nat /\ (m # None => m \in Slots)
  BY BackfillAssumption DEF Slots, None, Marks

\* A fresh pass, no job and the empty batch have their types.
LEMMA NewTypes == NewPass \in Pass /\ NoJob \in Job /\ LateJob \in Job /\ NoBatch \in Batches
<1>1. NoBatch \in Batches /\ [c \in Channels |-> 0] \in [Channels -> 0..IdleLimit]
  BY Constants DEF NoBatch, Batches
<1>2. 0 \in Slots /\ None \in Marks
  BY Constants DEF Slots
<1>3. QED BY <1>1, <1>2 DEF NewPass, Pass, NoJob, LateJob, Job

\* A chunk, and the marks around it, have their types.
LEMMA ChunkTypes ==
  ASSUME TypeOK
  PROVE  /\ Larger(Minus(pass.hi, Chunk), pass.lo) \in Slots
         /\ NewTop(pass) \in Marks
         /\ pass.top \in Slots \cup {None} /\ pass.lib \in Slots
         /\ \A c \in Channels : Idle(c) \in 0..IdleLimit
<1>1. /\ pass.hi \in Slots /\ pass.lo \in Slots /\ pass.lib \in Slots /\ pass.top \in Marks
      /\ \A c \in Channels : pass.idle[c] \in 0..IdleLimit
  BY DEF TypeOK, Pass
<1>2. Larger(Minus(pass.hi, Chunk), pass.lo) \in Slots
  BY <1>1, Constants DEF Larger, Minus, Slots
<1>3. NewTop(pass) \in Marks
  BY <1>1, Constants DEF NewTop, Larger
<1>4. \A c \in Channels : Idle(c) \in 0..IdleLimit
  BY <1>1, Constants DEF Idle, Smaller
<1>5. QED BY <1>1, <1>2, <1>3, <1>4 DEF Marks

\* A step of the pass keeps every type.
LEMMA WalkType == TypeOK /\ Walk => TypeOK'
<1> SUFFICES ASSUME TypeOK, Walk PROVE TypeOK'
  OBVIOUS
<1> USE Constants, NewTypes DEF TypeOK, store, node
<1>1. CASE Start
  <2> DEFINE p == [NewPass EXCEPT !.lib = lib, !.top = top, !.floor = floor,
                                  !.done = done, !.targets = Targets]
  <2>1. Targets \in SUBSET Channels
    BY DEF Targets
  <2>2. p \in Pass
    BY <2>1 DEF Pass
  <2>3. CASE HasGap
    <3>1. GapLow \in Slots
      BY <2>3 DEF HasGap, GapLow, Smaller, Minus, Slots, Marks, None
    <3>2. [p EXCEPT !.pc = "fetch", !.hi = lib, !.lo = GapLow] \in Pass
      BY <2>2, <3>1 DEF Pass
    <3>3. QED BY <1>1, <2>3, <3>2 DEF Start
  <2>4. CASE ~HasGap
    <3>1. [p EXCEPT !.pc = "cursor"] \in Pass
      BY <2>2 DEF Pass
    <3>2. NewTop(p) \in Marks
      BY <2>2 DEF NewTop, Larger, Pass
    <3>3. SetTop(p) \in Job
      BY <3>2 DEF SetTop, Job
    <3>4. QED BY <1>1, <2>4, <3>1, <3>3 DEF Start
  <2>5. QED BY <1>1, <2>3, <2>4 DEF Start
<1>2. CASE GiveUp
  BY <1>2 DEF GiveUp, Pass
<1>3. ASSUME NEW fetched \in BOOLEAN, FetchChunk(fetched) PROVE TypeOK'
  <2> DEFINE from  == Larger(Minus(pass.hi, Chunk), pass.lo)
             batch == [c \in Channels |-> IF fetched THEN inscribed[c] \cap (from..pass.hi) ELSE {}]
             found == {c \in Channels : batch[c] # {}}
             gen   == {c \in found : \E s \in batch[c] : Genesis(c, s)}
  <2>1. from \in Slots
    BY ChunkTypes
  <2>2. batch \in Batches
    BY DEF Batches
  <2>3. found \in SUBSET Channels /\ gen \in SUBSET Channels
    OBVIOUS
  <2> HIDE DEF from, batch, found, gen
  <2>4. pass' = [pass EXCEPT !.pc = "folded", !.from = from, !.seen = found, !.genesis = @ \cup gen]
    BY <1>3 DEF FetchChunk, from, batch, found, gen
  <2>5. job' = [kind |-> "commit", batch |-> batch, mark |-> IF pass.walk = "deep" THEN from ELSE None]
    BY <1>3 DEF FetchChunk, from, batch, found, gen
  <2>6. pass' \in Pass
    BY <2>1, <2>3, <2>4 DEF Pass
  <2>7. job' \in Job
    BY <2>1, <2>2, <2>5 DEF Job
  <2>8. QED BY <1>3, <2>6, <2>7 DEF FetchChunk
<1>4. CASE NextChunk
  <2>1. pass.from - 1 \in Slots
    BY <1>4 DEF NextChunk, Pass, Slots
  <2>2. [c \in Channels |-> Idle(c)] \in [Channels -> 0..IdleLimit]
    BY ChunkTypes
  <2>3. pass' \in Pass
    BY <1>4, <2>1, <2>2 DEF NextChunk, Pass
  <2>4. QED BY <1>4, <2>3 DEF NextChunk
<1>5. CASE EndWalk
  <2>1. SetTop(pass) \in Job /\ [NoJob EXCEPT !.kind = "done"] \in Job
    BY ChunkTypes DEF SetTop, Job
  <2>2. pass' \in Pass
    BY <1>5 DEF EndWalk, Pass
  <2>3. QED BY <1>5, <2>1, <2>2 DEF EndWalk
<1>6. CASE DeepWalk
  <2>1. NewTop(pass) \in Slots /\ 0 \in Slots
    BY ChunkTypes DEF NewTop, Larger, Slots
  <2>2. pass' \in Pass
    BY <1>6, <2>1 DEF DeepWalk, Pass
  <2>3. QED BY <1>6, <2>2 DEF DeepWalk
<1>7. CASE Finish
  BY <1>7 DEF Finish, Pass
<1>8. QED BY <1>1, <1>2, <1>3, <1>4, <1>5, <1>6, <1>7 DEF Walk

\* So does a step of a store job.
LEMMA JobsType == TypeOK /\ Jobs => TypeOK'
<1> SUFFICES ASSUME TypeOK, Jobs PROVE TypeOK'
  OBVIOUS
<1> USE NewTypes, Constants DEF TypeOK, store, node
<1>1. ASSUME NEW j \in Job, Effect(j)
      PROVE  stored' \in Batches /\ floor' \in Marks /\ top' \in Marks /\ done' \in BOOLEAN
  <2>1. stored' \in Batches
    BY <1>1 DEF Effect, Job, Batches
  <2>2. floor' \in Marks /\ top' \in Marks
    BY <1>1 DEF Effect, Job
  <2>3. done' \in BOOLEAN
    BY <1>1 DEF Effect
  <2>4. QED BY <2>1, <2>2, <2>3
<1>2. \A j \in Job : After(j) \in Job
  BY DEF After, Job
<1>3. CASE RunJob
  BY <1>1, <1>2, <1>3 DEF RunJob
<1>4. CASE RunLeft
  BY <1>1, <1>2, <1>4 DEF RunLeft
<1>5. CASE JobFails
  BY <1>5 DEF JobFails
<1>6. CASE LateStart
  <2> DEFINE p == [NewPass EXCEPT !.lib = lib, !.top = top]
  <2>1. NewTop(p) \in Marks
    BY DEF NewTop, Larger, NewPass
  <2>2. SetTop(p) \in Job
    BY <2>1 DEF SetTop, Job
  <2>3. QED BY <1>6, <2>2 DEF LateStart
<1>7. QED BY <1>3, <1>4, <1>5, <1>6 DEF Jobs

LEMMA TypeOfInit == Init => TypeOK
<1> SUFFICES ASSUME Init PROVE TypeOK
  OBVIOUS
<1>1. done \in BOOLEAN
  BY Zenon DEF Init
<1>2. restarts \in 0..MaxRestarts /\ full \in SUBSET Channels
  BY Constants DEF Init
<1>3. QED BY <1>1, <1>2, Constants, NewTypes DEF Init, TypeOK

LEMMA TypeOfStep == TypeOK /\ [Next]_vars => TypeOK'
<1> SUFFICES ASSUME TypeOK, [Next]_vars PROVE TypeOK'
  OBVIOUS
<1>1. CASE Reconfigure
  BY <1>1, NewTypes, Constants DEF Reconfigure, TypeOK, node, store
<1>2. CASE Crash
  BY <1>2, NewTypes, Constants DEF Crash, TypeOK, node, store
<1>3. CASE AdvanceLib
  BY <1>3, Constants DEF AdvanceLib, TypeOK, store, Slots
<1>4. CASE UNCHANGED vars
  BY <1>4 DEF vars, node, store, TypeOK
<1>5. QED BY <1>1, <1>2, <1>3, <1>4, WalkType, JobsType DEF Next

\* Every variable of the walk keeps its type: no cursor and no bound of a walk
\* leaves the slots, however passes are cut short.
THEOREM BackfillTypes == Spec => []TypeOK
  BY TypeOfInit, TypeOfStep, PTL DEF Spec

--------------------------------------------------------------------------------
(* What lies between the cursors *)

\* What is stored, without the job that may hold some of it.
LEMMA StoredIs ==
  \A a, b : Stored(a, b) <=> \A c \in Channels : inscribed[c] \cap (a..b) \subseteq stored[c]
  BY DEF Stored, StoredBy, Held, NoJob

\* Adjacent ranges of stored slots join.
LEMMA StoredJoin ==
  ASSUME NEW j, NEW a \in Nat, NEW b \in Nat, NEW k \in Nat, NEW m \in Nat, k <= m + 1,
         StoredBy(j, a, m), Stored(k, b), inscribed \in Batches
  PROVE  StoredBy(j, a, b)
<1>1. \A c \in Channels : \A s \in inscribed[c] : s \in Nat
  BY Constants DEF Batches
<1>2. QED BY <1>1, StoredIs DEF StoredBy

\* A step of the pass alone that opens no new top keeps what the floors cover.
LEMMA PassOnly ==
  ASSUME TypeOK, RangeInv, UNCHANGED <<inscribed, lib, job, left, stored, top, floor>>,
         pass'.lib = pass.lib, pass'.top = pass.top, pass'.floor = pass.floor,
         pass'.pc # "start", pass.pc # "start", Tops' \subseteq Tops
  PROVE  TopsSettled' /\ FloorsCovered'
<1>1. TopsSettled'
  BY DEF RangeInv, TopsSettled
<1>2. \A t \in Tops' : /\ floor # None => Stored(floor, t)
                       /\ pass.floor # None => Stored(pass.floor, t)
                       /\ \A j \in {job, left} : FloorJob(j) => StoredBy(j, j.mark, t)
  BY DEF RangeInv, FloorsCovered
<1>3. FloorsCovered'
  BY <1>2 DEF FloorsCovered, Stored, StoredBy, FloorJob
<1>4. QED BY <1>1, <1>3

\* A pass that starts has nothing behind it, and its bounds meet the old top.
LEMMA StartRange ==
  ASSUME TypeOK, RangeInv, Start
  PROVE  RangeInv'
<1> DEFINE p == [NewPass EXCEPT !.lib = lib, !.top = top, !.floor = floor,
                                !.done = done, !.targets = Targets]
<1>1. /\ lib \in Nat /\ lib \in Slots /\ top \in Nat /\ GapLow \in Nat /\ GapLow <= top
      /\ (top # None => top \in Slots)
  BY Constants DEF TypeOK, GapLow, Smaller, Minus
<1>2. ~Waiting /\ pass.pc = "start"
  BY DEF Start, RangeInv, JobShape
<1>3. p.lib = lib /\ p.top = top /\ p.floor = floor /\ p.walk = "gap"
  BY DEF NewPass
<1>4. /\ pass'.lib = lib /\ pass'.top = top /\ pass'.floor = floor /\ pass'.walk = "gap"
      /\ pass'.pc \in {"fetch", "cursor"}
      /\ UNCHANGED <<inscribed, lib, left, stored, top, floor>>
  BY DEF Start, NewPass, node, store
<1>5. top # None => top \in Tops /\ top <= lib
  BY <1>1 DEF RangeInv, TopsSettled, Tops
<1>6. \A t \in Tops : t <= lib
  BY DEF RangeInv, TopsSettled
<1>7. \A f, t : Stored(f, t)' <=> Stored(f, t)
  BY <1>4 DEF Stored, StoredBy
<1>8. CASE pass'.pc = "fetch"
  <2>1. top # None /\ pass'.hi = lib /\ pass'.lo = GapLow /\ job' = job
    BY <1>8 DEF Start, HasGap, NewPass
  <2>2. Tops' \subseteq Tops
    BY <1>2, <1>4, <1>8, <2>1 DEF Tops, TopWritable, Waiting
  <2>3. TopsSettled'
    BY <1>1, <1>4, <1>6, <2>2 DEF TopsSettled
  <2>4. FloorsCovered'
    BY <1>2, <1>4, <1>7, <2>1, <2>2 DEF RangeInv, FloorsCovered, FloorJob, StoredBy, Waiting
  <2>5. TopFirst'
    BY <1>4, <1>8, <2>1 DEF TopFirst
  <2>6. WalkCovered'
    BY <1>1, <1>4, <1>8, <2>1 DEF WalkCovered, Stored, StoredBy
  <2>7. JobShape'
    BY <1>2, <1>4, <1>8, <2>1 DEF JobShape, Waiting, RangeInv
  <2>8. QED BY <2>3, <2>4, <2>5, <2>6, <2>7 DEF RangeInv
<1>9. CASE pass'.pc = "cursor"
  <2>0. ~HasGap /\ job' = SetTop(p)
    BY <1>9 DEF Start, NewPass
  <2>1. (top = None \/ GapLow >= lib) /\ job' = SetTop(p)
    BY <1>1, <2>0 DEF HasGap
  <2>2. job'.kind = "top" /\ job'.mark = lib
    BY <1>1, <1>3, <1>5, <2>1 DEF SetTop, NewTop, Larger, NoJob
  <2>3. Tops' \subseteq Tops \cup {lib}
    BY <1>2, <1>4, <1>9, <2>2 DEF Tops, TopWritable
  <2>4. lib \in Tops \/ top = None
    BY <1>1, <1>5, <2>1
  <2>5. TopsSettled'
    BY <1>1, <1>4, <1>6, <2>3 DEF TopsSettled
  <2>6. FloorsCovered'
    <3>1. CASE top = None
      BY <1>4, <2>2, <3>1 DEF RangeInv, FloorsCovered, TopFirst, FloorJob
    <3>2. CASE lib \in Tops
      BY <1>4, <1>7, <2>2, <2>3, <3>2 DEF RangeInv, FloorsCovered, FloorJob, StoredBy
    <3>3. QED BY <2>4, <3>1, <3>2
  <2>7. TopFirst'
    BY <1>4, <1>9, <2>2 DEF RangeInv, TopFirst, FloorJob, Waiting
  <2>8. WalkCovered'
    BY <1>9 DEF WalkCovered
  <2>9. JobShape'
    BY <1>1, <1>4, <1>9, <2>2 DEF JobShape, RangeInv
  <2>10. QED BY <2>5, <2>6, <2>7, <2>8, <2>9 DEF RangeInv
<1>10. QED BY <1>4, <1>8, <1>9

\* A chunk extends what is stored downwards, once its job is over.
LEMMA FetchRange ==
  ASSUME TypeOK, RangeInv, ~FetchMayFail, NEW fetched \in BOOLEAN, FetchChunk(fetched)
  PROVE  RangeInv'
<1> DEFINE from == Larger(Minus(pass.hi, Chunk), pass.lo)
<1>1. fetched = TRUE
  BY DEF FetchChunk
<1>2. /\ pass.pc = "fetch" /\ pass'.pc = "folded" /\ pass'.from = from
      /\ pass'.hi = pass.hi /\ pass'.lo = pass.lo /\ pass'.walk = pass.walk
      /\ pass'.lib = pass.lib /\ pass'.top = pass.top /\ pass'.floor = pass.floor
      /\ UNCHANGED <<inscribed, lib, left, stored, top, floor>>
  BY DEF FetchChunk, TypeOK, Pass, node, store
<1>3. /\ job'.kind = "commit"
      /\ job'.mark = IF pass.walk = "deep" THEN from ELSE None
      /\ \A c \in Channels : job'.batch[c] = inscribed[c] \cap (from..pass.hi)
  BY <1>1 DEF FetchChunk
<1>4. ~Waiting
  BY <1>2 DEF RangeInv, JobShape
<1>5. Tops' \subseteq Tops
  BY <1>2, <1>3 DEF Tops, TopWritable
<1>6. \A f, t : Stored(f, t)' <=> Stored(f, t)
  BY <1>2 DEF Stored, StoredBy
<1>7. from \in Nat /\ pass.hi \in Nat /\ pass.lib \in Nat
  BY ChunkTypes, Constants DEF TypeOK, Pass
<1>8. StoredBy(job, pass.from, pass.hi)'
  BY <1>2, <1>3 DEF StoredBy, Held
<1>9. Stored(pass.hi + 1, pass.lib)
  BY <1>2 DEF RangeInv, WalkCovered
<1>10. TopsSettled'
  BY <1>2, <1>5 DEF RangeInv, TopsSettled
<1>11. FloorsCovered'
  <2>0. \A t \in Tops' : (floor # None => Stored(floor, t)) /\ (pass.floor # None => Stored(pass.floor, t))
    BY <1>5 DEF RangeInv, FloorsCovered
  <2>1. \A t \in Tops' : (floor # None => Stored(floor, t))' /\ (pass.floor # None => Stored(pass.floor, t))'
    BY <1>2, <2>0 DEF Stored, StoredBy
  <2>2. FloorJob(left)' => \A t \in Tops' : StoredBy(left, left.mark, t)'
    BY <1>2, <1>5 DEF RangeInv, FloorsCovered, FloorJob, StoredBy
  <2>3. ASSUME FloorJob(job)', NEW t \in Tops' PROVE StoredBy(job, job.mark, t)'
    <3>1. t \in Tops /\ t <= pass.lib /\ t \in Nat
      BY <1>2, <1>5, Constants DEF RangeInv, TopsSettled, Tops
    <3>2. \A c \in Channels : \A s \in inscribed[c] : s \in Nat
      BY Constants DEF TypeOK, Batches
    <3>3. \A c \in Channels : inscribed[c] \cap (pass.hi + 1 .. pass.lib) \subseteq stored[c]
      BY <1>9, StoredIs
    <3>4. \A c \in Channels : inscribed[c] \cap (from..pass.hi) \subseteq stored[c] \cup Held(job', c)
      BY <1>3 DEF Held
    <3>5. job'.mark = from
      BY <1>3, <2>3 DEF FloorJob
    <3>6. \A c \in Channels : inscribed[c] \cap (from..t) \subseteq stored[c] \cup Held(job', c)
      BY <1>7, <3>1, <3>2, <3>3, <3>4
    <3>7. QED BY <1>2, <3>5, <3>6 DEF StoredBy, Held
  <2>4. QED BY <2>1, <2>2, <2>3 DEF FloorsCovered
<1>12. TopFirst'
  BY <1>2, <1>3 DEF RangeInv, TopFirst, WalkCovered, FloorJob
<1>13. WalkCovered'
  BY <1>2, <1>8, <1>9 DEF RangeInv, WalkCovered, Stored, StoredBy
<1>14. JobShape'
  BY <1>2, <1>3 DEF RangeInv, JobShape
<1>15. QED BY <1>10, <1>11, <1>12, <1>13, <1>14 DEF RangeInv

\* The next chunk begins where the last one ended.
LEMMA NextChunkRange ==
  ASSUME TypeOK, RangeInv, NextChunk
  PROVE  RangeInv'
<1>1. /\ pass.pc = "folded" /\ pass'.pc = "fetch" /\ pass'.hi = pass.from - 1
      /\ pass'.lo = pass.lo /\ pass'.walk = pass.walk
      /\ pass'.lib = pass.lib /\ pass'.top = pass.top /\ pass'.floor = pass.floor
      /\ UNCHANGED <<inscribed, lib, job, left, stored, top, floor>>
      /\ ~Waiting
  BY DEF NextChunk, TypeOK, Pass, node, store
<1>2. Tops' \subseteq Tops
  BY <1>1 DEF Tops, TopWritable
<1>3. /\ pass.from \in Nat /\ pass.hi \in Nat /\ pass.lib \in Nat /\ pass.lo \in Nat
      /\ pass.from > pass.lo /\ pass.hi + 1 \in Nat
  BY Constants DEF NextChunk, TypeOK, Pass
<1>4. StoredBy(job, pass.from, pass.hi) /\ Stored(pass.hi + 1, pass.lib)
  BY <1>1 DEF RangeInv, WalkCovered
<1>5. StoredBy(job, pass.from, pass.lib)
  BY <1>3, <1>4, StoredJoin DEF TypeOK
<1>6. Stored(pass.from, pass.lib)
  BY <1>1, <1>5 DEF Stored, StoredBy, Held, NoJob, Waiting
<1>7. (Stored(pass.hi + 1, pass.lib))'
  BY <1>1, <1>3, <1>6 DEF Stored, StoredBy
<1>8. TopsSettled' /\ FloorsCovered'
  BY <1>1, <1>2, PassOnly
<1>9. TopFirst'
  BY <1>1 DEF RangeInv, TopFirst, FloorJob
<1>10. WalkCovered'
  BY <1>1, <1>7 DEF RangeInv, WalkCovered
<1>11. JobShape'
  BY <1>1 DEF RangeInv, JobShape, Waiting
<1>12. QED BY <1>8, <1>9, <1>10, <1>11 DEF RangeInv

\* A gap walk that ended has reached the old top: top may be written.
LEMMA EndWalkRange ==
  ASSUME TypeOK, RangeInv, EndWalk
  PROVE  RangeInv'
<1>1. /\ pass.pc = "folded" /\ pass'.pc = "cursor" /\ pass'.walk = pass.walk
      /\ pass'.lib = pass.lib /\ pass'.top = pass.top /\ pass'.floor = pass.floor
      /\ UNCHANGED <<inscribed, lib, left, stored, top, floor>>
      /\ ~Waiting
  BY DEF EndWalk, TypeOK, Pass, node, store
<1>2. /\ pass.from \in Nat /\ pass.hi \in Nat /\ pass.lib \in Nat /\ pass.lo \in Nat
      /\ pass.hi + 1 \in Nat /\ pass.lib \in Slots /\ pass.top \in Nat
  <2>1. /\ pass.from \in Slots /\ pass.hi \in Slots /\ pass.lib \in Slots
        /\ pass.lo \in Slots /\ pass.top \in Marks
    BY DEF TypeOK, Pass
  <2>2. \A s \in Slots : s \in Nat /\ s + 1 \in Nat
    BY Constants
  <2>3. pass.top \in Nat
    BY <2>1, Constants
  <2>4. QED BY <2>1, <2>2, <2>3
<1>3. CASE pass.walk = "gap"
  <2>1. job' = SetTop(pass) /\ pass.from <= pass.lo /\ pass.top # None /\ pass.lo <= pass.top
    BY <1>1, <1>3 DEF EndWalk, Exhausted, RangeInv, WalkCovered
  <2>2. pass.top \in Tops /\ pass.top <= pass.lib
    BY <1>1, <1>2, <2>1, Constants DEF RangeInv, TopsSettled, Tops, TypeOK, Pass
  <2>3. job'.kind = "top" /\ job'.mark = pass.lib
    BY <1>2, <2>1, <2>2 DEF SetTop, NewTop, Larger, NoJob
  <2>4. Tops' \subseteq Tops \cup {pass.lib}
    BY <1>1, <2>3 DEF Tops, TopWritable
  <2>5. Stored(pass.from, pass.lib)
    <3>1. StoredBy(job, pass.from, pass.hi) /\ Stored(pass.hi + 1, pass.lib)
      BY <1>1 DEF RangeInv, WalkCovered
    <3>2. StoredBy(job, pass.from, pass.lib)
      BY <1>2, <3>1, StoredJoin DEF TypeOK
    <3>3. QED BY <1>1, <3>2 DEF Stored, StoredBy, Held, NoJob, Waiting
  <2>6. \A j : \A f \in Nat : StoredBy(j, f, pass.top) => StoredBy(j, f, pass.lib)
    BY <1>2, <2>1, <2>5, StoredJoin DEF TypeOK
  <2>7. \A t \in Tops' : /\ floor # None => Stored(floor, t)
                         /\ pass.floor # None => Stored(pass.floor, t)
                         /\ FloorJob(left) => StoredBy(left, left.mark, t)
    <3>1. \A t \in Tops : /\ floor # None => Stored(floor, t)
                          /\ pass.floor # None => Stored(pass.floor, t)
                          /\ FloorJob(left) => StoredBy(left, left.mark, t)
      BY DEF RangeInv, FloorsCovered
    <3>2. floor \in Nat /\ pass.floor \in Nat /\ left.mark \in Nat
      BY Constants DEF TypeOK, Pass, Job
    <3>3. /\ floor # None => Stored(floor, pass.lib)
          /\ pass.floor # None => Stored(pass.floor, pass.lib)
          /\ FloorJob(left) => StoredBy(left, left.mark, pass.lib)
      BY <2>2, <2>6, <3>1, <3>2 DEF Stored
    <3>4. QED BY <2>4, <3>1, <3>3
  <2>8. FloorsCovered'
    BY <1>1, <2>3, <2>7 DEF FloorsCovered, Stored, StoredBy, FloorJob
  <2>9. TopsSettled'
    BY <1>1, <1>2, <2>4 DEF RangeInv, TopsSettled
  <2>10. TopFirst'
    BY <1>1, <1>3, <2>3 DEF RangeInv, TopFirst, FloorJob, Waiting
  <2>11. WalkCovered'
    BY <1>1 DEF WalkCovered
  <2>12. JobShape'
    BY <1>1, <1>2, <1>3, <2>3 DEF RangeInv, JobShape
  <2>13. QED BY <2>8, <2>9, <2>10, <2>11, <2>12 DEF RangeInv
<1>4. CASE pass.walk = "deep"
  <2>1. job' = [NoJob EXCEPT !.kind = "done"]
    BY <1>4 DEF EndWalk
  <2>2. job'.kind = "done"
    BY <2>1 DEF NoJob
  <2>3. Tops' \subseteq Tops
    BY <1>1, <1>4, <2>2 DEF Tops, TopWritable
  <2>4. \A t \in Tops' : /\ floor # None => Stored(floor, t)
                         /\ pass.floor # None => Stored(pass.floor, t)
                         /\ FloorJob(left) => StoredBy(left, left.mark, t)
    BY <2>3 DEF RangeInv, FloorsCovered
  <2>5. FloorsCovered'
    BY <1>1, <2>2, <2>4 DEF FloorsCovered, Stored, StoredBy, FloorJob
  <2>6. TopsSettled'
    BY <1>1, <2>3 DEF RangeInv, TopsSettled
  <2>7. TopFirst'
    BY <1>1, <1>4, <2>2 DEF RangeInv, TopFirst, FloorJob
  <2>8. WalkCovered'
    BY <1>1 DEF WalkCovered
  <2>9. JobShape'
    BY <1>1, <1>4, <2>2 DEF RangeInv, JobShape
  <2>10. QED BY <2>5, <2>6, <2>7, <2>8, <2>9 DEF RangeInv
<1>5. QED BY <1>3, <1>4 DEF TypeOK, Pass

\* The deep walk begins at the floor, or at the top when there is none.
LEMMA DeepWalkRange ==
  ASSUME TypeOK, RangeInv, DeepWalk
  PROVE  RangeInv'
<1>1. /\ pass.pc = "cursor" /\ pass.walk = "gap" /\ pass'.pc = "fetch" /\ pass'.walk = "deep"
      /\ pass'.lib = pass.lib /\ pass'.top = pass.top /\ pass'.floor = pass.floor
      /\ UNCHANGED <<inscribed, lib, job, left, stored, top, floor>>
      /\ ~Waiting
      /\ pass'.hi = IF pass.floor # None /\ 0 < pass.floor /\ pass.floor <= NewTop(pass)
                    THEN pass.floor ELSE NewTop(pass)
  BY DEF DeepWalk, TypeOK, Pass, node, store
<1>2. Tops' \subseteq Tops
  BY <1>1 DEF Tops, TopWritable
<1>3. pass.lib \in Nat /\ pass.lib \in Tops /\ pass.floor \in Nat
  BY <1>1, Constants DEF Tops, TopWritable, TypeOK, Pass
<1>4. NewTop(pass) = pass.lib
  <2>1. pass.top # None => pass.top \in Tops /\ pass.top \in Nat
    BY Constants DEF Tops, TypeOK, Pass
  <2>2. pass.top # None => pass.top <= pass.lib
    BY <1>1, <2>1 DEF RangeInv, TopsSettled
  <2>3. QED BY <1>3, <2>1, <2>2 DEF NewTop, Larger
<1>5. pass.floor # None => Stored(pass.floor, pass.lib)
  BY <1>3 DEF RangeInv, FloorsCovered
<1>6. \A c \in Channels : \A s \in inscribed[c] : s \in Nat
  BY Constants DEF TypeOK, Batches
<1>7. Stored(pass'.hi + 1, pass.lib)
  <2>1. CASE pass'.hi = pass.floor /\ pass.floor # None
    BY <1>3, <1>5, <1>6, <2>1, StoredIs
  <2>2. CASE pass'.hi = pass.lib
    BY <1>3, <1>6, <2>2, StoredIs
  <2>3. QED BY <1>1, <1>4, <2>1, <2>2
<1>8. (Stored(pass.hi + 1, pass.lib))'
  BY <1>1, <1>7 DEF Stored, StoredBy
<1>9. TopsSettled' /\ FloorsCovered'
  BY <1>1, <1>2, PassOnly
<1>10. TopFirst'
  BY <1>1 DEF RangeInv, TopFirst, FloorJob
<1>11. WalkCovered'
  BY <1>1, <1>8 DEF WalkCovered
<1>12. JobShape'
  BY <1>1 DEF RangeInv, JobShape, Waiting
<1>13. QED BY <1>9, <1>10, <1>11, <1>12 DEF RangeInv

\* A finished pass awaits nothing.
LEMMA FinishRange ==
  ASSUME TypeOK, RangeInv, Finish
  PROVE  RangeInv'
<1>1. /\ pass.pc = "cursor" /\ pass'.pc = "finished" /\ pass'.walk = pass.walk
      /\ pass'.lib = pass.lib /\ pass'.top = pass.top /\ pass'.floor = pass.floor
      /\ UNCHANGED <<inscribed, lib, job, left, stored, top, floor>>
      /\ ~Waiting
  BY DEF Finish, TypeOK, Pass, node, store
<1>2. Tops' \subseteq Tops
  BY <1>1 DEF Tops, TopWritable
<1>3. TopsSettled' /\ FloorsCovered'
  BY <1>1, <1>2, PassOnly
<1>4. TopFirst'
  BY <1>1 DEF RangeInv, TopFirst, FloorJob
<1>5. WalkCovered' /\ JobShape'
  BY <1>1 DEF RangeInv, WalkCovered, JobShape, Waiting
<1>6. QED BY <1>3, <1>4, <1>5 DEF RangeInv

\* A job that takes effect only moves what it held into the store, and a cursor
\* to the mark that is covered already.
LEMMA RunJobRange ==
  ASSUME TypeOK, RangeInv, RunJob
  PROVE  RangeInv'
<1>1. UNCHANGED <<inscribed, lib, pass, left>> /\ Effect(job) /\ job' = After(job)
  BY DEF RunJob, node
<1>2. /\ job.kind \in {"commit", "floor", "top", "done"} /\ job.batch \in Batches
      /\ job.mark \in Marks
  BY DEF RunJob, TypeOK, Job, Pass, RangeInv, JobShape, Waiting
<1>3. \A c \in Channels : stored[c] \subseteq stored'[c] /\ Held(job, c) \subseteq stored'[c]
  BY <1>1, <1>2 DEF Effect, Held, TypeOK, Batches
<1>4. \A j, a, b : StoredBy(j, a, b) => StoredBy(j, a, b)'
  BY <1>1, <1>3 DEF StoredBy, Held
<1>5. /\ job'.kind = "floor" <=> (job.kind = "commit" /\ job.mark # None)
      /\ job'.kind \in {"none", "floor"}
      /\ job'.kind = "floor" => job'.mark = job.mark
  BY <1>1, <1>2 DEF After, NoJob, TypeOK, Job
<1>6. /\ top' = IF job.kind = "top" THEN job.mark ELSE top
      /\ floor' = IF job.kind = "floor" THEN job.mark ELSE floor
  BY <1>1 DEF Effect
<1>7. Tops' \subseteq Tops
  BY <1>1, <1>5, <1>6 DEF Tops, TopWritable
<1>8. \A t \in Tops' : /\ floor # None => Stored(floor, t)
                       /\ pass.floor # None => Stored(pass.floor, t)
                       /\ FloorJob(left) => StoredBy(left, left.mark, t)
                       /\ FloorJob(job) => StoredBy(job, job.mark, t)
  BY <1>7 DEF RangeInv, FloorsCovered
<1>9. \A a, b : StoredBy(job, a, b) => Stored(a, b)'
  BY <1>1, <1>3 DEF Stored, StoredBy, Held, NoJob
<1>10. \A a, b : Stored(a, b) => Stored(a, b)'
  BY <1>1, <1>3 DEF Stored, StoredBy, Held, NoJob
<1>11. TopsSettled'
  BY <1>1, <1>7 DEF RangeInv, TopsSettled
<1>12. FloorsCovered'
  <2>1. ASSUME NEW t \in Tops', floor' # None PROVE \A c \in Channels : inscribed[c] \cap (floor'..t) \subseteq stored'[c]
    <3>1. CASE job.kind = "floor"
      BY <1>3, <1>6, <1>8, <2>1, <3>1, Zenon DEF StoredBy, Held, FloorJob
    <3>2. CASE job.kind # "floor"
      <4>1. Stored(floor, t)
        BY <1>6, <1>8, <2>1, <3>2
      <4>2. QED BY <1>3, <1>6, <3>2, <4>1, StoredIs
    <3>3. QED BY <3>1, <3>2
  <2>2. ASSUME NEW t \in Tops', pass.floor # None
        PROVE  \A c \in Channels : inscribed[c] \cap (pass.floor..t) \subseteq stored'[c]
    BY <1>3, <1>8, <2>2, StoredIs
  <2>3. ASSUME NEW t \in Tops', FloorJob(left)
        PROVE  \A c \in Channels : inscribed[c] \cap (left.mark..t) \subseteq stored'[c] \cup Held(left, c)
    BY <1>3, <1>8, <2>3 DEF StoredBy
  <2>4. ASSUME NEW t \in Tops', FloorJob(job')
        PROVE  \A c \in Channels : inscribed[c] \cap (job'.mark..t) \subseteq stored'[c]
    <3>1. FloorJob(job) /\ job'.mark = job.mark
      BY <1>5, <2>4 DEF FloorJob
    <3>2. StoredBy(job, job.mark, t)
      BY <1>8, <3>1
    <3>3. QED BY <1>3, <3>1, <3>2 DEF StoredBy
  <2>5. QED BY <1>1, <2>1, <2>2, <2>3, <2>4
        DEF FloorsCovered, Stored, StoredBy, Held, NoJob, FloorJob
<1>13. TopFirst'
  <2>1. job.kind = "top" => job.mark # None
    BY Constants DEF RangeInv, JobShape
  <2>2. top' = None => top = None
    BY <1>6, <2>1
  <2>3. top' = None => /\ floor' = None /\ pass.floor = None /\ pass.top = None
                       /\ ~FloorJob(job') /\ ~FloorJob(left)
    BY <1>2, <1>5, <1>6, <2>2 DEF RangeInv, TopFirst, FloorJob
  <2>4. pass.walk = "deep" => top' # None
    BY <2>2 DEF RangeInv, TopFirst
  <2>5. ASSUME pass.walk # "deep", pass.pc = "cursor" PROVE top' # None
    <3>1. job.kind = "top"
      BY <1>2, <2>5 DEF RangeInv, JobShape, TypeOK, Pass
    <3>2. QED BY <1>6, <2>1, <3>1
  <2>6. QED BY <1>1, <2>3, <2>4, <2>5 DEF TopFirst, FloorJob
<1>14. WalkCovered'
  <2>1. pass.pc \in {"fetch", "folded"} => Stored(pass.hi + 1, pass.lib)'
    BY <1>1, <1>3 DEF RangeInv, WalkCovered, Stored, StoredBy, Held, NoJob
  <2>2. ASSUME pass.pc = "folded" PROVE StoredBy(job, pass.from, pass.hi)'
    <3>1. StoredBy(job, pass.from, pass.hi)
      BY <2>2 DEF RangeInv, WalkCovered
    <3>2. QED BY <1>1, <1>3, <3>1 DEF StoredBy
  <2>3. QED BY <1>1, <2>1, <2>2 DEF RangeInv, WalkCovered
<1>15. JobShape'
  BY <1>1, <1>2, <1>5 DEF RangeInv, JobShape, Waiting
<1>16. QED BY <1>11, <1>12, <1>13, <1>14, <1>15 DEF RangeInv

\* The same for a job whose pass is superseded.
LEMMA RunLeftRange ==
  ASSUME TypeOK, RangeInv, RunLeft
  PROVE  RangeInv'
<1>1. UNCHANGED <<inscribed, lib, pass, job>> /\ Effect(left) /\ left' = After(left)
  BY DEF RunLeft, node
<1>2. /\ left.kind \in {"commit", "floor", "top", "done"} /\ left.batch \in Batches
      /\ left.mark \in Marks
  BY DEF RunLeft, TypeOK, Job, RangeInv, JobShape
<1>3. \A c \in Channels : stored[c] \subseteq stored'[c] /\ Held(left, c) \subseteq stored'[c]
  BY <1>1, <1>2 DEF Effect, Held, TypeOK, Batches
<1>4. /\ left'.kind = "floor" <=> (left.kind = "commit" /\ left.mark # None)
      /\ left'.kind \in {"none", "floor"}
      /\ left'.kind = "floor" => left'.mark = left.mark
  BY <1>1, <1>2 DEF After, NoJob, TypeOK, Job
<1>5. /\ top' = IF left.kind = "top" THEN left.mark ELSE top
      /\ floor' = IF left.kind = "floor" THEN left.mark ELSE floor
  BY <1>1 DEF Effect
<1>6. Tops' \subseteq Tops
  BY <1>1, <1>4, <1>5 DEF Tops, TopWritable
<1>7. \A t \in Tops' : /\ floor # None => Stored(floor, t)
                       /\ pass.floor # None => Stored(pass.floor, t)
                       /\ FloorJob(left) => StoredBy(left, left.mark, t)
                       /\ FloorJob(job) => StoredBy(job, job.mark, t)
  BY <1>6 DEF RangeInv, FloorsCovered
<1>8. TopsSettled'
  BY <1>1, <1>6 DEF RangeInv, TopsSettled
<1>9. FloorsCovered'
  <2>1. ASSUME NEW t \in Tops', floor' # None
        PROVE  \A c \in Channels : inscribed[c] \cap (floor'..t) \subseteq stored'[c]
    <3>1. CASE left.kind = "floor"
      BY <1>3, <1>5, <1>7, <2>1, <3>1, Zenon DEF StoredBy, Held, FloorJob
    <3>2. CASE left.kind # "floor"
      <4>1. Stored(floor, t)
        BY <1>5, <1>7, <2>1, <3>2
      <4>2. QED BY <1>3, <1>5, <3>2, <4>1, StoredIs
    <3>3. QED BY <3>1, <3>2
  <2>2. ASSUME NEW t \in Tops', pass.floor # None
        PROVE  \A c \in Channels : inscribed[c] \cap (pass.floor..t) \subseteq stored'[c]
    BY <1>3, <1>7, <2>2, StoredIs
  <2>3. ASSUME NEW t \in Tops', FloorJob(job)
        PROVE  \A c \in Channels : inscribed[c] \cap (job.mark..t) \subseteq stored'[c] \cup Held(job, c)
    BY <1>3, <1>7, <2>3 DEF StoredBy
  <2>4. ASSUME NEW t \in Tops', FloorJob(left')
        PROVE  \A c \in Channels : inscribed[c] \cap (left'.mark..t) \subseteq stored'[c]
    <3>1. FloorJob(left) /\ left'.mark = left.mark
      BY <1>4, <2>4 DEF FloorJob
    <3>2. StoredBy(left, left.mark, t)
      BY <1>7, <3>1
    <3>3. QED BY <1>3, <3>1, <3>2 DEF StoredBy
  <2>5. QED BY <1>1, <2>1, <2>2, <2>3, <2>4
        DEF FloorsCovered, Stored, StoredBy, Held, NoJob, FloorJob
<1>10. TopFirst'
  <2>1. left.kind = "top" => left.mark # None
    BY Constants DEF RangeInv, JobShape
  <2>2. top' = None => top = None
    BY <1>5, <2>1
  <2>3. top' = None => /\ floor' = None /\ pass.floor = None /\ pass.top = None
                       /\ ~FloorJob(left') /\ ~FloorJob(job)
    BY <1>2, <1>4, <1>5, <2>2 DEF RangeInv, TopFirst, FloorJob
  <2>4. (pass.walk = "deep" \/ (pass.pc = "cursor" /\ ~Waiting)) => top' # None
    BY <2>2 DEF RangeInv, TopFirst
  <2>5. QED BY <1>1, <2>3, <2>4 DEF TopFirst, FloorJob, Waiting
<1>11. WalkCovered'
  <2>1. pass.pc \in {"fetch", "folded"} => Stored(pass.hi + 1, pass.lib)'
    BY <1>1, <1>3 DEF RangeInv, WalkCovered, Stored, StoredBy, Held, NoJob
  <2>2. ASSUME pass.pc = "folded" PROVE StoredBy(job, pass.from, pass.hi)'
    <3>1. StoredBy(job, pass.from, pass.hi)
      BY <2>2 DEF RangeInv, WalkCovered
    <3>2. QED BY <1>1, <1>3, <3>1 DEF StoredBy, Held
  <2>3. QED BY <1>1, <2>1, <2>2 DEF RangeInv, WalkCovered
<1>12. JobShape'
  BY <1>1, <1>2, <1>4 DEF RangeInv, JobShape, Waiting
<1>13. QED BY <1>8, <1>9, <1>10, <1>11, <1>12 DEF RangeInv

\* A new pass forgets what it has read; a job of the old one may be left running.
LEMMA RestartRange ==
  ASSUME TypeOK, RangeInv, ~MayStartLate, Reconfigure \/ Crash
  PROVE  RangeInv'
<1>1. /\ pass' = NewPass /\ job' = NoJob /\ left' \in {left, job, NoJob}
      /\ UNCHANGED <<inscribed, lib, stored, top, floor>>
  BY DEF Reconfigure, Crash, node, store
<1>2. /\ NewPass.pc = "start" /\ NewPass.walk = "gap" /\ NewPass.lib = 0
      /\ NewPass.top = None /\ NewPass.floor = None /\ NoJob.kind = "none"
  BY DEF NewPass, NoJob
<1>3. Tops' \subseteq Tops
  BY <1>1, <1>2, Constants DEF Tops, TopWritable
<1>4. lib \in Nat
  BY Constants DEF TypeOK
<1>5. TopsSettled'
  BY <1>1, <1>2, <1>3, <1>4 DEF RangeInv, TopsSettled
<1>6. \A t \in Tops' : /\ floor # None => Stored(floor, t)
                       /\ FloorJob(left') => StoredBy(left', left'.mark, t)
  BY <1>1, <1>2, <1>3 DEF RangeInv, FloorsCovered, FloorJob
<1>7. FloorsCovered'
  BY <1>1, <1>2, <1>6 DEF FloorsCovered, Stored, StoredBy, FloorJob
<1>8. TopFirst'
  BY <1>1, <1>2 DEF RangeInv, TopFirst, FloorJob
<1>9. WalkCovered'
  BY <1>1, <1>2 DEF WalkCovered
<1>10. JobShape'
  <2>1. job.kind # "start" /\ left.kind # "start" /\ NoJob.kind # "start"
    BY <1>2 DEF RangeInv, JobShape, Waiting, TypeOK, Pass
  <2>2. left'.kind # "start" /\ (left'.kind = "top" => left'.mark \in Slots)
    BY <1>1, <1>2, <2>1 DEF RangeInv, JobShape
  <2>3. QED BY <1>1, <1>2, <2>2 DEF JobShape, Waiting
<1>11. QED BY <1>5, <1>7, <1>8, <1>9, <1>10 DEF RangeInv

\* When no request and no write fails and a superseded pass is past its start,
\* the invariant behind RangeStored holds in every reachable state.
LEMMA RangeInvariant ==
  ~FetchMayFail /\ ~CommitMayFail /\ ~MayStartLate => (Spec => []RangeInv)
<1> SUFFICES ASSUME ~FetchMayFail, ~CommitMayFail, ~MayStartLate PROVE Spec => []RangeInv
  OBVIOUS
<1>1. Init => RangeInv
  <2> SUFFICES ASSUME Init PROVE RangeInv
    OBVIOUS
  <2>1. Tops = {}
    BY Constants DEF Init, Tops, TopWritable, NewPass, NoJob
  <2>2. lib \in Nat
    BY Constants DEF Init
  <2>3. TopsSettled /\ FloorsCovered
    BY <2>1, <2>2 DEF Init, TopsSettled, FloorsCovered, NewPass
  <2>4. TopFirst /\ WalkCovered /\ JobShape
    BY DEF Init, TopFirst, WalkCovered, JobShape, NewPass, NoJob, FloorJob, Waiting
  <2>5. QED BY <2>3, <2>4 DEF RangeInv
<1>2. TypeOK /\ RangeInv /\ [Next]_vars => RangeInv'
  <2> SUFFICES ASSUME TypeOK, RangeInv, [Next]_vars PROVE RangeInv'
    OBVIOUS
  <2>1. CASE Walk
    <3>1. ~GiveUp
      BY DEF GiveUp
    <3>2. QED BY <2>1, <3>1, StartRange, FetchRange, NextChunkRange, EndWalkRange,
                 DeepWalkRange, FinishRange DEF Walk
  <2>2. CASE Jobs
    <3>1. ~JobFails /\ ~LateStart
      BY DEF JobFails, LateStart, RangeInv, JobShape
    <3>2. QED BY <2>2, <3>1, RunJobRange, RunLeftRange DEF Jobs
  <2>3. CASE Reconfigure \/ Crash
    BY <2>3, RestartRange
  <2>4. CASE AdvanceLib
    <3>1. lib \in Nat /\ lib' = lib + 1 /\ UNCHANGED <<inscribed, pass, job, left, stored, top, floor>>
      BY <2>4, Constants DEF AdvanceLib, TypeOK, store
    <3>2. Tops' = Tops
      BY <3>1 DEF Tops, TopWritable
    <3>3. pass.lib \in Nat /\ \A t \in Tops : t \in Nat
      BY Constants DEF TypeOK, Pass, Tops
    <3>4. TopsSettled'
      BY <3>1, <3>2, <3>3 DEF RangeInv, TopsSettled
    <3>5. FloorsCovered'
      BY <3>1, <3>2 DEF RangeInv, FloorsCovered, Stored, StoredBy, FloorJob
    <3>6. TopFirst' /\ WalkCovered' /\ JobShape'
      BY <3>1 DEF RangeInv, TopFirst, WalkCovered, JobShape, Stored, StoredBy, FloorJob, Waiting
    <3>7. QED BY <3>4, <3>5, <3>6 DEF RangeInv
  <2>5. CASE UNCHANGED vars
    <3>1. UNCHANGED <<inscribed, lib, pass, job, left, stored, top, floor>>
      BY <2>5 DEF vars, node, store
    <3>2. Tops' = Tops
      BY <3>1 DEF Tops, TopWritable
    <3>3. QED BY <3>1, <3>2 DEF RangeInv, TopsSettled, FloorsCovered, TopFirst, WalkCovered,
                 JobShape, Stored, StoredBy, FloorJob, Waiting
  <2>6. QED BY <2>1, <2>2, <2>3, <2>4, <2>5 DEF Next
<1>3. QED BY <1>1, <1>2, BackfillTypes, PTL DEF Spec

\* When no request and no write fails and a superseded pass is past its start,
\* what lies between the two cursors is in the store in every reachable state:
\* after any crash, and with any job of a superseded pass still to come.
THEOREM RangeIsStored ==
  ~FetchMayFail /\ ~CommitMayFail /\ ~MayStartLate => (Spec => []RangeStored)
<1> SUFFICES ASSUME ~FetchMayFail, ~CommitMayFail, ~MayStartLate PROVE Spec => []RangeStored
  OBVIOUS
<1>1. TypeOK /\ RangeInv => RangeStored
  BY Constants DEF TypeOK, RangeInv, FloorsCovered, Tops, RangeStored
<1>2. QED BY <1>1, RangeInvariant, BackfillTypes, PTL

--------------------------------------------------------------------------------
(* What an ended walk has left out *)

\* The settled blocks of c up to slot t are stored, or lie below a silence.
Complete(c, t) == \A s \in inscribed[c] : s <= t => s \in stored[c] \/ Silence(c, s)

\* done is set, or a job is about to set it.
Ended == done \/ job.kind = "done" \/ left.kind = "done"

EndedComplete == Ended => top # None /\ \A t \in Tops : \A c \in Targets : Complete(c, t)

\* The slots of n chunks.
Span(n) == n * (Chunk + 1)

\* Above slot h, channel c is silent for n chunks.
SilentAbove(c, h, n) ==
  \E v \in h..pass.lib : v >= h + Span(n) /\ inscribed[c] \cap (h + 1 .. v) = {}

\* What a WalkAcc stands for: a channel whose genesis was read has nothing left
\* to read, and one that has been idle for n chunks is silent over their slots.
WalkAccount ==
  /\ pass.pc # "start" => pass.targets = Targets
  /\ pass.walk = "gap" => \A c \in Channels : pass.idle[c] = 0
  /\ \A c \in pass.genesis : inscribed[c] \cap (0..pass.lib) \subseteq stored[c] \cup Held(job, c)
  /\ pass.pc \in {"fetch", "folded"} =>
       /\ pass.hi <= pass.lib
       /\ pass.walk = "deep" => pass.lo = 0 /\ \A c \in Channels : SilentAbove(c, pass.hi, pass.idle[c])
  /\ pass.pc = "folded" =>
       /\ pass.from = Larger(Minus(pass.hi, Chunk), pass.lo)
       /\ \A c \in Channels \ pass.seen : inscribed[c] \cap (pass.from..pass.hi) = {}

DoneInv == EndedComplete /\ WalkAccount

\* One more chunk adds its slots; more chunks have no fewer.
LEMMA SpanSteps ==
  /\ Span(0) = 0
  /\ \A n \in Nat : Span(n) \in Nat /\ Span(n + 1) = Span(n) + Chunk + 1
  /\ \A m, n \in Nat : m <= n => Span(m) <= Span(n)
<1>1. Chunk \in Nat
  BY Constants
<1>2. Span(0) = 0
  BY <1>1 DEF Span
<1>3. \A n \in Nat : Span(n) \in Nat /\ Span(n + 1) = Span(n) + Chunk + 1
  BY <1>1 DEF Span
<1>4. ASSUME NEW m \in Nat, NEW n \in Nat, m <= n PROVE Span(m) <= Span(n)
  <2>1. PICK d \in Nat : n = m + d
    <3>1. n - m \in Nat /\ n = m + (n - m)
      BY <1>4
    <3>2. QED BY <3>1
  <2>2. n * (Chunk + 1) = m * (Chunk + 1) + d * (Chunk + 1)
    BY <1>1, <2>1
  <2>3. d * (Chunk + 1) \in Nat /\ m * (Chunk + 1) \in Nat
    BY <1>1
  <2>4. QED BY <2>2, <2>3 DEF Span
<1>5. QED BY <1>2, <1>3, <1>4

\* A step that ends no walk and opens no new top keeps what ended walks cover.
LEMMA EndedKept ==
  ASSUME TypeOK, EndedComplete, UNCHANGED inscribed, lib' \in Nat, lib <= lib',
         \A c \in Channels : stored[c] \subseteq stored'[c],
         Targets' = Targets, Tops' \subseteq Tops, Ended' => Ended, top' = None => top = None
  PROVE  EndedComplete'
<1> SUFFICES ASSUME Ended'
             PROVE  top' # None /\ \A t \in Tops' : \A c \in Targets' : Complete(c, t)'
  BY DEF EndedComplete
<1>1. lib \in Nat /\ Targets \subseteq Channels
  BY Constants DEF TypeOK, Targets
<1>2. \A c, s : Silence(c, s) => Silence(c, s)'
  BY <1>1 DEF Silence
<1>3. \A c \in Targets : \A t : Complete(c, t) => Complete(c, t)'
  BY <1>1, <1>2 DEF Complete
<1>4. QED BY <1>3 DEF EndedComplete

\* A step that leaves the walk alone, and only adds to the store, keeps the account.
LEMMA AccountKept ==
  ASSUME TypeOK, WalkAccount, UNCHANGED <<inscribed, pass>>, Targets' = Targets,
         \A c \in Channels : stored[c] \cup Held(job, c) \subseteq stored'[c] \cup Held(job', c)
  PROVE  WalkAccount'
<1>1. pass.genesis \subseteq Channels
  BY DEF TypeOK, Pass
<1>2. \A c \in pass.genesis : inscribed[c] \cap (0..pass.lib) \subseteq stored'[c] \cup Held(job', c)
  BY <1>1 DEF WalkAccount
<1>3. \A c, h, n : SilentAbove(c, h, n)' <=> SilentAbove(c, h, n)
  BY DEF SilentAbove
<1>4. QED BY <1>2, <1>3 DEF WalkAccount, Held

\* A pass that starts has read nothing yet.
LEMMA StartDone ==
  ASSUME TypeOK, RangeInv, DoneInv, Targets' = Targets, Start
  PROVE  DoneInv'
<1> DEFINE p == [NewPass EXCEPT !.lib = lib, !.top = top, !.floor = floor,
                                !.done = done, !.targets = Targets]
<1>1. /\ lib \in Nat /\ lib \in Slots /\ top \in Nat /\ GapLow \in Nat /\ GapLow <= top
      /\ (top # None => top \in Slots)
  BY Constants DEF TypeOK, GapLow, Smaller, Minus
<1>2. ~Waiting /\ pass.pc = "start"
  BY DEF Start, RangeInv, JobShape
<1>3. p.lib = lib /\ p.top = top
  BY DEF NewPass
<1>4. /\ pass'.lib = lib /\ pass'.top = top /\ pass'.walk = "gap"
      /\ pass'.targets = Targets /\ pass'.genesis = {} /\ pass'.idle = [c \in Channels |-> 0]
      /\ pass'.pc = "fetch" => pass'.hi = lib /\ HasGap /\ job' = job
      /\ pass'.pc # "fetch" => pass'.pc = "cursor" /\ ~HasGap /\ job' = SetTop(p)
      /\ UNCHANGED <<inscribed, lib, left, stored, top, floor, done>>
  BY DEF Start, NewPass, node, store
<1>5. WalkAccount'
  BY <1>1, <1>4 DEF WalkAccount
<1>6. top # None => top \in Tops /\ top <= lib
  BY <1>1 DEF RangeInv, TopsSettled, Tops
<1>7. (pass'.pc # "fetch") => job'.kind = "top" /\ job'.mark = lib
  <2> HIDE DEF p
  <2>1. NewTop(p) = lib
    BY <1>1, <1>3, <1>6 DEF NewTop, Larger
  <2>2. SetTop(p).kind = "top" /\ SetTop(p).mark = lib
    BY <2>1 DEF SetTop, NoJob
  <2>3. QED BY <1>4, <2>2
<1>8. Ended' => Ended
  BY <1>4, <1>7 DEF Ended
<1>9. top # None => Tops' \subseteq Tops
  <2>1. CASE pass'.pc = "fetch"
    BY <1>2, <1>4, <2>1 DEF Tops, TopWritable, Waiting
  <2>2. CASE pass'.pc # "fetch" /\ top # None
    <3>1. top = lib
      BY <1>1, <1>4, <1>6, <2>2 DEF HasGap, GapLow, Smaller
    <3>2. QED BY <1>4, <1>6, <1>7, <2>2, <3>1 DEF Tops, TopWritable
  <2>3. QED BY <2>1, <2>2
<1>10. EndedComplete'
  <2>1. CASE Ended
    <3>1. Tops' \subseteq Tops
      BY <1>9, <2>1 DEF DoneInv, EndedComplete
    <3>2. QED BY <1>1, <1>4, <1>8, <3>1, EndedKept DEF DoneInv
  <2>2. CASE ~Ended
    BY <1>8, <2>2 DEF EndedComplete
  <2>3. QED BY <2>1, <2>2
<1>11. QED BY <1>5, <1>10 DEF DoneInv

\* A chunk in which a channel's genesis was read, or nothing of it.
LEMMA FetchDone ==
  ASSUME TypeOK, RangeInv, DoneInv, Targets' = Targets, ~FetchMayFail,
         NEW fetched \in BOOLEAN, FetchChunk(fetched)
  PROVE  DoneInv'
<1> DEFINE from  == Larger(Minus(pass.hi, Chunk), pass.lo)
           batch == [c \in Channels |-> IF fetched THEN inscribed[c] \cap (from..pass.hi) ELSE {}]
           found == {c \in Channels : batch[c] # {}}
           born  == {c \in found : \E s \in batch[c] : Genesis(c, s)}
<1>1. \A c \in Channels : batch[c] = inscribed[c] \cap (from..pass.hi)
  BY DEF FetchChunk
<1>2. /\ pass.pc = "fetch" /\ pass'.pc = "folded" /\ pass'.from = from
      /\ pass'.hi = pass.hi /\ pass'.lo = pass.lo /\ pass'.walk = pass.walk
      /\ pass'.lib = pass.lib /\ pass'.top = pass.top /\ pass'.targets = pass.targets
      /\ pass'.idle = pass.idle /\ pass'.seen = found
      /\ pass'.genesis = pass.genesis \cup born
      /\ UNCHANGED <<inscribed, lib, left, stored, top, floor, done>>
  BY DEF FetchChunk, TypeOK, Pass, node, store
<1>3. job'.kind = "commit" /\ \A c \in Channels : Held(job', c) = batch[c]
  BY DEF FetchChunk, Held
<1>4. ~Waiting
  BY <1>2 DEF RangeInv, JobShape
<1>5. Tops' \subseteq Tops /\ (Ended' => Ended)
  BY <1>2, <1>3 DEF Tops, TopWritable, Ended
<1>6. from \in Nat /\ pass.hi \in Nat /\ pass.lib \in Nat /\ lib \in Nat /\ pass.genesis \subseteq Channels
  BY ChunkTypes, Constants DEF TypeOK, Pass
<1>7. EndedComplete'
  BY <1>2, <1>5, <1>6, EndedKept DEF DoneInv
<1>8. \A c \in Channels : \A s \in inscribed[c] : s \in Nat
  BY Constants DEF TypeOK, Batches
<1>9. \A c \in Channels : inscribed[c] \cap (pass.hi + 1 .. pass.lib) \subseteq stored[c]
  BY <1>2, StoredIs DEF RangeInv, WalkCovered
<1> HIDE DEF from, batch, found
<1>10. \A c \in born : inscribed[c] \cap (0..pass.lib) \subseteq stored[c] \cup batch[c]
  <2> SUFFICES ASSUME NEW c \in born, NEW s \in inscribed[c], s <= pass.lib
               PROVE  s \in stored[c] \cup batch[c]
    OBVIOUS
  <2>1. c \in Channels
    BY DEF found
  <2>2. PICK g \in batch[c] : Genesis(c, g)
    OBVIOUS
  <2>3. g >= from /\ g <= s /\ g \in Nat /\ s \in Nat
    BY <1>1, <1>6, <1>8, <2>1, <2>2 DEF Genesis
  <2>4. CASE s <= pass.hi
    <3>1. s \in from..pass.hi
      BY <1>6, <2>3, <2>4
    <3>2. QED BY <1>1, <2>1, <3>1
  <2>5. CASE s > pass.hi
    <3>1. s \in pass.hi + 1 .. pass.lib
      BY <1>6, <2>3, <2>5
    <3>2. QED BY <1>9, <2>1, <3>1
  <2>6. QED BY <1>6, <2>3, <2>4, <2>5
<1>11. \A c \in pass.genesis : inscribed[c] \cap (0..pass.lib) \subseteq stored[c]
  BY <1>4 DEF DoneInv, WalkAccount, Held, Waiting
<1>12. \A c \in pass'.genesis : (inscribed[c] \cap (0..pass.lib) \subseteq stored[c] \cup Held(job, c))'
  <2>1. \A c \in pass'.genesis : inscribed[c] \cap (0..pass.lib) \subseteq stored[c] \cup Held(job', c)
    <3>1. born \subseteq Channels
      BY DEF found
    <3> HIDE DEF born
    <3>2. QED BY <1>2, <1>3, <1>6, <1>10, <1>11, <3>1
  <2>2. QED BY <1>2, <2>1 DEF Held
<1>13. \A c \in Channels \ found : inscribed[c] \cap (from..pass.hi) = {}
  BY <1>1 DEF found
<1>14. \A c, h, n : SilentAbove(c, h, n)' <=> SilentAbove(c, h, n)
  BY <1>2 DEF SilentAbove
<1>15. WalkAccount'
  <2>1. /\ pass'.targets = Targets' /\ (pass'.walk = "gap" => \A c \in Channels : pass'.idle[c] = 0)
        /\ pass'.hi <= pass'.lib
    BY <1>2 DEF DoneInv, WalkAccount
  <2>2. pass'.walk = "deep" => pass'.lo = 0 /\ \A c \in Channels : SilentAbove(c, pass.hi, pass.idle[c])'
    <3>1. pass.walk = "deep" => pass.lo = 0 /\ \A c \in Channels : SilentAbove(c, pass.hi, pass.idle[c])
      BY <1>2 DEF DoneInv, WalkAccount
    <3>2. QED BY <1>2, <3>1 DEF SilentAbove
  <2>3. pass'.from = Larger(Minus(pass'.hi, Chunk), pass'.lo)
    BY <1>2 DEF from
  <2>4. \A c \in Channels \ pass'.seen : inscribed'[c] \cap (pass'.from..pass'.hi) = {}
    BY <1>2, <1>13
  <2>5. QED BY <1>12, <2>1, <2>2, <2>3, <2>4 DEF WalkAccount
<1>16. QED BY <1>7, <1>15 DEF DoneInv

\* What the account says of a chunk that is folded: its bounds and the silence over it.
LEMMA FoldedChunk ==
  ASSUME TypeOK, WalkAccount, pass.pc = "folded", pass.walk = "deep",
         NEW c \in Channels, c \notin pass.seen, pass.from > pass.lo
  PROVE  \E v \in pass.hi..pass.lib :
           /\ v + 1 >= pass.from + Span(pass.idle[c] + 1)
           /\ inscribed[c] \cap (pass.from..v) = {}
<1>1. /\ pass.from \in Nat /\ pass.hi \in Nat /\ pass.lo \in Nat /\ pass.lib \in Nat
      /\ pass.idle[c] \in Nat /\ Chunk \in Nat
  BY Constants DEF TypeOK, Pass
<1>2. pass.hi = pass.from + Chunk
  <2>1. pass.lo = 0 /\ pass.from = Larger(Minus(pass.hi, Chunk), pass.lo)
    BY DEF WalkAccount
  <2>2. QED BY <1>1, <2>1 DEF Larger, Minus
<1>3. inscribed[c] \cap (pass.from..pass.hi) = {}
  BY DEF WalkAccount
<1>4. PICK v \in pass.hi..pass.lib : /\ v >= pass.hi + Span(pass.idle[c])
                                     /\ inscribed[c] \cap (pass.hi + 1 .. v) = {}
  BY DEF WalkAccount, SilentAbove
<1>5. Span(pass.idle[c]) \in Nat /\ Span(pass.idle[c] + 1) = Span(pass.idle[c]) + Chunk + 1
  BY <1>1, SpanSteps
<1>6. v + 1 >= pass.from + Span(pass.idle[c] + 1)
  BY <1>1, <1>2, <1>4, <1>5
<1>7. \A s \in inscribed[c] : s \in Nat
  BY Constants DEF TypeOK, Batches
<1>8. inscribed[c] \cap (pass.from..v) = {}
  BY <1>1, <1>3, <1>4, <1>7
<1>9. QED BY <1>6, <1>8

\* The next chunk counts a channel that was not seen as silent for one chunk more.
LEMMA NextChunkDone ==
  ASSUME TypeOK, RangeInv, DoneInv, Targets' = Targets, NextChunk
  PROVE  DoneInv'
<1>1. /\ pass.pc = "folded" /\ pass'.pc = "fetch" /\ pass'.hi = pass.from - 1
      /\ pass'.lo = pass.lo /\ pass'.walk = pass.walk
      /\ pass'.lib = pass.lib /\ pass'.top = pass.top /\ pass'.floor = pass.floor
      /\ pass'.targets = pass.targets /\ pass'.genesis = pass.genesis
      /\ pass'.idle = IF pass.walk = "deep" THEN [c \in Channels |-> Idle(c)] ELSE pass.idle
      /\ UNCHANGED <<inscribed, lib, job, left, stored, top, floor, done>>
      /\ ~Waiting /\ pass.from > pass.lo
  BY DEF NextChunk, TypeOK, Pass, node, store
<1>2. Tops' \subseteq Tops /\ (Ended' => Ended)
  BY <1>1 DEF Tops, TopWritable, Ended
<1>3. /\ pass.from \in Nat /\ pass.hi \in Nat /\ pass.lo \in Nat /\ pass.lib \in Nat /\ lib \in Nat
      /\ Chunk \in Nat /\ IdleLimit \in Nat /\ \A c \in Channels : pass.idle[c] \in Nat
  BY Constants DEF TypeOK, Pass
<1>4. EndedComplete'
  BY <1>1, <1>2, <1>3, EndedKept DEF DoneInv
<1>5. pass.from <= pass.hi /\ pass.hi <= pass.lib
  BY <1>1, <1>3 DEF DoneInv, WalkAccount, Larger, Minus
<1>6. \A c \in pass'.genesis : (inscribed[c] \cap (0..pass.lib) \subseteq stored[c] \cup Held(job, c))'
  BY <1>1 DEF DoneInv, WalkAccount, Held
<1>7. ASSUME pass.walk = "deep", NEW c \in Channels
      PROVE  \E v \in pass.from - 1 .. pass.lib :
               /\ v >= pass.from - 1 + Span(Idle(c))
               /\ inscribed[c] \cap (pass.from..v) = {}
  <2>1. CASE c \in pass.seen
    <3>1. Idle(c) = 0
      BY <2>1 DEF Idle
    <3>2. inscribed[c] \cap (pass.from .. pass.from - 1) = {}
      BY <1>3
    <3>3. Span(Idle(c)) = 0
      BY <3>1, SpanSteps
    <3>4. /\ pass.from - 1 \in pass.from - 1 .. pass.lib
          /\ pass.from - 1 >= pass.from - 1 + Span(Idle(c))
      BY <1>1, <1>3, <1>5, <3>3
    <3>5. QED BY <3>2, <3>4
  <2>2. CASE c \notin pass.seen
    <3>1. PICK v \in pass.hi..pass.lib : /\ v + 1 >= pass.from + Span(pass.idle[c] + 1)
                                         /\ inscribed[c] \cap (pass.from..v) = {}
      BY <1>1, <1>7, <2>2, FoldedChunk DEF DoneInv
    <3>2. Idle(c) \in Nat /\ Idle(c) <= pass.idle[c] + 1
      BY <1>3, <2>2 DEF Idle, Smaller
    <3>3. Span(Idle(c)) \in Nat /\ Span(pass.idle[c] + 1) \in Nat
          /\ Span(Idle(c)) <= Span(pass.idle[c] + 1)
      <4>1. pass.idle[c] + 1 \in Nat
        BY <1>3
      <4>2. QED BY <3>2, <4>1, SpanSteps, Zenon
    <3>4. v >= pass.from - 1 + Span(Idle(c)) /\ v \in pass.from - 1 .. pass.lib
      BY <1>1, <1>3, <1>5, <3>1, <3>3
    <3>5. QED BY <3>1, <3>4
  <2>3. QED BY <2>1, <2>2
<1>8. ASSUME pass.walk = "deep" PROVE \A c \in Channels : SilentAbove(c, pass.hi, pass.idle[c])'
  <2> SUFFICES ASSUME NEW c \in Channels PROVE SilentAbove(c, pass.hi, pass.idle[c])'
    OBVIOUS
  <2>1. PICK v \in pass.from - 1 .. pass.lib : /\ v >= pass.from - 1 + Span(Idle(c))
                                               /\ inscribed[c] \cap (pass.from..v) = {}
    BY <1>7, <1>8
  <2>2. pass'.idle[c] = Idle(c) /\ pass'.hi = pass.from - 1 /\ pass'.hi + 1 = pass.from
    BY <1>1, <1>3, <1>8
  <2>3. v \in pass'.hi..pass'.lib /\ v >= pass'.hi + Span(pass'.idle[c])
        /\ inscribed'[c] \cap (pass'.hi + 1 .. v) = {}
    BY <1>1, <2>1, <2>2
  <2>4. QED BY <2>3 DEF SilentAbove, Span
<1>9. WalkAccount'
  <2>1. pass'.targets = Targets' /\ pass'.hi <= pass'.lib
    BY <1>1, <1>3, <1>5 DEF DoneInv, WalkAccount
  <2>2. pass'.walk = "gap" => \A c \in Channels : pass'.idle[c] = 0
    BY <1>1 DEF DoneInv, WalkAccount
  <2>3. pass'.walk = "deep" => pass'.lo = 0
    BY <1>1 DEF DoneInv, WalkAccount
  <2>4. QED BY <1>1, <1>6, <1>8, <2>1, <2>2, <2>3 DEF WalkAccount
<1>10. QED BY <1>4, <1>9 DEF DoneInv

\* A deep walk ends at slot 0, where everything is stored, or when each target has
\* shown its genesis or been silent for long enough.
LEMMA EndWalkDone ==
  ASSUME TypeOK, RangeInv, DoneInv, Targets' = Targets, EndWalk
  PROVE  DoneInv'
<1>1. /\ pass.pc = "folded" /\ pass'.pc = "cursor" /\ pass'.walk = pass.walk
      /\ pass'.lib = pass.lib /\ pass'.top = pass.top /\ pass'.targets = pass.targets
      /\ pass'.genesis = pass.genesis /\ pass'.idle = pass.idle
      /\ UNCHANGED <<inscribed, lib, left, stored, top, floor, done>>
      /\ ~Waiting /\ (Exhausted \/ pass.from <= pass.lo)
  BY DEF EndWalk, TypeOK, Pass, node, store
<1>2. /\ pass.from \in Nat /\ pass.hi \in Nat /\ pass.lib \in Nat /\ pass.lo \in Nat
      /\ pass.hi + 1 \in Nat /\ lib \in Nat /\ pass.lib <= lib
      /\ Chunk \in Nat /\ IdleLimit \in Nat /\ IdleLimit >= 1 /\ \A c \in Channels : pass.idle[c] \in Nat
      /\ pass.genesis \subseteq Channels /\ Targets \subseteq Channels
  BY Constants DEF TypeOK, Pass, RangeInv, TopsSettled, Targets
<1>3. Stored(pass.from, pass.lib)
  <2>1. StoredBy(job, pass.from, pass.hi) /\ Stored(pass.hi + 1, pass.lib)
    BY <1>1 DEF RangeInv, WalkCovered
  <2>2. StoredBy(job, pass.from, pass.lib)
    BY <1>2, <2>1, StoredJoin DEF TypeOK
  <2>3. QED BY <1>1, <2>2 DEF Stored, StoredBy, Held, NoJob, Waiting
<1>4. \A c \in Channels : \A s \in inscribed[c] : s \in Nat /\ (pass.from <= s /\ s <= pass.lib => s \in stored[c])
  <2>1. \A c \in Channels : \A s \in inscribed[c] : s \in Nat
    BY Constants DEF TypeOK, Batches
  <2>2. \A c \in Channels : inscribed[c] \cap (pass.from..pass.lib) \subseteq stored[c]
    BY <1>3, StoredIs
  <2>3. QED BY <1>2, <2>1, <2>2
<1>5. \A c \in pass.genesis : inscribed[c] \cap (0..pass.lib) \subseteq stored[c]
  BY <1>1 DEF DoneInv, WalkAccount, Held, Waiting
<1>6. WalkAccount'
  <2>1. \A c \in pass'.genesis : inscribed'[c] \cap (0..pass'.lib) \subseteq stored'[c] \cup Held(job', c)
    BY <1>1, <1>2, <1>5
  <2>2. pass'.targets = Targets' /\ (pass'.walk = "gap" => \A c \in Channels : pass'.idle[c] = 0)
    BY <1>1 DEF DoneInv, WalkAccount
  <2>3. QED BY <1>1, <2>1, <2>2 DEF WalkAccount, Held
<1>7. \A t \in Tops : t \in Nat /\ t <= pass.lib
  BY <1>1, Constants DEF RangeInv, TopsSettled, Tops
<1>8. CASE pass.walk = "gap"
  <2>1. job' = SetTop(pass) /\ pass.from <= pass.lo /\ pass.top # None /\ pass.lo <= pass.top
    BY <1>1, <1>8 DEF EndWalk, Exhausted, RangeInv, WalkCovered
  <2>2. pass.top \in Tops /\ pass.top \in Nat /\ pass.top <= pass.lib
    BY <1>7, <2>1, Constants DEF Tops, TypeOK, Pass
  <2>3. job'.kind = "top" /\ job'.mark = pass.lib
    BY <1>2, <2>1, <2>2 DEF SetTop, NewTop, Larger, NoJob
  <2>4. Tops' \subseteq Tops \cup {pass.lib} /\ (Ended' => Ended)
    BY <1>1, <2>3 DEF Tops, TopWritable, Ended
  <2>5. ASSUME Ended PROVE EndedComplete'
    <3>1. top # None /\ \A t \in Tops : \A c \in Targets : Complete(c, t)
      BY <2>5 DEF DoneInv, EndedComplete
    <3>2. \A c \in Targets : Complete(c, pass.lib)
      <4> SUFFICES ASSUME NEW c \in Targets, NEW s \in inscribed[c], s <= pass.lib
                   PROVE  s \in stored[c] \/ Silence(c, s)
        BY DEF Complete
      <4>1. CASE s <= pass.top
        BY <2>2, <3>1, <4>1 DEF Complete
      <4>2. CASE ~(s <= pass.top)
        <5>1. c \in Channels /\ s \in Nat
          BY <1>2, <1>4
        <5>2. pass.from <= s
          BY <1>2, <2>1, <2>2, <4>2, <5>1
        <5>3. QED BY <1>4, <5>1, <5>2
      <4>3. QED BY <4>1, <4>2
    <3>3. \A t \in Tops' : \A c \in Targets : Complete(c, t)
      BY <2>4, <3>1, <3>2
    <3>4. QED BY <1>1, <3>1, <3>3 DEF EndedComplete, Complete, Silence
  <2>6. EndedComplete'
    BY <2>4, <2>5 DEF EndedComplete
  <2>7. QED BY <1>6, <2>6 DEF DoneInv
<1>9. CASE pass.walk = "deep"
  <2>1. job'.kind = "done"
    BY <1>9 DEF EndWalk, NoJob
  <2>2. Tops' \subseteq Tops /\ top # None
    BY <1>1, <1>9, <2>1 DEF Tops, TopWritable, RangeInv, TopFirst
  <2>3. \A c \in Targets : Complete(c, pass.lib)
    <3> SUFFICES ASSUME NEW c \in Targets, NEW s \in inscribed[c], s <= pass.lib,
                        s \notin stored[c]
                 PROVE  Silence(c, s)
      BY DEF Complete
    <3>1. c \in Channels /\ s \in Nat /\ s < pass.from
      BY <1>2, <1>4
    <3>2. c \notin pass.genesis
      BY <1>2, <1>5, <3>1
    <3>3. pass.lo = 0 /\ pass.targets = Targets
      BY <1>1, <1>9 DEF DoneInv, WalkAccount
    <3>4. pass.from > pass.lo /\ Exhausted
      BY <1>1, <1>2, <3>1, <3>3
    <3>5. Idle(c) >= IdleLimit
      BY <3>2, <3>3, <3>4 DEF Exhausted
    <3>6. c \notin pass.seen /\ pass.idle[c] + 1 >= IdleLimit
      BY <1>2, <3>1, <3>5 DEF Idle, Smaller
    <3>7. PICK v \in pass.hi..pass.lib : /\ v + 1 >= pass.from + Span(pass.idle[c] + 1)
                                         /\ inscribed[c] \cap (pass.from..v) = {}
      BY <1>1, <1>9, <3>1, <3>4, <3>6, FoldedChunk DEF DoneInv
    <3>8. Span(IdleLimit) \in Nat /\ Span(pass.idle[c] + 1) \in Nat
          /\ Span(IdleLimit) <= Span(pass.idle[c] + 1)
      <4>1. pass.idle[c] + 1 \in Nat /\ IdleLimit \in Nat /\ IdleLimit <= pass.idle[c] + 1
        BY <1>2, <3>1, <3>6
      <4>2. QED BY <4>1, SpanSteps, Zenon
    <3>9. pass.from <= pass.hi
      BY <1>1, <1>2, <3>4 DEF DoneInv, WalkAccount, Larger, Minus
    <3>10. /\ v \in s + 1 .. lib /\ pass.from \in s + 1 .. lib
           /\ v + 1 >= pass.from + IdleLimit * (Chunk + 1)
      <4>1. v + 1 >= pass.from + Span(IdleLimit)
        BY <1>2, <3>7, <3>8
      <4>2. pass.from <= v /\ v <= lib /\ v \in Nat
        BY <1>2, <3>7, <3>9
      <4>3. QED BY <1>2, <3>1, <4>1, <4>2 DEF Span
    <3>11. QED BY <3>7, <3>10 DEF Silence
  <2>4. \A t \in Tops' : \A c \in Targets : Complete(c, t)
    <3> SUFFICES ASSUME NEW t \in Tops', NEW c \in Targets, NEW s \in inscribed[c], s <= t
                 PROVE  s \in stored[c] \/ Silence(c, s)
      BY DEF Complete
    <3>1. t \in Nat /\ t <= pass.lib /\ s \in Nat
      BY <1>2, <1>4, <1>7, <2>2
    <3>2. s <= pass.lib
      BY <1>2, <3>1
    <3>3. QED BY <2>3, <3>2 DEF Complete
  <2>5. EndedComplete'
    BY <1>1, <2>2, <2>4 DEF EndedComplete, Complete, Silence
  <2>6. QED BY <1>6, <2>5 DEF DoneInv
<1>10. QED BY <1>8, <1>9 DEF TypeOK, Pass

\* A deep walk begins with no channel known to be silent.
LEMMA DeepWalkDone ==
  ASSUME TypeOK, RangeInv, DoneInv, Targets' = Targets, DeepWalk
  PROVE  DoneInv'
<1>1. /\ pass.pc = "cursor" /\ pass.walk = "gap" /\ pass'.pc = "fetch" /\ pass'.walk = "deep"
      /\ pass'.lo = 0 /\ pass'.lib = pass.lib /\ pass'.top = pass.top
      /\ pass'.targets = pass.targets /\ pass'.genesis = pass.genesis /\ pass'.idle = pass.idle
      /\ UNCHANGED <<inscribed, lib, job, left, stored, top, floor, done>>
      /\ pass'.hi = IF pass.floor # None /\ 0 < pass.floor /\ pass.floor <= NewTop(pass)
                    THEN pass.floor ELSE NewTop(pass)
  BY DEF DeepWalk, TypeOK, Pass, node, store
<1>2. Tops' \subseteq Tops /\ (Ended' => Ended)
  BY <1>1 DEF Tops, TopWritable, Ended
<1>3. pass.lib \in Nat /\ pass.floor \in Nat /\ lib \in Nat
  BY Constants DEF TypeOK, Pass
<1>4. NewTop(pass) = pass.lib
  <2>1. pass.top # None => pass.top \in Tops /\ pass.top \in Nat
    BY Constants DEF Tops, TypeOK, Pass
  <2>2. pass.top # None => pass.top <= pass.lib
    BY <1>1, <2>1 DEF RangeInv, TopsSettled
  <2>3. QED BY <1>3, <2>1, <2>2 DEF NewTop, Larger
<1>5. pass'.hi \in Nat /\ pass'.hi <= pass.lib
  BY <1>1, <1>3, <1>4
<1>6. EndedComplete'
  BY <1>1, <1>2, <1>3, EndedKept DEF DoneInv
<1>7. \A c \in Channels : SilentAbove(c, pass.hi, pass.idle[c])'
  <2> SUFFICES ASSUME NEW c \in Channels PROVE SilentAbove(c, pass.hi, pass.idle[c])'
    OBVIOUS
  <2>1. pass'.idle[c] = 0 /\ Span(pass'.idle[c]) = 0
    BY <1>1, SpanSteps DEF DoneInv, WalkAccount
  <2>2. inscribed'[c] \cap (pass'.hi + 1 .. pass'.hi) = {}
    BY <1>5
  <2>3. pass'.hi \in pass'.hi..pass'.lib /\ pass'.hi >= pass'.hi + Span(pass'.idle[c])
    BY <1>1, <1>3, <1>5, <2>1
  <2>4. QED BY <2>2, <2>3 DEF SilentAbove, Span
<1>8. \A c \in pass'.genesis : inscribed'[c] \cap (0..pass'.lib) \subseteq stored'[c] \cup Held(job', c)
  BY <1>1 DEF DoneInv, WalkAccount
<1>9. pass'.targets = Targets'
  BY <1>1 DEF DoneInv, WalkAccount
<1>10. WalkAccount'
  BY <1>1, <1>5, <1>7, <1>8, <1>9 DEF WalkAccount, Held
<1>11. QED BY <1>6, <1>10 DEF DoneInv

\* A finished pass has nothing more to account for.
LEMMA FinishDone ==
  ASSUME TypeOK, RangeInv, DoneInv, Targets' = Targets, Finish
  PROVE  DoneInv'
<1>1. /\ pass.pc = "cursor" /\ pass'.pc = "finished" /\ pass'.walk = pass.walk
      /\ pass'.lib = pass.lib /\ pass'.top = pass.top
      /\ pass'.targets = pass.targets /\ pass'.genesis = pass.genesis /\ pass'.idle = pass.idle
      /\ UNCHANGED <<inscribed, lib, job, left, stored, top, floor, done>>
  BY DEF Finish, TypeOK, Pass, node, store
<1>2. Tops' \subseteq Tops /\ (Ended' => Ended) /\ lib \in Nat
  BY <1>1, Constants DEF Tops, TopWritable, Ended, TypeOK
<1>3. EndedComplete'
  BY <1>1, <1>2, EndedKept DEF DoneInv
<1>4. \A c \in pass'.genesis : inscribed'[c] \cap (0..pass'.lib) \subseteq stored'[c] \cup Held(job', c)
  BY <1>1 DEF DoneInv, WalkAccount
<1>5. pass'.targets = Targets' /\ (pass'.walk = "gap" => \A c \in Channels : pass'.idle[c] = 0)
  BY <1>1 DEF DoneInv, WalkAccount
<1>6. WalkAccount'
  BY <1>1, <1>4, <1>5 DEF WalkAccount, Held
<1>7. QED BY <1>3, <1>6 DEF DoneInv

\* A store job only adds to the store; done is set by the job of an ended walk.
LEMMA JobsDone ==
  ASSUME TypeOK, RangeInv, DoneInv, Targets' = Targets, RunJob \/ RunLeft
  PROVE  DoneInv'
<1>1. /\ UNCHANGED <<inscribed, lib, pass>>
      /\ \/ Effect(job) /\ job' = After(job) /\ left' = left
         \/ Effect(left) /\ left' = After(left) /\ job' = job
  BY DEF RunJob, RunLeft, node
<1>2. job \in Job /\ left \in Job /\ stored \in Batches /\ top \in Marks /\ lib \in Nat
  BY Constants DEF TypeOK
<1>3. PICK j \in {job, left} :
        /\ Effect(j)
        /\ \A k \in {job', left'} : k \in {job, left} \/ k = After(j)
        /\ \A c \in Channels : Held(job, c) \subseteq Held(job', c) \cup Held(j, c)
  BY <1>1
<1>4. \A c \in Channels : stored'[c] = stored[c] \cup Held(j, c)
  BY <1>2, <1>3 DEF Effect, Held, Batches
<1>5. /\ After(j).kind \in {"none", "floor"}
      /\ top' = IF j.kind = "top" THEN j.mark ELSE top
      /\ done' => done \/ j.kind = "done"
  BY <1>2, <1>3 DEF After, NoJob, Effect, Job
<1>6. Ended' => Ended
  BY <1>3, <1>5 DEF Ended
<1>7. Tops' \subseteq Tops
  BY <1>1, <1>3, <1>5 DEF Tops, TopWritable
<1>8. top' = None => top = None
  BY <1>3, <1>5, Constants DEF RangeInv, JobShape
<1>9. EndedComplete'
  BY <1>1, <1>2, <1>4, <1>6, <1>7, <1>8, EndedKept DEF DoneInv
<1>10. \A c \in Channels : stored[c] \cup Held(job, c) \subseteq stored'[c] \cup Held(job', c)
  BY <1>3, <1>4
<1>11. WalkAccount'
  BY <1>1, <1>10, AccountKept DEF DoneInv
<1>12. QED BY <1>9, <1>11 DEF DoneInv

\* A restart loses the account with the pass, and no store job that it does not drop.
LEMMA RestartDone ==
  ASSUME TypeOK, RangeInv, DoneInv, Targets' = Targets, ~MayStartLate, Reconfigure \/ Crash
  PROVE  DoneInv'
<1>1. /\ pass' = NewPass /\ job' = NoJob /\ left' \in {left, job, NoJob}
      /\ UNCHANGED <<inscribed, lib, stored, top, done>>
  BY DEF Reconfigure, Crash, node, store
<1>2. /\ NewPass.pc = "start" /\ NewPass.walk = "gap" /\ NewPass.lib = 0
      /\ NewPass.top = None /\ NewPass.genesis = {} /\ NewPass.idle = [c \in Channels |-> 0]
      /\ NoJob.kind = "none"
  BY DEF NewPass, NoJob
<1>3. Tops' \subseteq Tops /\ (Ended' => Ended) /\ lib \in Nat
  BY <1>1, <1>2, Constants DEF Tops, TopWritable, Ended, TypeOK
<1>4. EndedComplete'
  BY <1>1, <1>3, EndedKept DEF DoneInv
<1>5. WalkAccount'
  BY <1>1, <1>2 DEF WalkAccount
<1>6. QED BY <1>4, <1>5 DEF DoneInv

\* The channels that gate the deep walk stay the same.  done belongs to a set of
\* channels, whichever of them are flagged: another flag does not take it back.
SameTargets == [][Targets' = Targets]_full

\* When no request and no write fails, a superseded pass is past its start, and no
\* configuration changes which channels gate the walk, done is set only once each
\* settled block of a target is in the store, or lies below a silence of IdleLimit
\* chunks: whichever passes were cut short, and with every job still to come.
THEOREM DoneLeavesNothing ==
  ~FetchMayFail /\ ~CommitMayFail /\ ~MayStartLate => (Spec /\ SameTargets => []DoneIsComplete)
<1> SUFFICES ASSUME ~FetchMayFail, ~CommitMayFail, ~MayStartLate
             PROVE  Spec /\ SameTargets => []DoneIsComplete
  OBVIOUS
<1>1. Init => DoneInv
  <2> SUFFICES ASSUME Init PROVE DoneInv
    OBVIOUS
  <2>1. ~Ended
    BY DEF Init, Ended, NoJob
  <2>2. /\ pass.pc = "start" /\ pass.walk = "gap" /\ pass.genesis = {}
        /\ pass.idle = [c \in Channels |-> 0]
    BY DEF Init, NewPass
  <2>3. QED BY <2>1, <2>2 DEF DoneInv, EndedComplete, WalkAccount
<1>2. TypeOK /\ RangeInv /\ DoneInv /\ [Next]_vars /\ [Targets' = Targets]_full => DoneInv'
  <2> SUFFICES ASSUME TypeOK, RangeInv, DoneInv, [Next]_vars, Targets' = Targets PROVE DoneInv'
    BY DEF Targets
  <2>1. CASE Walk
    <3>1. ~GiveUp
      BY DEF GiveUp
    <3>2. QED BY <2>1, <3>1, StartDone, FetchDone, NextChunkDone, EndWalkDone,
                 DeepWalkDone, FinishDone DEF Walk
  <2>2. CASE Jobs
    <3>1. ~JobFails /\ ~LateStart
      BY DEF JobFails, LateStart, RangeInv, JobShape
    <3>2. QED BY <2>2, <3>1, JobsDone DEF Jobs
  <2>3. CASE Reconfigure \/ Crash
    BY <2>3, RestartDone
  <2>4. CASE AdvanceLib \/ UNCHANGED vars
    <3>1. UNCHANGED <<inscribed, pass, job, left, stored, top, floor, done>>
      BY <2>4 DEF AdvanceLib, vars, node, store
    <3>2. lib' \in Nat /\ lib <= lib'
      BY <2>4, Constants DEF AdvanceLib, vars, node, TypeOK
    <3>3. Tops' \subseteq Tops /\ (Ended' => Ended)
      BY <3>1 DEF Tops, TopWritable, Ended
    <3>4. EndedComplete'
      BY <3>1, <3>2, <3>3, EndedKept DEF DoneInv
    <3>5. WalkAccount'
      BY <3>1, AccountKept DEF DoneInv
    <3>6. QED BY <3>4, <3>5 DEF DoneInv
  <2>5. QED BY <2>1, <2>2, <2>3, <2>4 DEF Next
<1>3. TypeOK /\ DoneInv => DoneIsComplete
  <2> SUFFICES ASSUME TypeOK, DoneInv, done, NEW c \in Targets, NEW s \in inscribed[c], s <= top
               PROVE  s \in stored[c] \/ Silence(c, s)
    BY DEF DoneIsComplete
  <2>1. top # None /\ \A t \in Tops : Complete(c, t)
    BY DEF DoneInv, EndedComplete, Ended
  <2>2. top \in Tops
    BY <2>1, Constants DEF TypeOK, Tops
  <2>3. QED BY <2>1, <2>2 DEF Complete
<1>4. QED BY <1>1, <1>2, <1>3, RangeInvariant, BackfillTypes, PTL DEF Spec, SameTargets
--------------------------------------------------------------------------------
(* The end of every pass *)

\* A walk that is about to fetch has a slot before it.
WalkBounds == pass.pc = "fetch" => pass.lo <= pass.hi
BoundInv == TypeOK /\ WalkBounds

LEMMA PassStepsIs ==
  /\ DeepSteps = 2 * MaxSlot + 4
  /\ \A p : /\ p.pc = "start" => PassSteps(p) = 2 * DeepSteps
            /\ p.pc = "fetch" /\ p.walk = "gap" => PassSteps(p) = DeepSteps + 2 * p.hi + 2
            /\ p.pc = "fetch" /\ p.walk = "deep" => PassSteps(p) = 1 + 2 * p.hi + 2
            /\ p.pc = "folded" /\ p.walk = "gap" => PassSteps(p) = DeepSteps + 2 * p.from + 1
            /\ p.pc = "folded" /\ p.walk = "deep" => PassSteps(p) = 1 + 2 * p.from + 1
            /\ p.pc = "cursor" /\ p.walk = "gap" => PassSteps(p) = DeepSteps
            /\ p.pc = "cursor" /\ p.walk = "deep" => PassSteps(p) = 1
            /\ p.pc = "finished" => PassSteps(p) = 0
  BY DEF PassSteps, DeepSteps

LEMMA JobStepsIs ==
  \A j \in Job : /\ JobSteps(j) \in 0..2
                 /\ JobSteps(j) = 0 <=> j.kind = "none"
                 /\ j.kind = "commit" /\ j.mark # None => JobSteps(j) = 2
                 /\ j.kind = "floor" => JobSteps(j) = 1
<1> SUFFICES ASSUME NEW j \in Job
             PROVE  /\ JobSteps(j) \in 0..2
                    /\ JobSteps(j) = 0 <=> j.kind = "none"
                    /\ j.kind = "commit" /\ j.mark # None => JobSteps(j) = 2
                    /\ j.kind = "floor" => JobSteps(j) = 1
  OBVIOUS
<1>1. CASE j.kind = "none"
  BY <1>1 DEF JobSteps
<1>2. CASE j.kind = "commit" /\ j.mark # None
  BY <1>2 DEF JobSteps
<1>3. CASE j.kind # "none" /\ ~(j.kind = "commit" /\ j.mark # None)
  <2>1. JobSteps(j) = 1
    BY <1>3 DEF JobSteps
  <2>2. QED BY <1>3, <2>1
<1>4. QED BY <1>1, <1>2, <1>3

\* A pass has its place in the walk, whichever bound it was given.
LEMMA PassStepsType ==
  ASSUME NEW p \in Pass
  PROVE  PassSteps(p) \in Nat /\ (p.pc # "finished" => PassSteps(p) > 0)
<1>1. /\ p.pc \in {"start", "fetch", "folded", "cursor", "finished"} /\ p.walk \in {"gap", "deep"}
      /\ p.hi \in Nat /\ p.from \in Nat /\ MaxSlot \in Nat
  BY Constants DEF Pass
<1>2. QED BY <1>1, PassStepsIs

\* A pass that moves down has room for what its next job has to do.
LEMMA PassLowers ==
  ASSUME TypeOK, TypeOK', PassSteps(pass') < PassSteps(pass)
  PROVE  StepsLeft' < StepsLeft
<1>1. PassSteps(pass) \in Nat /\ PassSteps(pass') \in Nat
  BY PassStepsType DEF TypeOK
<1>2. JobSteps(job) \in 0..2 /\ JobSteps(job') \in 0..2
  BY JobStepsIs DEF TypeOK
<1>3. StepsLeft = 3 * PassSteps(pass) + JobSteps(job) /\ StepsLeft' = 3 * PassSteps(pass') + JobSteps(job')
  BY DEF StepsLeft, PassSteps, JobSteps, DeepSteps
<1>4. QED BY <1>1, <1>2, <1>3

\* Every step of the pass takes it down, and leaves it a slot to fetch if it is to fetch.
LEMMA WalkLowers ==
  ASSUME BoundInv, Walk
  PROVE  PassSteps(pass') < PassSteps(pass) /\ WalkBounds'
<1>0. /\ pass \in Pass /\ lib \in Nat /\ lib <= MaxSlot /\ MaxSlot \in Nat /\ Chunk \in Nat /\ Chunk > 0
      /\ pass.hi \in Nat /\ pass.hi <= MaxSlot /\ pass.from \in Nat /\ pass.lo \in Nat
      /\ pass.walk \in {"gap", "deep"} /\ pass' \in Pass
  BY Constants, WalkType, BackfillAssumption DEF BoundInv, TypeOK, Pass, Slots
<1>1. CASE Start
  <2>1. pass.pc = "start" /\ pass'.walk = "gap" /\ pass'.pc \in {"fetch", "cursor"}
        /\ (pass'.pc = "fetch" => pass'.hi = lib /\ pass'.lo = GapLow /\ GapLow < lib)
    BY <1>1 DEF Start, NewPass, HasGap
  <2>2. GapLow \in Nat
    BY <1>0, Constants DEF GapLow, Smaller, Minus, BoundInv, TypeOK
  <2>3. QED BY <1>0, <2>1, <2>2, PassStepsIs DEF WalkBounds
<1>2. CASE GiveUp
  <2>1. pass.pc = "start" /\ pass'.pc = "finished"
    BY <1>0, <1>2 DEF GiveUp, Pass
  <2>2. QED BY <1>0, <2>1, PassStepsIs DEF WalkBounds
<1>3. ASSUME NEW fetched \in BOOLEAN, FetchChunk(fetched)
      PROVE  PassSteps(pass') < PassSteps(pass) /\ WalkBounds'
  <2> DEFINE from == Larger(Minus(pass.hi, Chunk), pass.lo)
  <2>1. pass.pc = "fetch" /\ pass'.pc = "folded" /\ pass'.from = from /\ pass'.walk = pass.walk
    BY <1>0, <1>3 DEF FetchChunk, Pass
  <2>2. from \in Nat /\ from <= pass.hi
    BY <1>0, <2>1 DEF Larger, Minus, BoundInv, WalkBounds
  <2> HIDE DEF from
  <2>3. QED BY <1>0, <2>1, <2>2, PassStepsIs DEF WalkBounds
<1>4. CASE NextChunk
  <2>1. /\ pass.pc = "folded" /\ pass'.pc = "fetch" /\ pass'.hi = pass.from - 1
        /\ pass'.walk = pass.walk /\ pass'.lo = pass.lo /\ pass.from > pass.lo
    BY <1>0, <1>4 DEF NextChunk, Pass
  <2>2. QED BY <1>0, <2>1, PassStepsIs DEF WalkBounds
<1>5. CASE EndWalk
  <2>1. pass.pc = "folded" /\ pass'.pc = "cursor" /\ pass'.walk = pass.walk
    BY <1>0, <1>5 DEF EndWalk, Pass
  <2>2. QED BY <1>0, <2>1, PassStepsIs DEF WalkBounds
<1>6. CASE DeepWalk
  <2>1. pass.pc = "cursor" /\ pass.walk = "gap" /\ pass'.pc = "fetch" /\ pass'.walk = "deep" /\ pass'.lo = 0
    BY <1>0, <1>6 DEF DeepWalk, Pass
  <2>2. pass'.hi \in Nat /\ pass'.hi <= MaxSlot
    BY <1>0, Constants DEF Pass, Slots
  <2>3. QED BY <1>0, <2>1, <2>2, PassStepsIs DEF WalkBounds
<1>7. CASE Finish
  <2>1. pass.pc = "cursor" /\ pass'.pc = "finished"
    BY <1>0, <1>7 DEF Finish, Pass
  <2>2. QED BY <1>0, <2>1, PassStepsIs DEF WalkBounds
<1>8. QED BY <1>1, <1>2, <1>3, <1>4, <1>5, <1>6, <1>7 DEF Walk

\* So does its job, written or not.
LEMMA JobLowers ==
  ASSUME TypeOK, job.kind # "none", job' \in {After(job), NoJob}, pass' = pass
  PROVE  StepsLeft' < StepsLeft
<1>1. job \in Job /\ NoJob \in Job /\ NoJob.kind = "none" /\ After(job) \in Job
  BY NewTypes DEF TypeOK, NoJob, After, Job
<1>2. JobSteps(job) \in Nat /\ JobSteps(job) > 0 /\ JobSteps(NoJob) = 0
  BY <1>1, JobStepsIs
<1>3. JobSteps(After(job)) < JobSteps(job)
  <2>1. CASE job.kind = "commit" /\ job.mark # None
    <3>1. After(job).kind = "floor"
      BY <1>1, <2>1 DEF After, Job
    <3>2. QED BY <1>1, <2>1, <3>1, JobStepsIs
  <2>2. CASE ~(job.kind = "commit" /\ job.mark # None)
    BY <1>2, <2>2 DEF After
  <2>3. QED BY <2>1, <2>2
<1>4. JobSteps(job') < JobSteps(job) /\ JobSteps(job') \in Nat
  BY <1>1, <1>2, <1>3, JobStepsIs
<1>5. PassSteps(pass) \in Nat
  BY PassStepsType DEF TypeOK
<1>6. StepsLeft = 3 * PassSteps(pass) + JobSteps(job) /\ StepsLeft' = 3 * PassSteps(pass) + JobSteps(job')
  BY DEF StepsLeft, PassSteps, JobSteps, DeepSteps
<1>7. QED BY <1>2, <1>4, <1>5, <1>6

\* What the jobs do to the pass and its job.
LEMMA JobsLower ==
  ASSUME TypeOK, Jobs
  PROVE  pass' = pass /\ (job' = job \/ StepsLeft' < StepsLeft)
<1>1. pass' = pass
  BY DEF Jobs, RunJob, RunLeft, LateStart, JobFails
<1>2. CASE RunJob
  BY <1>1, <1>2, JobLowers DEF RunJob
<1>3. CASE RunLeft \/ LateStart
  BY <1>1, <1>3 DEF RunLeft, LateStart
<1>4. CASE JobFails
  BY <1>1, <1>4, JobLowers DEF JobFails
<1>5. QED BY <1>1, <1>2, <1>3, <1>4 DEF Jobs

\* Whichever requests and writes fail, whatever a superseded pass still writes: until it
\* is superseded itself a pass has less before it with each of its steps, so that no pass
\* takes more than a bound in the number of slots, and fairness is all it needs to end.
THEOREM PassesEndInTime == Spec => Descends
<1>1. Init => BoundInv
  <2>1. Init => TypeOK
    BY TypeOfInit
  <2>2. Init => WalkBounds
    BY DEF Init, NewPass, WalkBounds
  <2>3. QED BY <2>1, <2>2 DEF BoundInv
<1>2. ASSUME BoundInv, Next, <<pass, job>>' # <<pass, job>>, restarts' = restarts
      PROVE  StepsLeft' < StepsLeft
  <2>1. Walk \/ Jobs
    <3>1. ~Reconfigure /\ ~Crash
      <4>1. restarts \in Nat
        BY <1>2, Constants DEF BoundInv, TypeOK
      <4>2. QED BY <1>2, <4>1 DEF Reconfigure, Crash
    <3>2. ~AdvanceLib
      BY <1>2 DEF AdvanceLib
    <3>3. QED BY <1>2, <3>1, <3>2 DEF Next
  <2>2. TypeOK /\ TypeOK'
    BY <1>2, <2>1, WalkType, JobsType DEF BoundInv
  <2>3. CASE Walk
    BY <1>2, <2>2, <2>3, WalkLowers, PassLowers
  <2>4. CASE Jobs
    BY <1>2, <2>2, <2>4, JobsLower
  <2>5. QED BY <2>1, <2>3, <2>4
<1>3. BoundInv /\ [Next]_vars => BoundInv'
  <2> SUFFICES ASSUME BoundInv, [Next]_vars PROVE WalkBounds'
    BY TypeOfStep DEF BoundInv
  <2>1. CASE Walk
    BY <2>1, WalkLowers
  <2>2. CASE Jobs \/ AdvanceLib \/ UNCHANGED vars
    <3>1. pass' = pass
      BY <2>2, JobsLower DEF AdvanceLib, vars, BoundInv
    <3>2. QED BY <3>1 DEF BoundInv, WalkBounds
  <2>3. CASE Reconfigure \/ Crash
    BY <2>3 DEF Reconfigure, Crash, NewPass, WalkBounds
  <2>4. QED BY <2>1, <2>2, <2>3 DEF Next
<1>4. BoundInv /\ [Next]_vars =>
        [ <<pass, job>>' # <<pass, job>> => restarts' # restarts \/ StepsLeft' < StepsLeft ]_vars
  BY <1>2
<1>5. QED BY <1>1, <1>3, <1>4, PTL DEF Spec, Descends
--------------------------------------------------------------------------------
(* The refinement of Coverage *)

\* A step that leaves a job and what it is judged by alone leaves it settled.
LEMMA LeftSettled ==
  ASSUME TypeOK, SettledInv, UNCHANGED <<inscribed, lib, left, top>>
  PROVE  JobSettled(left)'
  BY DEF SettledInv, JobSettled, FloorJob

LEMMA SettledWalk ==
  ASSUME TypeOK, RangeInv, SettledInv, ~FetchMayFail, Walk
  PROVE  SettledInv' /\ UNCHANGED <<inscribed, lib, stored, top, floor, done>>
<1>0. /\ pass \in Pass /\ lib \in Nat /\ pass.hi \in Nat /\ pass.lo \in Nat /\ pass.lib \in Nat
      /\ pass.from \in Nat /\ Chunk \in Nat /\ pass.walk \in {"gap", "deep"} /\ pass.lib <= lib
      /\ inscribed \in Batches
  BY Constants DEF TypeOK, Pass, RangeInv, TopsSettled
<1>1. UNCHANGED <<inscribed, lib, left, stored, top, floor, done>>
  BY DEF Walk, Start, GiveUp, FetchChunk, NextChunk, EndWalk, DeepWalk, Finish, node, store
<1>2. JobSettled(left)'
  BY <1>1, LeftSettled
<1>3. job'.kind \in {"none", "top"} => JobSettled(job)'
  BY DEF JobSettled, FloorJob
<1>4. job' = job => JobSettled(job)'
  BY <1>1 DEF SettledInv, JobSettled, FloorJob
<1>5. pass'.pc \in {"cursor", "finished"} => WalkSettled'
  BY DEF WalkSettled
<1>6. CASE Start
  <2>1. CASE HasGap
    <3>1. /\ job' = job /\ pass'.pc = "fetch" /\ pass'.hi = lib /\ pass'.lo = GapLow
          /\ pass'.lib = lib /\ GapLow < lib
      BY <1>6, <2>1 DEF Start, NewPass, HasGap
    <3>2. GapLow \in Nat
      BY <1>0, Constants DEF GapLow, Smaller, Minus, TypeOK
    <3>3. WalkSettled'
      BY <1>0, <3>1, <3>2 DEF WalkSettled
    <3>4. QED BY <1>1, <1>2, <1>4, <3>1, <3>3 DEF SettledInv
  <2>2. CASE ~HasGap
    <3>1. job'.kind = "top" /\ pass'.pc = "cursor"
      BY <1>6, <2>2 DEF Start, SetTop, NoJob, NewPass
    <3>2. QED BY <1>1, <1>2, <1>3, <1>5, <3>1 DEF SettledInv
  <2>3. QED BY <2>1, <2>2
<1>7. CASE GiveUp
  BY <1>7 DEF GiveUp
<1>8. ASSUME NEW fetched \in BOOLEAN, FetchChunk(fetched) PROVE SettledInv'
  <2> DEFINE from == Larger(Minus(pass.hi, Chunk), pass.lo)
  <2>1. /\ pass.pc = "fetch" /\ pass'.pc = "folded" /\ pass'.from = from
        /\ pass'.lo = pass.lo /\ pass'.hi = pass.hi /\ pass'.lib = pass.lib
    BY <1>0, <1>8 DEF FetchChunk, Pass
  <2>2. /\ job'.kind = "commit" /\ job'.mark \in {from, None}
        /\ \A c \in Channels : job'.batch[c] \subseteq inscribed[c] \cap (from..pass.hi)
    BY <1>8 DEF FetchChunk
  <2>3. from \in Nat /\ from <= pass.hi /\ pass.lo <= pass.hi /\ pass.hi <= pass.lib
    BY <1>0, <2>1 DEF Larger, Minus, SettledInv, WalkSettled
  <2> HIDE DEF from
  <2>4. WalkSettled'
    BY <2>1, <2>3 DEF WalkSettled
  <2>5. from..pass.hi \subseteq 0..lib
    BY <1>0, <2>3
  <2>6. \A c \in Channels : job'.batch[c] \subseteq inscribed'[c] \cap (0..lib')
    BY <1>1, <2>2, <2>5
  <2>7. job'.mark # None => job'.mark <= lib'
    BY <1>0, <1>1, <2>2, <2>3
  <2>8. JobSettled(job)'
    BY <2>2, <2>6, <2>7 DEF JobSettled, FloorJob
  <2>9. QED BY <1>2, <2>4, <2>8 DEF SettledInv
<1>9. CASE NextChunk
  <2>1. /\ pass.pc = "folded" /\ pass'.pc = "fetch" /\ pass'.hi = pass.from - 1 /\ job' = job
        /\ pass'.lib = pass.lib /\ pass'.lo = pass.lo /\ pass.from > pass.lo
    BY <1>0, <1>9 DEF NextChunk, Pass
  <2>2. WalkSettled'
    BY <1>0, <2>1 DEF SettledInv, WalkSettled
  <2>3. QED BY <1>1, <1>2, <1>4, <2>1, <2>2 DEF SettledInv
<1>10. CASE EndWalk
  <2>1. pass'.pc = "cursor" /\ (pass.walk = "gap" => job'.kind = "top") /\ (pass.walk = "deep" => job'.kind = "done")
    BY <1>0, <1>10 DEF EndWalk, SetTop, NoJob, Pass
  <2>2. CASE pass.walk = "gap"
    BY <1>1, <1>2, <1>3, <1>5, <2>1, <2>2 DEF SettledInv
  <2>3. CASE pass.walk = "deep"
    <3>1. top' # None
      BY <1>1, <2>3 DEF RangeInv, TopFirst
    <3>2. JobSettled(job)'
      BY <2>1, <2>3, <3>1 DEF JobSettled, FloorJob
    <3>3. QED BY <1>1, <1>2, <1>5, <2>1, <3>2 DEF SettledInv
  <2>4. QED BY <1>0, <2>2, <2>3
<1>11. CASE DeepWalk
  <2>1. /\ pass.pc = "cursor" /\ pass'.pc = "fetch" /\ pass'.lo = 0 /\ pass'.lib = pass.lib /\ job' = job
        /\ pass'.hi \in {pass.floor, NewTop(pass)} /\ (pass'.hi # NewTop(pass) => pass'.hi <= NewTop(pass))
    BY <1>0, <1>11 DEF DeepWalk, Pass
  <2>2. NewTop(pass) = pass.lib
    <3>1. pass.top # None => pass.top \in Tops /\ pass.top \in Nat
      BY Constants DEF Tops, TypeOK, Pass
    <3>2. pass.top # None => pass.top <= pass.lib
      BY <2>1, <3>1 DEF RangeInv, TopsSettled
    <3>3. QED BY <1>0, <3>1, <3>2 DEF NewTop, Larger
  <2>3. pass'.hi \in Nat
    BY <1>0, <2>1, <2>2, Constants DEF Pass
  <2>4. WalkSettled'
    BY <1>0, <2>1, <2>2, <2>3 DEF WalkSettled
  <2>5. QED BY <1>1, <1>2, <1>4, <2>1, <2>4 DEF SettledInv
<1>12. CASE Finish
  <2>1. pass'.pc = "finished" /\ job' = job
    BY <1>0, <1>12 DEF Finish, Pass
  <2>2. QED BY <1>1, <1>2, <1>4, <1>5, <2>1 DEF SettledInv
<1>13. QED BY <1>1, <1>6, <1>7, <1>8, <1>9, <1>10, <1>11, <1>12 DEF Walk

\* What a settled job does is a step of the promise.
LEMMA EffectCovers ==
  ASSUME TypeOK, RangeInv, SettledInv, NEW j \in {job, left}, j.kind # "none", Effect(j),
         UNCHANGED <<inscribed, lib>>
  PROVE  Promise!Next
<1>0. /\ j \in Job /\ lib \in Nat /\ stored \in Batches /\ inscribed \in Batches
      /\ j.kind # "start"
  <2>1. pass.pc \in {"start", "fetch", "folded", "cursor", "finished"}
    BY DEF TypeOK, Pass
  <2>2. job.kind # "start" /\ left.kind # "start"
    BY <2>1 DEF RangeInv, JobShape, Waiting
  <2>3. QED BY <2>2, Constants DEF TypeOK
<1>1. JobSettled(j)
  BY DEF SettledInv
<1>2. UNCHANGED Promise!chain
  BY DEF Promise!chain
<1>3. \A a, b : Stored(a, b) => Promise!Complete(a, b)
  BY StoredIs DEF Promise!Complete
<1>4. CASE j.kind = "commit"
  <2> DEFINE seen == [c \in Channels |-> j.batch[c]]
  <2>1. \A c \in Channels : j.batch[c] \subseteq inscribed[c] \cap (0..lib)
    BY <1>1, <1>4 DEF JobSettled
  <2>2. seen \in [Channels -> SUBSET (0..lib)]
    BY <2>1
  <2>3. stored' = [c \in Channels |-> stored[c] \cup (inscribed[c] \cap seen[c])]
    <3>1. stored' = [c \in Channels |-> stored[c] \cup j.batch[c]]
      BY <1>4 DEF Effect
    <3>2. \A c \in Channels : inscribed[c] \cap seen[c] = j.batch[c]
      BY <2>1
    <3>3. QED BY <3>1, <3>2
  <2> HIDE DEF seen
  <2>4. UNCHANGED <<top, floor, done>>
    BY <1>4 DEF Effect, TypeOK
  <2>5. Promise!Gather
    BY <1>2, <2>2, <2>3, <2>4 DEF Promise!Gather
  <2>6. QED BY <2>5 DEF Promise!Next
<1>5. CASE j.kind = "floor"
  <2>1. /\ floor' = j.mark /\ UNCHANGED <<stored, top>> /\ done' = done
    BY <1>5 DEF Effect, TypeOK
  <2>2. FloorJob(j)
    BY <1>1, <1>5 DEF FloorJob, JobSettled
  <2>3. top # None /\ top \in Tops
    BY <2>2, Constants DEF RangeInv, TopFirst, Tops, TypeOK
  <2>4. StoredBy(j, j.mark, top)
    BY <2>2, <2>3 DEF RangeInv, FloorsCovered
  <2>5. Stored(j.mark, top)
    BY <1>5, <2>4 DEF Stored, StoredBy, Held, NoJob
  <2>6. j.mark \in 0..lib
    <3>1. j.mark \in Nat
      BY <1>0, Constants DEF Job
    <3>2. j.mark <= lib
      BY <1>1, <2>2 DEF JobSettled
    <3>3. QED BY <1>0, <3>1, <3>2
  <2>7. Promise!MoveFloor(j.mark)
    BY <1>2, <1>3, <2>1, <2>3, <2>5 DEF Promise!MoveFloor
  <2>8. QED BY <2>6, <2>7 DEF Promise!Next
<1>6. CASE j.kind = "top"
  <2>1. top' = j.mark /\ UNCHANGED <<stored, floor>> /\ done' = done
    BY <1>6 DEF Effect, TypeOK
  <2>2. j.mark \in Slots /\ j.mark \in Tops
    BY <1>6 DEF RangeInv, JobShape, Tops
  <2>3. j.mark \in 0..lib /\ (floor # None => Stored(floor, j.mark))
    BY <1>0, <2>2, Constants DEF RangeInv, TopsSettled, FloorsCovered
  <2>4. Promise!MoveTop(j.mark)
    BY <1>2, <1>3, <2>1, <2>3 DEF Promise!MoveTop
  <2>5. QED BY <2>3, <2>4 DEF Promise!Next
<1>7. CASE j.kind = "done"
  <2>1. done' = TRUE /\ UNCHANGED <<stored, top, floor>>
    BY <1>7 DEF Effect
  <2>2. top # None
    BY <1>1, <1>7 DEF JobSettled
  <2>3. QED BY <1>2, <2>1, <2>2 DEF Promise!End, Promise!Next
<1>8. QED BY <1>0, <1>4, <1>5, <1>6, <1>7 DEF Job

\* After it, what is left of the job and the other one are settled.
LEMMA EffectSettled ==
  ASSUME TypeOK, RangeInv, SettledInv, NEW j \in {job, left}, Effect(j),
         UNCHANGED <<inscribed, lib, pass>>, {job', left'} \subseteq {job, left, After(j)}
  PROVE  SettledInv'
<1>0. j \in Job
  BY DEF TypeOK
<1>1. top # None => top' # None
  BY Constants DEF Effect, RangeInv, JobShape
<1>2. JobSettled(job) /\ JobSettled(left)
  BY DEF SettledInv
<1>3. /\ After(j).kind \in {"none", "floor"}
      /\ After(j).kind = "floor" => FloorJob(After(j)) /\ FloorJob(j) /\ After(j).mark = j.mark
  BY <1>0 DEF After, NoJob, FloorJob, Job
<1>4. After(j).kind = "floor" => After(j).mark <= lib /\ After(j).mark # None
  BY <1>2, <1>3 DEF JobSettled, FloorJob
<1>5. JobSettled(job)'
  <2>1. CASE job' \in {job, left}
    BY <1>1, <1>2, <2>1 DEF JobSettled, FloorJob
  <2>2. CASE job' = After(j)
    BY <1>3, <1>4, <2>2 DEF JobSettled, FloorJob
  <2>3. QED BY <2>1, <2>2
<1>6. JobSettled(left)'
  <2>1. CASE left' \in {job, left}
    BY <1>1, <1>2, <2>1 DEF JobSettled, FloorJob
  <2>2. CASE left' = After(j)
    BY <1>3, <1>4, <2>2 DEF JobSettled, FloorJob
  <2>3. QED BY <2>1, <2>2
<1>7. WalkSettled'
  BY DEF SettledInv, WalkSettled
<1>8. QED BY <1>5, <1>6, <1>7 DEF SettledInv

LEMMA SettledStep ==
  ASSUME TypeOK, RangeInv, SettledInv, ~FetchMayFail, ~CommitMayFail, ~MayStartLate, [Next]_vars
  PROVE  SettledInv' /\ [Promise!Next]_Promise!vars
<1>0. lib \in Nat
  BY Constants DEF TypeOK
<1>1. UNCHANGED <<inscribed, lib, stored, top, floor, done>> => UNCHANGED Promise!vars
  BY DEF Promise!vars, Promise!chain
<1>2. CASE Walk
  BY <1>1, <1>2, SettledWalk
<1>3. CASE Jobs
  <2>1. ~JobFails /\ ~LateStart
    BY DEF JobFails, LateStart, RangeInv, JobShape
  <2>2. CASE RunJob
    <3>1. /\ job.kind # "none" /\ Effect(job) /\ UNCHANGED <<inscribed, lib, pass>>
          /\ {job', left'} \subseteq {job, left, After(job)}
      BY <2>2 DEF RunJob, node
    <3>2. QED BY <3>1, EffectCovers, EffectSettled
  <2>3. CASE RunLeft
    <3>1. /\ left.kind # "none" /\ Effect(left) /\ UNCHANGED <<inscribed, lib, pass>>
          /\ {job', left'} \subseteq {job, left, After(left)}
      BY <2>3 DEF RunLeft, node
    <3>2. QED BY <3>1, EffectCovers, EffectSettled
  <2>4. QED BY <1>3, <2>1, <2>2, <2>3 DEF Jobs
<1>4. CASE Reconfigure \/ Crash
  <2>1. /\ pass' = NewPass /\ job' = NoJob /\ left' \in {left, job, NoJob}
        /\ UNCHANGED <<inscribed, lib, stored, top, floor, done>>
    BY <1>4 DEF Reconfigure, Crash, node, store
  <2>2. NoJob.kind = "none" /\ NewPass.pc = "start"
    BY DEF NoJob, NewPass
  <2>3. JobSettled(job)'
    BY <2>1, <2>2 DEF JobSettled, FloorJob
  <2>4. JobSettled(left)'
    BY <2>1, <2>2 DEF SettledInv, JobSettled, FloorJob
  <2>5. WalkSettled'
    BY <2>1, <2>2 DEF WalkSettled
  <2>6. QED BY <1>1, <2>1, <2>3, <2>4, <2>5 DEF SettledInv
<1>5. CASE AdvanceLib
  <2>1. lib' = lib + 1 /\ lib' \in Slots /\ UNCHANGED <<inscribed, pass, job, left, stored, top, floor, done>>
    BY <1>0, <1>5, Constants DEF AdvanceLib, store, Slots
  <2>2. Promise!Settle
    BY <1>0, <2>1 DEF Promise!Settle
  <2>3. 0..lib \subseteq 0..lib'
    BY <1>0, <2>1
  <2>4. \A j \in {job, left} : FloorJob(j) => j.mark \in Nat /\ j.mark <= lib
    BY Constants DEF TypeOK, Job, SettledInv, JobSettled
  <2>5. \A j \in {job, left} : FloorJob(j) => j.mark <= lib'
    BY <1>0, <2>1, <2>4
  <2>6. \A j \in {job, left} : j.kind = "commit" =>
          \A c \in Channels : j.batch[c] \subseteq inscribed[c] \cap (0..lib')
    BY <2>3 DEF SettledInv, JobSettled
  <2>7. JobSettled(job)' /\ JobSettled(left)'
    BY <2>1, <2>5, <2>6 DEF SettledInv, JobSettled, FloorJob
  <2>8. WalkSettled'
    BY <2>1 DEF SettledInv, WalkSettled
  <2>9. QED BY <2>2, <2>7, <2>8 DEF SettledInv, Promise!Next
<1>6. CASE UNCHANGED vars
  BY <1>1, <1>6 DEF vars, node, store, SettledInv, JobSettled, FloorJob, WalkSettled
<1>7. QED BY <1>2, <1>3, <1>4, <1>5, <1>6 DEF Next

\* When no request and no write fails and a superseded pass is past its start, the passes
\* and their jobs implement Coverage, step by step: no cursor ever moves to where a block
\* is missing or a slot is not settled, in whichever order two passes' jobs are run, and
\* nothing that was stored is lost.
THEOREM BackfillCovers ==
  ~FetchMayFail /\ ~CommitMayFail /\ ~MayStartLate => (Spec => Covers)
<1> SUFFICES ASSUME ~FetchMayFail, ~CommitMayFail, ~MayStartLate PROVE Spec => Covers
  OBVIOUS
<1>1. Init => SettledInv
  BY DEF Init, SettledInv, JobSettled, FloorJob, WalkSettled, NoJob, NewPass
<1>2. Init => Promise!Init
  BY DEF Init, Promise!Init, Batches, NoBatch
<1>3. TypeOK /\ RangeInv /\ SettledInv /\ [Next]_vars => SettledInv' /\ [Promise!Next]_Promise!vars
  BY SettledStep
<1>4. Spec => []RangeInv
  BY RangeInvariant
<1>5. Spec => Promise!Init /\ [][Promise!Next]_Promise!vars
  BY <1>1, <1>2, <1>3, <1>4, BackfillTypes, PTL DEF Spec
<1>6. QED BY <1>5 DEF Covers, Promise!Spec
================================================================================
