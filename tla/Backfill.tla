-------------------------------- MODULE Backfill -------------------------------
(***************************************************************************)
(* backfill_seed: the restart-safe walk that persists the settled history  *)
(* of the tracked channels.  Three cursors of the store drive it: top, the *)
(* highest slot covered; floor, the low-water mark of the deep walk; done, *)
(* the deep walk ended.  A pass first re-scans the slots settled since the *)
(* last one, then walks down from the floor.                               *)
(*                                                                         *)
(* Every write is a job handed to spawn_blocking.  Applying a              *)
(* configuration supersedes the running pass, which stops at its next      *)
(* check of the generation, but the job it had started still runs; a crash *)
(* loses both.                                                             *)
(*                                                                         *)
(* One scope (node and set of channels, scope_fp).  A zone block is the    *)
(* channel and the slot of its inscription; the earliest one of a channel  *)
(* is its genesis, block id 0.                                             *)
(***************************************************************************)
EXTENDS Naturals, FiniteSets

CONSTANTS Channels,       \* the channels in focus
          MaxSlot,        \* bound: highest L1 slot
          Chunk,          \* CHUNK_SLOTS
          Recent,         \* RECENT_VERIFY_SLOTS
          IdleLimit,      \* BACKFILL_IDLE_CHUNKS
          MaxRestarts,    \* bound: crashes and re-configurations
          FetchMayFail,   \* a request to the node may fail
          CommitMayFail,  \* a write to the store may fail
          MayStartLate    \* a superseded pass may still be reading lib and the cursors

ASSUME BackfillAssumption ==
  /\ Channels # {}
  /\ MaxSlot \in Nat /\ Recent \in Nat /\ MaxRestarts \in Nat
  /\ Chunk \in Nat \ {0} /\ IdleLimit \in Nat \ {0}
  /\ FetchMayFail \in BOOLEAN /\ CommitMayFail \in BOOLEAN /\ MayStartLate \in BOOLEAN

VARIABLES inscribed,      \* the slots of each channel's inscriptions, those to come included
          lib,            \* the node's last irreversible slot
          full,           \* the channels flagged full in the configuration
          pass,           \* the running backfill_seed
          job,            \* the store job the running pass awaits
          left,           \* a store job that its superseded pass left running
          stored,         \* durable: the slots of each channel's blocks in the store
          top, floor,     \* durable cursors, None if absent
          done,           \* durable
          restarts

node  == <<inscribed, lib>>
store == <<stored, top, floor, done>>
vars  == <<node, full, pass, job, left, store, restarts>>

Slots == 0..MaxSlot
None  == MaxSlot + 1
Marks == Slots \cup {None}

Smaller(a, b) == IF a <= b THEN a ELSE b
Larger(a, b)  == IF a >= b THEN a ELSE b
Minus(a, b)   == IF a >= b THEN a - b ELSE 0     \* saturating_sub

Batches == [Channels -> SUBSET Slots]
NoBatch == [c \in Channels |-> {}]

\* top, floor and done as the pass found them, lib as the node answered;
\* hi and lo bound what is left to walk; genesis and idle are its WalkAcc.
Pass == [pc      : {"start", "fetch", "folded", "cursor", "finished"},
         walk    : {"gap", "deep"},
         hi      : Slots, lo : Slots, from : Slots,
         lib     : Slots, top : Marks, floor : Marks, done : BOOLEAN,
         targets : SUBSET Channels, genesis : SUBSET Channels,
         seen    : SUBSET Channels,
         idle    : [Channels -> 0..IdleLimit]]

NewPass == [pc |-> "start", walk |-> "gap", hi |-> 0, lo |-> 0, from |-> 0,
            lib |-> 0, top |-> None, floor |-> None, done |-> FALSE,
            targets |-> {}, genesis |-> {}, seen |-> {},
            idle |-> [c \in Channels |-> 0]]

\* A chunk's records, and the mark a cursor is to be set to.  "start" is no job
\* yet: a superseded pass past its last check, which may go on to set top.
Job     == [kind : {"none", "start", "commit", "floor", "top", "done"},
            batch : Batches, mark : Marks]
NoJob   == [kind |-> "none", batch |-> NoBatch, mark |-> None]
LateJob == [NoJob EXCEPT !.kind = "start"]

TypeOK ==
  /\ inscribed \in Batches
  /\ lib \in Slots
  /\ full \subseteq Channels
  /\ pass \in Pass
  /\ job \in Job /\ left \in Job
  /\ stored \in Batches
  /\ top \in Marks /\ floor \in Marks /\ done \in BOOLEAN
  /\ restarts \in 0..MaxRestarts

Init ==
  /\ inscribed \in Batches
  /\ lib \in Slots
  /\ full \in SUBSET Channels
  /\ pass = NewPass /\ job = NoJob /\ left = NoJob
  /\ stored = NoBatch /\ top = None /\ floor = None /\ done = FALSE
  /\ restarts = 0

--------------------------------------------------------------------------------
(* The pass *)

Waiting == job.kind # "none"

\* Without a channel flagged full, every channel gates the deep walk.
Targets == IF full = {} THEN Channels ELSE full

NewTop(p) == IF p.top = None THEN p.lib ELSE Larger(p.top, p.lib)

SetTop(p) == [NoJob EXCEPT !.kind = "top", !.mark = NewTop(p)]

\* The gap walk: from lib down to the old top, and over Recent slots at least.
GapLow == Smaller(top, Minus(lib, Recent))
HasGap == top # None /\ GapLow < lib

\* Mutant of Start: the gap walk looks at the recent slots only.
StartRecentOnly ==
  LET p == [NewPass EXCEPT !.lib = lib, !.top = top, !.floor = floor,
                           !.done = done, !.targets = Targets]
  IN
  /\ pass.pc = "start"
  /\ \/ /\ top # None /\ Minus(lib, Recent) < lib
        /\ pass' = [p EXCEPT !.pc = "fetch", !.hi = lib, !.lo = Minus(lib, Recent)]
        /\ UNCHANGED job
     \/ /\ top = None \/ Minus(lib, Recent) >= lib
        /\ pass' = [p EXCEPT !.pc = "cursor"]
        /\ job' = SetTop(p)
  /\ UNCHANGED <<node, full, left, store, restarts>>

\* Read lib and the cursors.  A first run has no top, and no gap to walk.
Start ==
  LET p == [NewPass EXCEPT !.lib = lib, !.top = top, !.floor = floor,
                           !.done = done, !.targets = Targets]
  IN
  /\ pass.pc = "start"
  /\ \/ /\ HasGap
        /\ pass' = [p EXCEPT !.pc = "fetch", !.hi = lib, !.lo = GapLow]
        /\ UNCHANGED job
     \/ /\ ~HasGap
        /\ pass' = [p EXCEPT !.pc = "cursor"]
        /\ job' = SetTop(p)
  /\ UNCHANGED <<node, full, left, store, restarts>>

\* The node did not give its lib in ten attempts: the pass is over.
GiveUp ==
  /\ FetchMayFail
  /\ pass.pc = "start"
  /\ pass' = [pass EXCEPT !.pc = "finished"]
  /\ UNCHANGED <<node, full, job, left, store, restarts>>

Genesis(c, s) == s \in inscribed[c] /\ \A u \in inscribed[c] : s <= u

\* One chunk, from..hi; a chunk that could not be fetched counts as empty.
FetchChunk(fetched) ==
  LET from  == Larger(Minus(pass.hi, Chunk), pass.lo)
      batch == [c \in Channels |-> IF fetched THEN inscribed[c] \cap (from..pass.hi) ELSE {}]
      found == {c \in Channels : batch[c] # {}}
  IN
  /\ fetched \/ FetchMayFail
  /\ pass.pc = "fetch"
  /\ pass' = [pass EXCEPT !.pc = "folded", !.from = from, !.seen = found,
                !.genesis = @ \cup {c \in found : \E s \in batch[c] : Genesis(c, s)}]
  /\ job' = [kind |-> "commit", batch |-> batch, mark |-> IF pass.walk = "deep" THEN from ELSE None]
  /\ UNCHANGED <<node, full, left, store, restarts>>

\* Mutant of Idle: a chunk with an inscription does not reset the count.
IdleNotReset(c) == Smaller(pass.idle[c] + 1, IdleLimit)

\* Chunks in a row in which a channel was silent, the one just folded included.
Idle(c) == IF c \in pass.seen THEN 0 ELSE Smaller(pass.idle[c] + 1, IdleLimit)

Exhausted ==
  /\ pass.walk = "deep" /\ pass.targets # {}
  /\ \A c \in pass.targets : c \in pass.genesis \/ Idle(c) >= IdleLimit

\* Mutant of NextChunk: one slot too far down.
NextChunkTooFar ==
  /\ pass.pc = "folded" /\ ~Waiting
  /\ ~Exhausted /\ pass.from > pass.lo
  /\ pass' = [pass EXCEPT !.pc = "fetch", !.hi = pass.from - 2,
                !.idle = IF pass.walk = "deep" THEN [c \in Channels |-> Idle(c)] ELSE @]
  /\ UNCHANGED <<node, full, job, left, store, restarts>>

\* The chunk's job is over, well or not: on to the next chunk.
NextChunk ==
  /\ pass.pc = "folded" /\ ~Waiting
  /\ ~Exhausted /\ pass.from > pass.lo
  /\ pass' = [pass EXCEPT !.pc = "fetch", !.hi = pass.from - 1,
                !.idle = IF pass.walk = "deep" THEN [c \in Channels |-> Idle(c)] ELSE @]
  /\ UNCHANGED <<node, full, job, left, store, restarts>>

\* Mutant of EndWalk: the walk looks for a slot below its lower bound.
EndWalkBelow ==
  /\ pass.pc = "folded" /\ ~Waiting
  /\ Exhausted \/ pass.from < pass.lo
  /\ pass' = [pass EXCEPT !.pc = "cursor"]
  /\ job' = IF pass.walk = "gap" THEN SetTop(pass) ELSE [NoJob EXCEPT !.kind = "done"]
  /\ UNCHANGED <<node, full, left, store, restarts>>

\* The walk is over: top is written after the gap walk, done after the deep one.
EndWalk ==
  /\ pass.pc = "folded" /\ ~Waiting
  /\ Exhausted \/ pass.from <= pass.lo
  /\ pass' = [pass EXCEPT !.pc = "cursor"]
  /\ job' = IF pass.walk = "gap" THEN SetTop(pass) ELSE [NoJob EXCEPT !.kind = "done"]
  /\ UNCHANGED <<node, full, left, store, restarts>>

\* top is written, or its write failed: the deep walk goes on from the floor,
\* unless an earlier pass ended it.
DeepWalk ==
  /\ pass.pc = "cursor" /\ pass.walk = "gap" /\ ~Waiting
  /\ ~pass.done
  /\ pass' = [pass EXCEPT !.pc = "fetch", !.walk = "deep", !.lo = 0,
                !.hi = IF pass.floor # None /\ 0 < pass.floor /\ pass.floor <= NewTop(pass)
                       THEN pass.floor ELSE NewTop(pass)]
  /\ UNCHANGED <<node, full, job, left, store, restarts>>

Finish ==
  /\ pass.pc = "cursor" /\ ~Waiting
  /\ pass.done \/ pass.walk = "deep"
  /\ pass' = [pass EXCEPT !.pc = "finished"]
  /\ UNCHANGED <<node, full, job, left, store, restarts>>

--------------------------------------------------------------------------------
(* The store jobs *)

\* Mutant of Effect: the floor is written before the records it covers.
EffectFloorFirst(j) ==
  /\ stored' = IF j.kind = "floor" THEN [c \in Channels |-> stored[c] \cup j.batch[c]] ELSE stored
  /\ floor'  = IF j.kind = "commit" /\ j.mark # None THEN j.mark ELSE floor
  /\ top'    = IF j.kind = "top" THEN j.mark ELSE top
  /\ done'   = (done \/ j.kind = "done")

\* What job j does to the store; a commit with a mark goes on to write the floor.
Effect(j) ==
  /\ stored' = IF j.kind = "commit" THEN [c \in Channels |-> stored[c] \cup j.batch[c]] ELSE stored
  /\ floor'  = IF j.kind = "floor" THEN j.mark ELSE floor
  /\ top'    = IF j.kind = "top" THEN j.mark ELSE top
  /\ done'   = (done \/ j.kind = "done")

After(j) == IF j.kind = "commit" /\ j.mark # None THEN [j EXCEPT !.kind = "floor"] ELSE NoJob

RunJob ==
  /\ job.kind # "none"
  /\ Effect(job) /\ job' = After(job)
  /\ UNCHANGED <<node, full, pass, left, restarts>>

RunLeft ==
  /\ left.kind # "none"
  /\ Effect(left) /\ left' = After(left)
  /\ UNCHANGED <<node, full, pass, job, restarts>>

\* Nothing stops a superseded pass that awaits lib or the cursors, until it has
\* a gap to walk.
LateStart ==
  /\ left.kind = "start"
  /\ left' = IF HasGap THEN NoJob ELSE SetTop([NewPass EXCEPT !.lib = lib, !.top = top])
  /\ UNCHANGED <<node, full, pass, job, store, restarts>>

\* A failed write ends its job: after a failed commit the floor is not written.
JobFails ==
  /\ CommitMayFail
  /\ \/ job.kind # "none" /\ job' = NoJob /\ UNCHANGED left
     \/ left.kind # "none" /\ left' = NoJob /\ UNCHANGED job
  /\ UNCHANGED <<node, full, pass, store, restarts>>

--------------------------------------------------------------------------------
(* Around it *)

\* apply_config: a new pass; the job of the old one runs on (one such job at a
\* time, as a bound).
Reconfigure ==
  /\ restarts < MaxRestarts /\ restarts' = restarts + 1
  /\ left.kind = "none" \/ ~Waiting
  /\ full' \in SUBSET Channels
  /\ pass' = NewPass
  /\ left' \in IF Waiting THEN {job}
              ELSE IF MayStartLate /\ pass.pc = "start" /\ left.kind = "none" THEN {left, LateJob}
              ELSE {left}
  /\ job' = NoJob
  /\ UNCHANGED <<node, store>>

Crash ==
  /\ restarts < MaxRestarts /\ restarts' = restarts + 1
  /\ pass' = NewPass /\ job' = NoJob /\ left' = NoJob
  /\ UNCHANGED <<node, full, store>>

AdvanceLib ==
  /\ lib < MaxSlot /\ lib' = lib + 1
  /\ UNCHANGED <<inscribed, full, pass, job, left, store, restarts>>

Walk == \/ Start \/ GiveUp \/ \E fetched \in BOOLEAN : FetchChunk(fetched)
        \/ NextChunk \/ EndWalk \/ DeepWalk \/ Finish
Jobs == RunJob \/ RunLeft \/ LateStart \/ JobFails

Next == Walk \/ Jobs \/ Reconfigure \/ Crash \/ AdvanceLib

Spec == Init /\ [][Next]_vars

\* The task is polled by the runtime, its requests end (in an answer or an
\* error) and so does a job on the blocking pool.
FairSpec == Spec /\ WF_vars(Walk) /\ WF_vars(RunJob)

--------------------------------------------------------------------------------
(* Properties *)

\* The zone blocks inscribed in slots a..b are stored, the ones that job j is
\* about to commit included.
Held(j, c)         == IF j.kind = "commit" THEN j.batch[c] ELSE {}
StoredBy(j, a, b)  == \A c \in Channels : inscribed[c] \cap (a..b) \subseteq stored[c] \cup Held(j, c)
Stored(a, b)       == StoredBy(NoJob, a, b)

\* Between the two cursors nothing is missing: whenever a pass is cut short, by a
\* crash between a chunk's records and its floor, by a new configuration while
\* an old job still writes, what a restart takes as covered is in the store.
RangeStored == top # None /\ floor # None => Stored(floor, top)

\* So does every step that leads there: the passes, their jobs and the restarts that cut
\* them short implement a store whose cursors move over complete ranges of settled slots
\* only, that loses no block, and that ends a walk for good.
Promise == INSTANCE Coverage
Covers  == Promise!Spec

\* A walk ends at genesis or at a channel's silence: once done is set, a settled
\* block of a target missing from the store lies below a stretch of IdleLimit
\* whole chunks without any of its blocks.
Silence(c, s) ==
  \E u, v \in s + 1 .. lib :
    v + 1 >= u + IdleLimit * (Chunk + 1) /\ inscribed[c] \cap (u..v) = {}

DoneIsComplete ==
  done => \A c \in Targets : \A s \in inscribed[c] :
            s <= top => s \in stored[c] \/ Silence(c, s)

\* What a pass has left to do, in steps: it fetches and folds each slot it has before
\* it once at most, in the gap and in the deep walk, and each chunk is a job of two writes.
DeepSteps == 2 * MaxSlot + 4
PassSteps(p) ==
  CASE p.pc = "start"    -> 2 * DeepSteps
    [] p.pc = "fetch"    -> (IF p.walk = "gap" THEN DeepSteps ELSE 1) + 2 * p.hi + 2
    [] p.pc = "folded"   -> (IF p.walk = "gap" THEN DeepSteps ELSE 1) + 2 * p.from + 1
    [] p.pc = "cursor"   -> IF p.walk = "gap" THEN DeepSteps ELSE 1
    [] p.pc = "finished" -> 0
JobSteps(j) ==
  CASE j.kind = "none" -> 0 [] j.kind = "commit" /\ j.mark # None -> 2 [] OTHER -> 1
StepsLeft == 3 * PassSteps(pass) + JobSteps(job)

\* Whichever requests and writes fail, and wherever top and floor have moved meanwhile,
\* a step of the pass or of its job brings the pass nearer to its end.
Descends ==
  [][ <<pass, job>>' # <<pass, job>> => restarts' # restarts \/ StepsLeft' < StepsLeft ]_vars

\* Every pass comes to its end, whichever requests and writes fail: the walk
\* always moves down and reaches slot 0, genesis or a silence.
Ends == <>[](pass.pc = "finished")

--------------------------------------------------------------------------------
(* The inductive invariant behind RangeStored, when nothing fails *)

\* The values that top has, had when the pass began, or may get from what is
\* under way.
TopWritable == pass.walk = "deep" \/ pass.pc = "cursor"
Tops == {t \in Slots : \/ t = top \/ t = pass.top
                       \/ \E j \in {job, left} : j.kind = "top" /\ t = j.mark
                       \/ TopWritable /\ t = pass.lib}

FloorJob(j) == j.kind \in {"commit", "floor"} /\ j.mark # None

\* No top is above what the node, and the running pass, know as settled.
TopsSettled ==
  /\ pass.lib <= lib
  /\ \A t \in Tops : t <= lib /\ (pass.pc # "start" => t <= pass.lib)

\* Whatever floor meets whatever top, the range between them is stored.
FloorsCovered ==
  /\ \A t \in Tops : /\ floor # None => Stored(floor, t)
                     /\ pass.floor # None => Stored(pass.floor, t)
  /\ \A j \in {job, left} : FloorJob(j) => \A t \in Tops : StoredBy(j, j.mark, t)

\* No floor comes before the first top.
TopFirst ==
  /\ top = None => /\ floor = None /\ pass.floor = None /\ pass.top = None
                   /\ ~FloorJob(job) /\ ~FloorJob(left)
  /\ pass.walk = "deep" \/ (pass.pc = "cursor" /\ ~Waiting) => top # None

\* What the walk has behind it is stored; a gap walk goes down to the old top.
WalkCovered ==
  /\ pass.pc \in {"fetch", "folded"} =>
       /\ Stored(pass.hi + 1, pass.lib)
       /\ pass.walk = "gap" => pass.top # None /\ pass.lo <= pass.top
  /\ pass.pc = "folded" => StoredBy(job, pass.from, pass.hi)

\* What the pass awaits, and what a superseded one may have left.
JobShape ==
  /\ left.kind # "start"
  /\ pass.pc \in {"start", "fetch", "finished"} => ~Waiting
  /\ pass.pc = "folded" => job.kind \in {"none", "commit", "floor"}
  /\ pass.pc = "cursor" =>
       job.kind \in (IF pass.walk = "gap" THEN {"none", "top"} ELSE {"none", "done"})
  /\ job.kind = "top" => job.mark \in Slots
  /\ left.kind = "top" => left.mark \in Slots

RangeInv == TopsSettled /\ FloorsCovered /\ TopFirst /\ WalkCovered /\ JobShape

--------------------------------------------------------------------------------
(* The inductive invariant behind Covers, with RangeInv *)

\* What a job is about to write is settled, and no job of an ended walk comes before
\* the first top.
JobSettled(j) ==
  /\ j.kind = "commit" => \A c \in Channels : j.batch[c] \subseteq inscribed[c] \cap (0..lib)
  /\ FloorJob(j) => j.mark <= lib
  /\ j.kind = "floor" => j.mark # None
  /\ j.kind = "done" => top # None

\* A walk keeps to its bounds, below what was settled when its pass began.
WalkSettled ==
  /\ pass.pc \in {"fetch", "folded"} => pass.lo <= pass.hi /\ pass.hi <= pass.lib
  /\ pass.pc = "folded" => pass.from <= pass.hi

SettledInv == JobSettled(job) /\ JobSettled(left) /\ WalkSettled
================================================================================
