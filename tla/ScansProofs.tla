------------------------------ MODULE ScansProofs ------------------------------
(* Theorems about Scans, for every value of its constants. *)
EXTENDS Scans, FiniteSetTheorems, TLAPS

--------------------------------------------------------------------------------
(* Types *)

LEMMA NobodyType == Nobody \in CallerState /\ Nobody.gen = 0 /\ Nobody.pc = "idle"
<1>1. [node |-> NoNode, full |-> FALSE, own |-> {}, adopted |-> NoneAdopted] \in Config
  BY DEF Config, NoneAdopted
<1>2. QED BY <1>1 DEF Nobody, CallerState

\* A thread that turns into c leaves the others alone.
LEMMA TurnType ==
  ASSUME TypeOK, NEW p \in Callers, NEW c \in CallerState, c.gen \in 0..generation', Turns(p, c),
         generation' \in Nat, generation' >= generation
  PROVE  /\ caller' \in [Callers -> CallerState]
         /\ \A q \in Callers : caller'[q].gen \in 0..generation'
<1>1. caller' \in [Callers -> CallerState]
  BY DEF TypeOK, Turns
<1>2. \A q \in Callers : caller[q].gen \in Nat
  BY DEF TypeOK, CallerState
<1>3. QED BY <1>1, <1>2 DEF TypeOK, Turns

\* What a discovery finds are channels.
LEMMA FoundType ==
  ASSUME NEW cfg \in Config, NEW seen \in SUBSET Channels, NEW f \in Found(cfg, seen)
  PROVE  f \subseteq Channels
  BY DEF Found, FirstOf

LEMMA WithAdoptedType ==
  ASSUME NEW cfg \in Config, NEW found
  PROVE  WithAdopted(cfg, found, Ignored) \in Config
<1> DEFINE more == [c \in Channels |-> IF c \in found \ Ignored THEN cfg.adopted[c] + 1 ELSE cfg.adopted[c]]
<1>1. more \in [Channels -> Nat]
  BY DEF Config
<1>2. WithAdopted(cfg, found, Ignored) = [cfg EXCEPT !.adopted = more]
  BY DEF WithAdopted
<1> HIDE DEF more
<1>3. QED BY <1>1, <1>2 DEF Config

\* The tasks of a scan are tasks of its generation, and have not written yet.
LEMMA SpawnedType ==
  \A cfg \in Config, g \in Nat : \A t \in Spawned(cfg, g) :
     /\ t \in Task
     /\ t.gen = g /\ t.late = FALSE
     /\ t.kind # "live" => cfg.node # NoNode
     /\ t.kind \in {"live", IF cfg.full THEN "backfill" ELSE "discover"}
<1> TAKE cfg \in Config, g \in Nat
<1> TAKE t \in Spawned(cfg, g)
<1> DEFINE New(kind, n, pc) == [gen |-> g, kind |-> kind, n |-> n, late |-> FALSE, pc |-> pc]
           seed == IF cfg.full THEN "backfill" ELSE "discover"
<1>1. t = New("live", 0, "await") \/ (cfg.node # NoNode /\ t = New(seed, Rounds, "look"))
  BY Zenon DEF Spawned
<1>2. 0 \in 0..Rounds /\ Rounds \in 0..Rounds
  BY ScansAssumption
<1>3. New("live", 0, "await") \in Task /\ New(seed, Rounds, "look") \in Task
  BY <1>2 DEF Task, Kinds
<1>4. CASE t = New("live", 0, "await")
  <2>1. t.gen = g /\ t.late = FALSE /\ t.kind = "live"
    BY <1>4
  <2>2. QED BY <1>3, <1>4, <2>1
<1>5. CASE cfg.node # NoNode /\ t = New(seed, Rounds, "look")
  <2>1. t.gen = g /\ t.late = FALSE /\ t.kind = seed
    BY <1>5
  <2>2. QED BY <1>3, <1>5, <2>1
<1>6. QED BY <1>1, <1>4, <1>5

LEMMA SpawnedTask ==
  ASSUME NEW cfg \in Config, NEW g \in Nat
  PROVE  /\ Spawned(cfg, g) \subseteq Task
         /\ \A t \in Spawned(cfg, g) : t.gen = g
  BY SpawnedType

LEMMA InitType == Init => TypeOK
<1> SUFFICES ASSUME Init PROVE TypeOK
  OBVIOUS
<1>1. config \in Config
  BY ScansAssumption DEF Init
<1>2. tasks \subseteq Task /\ \A t \in tasks : t.gen = 1
  <2>1. tasks = Spawned(config, 1) /\ 1 \in Nat
    BY DEF Init
  <2>2. \A t \in tasks : t \in Task /\ t.gen = 1
    <3>1. /\ Spawned(config, 1) \subseteq Task
          /\ \A t \in Spawned(config, 1) : t.gen = 1
      BY <1>1, SpawnedTask
    <3>2. QED BY <2>1, <3>1
  <2>3. QED BY <2>2
<1>3. caller \in [Callers -> CallerState] /\ \A p \in Callers : caller[p].gen = 0
  BY NobodyType DEF Init
<1>4. MaxCalls \in Nat
  BY ScansAssumption
<1>5. state \in [cfg : Config, discovering : BOOLEAN]
  BY <1>1 DEF Init
<1>6. saved \in Config /\ generation = 1 /\ calls = 0 /\ clash = FALSE /\ mixed = FALSE
  BY <1>1 DEF Init
<1>7. /\ generation \in Nat \ {0} /\ \A t \in tasks : t.gen \in 0..generation
      /\ \A p \in Callers : caller[p].gen \in 0..generation
  BY <1>2, <1>3, <1>6
<1>8. calls \in 0..MaxCalls
  BY <1>4, <1>6
<1>9. clash \in BOOLEAN /\ mixed \in BOOLEAN
  BY <1>6, Zenon
<1>10. QED BY <1>1, <1>2, <1>3, <1>5, <1>6, <1>7, <1>8, <1>9, Zenon DEF TypeOK

LEMMA PostType ==
  ASSUME TypeOK, NEW form \in Forms, NEW a \in {NoneAdopted, config.adopted}, Post(form, a)
  PROVE  TypeOK'
<1>1. form \in [node : Nodes \cup {NoNode}, full : BOOLEAN, own : SUBSET Channels]
  BY ScansAssumption
<1>2. a \in [Channels -> Nat]
  BY DEF TypeOK, Config, NoneAdopted
<1>3. config' \in Config
  BY <1>1, <1>2 DEF Post, Config
<1>4. "form" \in Callers /\ caller["form"] \in CallerState /\ caller["form"].gen \in 0..generation
  BY DEF Post, TypeOK
<1> DEFINE c == [caller["form"] EXCEPT !.pc = "save", !.cfg = config']
<1>5. c \in CallerState /\ c.gen = caller["form"].gen
  BY <1>3, <1>4 DEF CallerState, Changing
<1>6. Turns("form", c) /\ generation' = generation /\ generation \in Nat
  BY DEF Post, scan, TypeOK
<1> HIDE DEF c
<1>7. /\ caller' \in [Callers -> CallerState]
      /\ \A q \in Callers : caller'[q].gen \in 0..generation'
  BY <1>4, <1>5, <1>6, TurnType
<1>8. calls' \in 0..MaxCalls
  BY ScansAssumption DEF Post, TypeOK
<1>9. clash' \in BOOLEAN
  BY DEF Post
<1>10. QED BY <1>3, <1>6, <1>7, <1>8, <1>9 DEF Post, TypeOK, scan

\* A thread that goes on with what it holds keeps its type.
LEMMA GoType ==
  ASSUME TypeOK, NEW p \in Callers, NEW pc \in {"idle", "looked", "walking", "last", "found"} \cup Changing
  PROVE  /\ [caller[p] EXCEPT !.pc = pc] \in CallerState
         /\ [caller[p] EXCEPT !.pc = pc].gen = caller[p].gen
  BY DEF TypeOK, CallerState

LEMMA GoWithType ==
  ASSUME TypeOK, NEW p \in Callers, NEW pc \in {"idle", "looked", "walking", "last", "found"} \cup Changing
  PROVE  /\ [caller[p] EXCEPT !.pc = pc, !.cfg = config] \in CallerState
         /\ [caller[p] EXCEPT !.pc = pc, !.cfg = config].gen = caller[p].gen
  BY DEF TypeOK, CallerState

LEMMA GoAtType ==
  ASSUME TypeOK, NEW p \in Callers, NEW g \in Nat,
         NEW pc \in {"idle", "looked", "walking", "last", "found"} \cup Changing
  PROVE  /\ [caller[p] EXCEPT !.pc = pc, !.gen = g] \in CallerState
         /\ [caller[p] EXCEPT !.pc = pc, !.gen = g].gen = g
  BY DEF TypeOK, CallerState

LEMMA WalkType ==
  ASSUME TypeOK, NEW p \in Callers, Look(p) \/ Walks(p)
  PROVE  TypeOK'
<1>1. /\ generation \in Nat /\ caller[p].gen \in 0..generation /\ caller[p] \in CallerState
      /\ 0 \in 0..generation
  BY DEF TypeOK
<1>2. ASSUME UNCHANGED <<saved, scan>>, config' \in Config, calls' \in 0..MaxCalls,
             clash' \in BOOLEAN, mixed' \in BOOLEAN,
             NEW c \in CallerState, c.gen \in 0..generation, Turns(p, c)
      PROVE  TypeOK'
  <2>1. generation' = generation /\ generation' \in Nat /\ generation' >= generation
    BY <1>2, <1>1 DEF scan
  <2>2. /\ caller' \in [Callers -> CallerState]
        /\ \A q \in Callers : caller'[q].gen \in 0..generation'
    BY <1>2, <2>1, TurnType
  <2>3. QED BY <1>2, <2>1, <2>2 DEF TypeOK, scan
<1>3. CASE Look(p)
  <2>1. calls' \in 0..MaxCalls
    BY <1>3, ScansAssumption DEF Look, TypeOK
  <2>2. Turns(p, [caller[p] EXCEPT !.pc = "looked", !.cfg = config])
    BY <1>3 DEF Look
  <2>3. UNCHANGED <<config, saved, scan, clash, mixed>>
    BY <1>3 DEF Look
  <2>4. QED BY <1>1, <1>2, <2>1, <2>2, <2>3, GoWithType DEF TypeOK
<1>4. ASSUME UNCHANGED <<config, saved, scan, calls, clash, mixed>>,
             NEW c \in CallerState, c.gen \in 0..generation, Turns(p, c)
      PROVE  TypeOK'
  BY <1>2, <1>4 DEF TypeOK
<1>5. CASE Capture(p)
  <2>1. Turns(p, [caller[p] EXCEPT !.pc = "walking", !.gen = generation])
    BY <1>5 DEF Capture
  <2>2. UNCHANGED <<config, saved, scan, calls, clash, mixed>>
    BY <1>5 DEF Capture
  <2>3. generation \in 0..generation
    BY <1>1
  <2>4. QED BY <1>1, <1>4, <2>1, <2>2, <2>3, GoAtType
<1>6. CASE NextLook(p)
  <2>1. UNCHANGED <<config, saved, scan, calls, clash, mixed>>
    BY <1>6 DEF NextLook
  <2>2. Turns(p, [caller[p] EXCEPT !.pc = "last"]) \/ Turns(p, Nobody)
    BY <1>6 DEF NextLook, Go, Return
  <2>3. QED BY <1>1, <1>4, <2>1, <2>2, GoType, NobodyType
<1>7. ASSUME NEW seen \in SUBSET Channels, EndWalk(p, seen) PROVE TypeOK'
  <2>1. UNCHANGED <<config, saved, scan, calls, clash, mixed>>
    BY <1>7 DEF EndWalk
  <2>2. PICK f \in Found(caller[p].cfg, seen) :
          \/ Turns(p, Nobody)
          \/ Turns(p, [caller[p] EXCEPT !.found = f, !.gen = 0, !.pc = "found"])
    BY <1>7, Zenon DEF EndWalk, Return
  <2>3. caller[p].cfg \in Config
    BY <1>1 DEF CallerState
  <2>4. f \subseteq Channels
    BY <2>3, FoundType
  <2> DEFINE c == [caller[p] EXCEPT !.found = f, !.gen = 0, !.pc = "found"]
  <2>5. c \in CallerState /\ c.gen = 0
    BY <1>1, <2>4 DEF CallerState
  <2>6. QED BY <1>1, <1>4, <2>1, <2>2, <2>5, NobodyType
<1>8. CASE Push(p)
  <2>1. config' \in Config
    BY <1>8, WithAdoptedType DEF Push, TypeOK
  <2> DEFINE c == [Nobody EXCEPT !.pc = "snap"]
  <2>2. c \in CallerState /\ c.gen = 0
    BY NobodyType DEF CallerState, Changing
  <2>3. /\ UNCHANGED <<saved, scan, calls>> /\ Turns(p, c)
        /\ clash' \in BOOLEAN /\ mixed' \in BOOLEAN
    BY <1>8 DEF Push, TypeOK
  <2>4. QED BY <1>1, <1>2, <2>1, <2>2, <2>3 DEF TypeOK
<1>9. QED BY <1>3, <1>5, <1>6, <1>7, <1>8 DEF Walks

LEMMA CallType ==
  ASSUME TypeOK, NEW p \in Callers, Calls(p)
  PROVE  TypeOK'
<1>1. /\ generation \in Nat /\ caller[p].gen \in 0..generation /\ caller[p] \in CallerState
      /\ caller[p].cfg \in Config
  BY DEF TypeOK, CallerState
<1>2. ASSUME UNCHANGED <<config, calls, clash, mixed>>, saved' \in Config,
             generation' \in Nat \ {0}, generation' >= generation,
             state' \in [cfg : Config, discovering : BOOLEAN],
             tasks' \subseteq Task, \A t \in tasks' : t.gen \in 0..generation',
             NEW c \in CallerState, c.gen \in 0..generation', Turns(p, c)
      PROVE  TypeOK'
  <2>1. /\ caller' \in [Callers -> CallerState]
        /\ \A q \in Callers : caller'[q].gen \in 0..generation'
    BY <1>2, TurnType
  <2>2. QED BY <1>2, <2>1 DEF TypeOK
<1>3. CASE Snapshot(p)
  <2>1. Turns(p, [caller[p] EXCEPT !.pc = "save", !.cfg = config])
    BY <1>3 DEF Snapshot
  <2>2. UNCHANGED <<config, saved, generation, state, tasks, calls, clash, mixed>>
    BY <1>3 DEF Snapshot, scan
  <2> DEFINE c == [caller[p] EXCEPT !.pc = "save", !.cfg = config]
  <2>3. c \in CallerState /\ c.gen = caller[p].gen
    BY GoWithType DEF Changing
  <2>4. /\ saved' \in Config /\ generation' = generation /\ generation \in Nat \ {0} /\ tasks' \subseteq Task
        /\ state' \in [cfg : Config, discovering : BOOLEAN]
        /\ \A t \in tasks' : t.gen \in 0..generation'
    BY <2>2 DEF TypeOK
  <2>5. Turns(p, c) /\ c.gen \in 0..generation' /\ generation' >= generation
    BY <1>1, <2>1, <2>3, <2>4
  <2> HIDE DEF c
  <2>6. QED BY <1>2, <2>2, <2>3, <2>4, <2>5
<1>4. CASE Apply(p)
  <2>1. Turns(p, [caller[p] EXCEPT !.pc = "bump", !.cfg = config])
    BY <1>4 DEF Apply
  <2>2. UNCHANGED <<config, generation, state, tasks, calls, clash, mixed>> /\ saved' \in Config
    BY <1>1, <1>4 DEF Apply, scan
  <2> DEFINE c == [caller[p] EXCEPT !.pc = "bump", !.cfg = config]
  <2>3. c \in CallerState /\ c.gen = caller[p].gen
    BY GoWithType DEF Changing
  <2>4. /\ saved' \in Config /\ generation' = generation /\ generation \in Nat \ {0} /\ tasks' \subseteq Task
        /\ state' \in [cfg : Config, discovering : BOOLEAN]
        /\ \A t \in tasks' : t.gen \in 0..generation'
    BY <2>2 DEF TypeOK
  <2>5. Turns(p, c) /\ c.gen \in 0..generation' /\ generation' >= generation
    BY <1>1, <2>1, <2>3, <2>4
  <2> HIDE DEF c
  <2>6. QED BY <1>2, <2>2, <2>3, <2>4, <2>5
<1>5. CASE Bump(p)
  <2>1. /\ generation' = generation + 1
        /\ Turns(p, [caller[p] EXCEPT !.pc = "reset", !.gen = generation'])
        /\ UNCHANGED <<config, saved, state, tasks, calls, clash, mixed>>
    BY <1>5 DEF Bump
  <2>2. "reset" \in Changing /\ generation' \in Nat
    BY <1>1, <2>1 DEF Changing
  <2>3. \A t \in tasks : t.gen \in 0..generation'
    BY <1>1, <2>1 DEF TypeOK
  <2> DEFINE c == [caller[p] EXCEPT !.pc = "reset", !.gen = generation']
  <2>4. c \in CallerState /\ c.gen = generation'
    BY <2>2, GoAtType
  <2>5. generation' \in Nat \ {0} /\ generation' >= generation /\ c.gen \in 0..generation'
    BY <1>1, <2>1, <2>4
  <2>6. QED BY <1>2, <2>1, <2>3, <2>4, <2>5 DEF TypeOK
<1>6. CASE Reset(p)
  <2>1. Turns(p, [caller[p] EXCEPT !.pc = "spawn"])
    BY <1>6 DEF Reset, Go
  <2>2. /\ UNCHANGED <<config, saved, generation, tasks, calls, clash, mixed>>
        /\ state' \in [cfg : Config, discovering : BOOLEAN]
    BY <1>1, <1>6 DEF Reset
  <2> DEFINE c == [caller[p] EXCEPT !.pc = "spawn"]
  <2>3. c \in CallerState /\ c.gen = caller[p].gen
    BY GoType DEF Changing
  <2>4. /\ saved' \in Config /\ generation' = generation /\ generation \in Nat \ {0} /\ tasks' \subseteq Task
        /\ state' \in [cfg : Config, discovering : BOOLEAN]
        /\ \A t \in tasks' : t.gen \in 0..generation'
    BY <2>2 DEF TypeOK
  <2>5. Turns(p, c) /\ c.gen \in 0..generation' /\ generation' >= generation
    BY <1>1, <2>1, <2>3, <2>4
  <2> HIDE DEF c
  <2>6. QED BY <1>2, <2>2, <2>3, <2>4, <2>5
<1>7. CASE Spawn(p)
  <2>1. /\ Turns(p, Nobody) /\ tasks' = tasks \cup Spawned(caller[p].cfg, caller[p].gen)
        /\ UNCHANGED <<config, saved, generation, calls, clash, mixed>>
    BY <1>7 DEF Spawn, Return
  <2>2. state' \in [cfg : Config, discovering : BOOLEAN]
    BY <1>7 DEF Spawn, TypeOK
  <2>3. \A t \in Spawned(caller[p].cfg, caller[p].gen) : t \in Task /\ t.gen = caller[p].gen
    <3>1. caller[p].gen \in Nat
      BY <1>1
    <3>2. QED BY <1>1, <3>1, SpawnedTask
  <2>4. saved \in Config /\ \A t \in tasks : t \in Task /\ t.gen \in 0..generation
    BY DEF TypeOK
  <2>5. tasks' \subseteq Task /\ \A t \in tasks' : t.gen \in 0..generation'
    BY <1>1, <2>1, <2>3, <2>4
  <2>6. Nobody.gen \in 0..generation' /\ generation' \in Nat \ {0} /\ generation' >= generation
    BY <1>1, <2>1, NobodyType DEF TypeOK
  <2>7. QED BY <1>2, <2>1, <2>2, <2>4, <2>5, <2>6, NobodyType
<1>8. QED BY <1>3, <1>4, <1>5, <1>6, <1>7 DEF Calls

--------------------------------------------------------------------------------
(* The tasks *)

\* No task that has written when superseded is where it could write again.
LateInv == \A t \in tasks : t.late => t.gen # generation /\ ~MayWrite(t)

\* The tasks left when t takes a step: t itself has become u, or is gone.
StepTo(t, u) ==
  /\ u \in Task /\ u.gen = t.gen /\ u.kind = t.kind
  /\ tasks' \subseteq tasks \cup {u}
  /\ u.late => t.gen # generation /\ ~MayWrite(u)

LEMMA GoesTo ==
  ASSUME TypeOK, LateInv, NEW t \in tasks,
         NEW pc \in {"look", "await", "relook", "hold", "tail", "finish"},
         Goes(t, pc), t.gen = generation
  PROVE  StepTo(t, [t EXCEPT !.pc = pc])
<1>1. t \in Task /\ ~t.late
  BY DEF TypeOK, LateInv
<1>2. [t EXCEPT !.pc = pc] \in Task /\ ~[t EXCEPT !.pc = pc].late
  BY <1>1 DEF Task
<1>3. QED BY <1>1, <1>2 DEF StepTo, Goes, Becomes, Task

\* t ends: nothing that was not there is left.
LEMMA EndsTo ==
  ASSUME TypeOK, LateInv, NEW t \in tasks, Ends(t) \/ tasks' = tasks
  PROVE  StepTo(t, t)
  BY DEF TypeOK, LateInv, StepTo, Ends

\* t has written, and is at a pc from which it does not write again.
LEMMA WroteTo ==
  ASSUME TypeOK, LateInv, NEW t \in tasks, NEW u \in Task,
         u.gen = t.gen, u.kind = t.kind, u.late = Wrote(t).late,
         Becomes(t, u), ~MayWrite(u)
  PROVE  StepTo(t, u)
<1>1. t \in Task
  BY DEF TypeOK
<1>2. Wrote(t).late => t.late \/ t.gen # generation
  BY <1>1 DEF Wrote, Task, Current
<1>3. QED BY <1>2 DEF LateInv, StepTo, Becomes

\* A step of a task keeps its scan and its kind, clears discovering at most, and
\* never lets a superseded task write twice.
LEMMA StepLeadsTo ==
  ASSUME TypeOK, LateInv, NEW t \in tasks, Step(t)
  PROVE  /\ \E u \in Task : StepTo(t, u)
         /\ state' \in {state, [state EXCEPT !.discovering = FALSE]}
<1>1. t \in Task /\ t \in [gen : Nat, kind : Kinds, n : 0..Rounds, late : BOOLEAN,
                           pc : {"look", "await", "relook", "hold", "tail", "finish"}]
  BY DEF TypeOK, Task
<1>2. Rounds \in Nat
  BY ScansAssumption
<1>3. CASE LookAt(t)
  <2>1. CASE t.gen = generation
    BY <1>1, <1>3, <2>1, GoesTo DEF LookAt, Current, StepTo
  <2>2. CASE t.gen # generation
    BY <1>1, <1>3, <2>2, EndsTo DEF LookAt, Current
  <2>3. QED BY <2>1, <2>2
<1>4. CASE Round(t)
  BY <1>1, <1>4, EndsTo DEF Round
<1>5. CASE Retry(t)
  <2> DEFINE u == [t EXCEPT !.pc = "look", !.n = @ - 1]
  <2>1. t.n - 1 \in 0..Rounds
    BY <1>1, <1>2, <1>5 DEF Retry
  <2>2. u \in Task /\ u.gen = t.gen /\ u.kind = t.kind /\ u.late = t.late /\ u.pc = "look"
    BY <1>1, <2>1 DEF Task
  <2>3. ~t.late
    BY <1>5 DEF Retry, LateInv, MayWrite
  <2>4. tasks' \subseteq tasks \cup {u} /\ UNCHANGED state
    BY <1>5 DEF Retry, Becomes
  <2> HIDE DEF u
  <2>5. QED BY <2>2, <2>3, <2>4 DEF StepTo
<1>6. CASE Answer(t)
  <2>1. state' = [state EXCEPT !.discovering = FALSE]
    BY <1>6 DEF Answer, Clears
  <2>2. CASE Ends(t)
    BY <1>1, <2>1, <2>2, EndsTo
  <2>3. ASSUME Becomes(t, [Wrote(t) EXCEPT !.pc = "relook"]) PROVE \E u \in Task : StepTo(t, u)
    <3> DEFINE u == [Wrote(t) EXCEPT !.pc = "relook"]
    <3>1. /\ u \in Task /\ u.gen = t.gen /\ u.kind = t.kind /\ u.late = Wrote(t).late
          /\ u.pc = "relook"
      BY <1>1 DEF Wrote, Task
    <3>2. Becomes(t, u) /\ u.kind = "discover"
      BY <1>6, <2>3, <3>1 DEF Answer
    <3> HIDE DEF u
    <3>3. ~MayWrite(u)
      BY <3>1, <3>2 DEF MayWrite
    <3>4. QED BY <3>1, <3>2, <3>3, WroteTo
  <2>4. QED BY <1>6, <2>1, <2>2, <2>3 DEF Answer
<1>7. CASE NoLib(t)
  BY <1>1, <1>7, EndsTo DEF NoLib, Clears
<1>8. CASE Relook(t)
  <2>1. CASE t.gen = generation
    BY <1>1, <1>8, <2>1, GoesTo DEF Relook, Current, StepTo
  <2>2. CASE t.gen # generation
    BY <1>1, <1>8, <2>2, EndsTo DEF Relook, Current
  <2>3. QED BY <2>1, <2>2
<1>9. CASE Fold(t)
  <2>1. UNCHANGED state
    BY <1>9 DEF Fold
  <2>2. CASE t.kind = "discover"
    BY <1>1, <1>9, <2>1, <2>2, EndsTo DEF Fold
  <2>3. ASSUME t.kind # "discover", t.n > 0,
               Becomes(t, [Wrote(t) EXCEPT !.n = @ - 1, !.pc = "look"])
        PROVE  \E u \in Task : StepTo(t, u)
    <3> DEFINE u == [Wrote(t) EXCEPT !.n = @ - 1, !.pc = "look"]
    <3>1. t.n - 1 \in 0..Rounds
      BY <1>1, <1>2, <2>3
    <3>2. /\ u \in Task /\ u.gen = t.gen /\ u.kind = t.kind /\ u.late = Wrote(t).late
          /\ u.pc = "look"
      BY <1>1, <3>1 DEF Wrote, Task
    <3>3. Becomes(t, u)
      BY <2>3
    <3> HIDE DEF u
    <3>4. QED BY <3>2, <3>3, WroteTo DEF MayWrite
  <2>4. ASSUME t.kind # "discover", Becomes(t, [Wrote(t) EXCEPT !.pc = "tail"])
        PROVE  \E u \in Task : StepTo(t, u)
    <3> DEFINE u == [Wrote(t) EXCEPT !.pc = "tail"]
    <3>1. /\ u \in Task /\ u.gen = t.gen /\ u.kind = t.kind /\ u.late = Wrote(t).late
          /\ u.pc = "tail"
      BY <1>1 DEF Wrote, Task
    <3>2. Becomes(t, u)
      BY <2>4
    <3> HIDE DEF u
    <3>3. QED BY <3>1, <3>2, WroteTo DEF MayWrite
  <2>5. t.n > 0 \/ t.n = 0
    BY <1>1, <1>2
  <2>6. QED BY <1>9, <2>1, <2>2, <2>3, <2>4, <2>5 DEF Fold
<1>10. CASE LastLook(t)
  <2>1. CASE t.gen = generation
    BY <1>1, <1>10, <2>1, GoesTo DEF LastLook, Current, StepTo
  <2>2. CASE t.gen # generation
    BY <1>1, <1>10, <2>2, EndsTo DEF LastLook, Current
  <2>3. QED BY <2>1, <2>2
<1>11. CASE Finish(t)
  BY <1>1, <1>11, EndsTo DEF Finish, Clears
<1>12. QED BY <1>3, <1>4, <1>5, <1>6, <1>7, <1>8, <1>9, <1>10, <1>11 DEF Step

LEMMA WorkType == TypeOK /\ LateInv /\ Work => TypeOK' /\ LateInv'
<1> SUFFICES ASSUME TypeOK, LateInv, Work PROVE TypeOK' /\ LateInv'
  OBVIOUS
<1>1. PICK t \in tasks : Step(t)
  BY DEF Work
<1>2. PICK u \in Task : StepTo(t, u)
  BY <1>1, StepLeadsTo
<1>3. UNCHANGED <<config, saved, generation, caller, calls, clash, mixed>>
  BY DEF Work
<1>4. t.gen \in 0..generation
  BY DEF TypeOK
<1>5. tasks' \subseteq Task /\ \A s \in tasks' : s.gen \in 0..generation
  BY <1>2, <1>4 DEF StepTo, TypeOK
<1>6. state' \in [cfg : Config, discovering : BOOLEAN]
  BY <1>1, StepLeadsTo DEF TypeOK
<1>7. TypeOK'
  BY <1>3, <1>5, <1>6 DEF TypeOK
<1>8. LateInv'
  BY <1>2, <1>3 DEF StepTo, LateInv, MayWrite
<1>9. QED BY <1>7, <1>8

--------------------------------------------------------------------------------
(* What is being scanned *)

\* How far a caller that nobody disturbed has got.
Progress(p) ==
  /\ At(p, "save") => caller[p].cfg = config
  /\ caller[p].pc \in {"bump", "reset", "spawn"} => saved = config /\ caller[p].cfg = config
  /\ caller[p].pc \in {"reset", "spawn"} =>
       caller[p].gen = generation /\ \A t \in tasks : t.gen # generation
  /\ At(p, "spawn") => state.cfg = config

\* While no two callers met, one at most is changing the configuration, and has
\* done its part up to where it is.
Scanning ==
  clash = FALSE =>
    /\ \A p, q \in Callers : Busy(p) /\ Busy(q) => p = q
    /\ \A p \in Callers : Progress(p)

IInv == TypeOK /\ LateInv /\ Scanning /\ AgainstCurrent

\* The current tasks are the seed that the configuration asks for.
RightSeeds ==
  \A t \in tasks : t.gen = generation /\ t.kind # "live" =>
    /\ config.node # NoNode
    /\ t.kind = IF config.full THEN "backfill" ELSE "discover"

LEMMA AgainstCurrentIs ==
  AgainstCurrent <=> ((\A p \in Callers : ~Busy(p)) /\ ~clash =>
                        state.cfg = config /\ saved = config /\ RightSeeds)
  BY DEF AgainstCurrent, Quiet, RightSeeds, Current

LEMMA InitInv == Init => IInv
<1> SUFFICES ASSUME Init PROVE IInv
  OBVIOUS
<1>1. TypeOK
  BY InitType
<1>2. config \in Config /\ 1 \in Nat /\ tasks = Spawned(config, 1) /\ generation = 1
  BY <1>1 DEF TypeOK, Init
<1>3. \A t \in tasks : t \in Task /\ t.late = FALSE
  BY <1>2, SpawnedType
<1>4. LateInv
  BY <1>3 DEF LateInv
<1>5. \A p \in Callers : caller[p].pc = "idle"
  BY NobodyType DEF Init
<1>6. Scanning
  BY <1>5 DEF Scanning, Progress, Busy, Changing, At
<1>7. RightSeeds
  BY <1>2, SpawnedType DEF RightSeeds
<1>8. state.cfg = config /\ saved = config
  BY DEF Init
<1>9. QED BY <1>1, <1>4, <1>6, <1>7, <1>8, AgainstCurrentIs DEF IInv

\* A change of the configuration begins: whoever else is at it is met.
LEMMA BeginsInv ==
  ASSUME IInv, NEW p \in Callers, NEW c \in CallerState, Turns(p, c),
         c.pc = "snap" \/ (c.pc = "save" /\ c.cfg = config'), clash' = ~Alone(p)
  PROVE  Scanning' /\ AgainstCurrent'
<1>1. caller'[p] = c /\ \A q \in Callers \ {p} : caller'[q] = caller[q]
  BY DEF IInv, TypeOK, Turns
<1>2. Busy(p)'
  BY <1>1 DEF Busy, Changing
<1>3. AgainstCurrent'
  BY <1>2 DEF AgainstCurrent, Quiet
<1>4. ASSUME clash' = FALSE PROVE \A q \in Callers \ {p} : caller'[q].pc \notin Changing
  BY <1>1, <1>4 DEF Alone, Busy
<1>5. ASSUME clash' = FALSE PROVE \A q \in Callers : Progress(q)'
  <2>1. Progress(p)'
    BY <1>1 DEF Progress, At
  <2>2. \A q \in Callers \ {p} : Progress(q)'
    BY <1>4, <1>5 DEF Progress, At, Changing
  <2>3. QED BY <2>1, <2>2
<1>6. ASSUME clash' = FALSE PROVE \A q, r \in Callers : Busy(q)' /\ Busy(r)' => q = r
  BY <1>4, <1>6 DEF Busy
<1>7. QED BY <1>3, <1>5, <1>6 DEF Scanning

\* A caller that changes nothing but where it stands, outside of Changing.
LEMMA LooksInv ==
  ASSUME IInv, NEW p \in Callers, NEW c \in CallerState, Turns(p, c),
         caller[p].pc \notin Changing, c.pc \notin Changing,
         UNCHANGED <<config, saved, generation, state, tasks, clash>>
  PROVE  Scanning' /\ AgainstCurrent'
<1>1. caller'[p] = c /\ \A q \in Callers \ {p} : caller'[q] = caller[q]
  BY DEF IInv, TypeOK, Turns
<1>2. \A q \in Callers : Busy(q)' <=> Busy(q)
  BY <1>1 DEF Busy
<1>3. AgainstCurrent'
  BY <1>2 DEF IInv, AgainstCurrent, Quiet, Current
<1>4. ASSUME clash = FALSE PROVE \A q \in Callers : Progress(q)'
  <2>1. Progress(p)'
    BY <1>1 DEF Progress, At, Changing
  <2>2. \A q \in Callers \ {p} : Progress(q)'
    BY <1>1, <1>4 DEF IInv, Scanning, Progress, At
  <2>3. QED BY <2>1, <2>2
<1>5. QED BY <1>2, <1>3, <1>4 DEF IInv, Scanning

\* A caller goes on with its change, or is done with it; alone, nobody else is at one.
LEMMA ChangesInv ==
  ASSUME IInv, NEW p \in Callers, NEW c \in CallerState, Turns(p, c), Busy(p), UNCHANGED clash,
         clash = FALSE => Progress(p)',
         clash = FALSE /\ c.pc \notin Changing => (state.cfg = config /\ saved = config /\ RightSeeds)'
  PROVE  Scanning' /\ AgainstCurrent'
<1>1. caller'[p] = c /\ \A q \in Callers \ {p} : caller'[q] = caller[q]
  BY DEF IInv, TypeOK, Turns
<1>2. ASSUME clash = FALSE PROVE \A q \in Callers \ {p} : caller'[q].pc \notin Changing
  BY <1>1, <1>2 DEF IInv, Scanning, Busy
<1>3. ASSUME clash = FALSE PROVE \A q \in Callers : Progress(q)'
  <2>1. \A q \in Callers \ {p} : Progress(q)'
    BY <1>2, <1>3 DEF Progress, At, Changing
  <2>2. QED BY <1>3, <2>1
<1>4. ASSUME clash = FALSE PROVE \A q, r \in Callers : Busy(q)' /\ Busy(r)' => q = r
  BY <1>2, <1>4 DEF Busy
<1>5. Scanning'
  BY <1>3, <1>4 DEF Scanning
<1>6. AgainstCurrent'
  <2>1. clash' = clash /\ clash \in BOOLEAN
    BY DEF IInv, TypeOK
  <2>2. CASE clash = FALSE /\ c.pc \notin Changing
    BY <2>2 DEF AgainstCurrent, RightSeeds, Current
  <2>3. CASE c.pc \in Changing
    BY <1>1, <2>3 DEF AgainstCurrent, Quiet, Busy
  <2>4. CASE clash = TRUE
    BY <2>1, <2>4 DEF AgainstCurrent
  <2>5. QED BY <2>1, <2>2, <2>3, <2>4
<1>7. QED BY <1>5, <1>6

LEMMA PostInv ==
  ASSUME IInv, NEW form \in Forms, NEW a \in {NoneAdopted, config.adopted}, Post(form, a)
  PROVE  IInv'
<1>1. TypeOK'
  BY PostType DEF IInv
<1> DEFINE c == [caller["form"] EXCEPT !.pc = "save", !.cfg = config']
<1>2. "form" \in Callers /\ caller["form"] \in CallerState /\ config' \in Config
  BY <1>1 DEF Post, IInv, TypeOK
<1>3. c \in CallerState /\ c.pc = "save" /\ c.cfg = config'
  BY <1>2 DEF CallerState, Changing
<1>4. Turns("form", c) /\ clash' = ~Alone("form") /\ UNCHANGED <<tasks, generation>>
  BY DEF Post, scan
<1> HIDE DEF c
<1>5. Scanning' /\ AgainstCurrent'
  BY <1>2, <1>3, <1>4, BeginsInv
<1>6. LateInv'
  BY <1>4 DEF IInv, LateInv, MayWrite
<1>7. QED BY <1>1, <1>5, <1>6 DEF IInv

LEMMA WalkInv ==
  ASSUME IInv, NEW p \in Callers, Look(p) \/ Walks(p)
  PROVE  IInv'
<1>1. TypeOK' /\ caller[p] \in CallerState /\ caller[p].cfg \in Config /\ generation \in Nat
  BY WalkType DEF IInv, TypeOK, CallerState
<1>2. UNCHANGED <<saved, generation, state, tasks>>
  BY DEF Look, Walks, Capture, NextLook, EndWalk, Push, scan
<1>3. LateInv'
  BY <1>2 DEF IInv, LateInv, MayWrite
<1>4. ASSUME NEW c \in CallerState, Turns(p, c), c.pc \notin Changing,
             caller[p].pc \notin Changing, UNCHANGED <<config, clash>>
      PROVE  Scanning' /\ AgainstCurrent'
  BY <1>2, <1>4, LooksInv
<1>5. CASE Look(p)
  <2> DEFINE c == [caller[p] EXCEPT !.pc = "looked", !.cfg = config]
  <2>1. c \in CallerState /\ c.pc = "looked"
    BY <1>1 DEF CallerState, IInv, TypeOK
  <2>2. Turns(p, c) /\ UNCHANGED <<config, clash>> /\ caller[p].pc = "idle"
    BY <1>5 DEF Look, At
  <2> HIDE DEF c
  <2>3. QED BY <1>1, <1>3, <1>4, <2>1, <2>2 DEF IInv, Changing
<1>6. CASE Capture(p)
  <2> DEFINE c == [caller[p] EXCEPT !.pc = "walking", !.gen = generation]
  <2>1. c \in CallerState /\ c.pc = "walking"
    BY <1>1 DEF CallerState
  <2>2. Turns(p, c) /\ UNCHANGED <<config, clash>> /\ caller[p].pc = "looked"
    BY <1>6 DEF Capture, At
  <2> HIDE DEF c
  <2>3. QED BY <1>1, <1>3, <1>4, <2>1, <2>2 DEF IInv, Changing
<1>7. CASE NextLook(p)
  <2> DEFINE c == [caller[p] EXCEPT !.pc = "last"]
  <2>1. c \in CallerState /\ c.pc = "last"
    BY <1>1 DEF CallerState
  <2>2. /\ Turns(p, c) \/ Turns(p, Nobody)
        /\ UNCHANGED <<config, clash>> /\ caller[p].pc = "walking"
    BY <1>7 DEF NextLook, At, Go, Return
  <2> HIDE DEF c
  <2>3. QED BY <1>1, <1>3, <1>4, <2>1, <2>2, NobodyType DEF IInv, Changing
<1>8. ASSUME NEW seen \in SUBSET Channels, EndWalk(p, seen) PROVE IInv'
  <2>1. PICK f \in Found(caller[p].cfg, seen) :
          \/ Turns(p, Nobody)
          \/ Turns(p, [caller[p] EXCEPT !.found = f, !.gen = 0, !.pc = "found"])
    BY <1>8, Zenon DEF EndWalk, Return
  <2>2. f \subseteq Channels
    BY <1>1, FoundType
  <2> DEFINE c == [caller[p] EXCEPT !.found = f, !.gen = 0, !.pc = "found"]
  <2>3. c \in CallerState /\ c.pc = "found"
    BY <1>1, <2>2 DEF CallerState
  <2>4. /\ Turns(p, c) \/ Turns(p, Nobody)
        /\ UNCHANGED <<config, clash>> /\ caller[p].pc = "last"
    BY <1>8, <2>1 DEF EndWalk, At
  <2> HIDE DEF c
  <2>5. QED BY <1>1, <1>3, <1>4, <2>3, <2>4, NobodyType DEF IInv, Changing
<1>9. CASE Push(p)
  <2> DEFINE c == [Nobody EXCEPT !.pc = "snap"]
  <2>1. c \in CallerState /\ c.pc = "snap"
    BY NobodyType DEF CallerState, Changing
  <2>2. Turns(p, c) /\ clash' = ~Alone(p)
    BY <1>9 DEF Push
  <2> HIDE DEF c
  <2>3. Scanning' /\ AgainstCurrent'
    BY <2>1, <2>2, BeginsInv
  <2>4. QED BY <1>1, <1>3, <2>3 DEF IInv
<1>10. QED BY <1>5, <1>6, <1>7, <1>8, <1>9 DEF Walks

LEMMA CallInv ==
  ASSUME IInv, NEW p \in Callers, Calls(p)
  PROVE  IInv'
<1>1. /\ TypeOK' /\ caller[p] \in CallerState /\ caller[p].cfg \in Config
      /\ caller[p].gen \in Nat /\ generation \in Nat /\ config \in Config
      /\ \A t \in tasks : t.gen \in 0..generation
      /\ caller \in [Callers -> CallerState]
  BY CallType DEF IInv, TypeOK, CallerState
<1>2. Busy(p) /\ UNCHANGED <<config, clash>>
  BY DEF Calls, Snapshot, Apply, Bump, Reset, Spawn, Busy, Changing, At
<1>3. clash = FALSE => Progress(p)
  BY DEF IInv, Scanning
<1>4. CASE Snapshot(p)
  <2> DEFINE c == [caller[p] EXCEPT !.pc = "save", !.cfg = config]
  <2>1. c \in CallerState /\ c.pc = "save" /\ c.cfg = config
    BY <1>1 DEF CallerState, Changing
  <2>2. Turns(p, c) /\ UNCHANGED <<config, tasks, generation>>
    BY <1>4 DEF Snapshot, scan
  <2> HIDE DEF c
  <2>3. caller'[p] = c
    BY <1>1, <2>2 DEF Turns
  <2>4. Progress(p)'
    BY <2>1, <2>2, <2>3 DEF Progress, At
  <2>5. Scanning' /\ AgainstCurrent'
    BY <1>2, <2>1, <2>2, <2>4, ChangesInv DEF Changing
  <2>6. QED BY <1>1, <2>2, <2>5 DEF IInv, LateInv, MayWrite
<1>5. CASE Apply(p)
  <2> DEFINE c == [caller[p] EXCEPT !.pc = "bump", !.cfg = config]
  <2>1. c \in CallerState /\ c.pc = "bump" /\ c.cfg = config
    BY <1>1 DEF CallerState, Changing
  <2>2. /\ Turns(p, c) /\ UNCHANGED <<config, tasks, generation>>
        /\ saved' = caller[p].cfg /\ caller[p].pc = "save"
    BY <1>5 DEF Apply, scan, At
  <2> HIDE DEF c
  <2>3. caller'[p] = c
    BY <1>1, <2>2 DEF Turns
  <2>4. clash = FALSE => Progress(p)'
    BY <1>3, <2>1, <2>2, <2>3 DEF Progress, At
  <2>5. Scanning' /\ AgainstCurrent'
    BY <1>2, <2>1, <2>2, <2>4, ChangesInv DEF Changing
  <2>6. QED BY <1>1, <2>2, <2>5 DEF IInv, LateInv, MayWrite
<1>6. CASE Bump(p)
  <2> DEFINE c == [caller[p] EXCEPT !.pc = "reset", !.gen = generation']
  <2>1. /\ Turns(p, c) /\ UNCHANGED <<config, saved, tasks>>
        /\ generation' = generation + 1 /\ caller[p].pc = "bump"
    BY <1>6 DEF Bump, At
  <2>2. c \in CallerState /\ c.pc = "reset" /\ c.gen = generation' /\ c.cfg = caller[p].cfg
    <3>1. generation' \in Nat
      BY <1>1, <2>1
    <3>2. QED BY <1>1, <3>1 DEF CallerState, Changing
  <2> HIDE DEF c
  <2>3. caller'[p] = c
    BY <1>1, <2>1 DEF Turns
  <2>4. \A t \in tasks : t.gen # generation'
    BY <1>1, <2>1
  <2>5. clash = FALSE => Progress(p)'
    BY <1>3, <2>1, <2>2, <2>3, <2>4 DEF Progress, At
  <2>6. Scanning' /\ AgainstCurrent'
    BY <1>2, <2>1, <2>2, <2>5, ChangesInv DEF Changing
  <2>7. QED BY <1>1, <2>1, <2>4, <2>6 DEF IInv, LateInv, MayWrite
<1>7. CASE Reset(p)
  <2> DEFINE c == [caller[p] EXCEPT !.pc = "spawn"]
  <2>1. /\ Turns(p, c) /\ UNCHANGED <<config, saved, tasks, generation>>
        /\ state'.cfg = caller[p].cfg /\ caller[p].pc = "reset"
    BY <1>7 DEF Reset, Go, At
  <2>2. c \in CallerState /\ c.pc = "spawn" /\ c.gen = caller[p].gen /\ c.cfg = caller[p].cfg
    BY <1>1 DEF CallerState, Changing
  <2> HIDE DEF c
  <2>3. caller'[p] = c
    BY <1>1, <2>1 DEF Turns
  <2>4. clash = FALSE => Progress(p)'
    BY <1>3, <2>1, <2>2, <2>3 DEF Progress, At
  <2>5. Scanning' /\ AgainstCurrent'
    BY <1>2, <2>1, <2>2, <2>4, ChangesInv DEF Changing
  <2>6. QED BY <1>1, <2>1, <2>5 DEF IInv, LateInv, MayWrite
<1>8. CASE Spawn(p)
  <2>1. /\ Turns(p, Nobody) /\ UNCHANGED <<config, saved, generation>>
        /\ tasks' = tasks \cup Spawned(caller[p].cfg, caller[p].gen)
        /\ caller[p].pc = "spawn"
    BY <1>8 DEF Spawn, Return, At
  <2>2. state'.cfg = state.cfg
    BY <1>8 DEF Spawn, IInv, TypeOK
  <2>3. \A t \in Spawned(caller[p].cfg, caller[p].gen) :
          /\ t.late = FALSE
          /\ t.kind # "live" => caller[p].cfg.node # NoNode
          /\ t.kind \in {"live", IF caller[p].cfg.full THEN "backfill" ELSE "discover"}
    BY <1>1, SpawnedType
  <2>4. LateInv'
    BY <2>1, <2>3 DEF IInv, LateInv, MayWrite
  <2>5. clash = FALSE => state'.cfg = config /\ saved = config /\ RightSeeds'
    BY <1>3, <2>1, <2>2, <2>3 DEF Progress, At, RightSeeds
  <2>6. caller'[p] = Nobody
    BY <1>1, <2>1 DEF Turns
  <2>7. Progress(p)'
    BY <2>6, NobodyType DEF Progress, At
  <2>8. Scanning' /\ AgainstCurrent'
    BY <1>2, <2>1, <2>5, <2>7, ChangesInv, NobodyType
  <2>9. QED BY <1>1, <2>4, <2>8 DEF IInv
<1>9. QED BY <1>4, <1>5, <1>6, <1>7, <1>8 DEF Calls

LEMMA WorkInv == IInv /\ Work => IInv'
<1> SUFFICES ASSUME IInv, Work PROVE IInv'
  OBVIOUS
<1>1. TypeOK' /\ LateInv'
  BY WorkType DEF IInv
<1>2. UNCHANGED <<config, saved, generation, caller, clash>>
  BY DEF Work
<1>3. PICK t \in tasks : Step(t)
  BY DEF Work
<1>4. PICK u \in Task : StepTo(t, u)
  BY <1>3, StepLeadsTo DEF IInv
<1>5. state'.cfg = state.cfg
  BY <1>3, StepLeadsTo DEF IInv, TypeOK
<1>6. RightSeeds => RightSeeds'
  BY <1>2, <1>4 DEF RightSeeds, StepTo
<1>7. (\A s \in tasks : s.gen # generation) => (\A s \in tasks' : s.gen # generation)
  BY <1>4 DEF StepTo
<1>8. Scanning'
  BY <1>2, <1>5, <1>7 DEF IInv, Scanning, Progress, At, Busy
<1>9. AgainstCurrent'
  <2>1. /\ (\A p \in Callers : ~Busy(p))' <=> (\A p \in Callers : ~Busy(p))
        /\ state'.cfg = state.cfg /\ UNCHANGED <<config, saved, clash>>
    BY <1>2, <1>5 DEF Busy
  <2>2. RightSeeds' => \A s \in tasks' : s.gen = generation' /\ s.kind # "live" =>
          config'.node # NoNode /\ s.kind = (IF config'.full THEN "backfill" ELSE "discover")
    BY DEF RightSeeds
  <2>3. QED BY <1>6, <2>1, <2>2, AgainstCurrentIs DEF IInv, AgainstCurrent, Quiet, Current
<1>10. QED BY <1>1, <1>8, <1>9 DEF IInv

LEMMA StutterInv == IInv /\ UNCHANGED vars => IInv'
  BY DEF IInv, TypeOK, LateInv, Scanning, AgainstCurrent, Progress, At, Busy, Quiet, Current,
         MayWrite, vars, scan

LEMMA Invariance == Spec => []IInv
<1>1. Init => IInv
  BY InitInv
<1>2. IInv /\ [Next]_vars => IInv'
  <2> SUFFICES ASSUME IInv, Next PROVE IInv'
    BY StutterInv
  <2>1. ASSUME NEW form \in Forms, NEW a \in {NoneAdopted, config.adopted}, Post(form, a) PROVE IInv'
    BY <2>1, PostInv
  <2>2. ASSUME NEW p \in Callers, Look(p) \/ Walks(p) PROVE IInv'
    BY <2>2, WalkInv
  <2>3. ASSUME NEW p \in Callers, Calls(p) PROVE IInv'
    BY <2>3, CallInv
  <2>4. CASE Work
    BY <2>4, WorkInv
  <2>5. QED BY <2>1, <2>2, <2>3, <2>4 DEF Next
<1>3. QED BY <1>1, <1>2, PTL DEF Spec

--------------------------------------------------------------------------------
(* What discovery adopts *)

\* What AdoptedOnce asks of a configuration.
Proper(cfg) ==
  /\ \A c \in Channels : cfg.adopted[c] <= 1 /\ (c \in cfg.own => cfg.adopted[c] = 0)
  /\ Adopted(cfg, Sequencers) <= Cap

\* What a walk over cfg may have found: channels that cfg does not track, and no
\* more sequencers than the cap leaves.
Adoptable(cfg, found) ==
  /\ found \cap Tracked(cfg) = {}
  /\ Cardinality(found \cap Sequencers) <= SeqBudget(cfg)

\* Unless a discovery adopted into another configuration, the configuration is a
\* proper one; what a caller is about to push suits the one it looked at.
AdoptInv ==
  /\ ~mixed => Proper(config)
  /\ \A p \in Callers : At(p, "found") => Adoptable(caller[p].cfg, caller[p].found)

\* The entries of discovery that a configuration holds for sequencers are finitely many.
LEMMA AdoptedCount ==
  ASSUME NEW cfg \in Config
  PROVE  /\ IsFiniteSet(UNION {{c} \X (1..cfg.adopted[c]) : c \in Sequencers})
         /\ Adopted(cfg, Sequencers) \in Nat
<1> DEFINE Entries(c) == {c} \X (1..cfg.adopted[c])
           Groups == {Entries(c) : c \in Sequencers}
<1>1. IsFiniteSet(Sequencers)
  BY AdoptionAssumption, FS_Subset
<1>2. \A c \in Sequencers : IsFiniteSet(Entries(c))
  <2> TAKE c \in Sequencers
  <2>1. cfg.adopted[c] \in Nat
    BY AdoptionAssumption DEF Config
  <2>2. IsFiniteSet(1..cfg.adopted[c])
    BY <2>1, FS_Interval
  <2>3. IsFiniteSet({c})
    BY FS_Singleton
  <2>4. QED BY <2>2, <2>3, FS_Product
<1>3. IsFiniteSet(Groups)
  <2> DEFINE f == [c \in Sequencers |-> Entries(c)]
  <2> HIDE DEF Entries
  <2>1. f \in [Sequencers -> Groups] /\ \A g \in Groups : \E c \in Sequencers : f[c] = g
    OBVIOUS
  <2>2. f \in Surjection(Sequencers, Groups)
    BY <2>1 DEF Surjection
  <2>3. QED BY <1>1, <2>2, FS_Surjection
<1>4. \A G \in Groups : IsFiniteSet(G)
  BY <1>2
<1>5. IsFiniteSet(UNION Groups)
  <2> HIDE DEF Groups
  <2>1. QED BY <1>3, <1>4, FS_UNION
<1>6. QED BY <1>5, FS_CardinalityType DEF Adopted

\* A found set holds channels that were not tracked, and keeps to the cap.
LEMMA FoundAdoptable ==
  ASSUME NEW cfg \in Config, NEW seen \in SUBSET Channels, NEW f \in Found(cfg, seen)
  PROVE  Adoptable(cfg, f)
<1> DEFINE new == seen \ Tracked(cfg)
           Rest(seqs) == LET n == DataBudget(cfg) IN
                         IF n <= Cardinality(seqs) THEN 0 ELSE n - Cardinality(seqs)
           With(s) == {s \cup d : d \in FirstOf(Rest(s), new \cap DataChannels)}
<1>0. f \in UNION {With(s) : s \in FirstOf(SeqBudget(cfg), new \cap Sequencers)}
  BY DEF Found
<1>1. PICK s \in FirstOf(SeqBudget(cfg), new \cap Sequencers) : f \in With(s)
  <2> HIDE DEF With
  <2>1. QED BY <1>0
<1>2. PICK d \in FirstOf(Rest(s), new \cap DataChannels) : f = s \cup d
  BY <1>1
<1>3. s \subseteq new \cap Sequencers /\ d \subseteq new \cap DataChannels
  BY <1>1, <1>2 DEF FirstOf
<1>4. f \cap Sequencers = s /\ f \cap Tracked(cfg) = {}
  BY <1>2, <1>3, AdoptionAssumption
<1>5. SeqBudget(cfg) \in Nat
  <2>1. Adopted(cfg, Sequencers) \in Nat /\ Cap \in Nat
    BY AdoptedCount, AdoptionAssumption
  <2>2. QED BY <2>1 DEF SeqBudget
<1>6. IsFiniteSet(new \cap Sequencers)
  BY AdoptionAssumption, FS_Subset
<1>7. Cardinality(new \cap Sequencers) \in Nat
  BY <1>6, FS_CardinalityType
<1>8. Cardinality(s) = IF SeqBudget(cfg) <= Cardinality(new \cap Sequencers)
                       THEN SeqBudget(cfg) ELSE Cardinality(new \cap Sequencers)
  BY <1>1 DEF FirstOf
<1>9. Cardinality(s) <= SeqBudget(cfg)
  BY <1>5, <1>7, <1>8
<1>10. QED BY <1>4, <1>9 DEF Adoptable

\* Adopting what was found into the configuration that was looked at keeps it proper.
LEMMA PushProper ==
  ASSUME NEW cfg \in Config, NEW found \in SUBSET Channels, Proper(cfg), Adoptable(cfg, found)
  PROVE  Proper(WithAdopted(cfg, found, Ignored))
<1> DEFINE after == WithAdopted(cfg, found, Ignored)
           more == [c \in Channels |-> IF c \in found \ Ignored THEN cfg.adopted[c] + 1 ELSE cfg.adopted[c]]
           old == UNION {{c} \X (1..cfg.adopted[c]) : c \in Sequencers}
           new == UNION {{c} \X (1..after.adopted[c]) : c \in Sequencers}
           pushed == (found \cap Sequencers) \X {1}
<1>1. after \in Config /\ after.own = cfg.own /\ after.adopted = more
  BY WithAdoptedType DEF WithAdopted, Config
<1>2. /\ \A c \in Channels : cfg.adopted[c] \in Nat /\ after.adopted[c] \in Nat
      /\ \A c \in Channels : cfg.adopted[c] <= 1
      /\ \A c \in found : cfg.adopted[c] = 0 /\ c \notin cfg.own
  BY <1>1 DEF Config, Proper, Adoptable, Tracked
<1>3. \A c \in Channels : after.adopted[c] = cfg.adopted[c] \/ (c \in found /\ after.adopted[c] = 1)
  BY <1>1, <1>2
<1>4. \A c \in Channels : after.adopted[c] <= 1 /\ (c \in after.own => after.adopted[c] = 0)
  BY <1>1, <1>2, <1>3 DEF Proper
<1>5. IsFiniteSet(old) /\ IsFiniteSet(new)
      /\ Cardinality(old) = Adopted(cfg, Sequencers) /\ Cardinality(new) = Adopted(after, Sequencers)
  BY <1>1, AdoptedCount DEF Adopted
<1>6. IsFiniteSet(found \cap Sequencers) /\ Cardinality(found \cap Sequencers) \in Nat
  BY AdoptionAssumption, FS_Subset, FS_CardinalityType
<1>7. IsFiniteSet(pushed) /\ Cardinality(pushed) = Cardinality(found \cap Sequencers)
  <2>1. IsFiniteSet({1}) /\ Cardinality({1}) = 1
    BY FS_Singleton
  <2>2. IsFiniteSet(pushed) /\ Cardinality(pushed) = Cardinality(found \cap Sequencers) * 1
    BY <1>6, <2>1, FS_Product
  <2>3. QED BY <1>6, <2>2
<1>8. new \subseteq old \cup pushed
  <2> SUFFICES ASSUME NEW c \in Sequencers, NEW e \in {c} \X (1..after.adopted[c])
               PROVE  e \in old \cup pushed
    OBVIOUS
  <2>1. c \in Channels
    BY AdoptionAssumption
  <2>2. CASE after.adopted[c] = cfg.adopted[c]
    BY <2>2
  <2>3. CASE c \in found /\ after.adopted[c] = 1
    BY <2>3
  <2>4. QED BY <1>3, <2>1, <2>2, <2>3
<1>9. Cardinality(new) <= Cardinality(old) + Cardinality(found \cap Sequencers)
  <2> HIDE DEF old, new, pushed
  <2>1. IsFiniteSet(old \cup pushed)
        /\ Cardinality(old \cup pushed) =
             Cardinality(old) + Cardinality(pushed) - Cardinality(old \cap pushed)
    BY <1>5, <1>7, FS_Union
  <2>2. IsFiniteSet(old \cap pushed)
    BY <1>5, FS_Intersection
  <2>3. Cardinality(old \cap pushed) \in Nat /\ Cardinality(old) \in Nat
    BY <1>5, <2>2, FS_CardinalityType
  <2>4. Cardinality(new) <= Cardinality(old \cup pushed) /\ Cardinality(new) \in Nat
        /\ Cardinality(old \cup pushed) \in Nat
    BY <1>5, <1>8, <2>1, FS_Subset, FS_CardinalityType
  <2>5. QED BY <1>6, <1>7, <2>1, <2>3, <2>4
<1>10. /\ Adopted(cfg, Sequencers) \in Nat /\ Adopted(after, Sequencers) \in Nat
       /\ Adopted(cfg, Sequencers) <= Cap /\ Cap \in Nat
       /\ Cardinality(found \cap Sequencers) <= SeqBudget(cfg)
  BY <1>1, AdoptedCount, AdoptionAssumption DEF Proper, Adoptable
<1>11. SeqBudget(cfg) = Cap - Adopted(cfg, Sequencers)
  BY <1>10 DEF SeqBudget
<1> HIDE DEF old, new, after
<1>12. Adopted(after, Sequencers) <= Cap
  BY <1>5, <1>6, <1>9, <1>10, <1>11
<1>13. QED BY <1>4, <1>12 DEF Proper, after

\* The form keeps the entries of discovery, or drops them all; it owns none of them.
LEMMA PostProper ==
  ASSUME TypeOK, AdoptInv, NEW form \in Forms, NEW a \in {NoneAdopted, config.adopted}, Post(form, a)
  PROVE  AdoptInv'
<1>1. /\ config' = [node |-> form.node, full |-> form.full, adopted |-> a,
                    own |-> {c \in form.own : a[c] = 0}]
      /\ mixed' = mixed /\ config' \in Config
  BY PostType DEF Post, TypeOK
<1>2. ASSUME ~mixed PROVE Proper(config')
  <2>1. CASE a = config.adopted
    <3>1. Adopted(config', Sequencers) = Adopted(config, Sequencers)
      BY <1>1, <2>1 DEF Adopted
    <3>2. QED BY <1>1, <1>2, <2>1, <3>1 DEF Proper, AdoptInv
  <2>2. CASE a = NoneAdopted
    <3>1. \A c \in Channels : a[c] = 0
      BY <2>2 DEF NoneAdopted
    <3>2. UNION {{c} \X (1..config'.adopted[c]) : c \in Sequencers} = {}
      BY <1>1, <3>1, AdoptionAssumption
    <3>3. Adopted(config', Sequencers) = 0
      BY <3>2, FS_EmptySet DEF Adopted
    <3>4. QED BY <1>1, <3>1, <3>3, AdoptionAssumption DEF Proper
  <2>3. QED BY <2>1, <2>2
<1>3. \A p \in Callers : At(p, "found")' => At(p, "found") /\ caller'[p] = caller[p]
  BY DEF Post, Turns, At, TypeOK, CallerState
<1>4. QED BY <1>1, <1>2, <1>3 DEF AdoptInv, At

\* A discovery pushes what suits the configuration that it looked at.
LEMMA WalkProper ==
  ASSUME TypeOK, AdoptInv, NEW p \in Callers, Look(p) \/ Walks(p)
  PROVE  AdoptInv'
<1>1. caller \in [Callers -> CallerState] /\ caller[p] \in CallerState
  BY DEF TypeOK
<1>2. ASSUME NEW c, Turns(p, c), UNCHANGED <<config, mixed>>,
             c.pc = "found" => Adoptable(c.cfg, c.found)
      PROVE  AdoptInv'
  <2>1. caller'[p] = c /\ \A q \in Callers \ {p} : caller'[q] = caller[q]
    BY <1>1, <1>2 DEF Turns
  <2>2. QED BY <1>2, <2>1 DEF AdoptInv, At
<1>3. CASE Look(p) \/ Capture(p)
  <2>1. \E c : c.pc # "found" /\ Turns(p, c)
    <3>1. /\ [caller[p] EXCEPT !.pc = "looked", !.cfg = config].pc # "found"
          /\ [caller[p] EXCEPT !.pc = "walking", !.gen = generation].pc # "found"
      BY <1>1 DEF CallerState
    <3>2. QED BY <1>3, <3>1 DEF Look, Capture
  <2>2. QED BY <1>2, <1>3, <2>1 DEF Look, Capture
<1>4. CASE NextLook(p)
  <2>1. \E c : c.pc # "found" /\ Turns(p, c)
    <3>1. [caller[p] EXCEPT !.pc = "last"].pc # "found" /\ Nobody.pc # "found"
      BY <1>1, NobodyType DEF CallerState
    <3>2. QED BY <1>4, <3>1 DEF NextLook, Go, Return
  <2>2. QED BY <1>2, <1>4, <2>1 DEF NextLook
<1>5. ASSUME NEW seen \in SUBSET Channels, EndWalk(p, seen) PROVE AdoptInv'
  <2>1. PICK f \in Found(caller[p].cfg, seen) :
          \/ Turns(p, Nobody)
          \/ Turns(p, [caller[p] EXCEPT !.found = f, !.gen = 0, !.pc = "found"])
    BY <1>5, Zenon DEF EndWalk, Return
  <2>2. Adoptable(caller[p].cfg, f)
    BY <1>1, FoundAdoptable DEF CallerState
  <2> DEFINE c == [caller[p] EXCEPT !.found = f, !.gen = 0, !.pc = "found"]
  <2>3. c.cfg = caller[p].cfg /\ c.found = f
    BY <1>1 DEF CallerState
  <2>4. UNCHANGED <<config, mixed>>
    BY <1>5 DEF EndWalk
  <2> HIDE DEF c
  <2>5. CASE Turns(p, c)
    BY <1>2, <2>2, <2>3, <2>4, <2>5
  <2>6. CASE Turns(p, Nobody)
    BY <1>2, <2>4, <2>6, NobodyType
  <2>7. QED BY <2>1, <2>5, <2>6 DEF c
<1>6. CASE Push(p)
  <2>1. /\ At(p, "found") /\ config' = WithAdopted(config, caller[p].found, Ignored)
        /\ mixed' = (mixed \/ config # caller[p].cfg)
        /\ Turns(p, [Nobody EXCEPT !.pc = "snap"])
    BY <1>6 DEF Push
  <2>2. caller[p].found \in SUBSET Channels /\ config \in Config
    BY <1>1 DEF CallerState, TypeOK
  <2>3. ASSUME ~mixed' PROVE Proper(config')
    <3>1. ~mixed /\ config = caller[p].cfg
      BY <2>1, <2>3
    <3>2. Proper(config) /\ Adoptable(config, caller[p].found)
      BY <2>1, <3>1 DEF AdoptInv
    <3>3. QED BY <2>1, <2>2, <3>2, PushProper
  <2>4. caller'[p].pc = "snap" /\ \A q \in Callers \ {p} : caller'[q] = caller[q]
    BY <1>1, <2>1, NobodyType DEF Turns, CallerState
  <2>5. QED BY <2>3, <2>4 DEF AdoptInv, At
<1>7. QED BY <1>3, <1>4, <1>5, <1>6 DEF Walks

\* A caller on its way through apply_config, and the tasks, leave the configuration alone.
LEMMA CallProper ==
  ASSUME TypeOK, AdoptInv, NEW p \in Callers, Calls(p)
  PROVE  AdoptInv'
<1>1. caller \in [Callers -> CallerState] /\ caller[p] \in CallerState
  BY DEF TypeOK
<1>2. UNCHANGED <<config, mixed>>
  BY DEF Calls, Snapshot, Apply, Bump, Reset, Spawn
<1>3. \E c : c.pc # "found" /\ Turns(p, c)
  <2>1. /\ [caller[p] EXCEPT !.pc = "save", !.cfg = config].pc # "found"
        /\ [caller[p] EXCEPT !.pc = "bump", !.cfg = config].pc # "found"
        /\ [caller[p] EXCEPT !.pc = "reset", !.gen = generation'].pc # "found"
        /\ [caller[p] EXCEPT !.pc = "spawn"].pc # "found"
        /\ Nobody.pc # "found"
    BY <1>1, NobodyType DEF CallerState
  <2>2. QED BY <2>1 DEF Calls, Snapshot, Apply, Bump, Reset, Spawn, Go, Return
<1>4. PICK c : c.pc # "found" /\ Turns(p, c)
  BY <1>3
<1>5. caller'[p] = c /\ \A q \in Callers \ {p} : caller'[q] = caller[q]
  BY <1>1, <1>4 DEF Turns
<1>6. QED BY <1>2, <1>4, <1>5 DEF AdoptInv, At

--------------------------------------------------------------------------------
(* Seeds and what they have left to do *)

LEMMA StepsLeftIs ==
  \A t \in Task : /\ StepsLeft(t) \in Nat
                  /\ t.pc = "look" => StepsLeft(t) = 6 * t.n + 5
                  /\ t.pc = "await" => StepsLeft(t) = 6 * t.n + 4
                  /\ t.pc = "relook" => StepsLeft(t) = 6 * t.n + 3
                  /\ t.pc = "hold" => StepsLeft(t) = 6 * t.n + 2
                  /\ t.pc = "tail" => StepsLeft(t) = 6 * t.n + 1
                  /\ t.pc = "finish" => StepsLeft(t) = 6 * t.n
<1> TAKE t \in Task
<1>1. t.n \in Nat /\ t.pc \in {"look", "await", "relook", "hold", "tail", "finish"}
  BY ScansAssumption DEF Task
<1>2. QED BY <1>1 DEF StepsLeft

\* After a step of t the tasks are as before, or t is gone, or it has become a
\* task of its scan with less to do.
Lessened(t, u) ==
  /\ u \in Task /\ u.gen = t.gen /\ u.kind = t.kind /\ Becomes(t, u)
  /\ StepsLeft(u) < StepsLeft(t)

LEMMA GoesLess ==
  ASSUME NEW t \in Task, NEW pc \in {"look", "await", "relook", "hold", "tail", "finish"},
         Goes(t, pc),
         \/ t.pc = "look" /\ pc \in {"relook", "await"}
         \/ t.pc = "relook" /\ pc = "hold"
         \/ t.pc = "tail" /\ pc = "finish"
  PROVE  Lessened(t, [t EXCEPT !.pc = pc])
<1> DEFINE u == [t EXCEPT !.pc = pc]
<1>1. u \in Task /\ u.gen = t.gen /\ u.kind = t.kind /\ u.n = t.n /\ u.pc = pc /\ t.n \in Nat
  BY ScansAssumption DEF Task
<1>2. Becomes(t, u)
  BY DEF Goes
<1> HIDE DEF u
<1>3. StepsLeft(u) < StepsLeft(t)
  BY <1>1, StepsLeftIs
<1>4. QED BY <1>1, <1>2, <1>3 DEF Lessened, u

LEMMA StepLessens ==
  ASSUME TypeOK, NEW t \in tasks, Step(t)
  PROVE  tasks' = tasks \/ Ends(t) \/ \E u \in Task : Lessened(t, u)
<1>1. t \in Task /\ t.n \in 0..Rounds /\ Rounds \in Nat /\ t.n \in Nat
  BY ScansAssumption DEF TypeOK, Task
<1>2. ASSUME NEW pc \in {"look", "await", "relook", "hold", "tail", "finish"}
      PROVE  [t EXCEPT !.pc = pc] \in Task
  BY <1>1 DEF Task
<1>3. CASE LookAt(t)
  BY <1>1, <1>2, <1>3, GoesLess DEF LookAt
<1>4. CASE Round(t)
  BY <1>4 DEF Round
<1>5. CASE Retry(t)
  <2> DEFINE u == [t EXCEPT !.pc = "look", !.n = @ - 1]
  <2>1. t.n > 0 /\ t.pc = "await" /\ t.n - 1 \in 0..Rounds
    BY <1>1, <1>5 DEF Retry
  <2>2. u \in Task /\ u.gen = t.gen /\ u.kind = t.kind /\ u.n = t.n - 1 /\ u.pc = "look"
    BY <1>1, <2>1 DEF Task
  <2>3. Becomes(t, u)
    BY <1>5 DEF Retry
  <2> HIDE DEF u
  <2>4. StepsLeft(u) < StepsLeft(t)
    BY <1>1, <2>1, <2>2, StepsLeftIs
  <2>5. QED BY <2>2, <2>3, <2>4 DEF Lessened
<1>6. CASE Answer(t)
  <2> DEFINE u == [Wrote(t) EXCEPT !.pc = "relook"]
  <2>1. u \in Task /\ u.gen = t.gen /\ u.kind = t.kind /\ u.n = t.n /\ u.pc = "relook"
    BY <1>1 DEF Wrote, Task
  <2>2. Ends(t) \/ Becomes(t, u)
    BY <1>6 DEF Answer
  <2>3. t.pc = "await"
    BY <1>6 DEF Answer
  <2> HIDE DEF u
  <2>4. StepsLeft(u) < StepsLeft(t)
    BY <1>1, <2>1, <2>3, StepsLeftIs
  <2>5. QED BY <2>1, <2>2, <2>4 DEF Lessened
<1>7. CASE NoLib(t)
  BY <1>7 DEF NoLib
<1>8. CASE Relook(t)
  BY <1>1, <1>2, <1>8, GoesLess DEF Relook
<1>9. CASE Fold(t)
  <2> DEFINE v == [Wrote(t) EXCEPT !.n = @ - 1, !.pc = "look"]
             w == [Wrote(t) EXCEPT !.pc = "tail"]
  <2>1. t.pc = "hold"
    BY <1>9 DEF Fold
  <2>2. \/ Ends(t)
        \/ t.n > 0 /\ Becomes(t, v)
        \/ Becomes(t, w)
    <3>1. t.n \in 0..Rounds /\ (t.n > 0 \/ t.n = 0)
      BY <1>1, ScansAssumption DEF Task
    <3>2. t.kind = "discover" \/ t.kind # "discover"
      OBVIOUS
    <3>3. QED BY <1>9, <3>1, <3>2 DEF Fold
  <2>3. w \in Task /\ w.gen = t.gen /\ w.kind = t.kind /\ w.n = t.n /\ w.pc = "tail"
    BY <1>1 DEF Wrote, Task
  <2>4. ASSUME t.n > 0
        PROVE  v \in Task /\ v.gen = t.gen /\ v.kind = t.kind /\ v.n = t.n - 1 /\ v.pc = "look"
    <3>1. t.n - 1 \in 0..Rounds
      BY <1>1, <2>4
    <3>2. QED BY <1>1, <3>1 DEF Wrote, Task
  <2> HIDE DEF v, w
  <2>5. StepsLeft(w) < StepsLeft(t)
    BY <1>1, <2>1, <2>3, StepsLeftIs
  <2>6. t.n > 0 => StepsLeft(v) < StepsLeft(t)
    BY <1>1, <2>1, <2>4, StepsLeftIs
  <2>7. QED BY <2>2, <2>3, <2>4, <2>5, <2>6 DEF Lessened
<1>10. CASE LastLook(t)
  BY <1>1, <1>2, <1>10, GoesLess DEF LastLook
<1>11. CASE Finish(t)
  BY <1>11 DEF Finish
<1>12. QED BY <1>3, <1>4, <1>5, <1>6, <1>7, <1>8, <1>9, <1>10, <1>11 DEF Step

\* A task that pends stays, or has become one that pends, or discovering is cleared.
LEMMA StepPends ==
  ASSUME TypeOK, NEW t \in tasks, Step(t), UNCHANGED generation, SeedPending(t)
  PROVE  ~state'.discovering \/ \E u \in tasks' : SeedPending(u)'
<1>1. t \in Task /\ t.gen = generation /\ t.kind # "live" /\ t.kind \in Kinds
      /\ (t.kind = "discover" => t.pc \in {"look", "await"})
  BY DEF TypeOK, SeedPending, Current, Task
<1>2. state \in [cfg : Config, discovering : BOOLEAN]
  BY DEF TypeOK
<1>3. ASSUME Clears PROVE ~state'.discovering
  BY <1>2, <1>3 DEF Clears
<1>4. ASSUME NEW u, Becomes(t, u), u.gen = t.gen, u.kind = t.kind,
             t.kind = "discover" => u.pc \in {"look", "await"}
      PROVE  \E w \in tasks' : SeedPending(w)'
  <2>1. u \in tasks'
    BY <1>4 DEF Becomes
  <2>2. SeedPending(u)'
    BY <1>1, <1>4 DEF SeedPending, Current
  <2>3. QED BY <2>1, <2>2
<1>5. ASSUME NEW pc \in {"look", "await", "relook", "hold", "tail", "finish"}, Goes(t, pc),
             t.kind = "discover" => pc \in {"look", "await"}
      PROVE  \E w \in tasks' : SeedPending(w)'
  <2> DEFINE u == [t EXCEPT !.pc = pc]
  <2>1. u.gen = t.gen /\ u.kind = t.kind /\ u.pc = pc
    BY <1>1 DEF Task
  <2>2. Becomes(t, u)
    BY <1>5 DEF Goes
  <2> HIDE DEF u
  <2>3. QED BY <1>4, <1>5, <2>1, <2>2
<1>6. CASE LookAt(t)
  <2>1. Goes(t, IF t.kind = "backfill" THEN "relook" ELSE "await")
    BY <1>1, <1>6 DEF LookAt, Current
  <2>2. QED BY <1>1, <1>5, <2>1 DEF Kinds
<1>7. CASE Retry(t)
  <2> DEFINE u == [t EXCEPT !.pc = "look", !.n = @ - 1]
  <2>1. u.gen = t.gen /\ u.kind = t.kind /\ u.pc = "look"
    BY <1>1 DEF Task
  <2>2. Becomes(t, u)
    BY <1>7 DEF Retry
  <2> HIDE DEF u
  <2>3. QED BY <1>4, <2>1, <2>2
<1>8. CASE Answer(t)
  BY <1>3, <1>8 DEF Answer
<1>9. CASE NoLib(t)
  BY <1>3, <1>9 DEF NoLib
<1>10. CASE Relook(t)
  <2>1. Goes(t, "hold") /\ t.kind # "discover"
    BY <1>1, <1>10 DEF Relook, Current
  <2>2. QED BY <1>5, <2>1
<1>11. CASE Fold(t)
  <2> DEFINE v == [Wrote(t) EXCEPT !.n = @ - 1, !.pc = "look"]
             w == [Wrote(t) EXCEPT !.pc = "tail"]
  <2>1. t.kind # "discover"
    BY <1>1, <1>11 DEF Fold
  <2>2. Becomes(t, v) \/ Becomes(t, w)
    <3>1. t.n > 0 \/ t.n = 0
      BY <1>1, ScansAssumption DEF Task
    <3>2. QED BY <1>11, <2>1, <3>1 DEF Fold
  <2>3. v.gen = t.gen /\ v.kind = t.kind /\ w.gen = t.gen /\ w.kind = t.kind
    BY <1>1 DEF Wrote, Task
  <2> HIDE DEF v, w
  <2>4. QED BY <1>4, <2>1, <2>2, <2>3
<1>12. CASE LastLook(t)
  <2>1. Goes(t, "finish") /\ t.kind # "discover"
    BY <1>1, <1>12 DEF LastLook, Current
  <2>2. QED BY <1>5, <2>1
<1>13. CASE Finish(t)
  BY <1>3, <1>13 DEF Finish
<1>14. CASE Round(t)
  BY <1>1, <1>14 DEF Round
<1>15. QED BY <1>6, <1>7, <1>8, <1>9, <1>10, <1>11, <1>12, <1>13, <1>14 DEF Step

LEMMA WorkPends == IInv /\ ScanningHasSeed /\ Work => ScanningHasSeed'
<1> SUFFICES ASSUME IInv, ScanningHasSeed, Work PROVE ScanningHasSeed'
  OBVIOUS
<1>1. UNCHANGED <<generation, caller, clash>> /\ TypeOK /\ clash \in BOOLEAN
  BY DEF Work, IInv, TypeOK
<1> SUFFICES ASSUME state'.discovering, ~clash, Quiet'
             PROVE  \E t \in tasks' : SeedPending(t)'
  BY <1>1 DEF ScanningHasSeed
<1>2. PICK t \in tasks : Step(t)
  BY DEF Work
<1>3. state.discovering
  BY <1>1, <1>2, StepLeadsTo DEF IInv, TypeOK
<1>4. Quiet /\ ~clash
  BY <1>1 DEF Quiet, Busy
<1>5. PICK s \in tasks : SeedPending(s)
  BY <1>3, <1>4 DEF ScanningHasSeed
<1>6. CASE s = t
  BY <1>1, <1>2, <1>5, <1>6, StepPends
<1>7. CASE s # t
  <2>1. s \in tasks'
    BY <1>1, <1>2, <1>5, <1>7, StepLessens DEF Ends, Lessened, Becomes
  <2>2. SeedPending(s)'
    BY <1>1, <1>5 DEF SeedPending, Current
  <2>3. QED BY <2>1, <2>2
<1>8. QED BY <1>6, <1>7

LEMMA SpawnPends ==
  ASSUME IInv, NEW p \in Callers, Spawn(p), clash = FALSE, state'.discovering
  PROVE  \E t \in tasks' : SeedPending(t)'
<1> DEFINE cfg == caller[p].cfg
           g == caller[p].gen
           seed == [gen |-> g, kind |-> IF cfg.full THEN "backfill" ELSE "discover",
                    n |-> Rounds, late |-> FALSE, pc |-> "look"]
<1>1. Progress(p) /\ caller[p].pc = "spawn"
  BY DEF IInv, Scanning, Spawn, At
<1>2. g = generation
  BY <1>1 DEF Progress
<1>3. cfg.node # NoNode
  BY DEF Spawn, IInv, TypeOK
<1>4. seed \in Spawned(cfg, g)
  BY <1>3 DEF Spawned
<1>5. seed \in tasks' /\ generation' = generation
  BY <1>4 DEF Spawn
<1>6. seed.gen = g /\ seed.kind # "live" /\ seed.pc = "look"
  OBVIOUS
<1> HIDE DEF seed
<1>7. PICK t \in tasks' : t.gen = generation' /\ t.kind # "live" /\ t.pc = "look"
  BY <1>2, <1>5, <1>6
<1>8. SeedPending(t)'
  BY <1>7 DEF SeedPending, Current
<1>9. QED BY <1>7, <1>8

LEMMA CallersPend ==
  ASSUME IInv, ScanningHasSeed, NEW p \in Callers, Look(p) \/ Walks(p) \/ Calls(p)
  PROVE  ScanningHasSeed'
<1>1. caller \in [Callers -> CallerState] /\ caller[p] \in CallerState /\ clash \in BOOLEAN
  BY DEF IInv, TypeOK
<1>2. ASSUME NEW c, Turns(p, c), c.pc \in Changing PROVE ScanningHasSeed'
  <2>1. caller'[p] = c
    BY <1>1, <1>2 DEF Turns
  <2>2. ~Quiet'
    BY <1>2, <2>1 DEF Quiet, Busy
  <2>3. QED BY <2>2 DEF ScanningHasSeed
<1>3. ASSUME NEW pc \in Changing, NEW cfg, NEW gen
      PROVE  /\ [caller[p] EXCEPT !.pc = pc].pc \in Changing
             /\ [caller[p] EXCEPT !.pc = pc, !.cfg = cfg].pc \in Changing
             /\ [caller[p] EXCEPT !.pc = pc, !.gen = gen].pc \in Changing
  BY <1>1 DEF CallerState
<1>4. CASE Calls(p)
  <2>1. CASE Spawn(p)
    <3>1. UNCHANGED clash
      BY <2>1 DEF Spawn
    <3>2. QED BY <1>1, <2>1, <3>1, SpawnPends DEF ScanningHasSeed
  <2>2. CASE Snapshot(p)
    BY <1>2, <1>3, <2>2 DEF Snapshot, Changing
  <2>3. CASE Apply(p)
    BY <1>2, <1>3, <2>3 DEF Apply, Changing
  <2>4. CASE Bump(p)
    BY <1>2, <1>3, <2>4 DEF Bump, Changing
  <2>5. CASE Reset(p)
    BY <1>2, <1>3, <2>5 DEF Reset, Go, Changing
  <2>6. QED BY <1>4, <2>1, <2>2, <2>3, <2>4, <2>5 DEF Calls
<1>5. CASE Push(p)
  <2>1. [Nobody EXCEPT !.pc = "snap"].pc \in Changing
    BY NobodyType DEF CallerState, Changing
  <2>2. QED BY <1>2, <1>5, <2>1 DEF Push
<1>6. CASE Look(p) \/ Capture(p) \/ NextLook(p) \/ \E seen \in SUBSET Channels : EndWalk(p, seen)
  <2>1. UNCHANGED <<generation, state, tasks, clash>> /\ caller[p].pc \notin Changing
    BY <1>6 DEF Look, Capture, NextLook, EndWalk, At, Changing, scan
  <2>2. PICK c : Turns(p, c)
    BY <1>6, Zenon DEF Look, Capture, NextLook, EndWalk, Go, Return
  <2>3. \A q \in Callers \ {p} : caller'[q] = caller[q]
    BY <1>1, <2>2 DEF Turns
  <2>4. Quiet' => Quiet
    BY <2>1, <2>3 DEF Quiet, Busy
  <2>5. QED BY <2>1, <2>4 DEF ScanningHasSeed, SeedPending, Current
<1>7. QED BY <1>4, <1>5, <1>6 DEF Walks

--------------------------------------------------------------------------------
(* The theorems *)

\* The configuration, the state, the callers and the tasks keep their types, the
\* generation is never below that of a task.
THEOREM ScanTypes == Spec => []TypeOK
  BY Invariance, PTL DEF IInv

\* Whichever of the form and the two discoveries changed the configuration last,
\* if no other one was at it meanwhile, the state, the file and the seeds are those
\* of the configuration.
THEOREM ScansTheCurrent == Spec => []AgainstCurrent
  BY Invariance, PTL DEF IInv

\* A superseded task writes at most once into the state of a later scan.
THEOREM LateAtMostOnce == Spec => []LateOnce
<1>1. IInv => LateOnce
  BY DEF IInv, LateInv, LateOnce
<1>2. QED BY <1>1, Invariance, PTL

\* A server that starts with a proper configuration adopts each channel once, none
\* that is configured, and no more sequencers than the cap, until a discovery
\* adopts into a configuration other than the one it looked at.
THEOREM AdoptsOnce == (\A cfg \in Starts : Proper(cfg)) => (Spec => []AdoptedOnce)
<1> SUFFICES ASSUME \A cfg \in Starts : Proper(cfg)
             PROVE  Spec => []AdoptedOnce
  OBVIOUS
<1>1. Init => AdoptInv
  BY NobodyType DEF Init, AdoptInv, At
<1>2. TypeOK /\ AdoptInv /\ [Next]_vars => AdoptInv'
  <2> SUFFICES ASSUME TypeOK, AdoptInv, [Next]_vars PROVE AdoptInv'
    OBVIOUS
  <2>1. CASE Work \/ UNCHANGED vars
    BY <2>1 DEF Work, vars, AdoptInv, At
  <2>2. QED BY <2>1, PostProper, WalkProper, CallProper DEF Next
<1>3. AdoptInv => AdoptedOnce
  BY DEF AdoptInv, Proper, AdoptedOnce
<1>4. QED BY <1>1, <1>2, <1>3, ScanTypes, PTL DEF Spec

\* The page does not say scanning with nobody left to take it back: while it does,
\* and no two callers met at the last change, a caller is changing the
\* configuration or a seed of the present scan has still to clear the flag.
THEOREM ScanningIsSeeded == Spec => []ScanningHasSeed
<1>1. Init => ScanningHasSeed
  <2> SUFFICES ASSUME Init PROVE \E t \in tasks : SeedPending(t)
    BY DEF ScanningHasSeed
  <2> DEFINE seed == [gen |-> 1, kind |-> IF config.full THEN "backfill" ELSE "discover",
                      n |-> Rounds, late |-> FALSE, pc |-> "look"]
  <2>1. config.node # NoNode
    BY ScansAssumption, AdoptionAssumption DEF Init, Config
  <2>2. seed \in tasks /\ generation = 1
    BY <2>1 DEF Init, Spawned
  <2>3. SeedPending(seed)
    BY <2>2 DEF SeedPending, Current
  <2>4. QED BY <2>2, <2>3
<1>2. IInv /\ ScanningHasSeed /\ [Next]_vars => ScanningHasSeed'
  <2> SUFFICES ASSUME IInv, ScanningHasSeed, [Next]_vars PROVE ScanningHasSeed'
    OBVIOUS
  <2>1. ASSUME NEW form \in Forms, NEW a \in {NoneAdopted, config.adopted}, Post(form, a)
        PROVE  ScanningHasSeed'
    <3>1. "form" \in Callers /\ caller'["form"].pc = "save"
      BY <2>1 DEF Post, Turns, IInv, TypeOK, CallerState
    <3>2. ~Quiet'
      BY <3>1 DEF Quiet, Busy, Changing
    <3>3. QED BY <3>2 DEF ScanningHasSeed
  <2>2. CASE UNCHANGED vars
    BY <2>2 DEF vars, scan, ScanningHasSeed, SeedPending, Current, Quiet, Busy
  <2>3. QED BY <2>1, <2>2, WorkPends, CallersPend DEF Next
<1>3. QED BY <1>1, <1>2, Invariance, PTL DEF Spec

\* Every task but the stream, the polls and the readers, which go on as long as
\* their scan does, has a bounded number of steps left at every moment, and no step
\* of its own that does not lower it.
THEOREM TasksEndInTime == Spec => TasksRunDown
<1> DEFINE Down == \A u \in tasks' \ tasks : \E t \in tasks \ tasks' :
                     u.gen = t.gen /\ u.kind = t.kind /\ StepsLeft(u) < StepsLeft(t)
<1>1. TypeOK /\ Work => Down
  <2> SUFFICES ASSUME TypeOK, Work PROVE Down
    OBVIOUS
  <2>1. PICK t \in tasks : Step(t)
    BY DEF Work
  <2>2. CASE \E u \in Task : Lessened(t, u)
    <3>1. PICK u \in Task : Lessened(t, u)
      BY <2>2
    <3>2. u # t
      <4>1. StepsLeft(t) \in Nat /\ StepsLeft(u) < StepsLeft(t)
        BY <3>1, StepsLeftIs DEF TypeOK, Lessened
      <4>2. QED BY <4>1
    <3>3. tasks' = (tasks \ {t}) \cup {u}
      BY <3>1 DEF Lessened, Becomes
    <3>4. QED BY <3>1, <3>2, <3>3 DEF Lessened
  <2>3. QED BY <2>1, <2>2, StepLessens DEF Ends
<1>2. TypeOK /\ [Next]_vars => [caller' = caller => Down]_vars
  <2> SUFFICES ASSUME TypeOK, Next, caller' = caller, tasks' # tasks PROVE Down
    OBVIOUS
  <2>1. ASSUME NEW p \in Callers, Calls(p) PROVE FALSE
    <3>1. Spawn(p)
      BY <2>1 DEF Calls, Snapshot, Apply, Bump, Reset, scan
    <3>2. caller'[p] = Nobody /\ caller[p].pc = "spawn"
      BY <3>1 DEF Spawn, Return, Turns, At, TypeOK
    <3>3. QED BY <3>2, NobodyType
  <2>2. Work
    BY <2>1 DEF Next, Post, Look, Walks, Capture, NextLook, EndWalk, Push, scan
  <2>3. QED BY <1>1, <2>2
<1>3. QED BY <1>2, ScanTypes, PTL DEF Spec, TasksRunDown

================================================================================
