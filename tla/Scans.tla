--------------------------------- MODULE Scans ---------------------------------
(***************************************************************************)
(* Which configuration is being scanned.  apply_config bumps the           *)
(* generation, resets the state and spawns the tasks of a new scan; the    *)
(* tasks of the old one stop at their next look at the generation.  It is  *)
(* called from three places that nothing keeps apart: the configuration    *)
(* form, the standing discovery and the discovery on demand, each of which *)
(* first changes the configuration and saves it.                           *)
(*                                                                         *)
(* A caller is a thread with a program counter; its steps are the lock     *)
(* sections and awaits of the code.  A task alternates between a look at   *)
(* the generation and a round, what it does up to its next look.  Of the   *)
(* state only what tells scans apart is kept: the configuration it was     *)
(* reset for, and discovering; a write is seen when its task is superseded.*)
(***************************************************************************)
EXTENDS Adoption

CONSTANTS OnNode,       \* the channels that are ever inscribed on each node
          Ignored,      \* ZONE_SCAN_IGNORE_CHANNELS
          Starts,       \* the configurations a server may start with
          Forms,        \* what an operator may post: node, full and the rows of the form
          Rounds,       \* bound: retries of a discovery seed, chunks of a backfill but the first
          MaxOld,       \* bound: scans with tasks left when another one begins
          Callers,      \* of "form", "standing" and "demand"
          MaxCalls      \* bound: forms posted and discoveries on demand

ASSUME ScansAssumption ==
  /\ Ignored \subseteq Channels
  /\ Starts \subseteq {cfg \in Config : cfg.node \in Nodes}
  /\ Forms \subseteq {f \in [node : Nodes \cup {NoNode}, full : BOOLEAN, own : SUBSET Channels] :
                       f.node = NoNode => f.own # {}}
  /\ Rounds \in Nat /\ MaxOld \in Nat \ {0} /\ MaxCalls \in Nat
  /\ Callers \subseteq {"form", "standing", "demand"}
  /\ OnNode \in [Nodes -> SUBSET Channels]

VARIABLES config,       \* AppState.config
          saved,        \* the configuration file
          generation,
          state,        \* ServerState
          tasks,        \* the running scan tasks
          caller,       \* the threads that may call apply_config
          calls,        \* forms and discoveries on demand so far
          clash,        \* history: two callers were changing the configuration at once
          mixed         \* history: a discovery adopted into another configuration

scan == <<generation, state, tasks>>
vars == <<config, saved, scan, caller, calls, clash, mixed>>

Changing == {"snap", "save", "bump", "reset", "spawn"}
CallerState == [pc : {"idle", "looked", "walking", "last", "found"} \cup Changing,
                cfg : Config, gen : Nat, found : SUBSET Channels]

\* Nothing of a thread outlives what it was doing.
Nobody == [pc |-> "idle", found |-> {}, gen |-> 0,
           cfg |-> [node |-> NoNode, full |-> FALSE, own |-> {}, adopted |-> NoneAdopted]]

Kinds == {"live", "discover", "backfill"}
Task  == [gen : Nat, kind : Kinds, n : 0..Rounds, late : BOOLEAN, \* it wrote when superseded
          pc : {"look", "await", "relook", "hold", "tail", "finish"}]

TypeOK ==
  /\ config \in Config /\ saved \in Config
  /\ generation \in Nat \ {0}
  /\ state \in [cfg : Config, discovering : BOOLEAN]
  /\ tasks \subseteq Task /\ \A t \in tasks : t.gen \in 0..generation
  /\ caller \in [Callers -> CallerState]
  /\ \A p \in Callers : caller[p].gen \in 0..generation
  /\ calls \in 0..MaxCalls
  /\ clash \in BOOLEAN /\ mixed \in BOOLEAN

\* The tasks of a scan: a seed with an L1, and the stream, poll and readers,
\* whose rounds differ in nothing the model keeps; nor does their first look, which
\* superseded tasks fail just as they fail the one after the await.
Spawned(cfg, g) ==
  LET New(kind, n, pc) == [gen |-> g, kind |-> kind, n |-> n, late |-> FALSE, pc |-> pc]
  IN {New("live", 0, "await")} \cup
     (IF cfg.node = NoNode THEN {}
      ELSE {New(IF cfg.full THEN "backfill" ELSE "discover", Rounds, "look")})

\* The server is up: the first apply_config ran alone.
Init ==
  /\ config \in Starts
  /\ saved = config
  /\ generation = 1
  /\ state = [cfg |-> config, discovering |-> TRUE]
  /\ tasks = Spawned(config, 1)
  /\ caller = [p \in Callers |-> Nobody]
  /\ calls = 0
  /\ clash = FALSE /\ mixed = FALSE

--------------------------------------------------------------------------------
(* The callers *)

At(p, pc)   == caller[p].pc = pc
Turns(p, c) == caller' = [caller EXCEPT ![p] = c]
Go(p, pc)   == Turns(p, [caller[p] EXCEPT !.pc = pc])
Return(p)   == Turns(p, Nobody)

\* From the change of the configuration to the last task spawned.
Busy(p)  == caller[p].pc \in Changing
Alone(p) == \A q \in Callers \ {p} : ~Busy(q)

\* The form replaces the whole configuration by what the page had loaded, with
\* the entries of discovery of that moment (a row it knows keeps its flags).
Post(form, adopted) ==
  /\ calls < MaxCalls /\ calls' = calls + 1
  /\ "form" \in Callers /\ At("form", "idle")
  /\ config' = [node |-> form.node, full |-> form.full, adopted |-> adopted,
                 own |-> {c \in form.own : adopted[c] = 0}]
  /\ Turns("form", [caller["form"] EXCEPT !.pc = "save", !.cfg = config'])
  /\ clash' = ~Alone("form")
  /\ UNCHANGED <<saved, scan, mixed>>

\* discover_compatible clones the configuration; without budget, or without an
\* L1, that is all.
Look(p) ==
  /\ p \in {"standing", "demand"} /\ At(p, "idle")
  /\ IF p = "demand" THEN calls < MaxCalls /\ calls' = calls + 1 ELSE UNCHANGED calls
  /\ config.node # NoNode
  /\ SeqBudget(config) > 0 \/ DataBudget(config) > 0
  /\ Turns(p, [caller[p] EXCEPT !.pc = "looked", !.cfg = config])
  /\ UNCHANGED <<config, saved, scan, clash, mixed>>

\* The generation is read only then.
Capture(p) ==
  /\ At(p, "looked")
  /\ Turns(p, [caller[p] EXCEPT !.pc = "walking", !.gen = generation])
  /\ UNCHANGED <<config, saved, scan, calls, clash, mixed>>

\* A bug: a superseded walk is never given up.
NextLookWaits(p) ==
  /\ At(p, "walking")
  /\ generation = caller[p].gen /\ Go(p, "last")
  /\ UNCHANGED <<config, saved, scan, calls, clash, mixed>>

\* Each chunk begins with a look at the generation, the last one too.
NextLook(p) ==
  /\ At(p, "walking")
  /\ IF generation = caller[p].gen THEN Go(p, "last") ELSE Return(p)
  /\ UNCHANGED <<config, saved, scan, calls, clash, mixed>>

\* The walk is over.  It missed the channels that had no inscription yet, and
\* those in a chunk whose request failed, an empty one to the walk.
EndWalk(p, seen) ==
  /\ At(p, "last")
  /\ seen \subseteq OnNode[caller[p].cfg.node]
  /\ \E f \in Found(caller[p].cfg, seen) :
       IF f = {} THEN Return(p)
                 ELSE Turns(p, [caller[p] EXCEPT !.found = f, !.gen = 0, !.pc = "found"])
  /\ UNCHANGED <<config, saved, scan, calls, clash, mixed>>

\* What was found goes into the configuration as it is by now.
Push(p) ==
  /\ At(p, "found")
  /\ config' = WithAdopted(config, caller[p].found, Ignored)
  /\ Turns(p, [Nobody EXCEPT !.pc = "snap"])
  /\ clash' = ~Alone(p)
  /\ mixed' = (mixed \/ config # caller[p].cfg)
  /\ UNCHANGED <<saved, scan, calls>>

Snapshot(p) ==
  /\ At(p, "snap")
  /\ Turns(p, [caller[p] EXCEPT !.pc = "save", !.cfg = config])
  /\ UNCHANGED <<config, saved, scan, calls, clash, mixed>>

\* A bug: only the forms are saved.
ApplyUnsaved(p) ==
  /\ At(p, "save")
  /\ saved' = IF p = "form" THEN caller[p].cfg ELSE saved
  /\ Turns(p, [caller[p] EXCEPT !.pc = "bump", !.cfg = config])
  /\ UNCHANGED <<config, scan, calls, clash, mixed>>

\* save_config, and the clone that apply_config begins with (nothing that another
\* caller does in between reads the one or writes the other).
Apply(p) ==
  /\ At(p, "save")
  /\ saved' = caller[p].cfg
  /\ Turns(p, [caller[p] EXCEPT !.pc = "bump", !.cfg = config])
  /\ UNCHANGED <<config, scan, calls, clash, mixed>>

--------------------------------------------------------------------------------
(* apply_config, once it has cloned the configuration *)

Bump(p) ==
  /\ At(p, "bump")
  /\ Cardinality({t.gen : t \in tasks}) <= MaxOld
  /\ generation' = generation + 1
  /\ Turns(p, [caller[p] EXCEPT !.pc = "reset", !.gen = generation'])
  /\ UNCHANGED <<config, saved, state, tasks, calls, clash, mixed>>

Reset(p) ==
  /\ At(p, "reset")
  /\ state' = [cfg |-> caller[p].cfg, discovering |-> TRUE]
  /\ Go(p, "spawn")
  /\ UNCHANGED <<config, saved, generation, tasks, calls, clash, mixed>>

\* A bug: discovering is left to a seed that is never spawned.
SpawnDiscovering(p) ==
  /\ At(p, "spawn")
  /\ tasks' = tasks \cup Spawned(caller[p].cfg, caller[p].gen)
  /\ Return(p)
  /\ UNCHANGED <<config, saved, generation, state, calls, clash, mixed>>

\* Without an L1 there is nothing to seed, and discovering is cleared first.
Spawn(p) ==
  /\ At(p, "spawn")
  /\ state' = [state EXCEPT !.discovering = @ /\ caller[p].cfg.node # NoNode]
  /\ tasks' = tasks \cup Spawned(caller[p].cfg, caller[p].gen)
  /\ Return(p)
  /\ UNCHANGED <<config, saved, generation, calls, clash, mixed>>

--------------------------------------------------------------------------------
(* The tasks *)

Current(t)      == t.gen = generation
Becomes(t, u)   == tasks' = (tasks \ {t}) \cup {u}
Goes(t, pc)     == Becomes(t, [t EXCEPT !.pc = pc])
Ends(t)         == tasks' = tasks \ {t}

\* t has written what it read into the state: kept when it is superseded.
Wrote(t) == [t EXCEPT !.late = @ \/ ~Current(t)]

Clears == state' = [state EXCEPT !.discovering = FALSE]

\* A bug: a superseded task waits for its turn to come back.
LookAtWaits(t) ==
  /\ t.pc = "look" /\ Current(t)
  /\ Goes(t, IF t.kind = "backfill" THEN "relook" ELSE "await")
  /\ UNCHANGED state

\* The head of a loop: on with a round, or superseded.
LookAt(t) ==
  /\ t.pc = "look"
  /\ IF Current(t) THEN Goes(t, IF t.kind = "backfill" THEN "relook" ELSE "await") ELSE Ends(t)
  /\ UNCHANGED state

\* The stream, the poll and the readers write when their await is over, and look
\* again: a new scan in between is one that begins before the write.
Round(t) ==
  /\ t.kind = "live" /\ t.pc = "await"
  /\ IF Current(t) THEN tasks' = tasks ELSE Ends(t)
  /\ UNCHANGED state

\* A bug: one attempt too many.
RetryOnceMore(t) ==
  /\ t.kind = "discover" /\ t.pc = "await" /\ t.n >= 0
  /\ Becomes(t, [t EXCEPT !.pc = "look", !.n = @ - 1])
  /\ UNCHANGED state

\* A seed's attempt failed, and is repeated while any are left.
Retry(t) ==
  /\ t.kind = "discover" /\ t.pc = "await" /\ t.n > 0
  /\ Becomes(t, [t EXCEPT !.pc = "look", !.n = @ - 1])
  /\ UNCHANGED state

\* A discovery seed has its answer, or has given up and has nothing more to do:
\* discovering is cleared before it looks at the generation.
Answer(t) ==
  /\ t.kind = "discover" /\ t.pc = "await"
  /\ Clears
  /\ Becomes(t, [Wrote(t) EXCEPT !.pc = "relook"]) \/ (t.n = 0 /\ Ends(t))

\* The first request of a backfill never succeeded.
NoLib(t) ==
  /\ t.kind = "backfill" /\ t.pc = "relook" /\ t.n = Rounds
  /\ Ends(t) /\ Clears

\* A bug: the look after the await is left out.
RelookBlind(t) ==
  /\ t.pc = "relook"
  /\ Goes(t, "hold")
  /\ UNCHANGED state

\* The look after an await, before the lock is taken.
Relook(t) ==
  /\ t.pc = "relook"
  /\ IF Current(t) THEN Goes(t, "hold") ELSE Ends(t)
  /\ UNCHANGED state

\* The answer is folded into the tracks; a backfill has chunks left, or none.
Fold(t) ==
  /\ t.pc = "hold"
  /\ CASE t.kind = "discover" -> Ends(t)
       [] t.kind # "discover" /\ t.n > 0 -> Becomes(t, [Wrote(t) EXCEPT !.n = @ - 1, !.pc = "look"])
       [] t.kind # "discover" /\ t.n = 0 -> Becomes(t, [Wrote(t) EXCEPT !.pc = "tail"])
  /\ UNCHANGED state

LastLook(t) ==
  /\ t.pc = "tail"
  /\ IF Current(t) THEN Goes(t, "finish") ELSE Ends(t)
  /\ UNCHANGED state

Finish(t) ==
  /\ t.pc = "finish"
  /\ Ends(t) /\ Clears

Step(t) == \/ LookAt(t) \/ Round(t) \/ Retry(t) \/ Answer(t)
           \/ NoLib(t) \/ Relook(t) \/ Fold(t) \/ LastLook(t) \/ Finish(t)

Work == /\ \E t \in tasks : Step(t)
        /\ UNCHANGED <<config, saved, generation, caller, calls, clash, mixed>>

--------------------------------------------------------------------------------

Calls(p) == \/ Snapshot(p) \/ Apply(p) \/ Bump(p) \/ Reset(p) \/ Spawn(p)
Walks(p) == Capture(p) \/ NextLook(p) \/ (\E seen \in SUBSET Channels : EndWalk(p, seen)) \/ Push(p)

Next == \/ \E form \in Forms, a \in {NoneAdopted, config.adopted} : Post(form, a)
        \/ \E p \in Callers : Look(p) \/ Walks(p) \/ Calls(p)
        \/ Work

Spec == Init /\ [][Next]_vars

\* The threads and tasks are run by the runtime, and every request ends.  A walk
\* that is never superseded reads every chunk in the end: the standing discovery
\* comes back every half hour.
Advance(S) ==
  /\ \E t \in S : Step(t)
  /\ UNCHANGED <<config, saved, generation, caller, calls, clash, mixed>>

Fairness ==
  /\ \A p \in Callers : WF_vars(Walks(p) \/ Calls(p))
  /\ WF_vars(Look("standing"))
  /\ SF_vars(EndWalk("standing", OnNode[caller["standing"].cfg.node]))
  /\ WF_vars(Advance({t \in tasks : ~Current(t)}))
  /\ WF_vars(Advance({t \in tasks : Current(t) /\ t.kind # "live"}))

FairSpec == Spec /\ Fairness

--------------------------------------------------------------------------------
(* Properties *)

Quiet == \A p \in Callers : ~Busy(p)

\* Once a change of the configuration has run to its end with no other caller
\* changing it meanwhile, what is scanned, what the page shows and what a restart
\* reads are all the configuration there is.
AgainstCurrent ==
  Quiet /\ ~clash => /\ state.cfg = config /\ saved = config
                     /\ \A t \in tasks : Current(t) /\ t.kind # "live" =>
                          config.node # NoNode /\ t.kind = (IF config.full THEN "backfill" ELSE "discover")

\* The look at the generation and the write are two steps, so that a superseded
\* task may write into the new state; but it does so at most once.
MayWrite(t) == \/ t.pc \in {"await", "hold", "finish"}
               \/ t.kind = "backfill" /\ t.pc = "relook"
LateOnce == \A t \in tasks : t.late => ~MayWrite(t)

\* A discovery adopts each channel once, none that is configured, and keeps to the
\* cap, unless it adopts into a configuration other than the one it looked at.
AdoptedOnce ==
  ~mixed => /\ \A c \in Channels : config.adopted[c] <= 1 /\ (c \in config.own => config.adopted[c] = 0)
            /\ Adopted(config, Sequencers) <= Cap

\* The page says scanning only while somebody is changing the configuration, or a
\* seed of the present scan is on its way that has not cleared discovering yet:
\* no seed gives up, fails or is superseded with nobody left to clear it.
SeedPending(t) ==
  /\ Current(t) /\ t.kind # "live"
  /\ t.kind = "discover" => t.pc \in {"look", "await"}
ScanningHasSeed ==
  state.discovering => clash \/ ~Quiet \/ \E t \in tasks : SeedPending(t)

\* What a task has left to do, in steps: a round for each retry or chunk.
StepsLeft(t) ==
  6 * t.n + (CASE t.pc = "look" -> 5 [] t.pc = "await" -> 4 [] t.pc = "relook" -> 3
               [] t.pc = "hold" -> 2 [] t.pc = "tail"  -> 1 [] t.pc = "finish" -> 0)

\* A task that is not the stream, a poll or a reader comes nearer to its end with
\* each step, superseded or not; new ones come from a new scan only.
TasksRunDown ==
  [][ caller' = caller =>
        \A u \in tasks' \ tasks : \E t \in tasks \ tasks' :
          u.gen = t.gen /\ u.kind = t.kind /\ StepsLeft(u) < StepsLeft(t) ]_vars

\* The page does not say scanning for ever.
StopsDiscovering == <>[](clash \/ ~state.discovering)

\* Superseded tasks go away.
OldTasksEnd == <>[](\A t \in tasks : Current(t))

\* Whatever is superseded or overwritten, a sequencer is adopted in the end.
AllAdopted ==
  <>[](config.node # NoNode =>
         \/ OnNode[config.node] \cap Sequencers \subseteq Tracked(config)
         \/ Adopted(config, Sequencers) >= Cap)
================================================================================
