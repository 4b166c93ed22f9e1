------------------------------- MODULE LocalZone -------------------------------
(***************************************************************************)
(* The reader of a visitor's own sequencer, in the page: localConnect      *)
(* walks from the tip down in batches, each one fetched over the socket,   *)
(* decoded by the server and published, until it has found enough; "load   *)
(* older" goes on from there.  What was read outlives the page in the      *)
(* session's storage.                                                      *)
(*                                                                         *)
(* A run of localConnect is a thread of its own: nothing stops it but its  *)
(* own end or the page's.  All runs write into the one LOCAL, which        *)
(* connecting and disconnecting replace, and the panel allows both as soon *)
(* as a first batch is published.                                          *)
(***************************************************************************)
EXTENDS Integers, FiniteSets

CONSTANTS Tip,           \* the last block of the chain
          FirstBatch,    \* LOCAL_FIRST_BATCH
          Batch,         \* LOCAL_BATCH
          MinTxs,        \* LOCAL_MIN_TXS
          MoreTxs,       \* LOCAL_MORE_TXS
          MoreBatches,   \* LOCAL_MORE_BATCHES
          MaxBlocks,     \* LOCAL_MAX_BLOCKS
          Runs,          \* bound: runs at a time
          MaxClicks      \* bound: connects, disconnects, "load older"s and new pages

ASSUME LocalZoneAssumption ==
  /\ Tip \in Nat \ {0} /\ FirstBatch \in Nat \ {0} /\ Batch \in Nat \ {0}
  /\ MinTxs \in Nat \ {0} /\ MoreTxs \in Nat \ {0} /\ MoreBatches \in Nat \ {0}
  /\ MaxBlocks \in Nat \ {0} /\ MaxClicks \in Nat

VARIABLES chain,         \* what the blocks hold
          local,         \* LOCAL
          runs,          \* the runs of localConnect
          saved,         \* sessionStorage zs_local
          clicks

vars == <<chain, local, runs, saved, clicks>>

Blocks == 1..Tip

\* A clock tick only, with a transaction besides, a transaction without a tick, and
\* nothing that decodes.
Kinds == {"tick", "full", "bare", "bad"}
Real == {b \in Blocks : chain[b] \in {"full", "bare"}}

\* The newest batch is a fair sample: ticks in all of it are ticks everywhere.
FairSample(c) ==
  (\A b \in Blocks : b > Tip - FirstBatch => c[b] \in {"tick", "full"}) =>
     \A b \in Blocks : c[b] # "bare"

\* shown: how often the transaction of a block is in LOCAL.txs; any: LOCAL.txs is not
\* empty; missing and met are history: blocks whose decoding was given up, and whether
\* another run was under way when this LOCAL, or a run on it, began.
Local == [status : {"idle", "connecting", "reading", "ok", "error"}, tip : {0, Tip},
          low : 0..(Tip + 1), scanned : Nat, batchIdx : Nat, realTxs : Nat,
          more : BOOLEAN, skip : BOOLEAN, any : BOOLEAN, genesis : BOOLEAN,
          shown : [Blocks -> Nat], missing : SUBSET Blocks, met : BOOLEAN]

\* The variables of a run; sent are the blocks of the batch that is being decoded.
Run == [pc : {"none", "open", "ask", "fetch", "decode"}, more : BOOLEAN, ok : BOOLEAN,
        low : 0..(Tip + 1), hi : 0..Tip, scanned : Nat, real : Nat, want : Nat,
        batchIdx : Nat, started : Nat, sent : SUBSET Blocks]

Fresh == [status |-> "idle", tip |-> 0, low |-> 0, scanned |-> 0, batchIdx |-> 0, realTxs |-> 0,
          more |-> FALSE, skip |-> FALSE, any |-> FALSE, genesis |-> FALSE,
          shown |-> [b \in Blocks |-> 0], missing |-> {}, met |-> FALSE]

NoRun == [pc |-> "none", more |-> FALSE, ok |-> FALSE, low |-> 0, hi |-> 0, scanned |-> 0,
          real |-> 0, want |-> 0, batchIdx |-> 0, started |-> 0, sent |-> {}]

TypeOK ==
  /\ chain \in [Blocks -> Kinds]
  /\ local \in Local /\ saved \in Local
  /\ runs \in [Runs -> Run]
  /\ clicks \in 0..MaxClicks

Init ==
  /\ chain \in {c \in [Blocks -> Kinds] : FairSample(c)}
  /\ local = Fresh /\ saved = Fresh
  /\ runs = [r \in Runs |-> NoRun]
  /\ clicks = 0

--------------------------------------------------------------------------------
(* The panel *)

Going == {r \in Runs : runs[r].pc # "none"}
Click == clicks < MaxClicks /\ clicks' = clicks + 1
Free  == CHOOSE r \in Runs : r \notin Going       \* the runs are alike
Busy  == local.status \in {"connecting", "reading"}

\* The button when not connected; Enter in the address field whenever not busy.
Connect(r) ==
  /\ Click /\ ~Busy /\ r \notin Going /\ r = Free
  /\ local' = [Fresh EXCEPT !.status = "connecting", !.met = Going # {}]
  /\ runs' = [runs EXCEPT ![r] = [NoRun EXCEPT !.pc = "open"]]
  /\ UNCHANGED <<chain, saved>>

\* "load older"
More(r) ==
  /\ Click /\ local.status = "ok" /\ local.more /\ r \notin Going /\ r = Free
  /\ local' = [local EXCEPT !.status = "reading", !.met = @ \/ Going # {}]
  /\ runs' = [runs EXCEPT ![r] = [NoRun EXCEPT !.pc = "open", !.more = TRUE]]
  /\ UNCHANGED <<chain, saved>>

Disconnect ==
  /\ Click /\ local.status = "ok"
  /\ local' = [Fresh EXCEPT !.met = Going # {}]
  /\ saved' = Fresh
  /\ UNCHANGED <<chain, runs>>

\* Every link is a new page: localRestore.  skipClockOnly is not saved.
NewPage ==
  /\ Click
  /\ local' = IF saved.any THEN [saved EXCEPT !.skip = FALSE] ELSE Fresh
  /\ runs' = [r \in Runs |-> NoRun]
  /\ UNCHANGED <<chain, saved>>

--------------------------------------------------------------------------------
(* A run *)

Ends(r) == runs' = [runs EXCEPT ![r] = NoRun]
FailsQuietly(r) == Ends(r) /\ UNCHANGED <<local, saved>>
Fails(r) == /\ Ends(r)
            /\ local' = [local EXCEPT !.status = "error"]
            /\ UNCHANGED saved

\* The end of the walk, with LOCAL as l: localSave forgets what is not ok.
Finish(r, run, l) ==
  LET walked == [l EXCEPT !.scanned = run.scanned, !.low = run.low, !.realTxs = run.real,
                          !.batchIdx = run.batchIdx, !.genesis = run.low <= 1,
                          !.more = run.low > 1 /\ run.scanned < MaxBlocks]
      done == [walked EXCEPT !.status = IF run.scanned > 0 /\ (run.ok \/ l.any) THEN "ok" ELSE "error"]
  IN /\ Ends(r)
     /\ local' = done
     /\ saved' = IF run.scanned = 0 THEN saved ELSE IF done.status = "ok" THEN done ELSE Fresh

\* The head of the loop.
Continue(r, run, l) ==
  IF /\ run.low > 1 /\ run.real < run.want /\ run.scanned < MaxBlocks
     /\ run.more => run.batchIdx - run.started < MoreBatches
  THEN /\ runs' = [runs EXCEPT ![r] = [run EXCEPT !.pc = "fetch"]]
       /\ local' = l
       /\ UNCHANGED saved
  ELSE Finish(r, run, l)

Opened(r) ==
  /\ runs[r].pc = "open"
  /\ \/ /\ local' = [local EXCEPT !.status = "reading"]
        /\ runs' = [runs EXCEPT ![r].pc = "ask"]
        /\ UNCHANGED saved
     \/ Fails(r)

\* A run goes down from the tip; "load older" from where the last one stopped.
StartFromTip(more, l)  == l.tip + 1
StartPastTip(more, l)  == IF more /\ l.low > 0 THEN l.low ELSE l.tip + 2
StartOfWalk(more, l)   == IF more /\ l.low > 0 THEN l.low ELSE l.tip + 1

\* The channel and the tip are there: the walk starts from what LOCAL says by now.
Asked(r) ==
  /\ runs[r].pc = "ask"
  /\ \/ LET more == runs[r].more
            l    == IF more THEN local ELSE [local EXCEPT !.tip = Tip]
            run  == [runs[r] EXCEPT
                       !.real = l.realTxs, !.scanned = l.scanned,
                       !.low = StartOfWalk(more, l),
                       !.batchIdx = IF more THEN l.batchIdx ELSE 0,
                       !.started  = IF more THEN l.batchIdx ELSE 0,
                       !.want = IF more THEN l.realTxs + MoreTxs ELSE MinTxs]
        IN Continue(r, run, l)
     \/ Fails(r)

\* The first block of the next batch.
LowEnd(run) == LET size == IF run.batchIdx = 0 THEN FirstBatch ELSE Batch
               IN IF run.low - size < 1 THEN 1 ELSE run.low - size

\* On a chain with a tick in every block one transaction is the tick.
ToSend(l, lo, hi) == {b \in lo..hi : l.skip => chain[b] \in {"full", "bad"}}

\* The batch is there, and counts as read before it is decoded.
Fetched(r) ==
  /\ runs[r].pc = "fetch"
  /\ LET lo   == LowEnd(runs[r])
         hi   == runs[r].low - 1
         sent == ToSend(local, lo, hi)
         run  == [runs[r] EXCEPT !.low = lo, !.hi = hi, !.scanned = @ + (hi - lo + 1), !.sent = sent]
         l    == [local EXCEPT !.low = lo, !.scanned = run.scanned]
     IN IF sent = {}
        THEN Continue(r, [run EXCEPT !.batchIdx = @ + 1], l)
        ELSE /\ runs' = [runs EXCEPT ![r] = [run EXCEPT !.pc = "decode"]]
             /\ local' = l
             /\ UNCHANGED saved

\* No batch: an error is one for a run that has nothing, an empty answer is the end.
NotFetched(r) ==
  /\ runs[r].pc = "fetch"
  /\ \/ Finish(r, runs[r], local)
     \/ ~runs[r].ok /\ Fails(r)

\* How many transactions a batch adds: those that are no clock ticks.
NewWithTicks(got) == Cardinality(got)
NewTxs(got)       == Cardinality(got \cap Real)

\* What decodes is counted, published and, in the newest batch, tells whether blocks
\* with one transaction can be skipped from now on.
Decoded(r) ==
  /\ runs[r].pc = "decode"
  /\ LET got   == {b \in runs[r].sent : chain[b] # "bad"}
         first == runs[r].batchIdx = 0
         fresh == IF first THEN got ELSE got \cap Real
         run   == [runs[r] EXCEPT !.real = @ + NewTxs(got),
                                  !.ok = @ \/ fresh # {}, !.batchIdx = @ + 1, !.sent = {}]
         l     == [local EXCEPT
                     !.status = "ok", !.realTxs = run.real, !.batchIdx = run.batchIdx,
                     !.any = @ \/ fresh # {},
                     !.shown = [b \in Blocks |-> @[b] + IF b \in got \cap Real THEN 1 ELSE 0],
                     !.skip = IF first /\ ~run.more
                              THEN got = runs[r].sent /\ \A b \in got : chain[b] # "bare"
                              ELSE @]
     IN Continue(r, run, l)

\* The server refuses, by its rate limit or a cap, or the request fails: a run that has
\* something ends with what it has, but the batch stays counted as read.
NotDecoded(r) ==
  /\ runs[r].pc = "decode"
  /\ \/ /\ runs[r].ok
        /\ Finish(r, [runs[r] EXCEPT !.sent = {}],
                  [local EXCEPT !.missing = @ \cup (runs[r].low..runs[r].hi)])
     \/ Fails(r)

Walk(r) == /\ Opened(r) \/ Asked(r) \/ Fetched(r) \/ NotFetched(r) \/ Decoded(r) \/ NotDecoded(r)
           /\ UNCHANGED <<chain, clicks>>

Next == \/ Disconnect \/ NewPage
        \/ \E r \in Runs : Connect(r) \/ More(r) \/ Walk(r)

Spec == Init /\ [][Next]_vars

\* Every request is answered or times out.
FairSpec == Spec /\ \A r \in Runs : WF_vars(Walk(r))

--------------------------------------------------------------------------------
(* Properties *)

\* What the reader promises.  A batch that is being decoded is not yet in the window;
\* an error shows none, and nothing is promised once two runs have met.
LowOf(l) == IF l.low = 0 THEN Tip + 1 ELSE l.low
Lower(R) == IF \E r \in R : runs[r].pc = "decode"
            THEN (CHOOSE h \in Blocks : \E r \in R : runs[r].pc = "decode" /\ h = runs[r].hi) + 1
            ELSE LowOf(local)

Shows(l, low) ==
  IF l.met \/ l.status \in {"idle", "error"}
  THEN [low |-> Tip + 1, shown |-> [b \in Blocks |-> 0], missing |-> Blocks]
  ELSE [low |-> low, shown |-> l.shown, missing |-> l.missing]

Promise == INSTANCE ReadWindow WITH
             real <- Real, window <- Shows(local, Lower(Going)), kept <- Shows(saved, LowOf(saved))

\* The reader shows a window of the chain, from some block up to the tip at which it
\* connected, every transaction of it once but for whole batches that were refused.
Refines == Promise!Spec

\* At rest, the counters that later runs and the panel go by say what is shown.
Counts ==
  Going = {} /\ local.status = "ok" /\ ~local.met =>
    /\ local.realTxs = Cardinality({b \in Blocks : local.shown[b] = 1})
    /\ \A b \in Blocks : local.shown[b] <= 1
    /\ local.scanned = Tip + 1 - local.low
    /\ local.genesis => local.low = 1

\* The page says that it reads only while a run is under way to say otherwise: no run
\* ends, and no page is restored, with that left on it.
ReadingRuns == Busy => Going # {}

\* What a run has left to do, in steps: two for each block that is still below it.
StepsLeft(run) ==
  CASE run.pc = "open" -> 2 * Tip + 4 [] run.pc = "ask" -> 2 * Tip + 3
    [] run.pc = "decode" -> 2 * run.low + 1 [] run.pc = "fetch" -> 2 * run.low
    [] run.pc = "none" -> 0

\* Every step of a run brings it nearer to its end, and leaves the others where they
\* are: none reads a batch again, and no place taken over from LOCAL sends it back.
RunsRunDown ==
  [][ clicks' = clicks =>
        \E r \in Runs : /\ StepsLeft(runs'[r]) < StepsLeft(runs[r])
                        /\ \A q \in Runs \ {r} : runs'[q] = runs[q] ]_vars

\* The page does not say reading for ever.
Settles == Busy ~> ~Busy
================================================================================
