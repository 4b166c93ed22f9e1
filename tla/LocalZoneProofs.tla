---------------------------- MODULE LocalZoneProofs ----------------------------
(* Theorems about LocalZone, for every value of its constants. *)
EXTENDS LocalZone, FiniteSetTheorems, TLAPS

W == Shows(local, Lower(Going))
K == Shows(saved, LowOf(saved))

--------------------------------------------------------------------------------
(* Types *)

\* A run that is about to fetch has something below it.
Above(run) == /\ run.pc = "fetch" => run.low > 1
              /\ run.pc = "decode" => run.low >= 1
TypeInv == TypeOK /\ \A r \in Runs : Above(runs[r])

LEMMA FreshType == Fresh \in Local /\ NoRun \in Run
  BY LocalZoneAssumption DEF Fresh, Local, NoRun, Run, Blocks

LEMMA WalkedType ==
  ASSUME NEW l \in Local, NEW scanned \in Nat, NEW low \in 0..(Tip + 1), NEW real \in Nat,
         NEW n \in Nat, NEW genesis \in BOOLEAN, NEW more \in BOOLEAN
  PROVE  [l EXCEPT !.scanned = scanned, !.low = low, !.realTxs = real, !.batchIdx = n,
                   !.genesis = genesis, !.more = more] \in Local
  BY DEF Local

LEMMA AskedType ==
  ASSUME NEW run \in Run, NEW real \in Nat, NEW scanned \in Nat, NEW low \in 0..(Tip + 1),
         NEW n \in Nat, NEW m \in Nat, NEW want \in Nat
  PROVE  [run EXCEPT !.real = real, !.scanned = scanned, !.low = low, !.batchIdx = n,
                     !.started = m, !.want = want] \in Run
  BY DEF Run

LEMMA FetchedType ==
  ASSUME NEW run \in Run, NEW low \in 0..(Tip + 1), NEW hi \in 0..Tip, NEW scanned \in Nat,
         NEW sent \in SUBSET Blocks
  PROVE  [run EXCEPT !.low = low, !.hi = hi, !.scanned = scanned, !.sent = sent] \in Run
  BY DEF Run

LEMMA DecodedType ==
  ASSUME NEW run \in Run, NEW real \in Nat, NEW ok \in BOOLEAN, NEW n \in Nat
  PROVE  [run EXCEPT !.real = real, !.ok = ok, !.batchIdx = n, !.sent = {}] \in Run
  BY DEF Run

LEMMA FinishType ==
  ASSUME TypeInv, NEW r \in Runs, NEW run \in Run, NEW l \in Local, Finish(r, run, l)
  PROVE  /\ local' \in Local /\ saved' \in Local /\ runs' \in [Runs -> Run]
         /\ \A q \in Runs : Above(runs'[q])
<1> DEFINE walked == [l EXCEPT !.scanned = run.scanned, !.low = run.low, !.realTxs = run.real,
                               !.batchIdx = run.batchIdx, !.genesis = run.low <= 1,
                               !.more = run.low > 1 /\ run.scanned < MaxBlocks]
           done == [walked EXCEPT !.status = IF run.scanned > 0 /\ (run.ok \/ l.any) THEN "ok" ELSE "error"]
<1>1. walked \in Local
  <2>1. run.scanned \in Nat /\ run.low \in 0..(Tip + 1) /\ run.real \in Nat /\ run.batchIdx \in Nat
    BY DEF Run
  <2>2. (run.low <= 1) \in BOOLEAN /\ (run.low > 1 /\ run.scanned < MaxBlocks) \in BOOLEAN
    OBVIOUS
  <2>3. QED BY <2>1, <2>2, WalkedType
<1>2. done \in Local
  <2> HIDE DEF walked
  <2> QED BY <1>1 DEF Local
<1>3. local' = done /\ saved' \in {saved, done, Fresh} /\ Ends(r)
  BY Zenon DEF Finish
<1> HIDE DEF walked, done
<1>4. runs' = [runs EXCEPT ![r] = NoRun] /\ NoRun.pc = "none"
  BY <1>3 DEF Ends, NoRun
<1>5. runs' \in [Runs -> Run]
  BY <1>4, FreshType DEF TypeInv, TypeOK, Above
<1>6. \A q \in Runs : Above(runs'[q])
  BY <1>4 DEF TypeInv, TypeOK, Above
<1>7. QED BY <1>2, <1>3, <1>5, <1>6, FreshType DEF TypeInv, TypeOK, Above

LEMMA ContinueType ==
  ASSUME TypeInv, NEW r \in Runs, NEW run \in Run, NEW l \in Local, Continue(r, run, l)
  PROVE  /\ local' \in Local /\ saved' \in Local /\ runs' \in [Runs -> Run]
         /\ \A q \in Runs : Above(runs'[q])
<1>1. CASE Finish(r, run, l)
  BY <1>1, FinishType
<1>2. CASE /\ run.low > 1 /\ runs' = [runs EXCEPT ![r] = [run EXCEPT !.pc = "fetch"]]
           /\ local' = l /\ UNCHANGED saved
  <2>1. [run EXCEPT !.pc = "fetch"] \in Run /\ [run EXCEPT !.pc = "fetch"].low = run.low
    BY DEF Run
  <2>2. QED BY <1>2, <2>1 DEF TypeInv, TypeOK, Above
<1>3. QED BY <1>1, <1>2, Zenon DEF Continue

LEMMA FailsType ==
  ASSUME TypeInv, NEW r \in Runs, Fails(r)
  PROVE  /\ local' \in Local /\ saved' \in Local /\ runs' \in [Runs -> Run]
         /\ \A q \in Runs : Above(runs'[q])
<1>1. [local EXCEPT !.status = "error"] \in Local
  BY DEF TypeInv, TypeOK, Above, Local
<1>2. NoRun \in Run /\ NoRun.pc = "none"
  BY FreshType DEF NoRun
<1>3. QED BY <1>1, <1>2 DEF TypeInv, TypeOK, Above, Fails, Ends

\* The batch below a run, and how many transactions a batch can add.
LEMMA BatchType ==
  ASSUME NEW run \in Run, run.low > 1
  PROVE  /\ LowEnd(run) \in 1..(run.low - 1) /\ run.low - 1 \in 1..Tip
         /\ run.batchIdx = 0 => LowEnd(run) >= 1 /\ LowEnd(run) <= IF run.low - FirstBatch < 1 THEN 1 ELSE run.low - FirstBatch
  BY LocalZoneAssumption DEF LowEnd, Run

LEMMA NewTxsType == \A got : NewTxs(got) \in Nat
<1> TAKE got
<1>1. IsFiniteSet(Blocks)
  BY FS_Interval, LocalZoneAssumption DEF Blocks
<1>2. IsFiniteSet(got \cap Real)
  BY <1>1, FS_Subset DEF Real
<1>3. QED BY <1>2, FS_CardinalityType DEF NewTxs

LEMMA TypeInit == Init => TypeInv
<1> SUFFICES ASSUME Init PROVE TypeInv
  OBVIOUS
<1>1. TypeOK
  BY FreshType, LocalZoneAssumption DEF Init, TypeOK
<1>2. \A r \in Runs : runs[r].pc = "none"
  BY DEF Init, NoRun
<1>3. QED BY <1>1, <1>2 DEF TypeInv, Above

LEMMA TypeStep == TypeInv /\ [Next]_vars => TypeInv'
<1> SUFFICES ASSUME TypeInv, [Next]_vars PROVE TypeInv'
  OBVIOUS
<1> DEFINE Post == /\ local' \in Local /\ saved' \in Local /\ runs' \in [Runs -> Run]
                   /\ \A q \in Runs : Above(runs'[q])
<1>1. Post /\ chain' = chain /\ clicks' \in 0..MaxClicks => TypeInv'
  BY DEF TypeInv, TypeOK, Above
<1>t. TypeOK
  BY DEF TypeInv
<1>c. Click => clicks' \in 0..MaxClicks
  BY LocalZoneAssumption DEF Click, TypeInv, TypeOK
<1>2. CASE Disconnect
  <2>1. [Fresh EXCEPT !.met = Going # {}] \in Local
    BY FreshType DEF Local
  <2>2. QED BY <1>1, <1>2, <1>c, <2>1, FreshType DEF Disconnect, TypeInv, TypeOK, Above
<1>3. CASE NewPage
  <2>1. [saved EXCEPT !.skip = FALSE] \in Local
    BY DEF TypeInv, TypeOK, Above, Local
  <2>2. NoRun \in Run /\ NoRun.pc = "none"
    BY FreshType DEF NoRun
  <2>3. local' \in Local
    BY <1>3, <2>1, FreshType DEF NewPage
  <2>4. QED BY <1>1, <1>3, <1>c, <2>2, <2>3 DEF NewPage, TypeInv, TypeOK, Above
<1>4. ASSUME NEW r \in Runs, Connect(r) PROVE TypeInv'
  <2>1. [Fresh EXCEPT !.status = "connecting", !.met = Going # {}] \in Local
    BY FreshType DEF Local
  <2>2. [NoRun EXCEPT !.pc = "open"] \in Run /\ [NoRun EXCEPT !.pc = "open"].pc = "open"
    BY FreshType DEF Run
  <2>3. QED BY <1>1, <1>4, <1>c, <2>1, <2>2 DEF Connect, TypeInv, TypeOK, Above
<1>5. ASSUME NEW r \in Runs, More(r) PROVE TypeInv'
  <2>1. [local EXCEPT !.status = "reading", !.met = @ \/ Going # {}] \in Local
    BY <1>t DEF TypeOK, Local
  <2>2. /\ [NoRun EXCEPT !.pc = "open", !.more = TRUE] \in Run
        /\ [NoRun EXCEPT !.pc = "open", !.more = TRUE].pc = "open"
    BY FreshType DEF Run
  <2>3. QED BY <1>1, <1>5, <1>c, <2>1, <2>2 DEF More, TypeInv, TypeOK, Above
<1>6. ASSUME NEW r \in Runs, Walk(r) PROVE TypeInv'
  <2> runs[r] \in Run /\ local \in Local
    BY <1>t DEF TypeOK
  <2>0. chain' = chain /\ clicks' \in 0..MaxClicks
    BY <1>6, <1>t DEF Walk, TypeOK
  <2>f. CASE Fails(r)
    BY <1>1, <2>0, <2>f, FailsType
  <2>1. CASE Opened(r)
    <3>1. [local EXCEPT !.status = "reading"] \in Local
      BY DEF Local
    <3>2. [runs[r] EXCEPT !.pc = "ask"] \in Run /\ [runs[r] EXCEPT !.pc = "ask"].pc = "ask"
      BY DEF Run
    <3>3. CASE local' = [local EXCEPT !.status = "reading"] /\ runs' = [runs EXCEPT ![r].pc = "ask"]
               /\ UNCHANGED saved
      <4>1. runs' = [runs EXCEPT ![r] = [runs[r] EXCEPT !.pc = "ask"]]
        BY <3>3, <1>t DEF TypeOK
      <4>2. QED BY <1>1, <2>0, <3>1, <3>2, <3>3, <4>1 DEF TypeInv, TypeOK, Above
    <3>4. QED BY <2>1, <3>3, <2>f DEF Opened
  <2>2. CASE Asked(r)
    <3> DEFINE more == runs[r].more
               l    == IF more THEN local ELSE [local EXCEPT !.tip = Tip]
               run  == [runs[r] EXCEPT
                          !.real = l.realTxs, !.scanned = l.scanned,
                          !.low = StartOfWalk(more, l),
                          !.batchIdx = IF more THEN l.batchIdx ELSE 0,
                          !.started  = IF more THEN l.batchIdx ELSE 0,
                          !.want = IF more THEN l.realTxs + MoreTxs ELSE MinTxs]
    <3>1. l \in Local
      BY DEF Local
    <3>2. StartOfWalk(more, l) \in 0..(Tip + 1)
      BY <3>1, LocalZoneAssumption DEF Local, StartOfWalk
    <3>3. l.realTxs \in Nat /\ l.scanned \in Nat /\ l.batchIdx \in Nat
      BY <3>1 DEF Local
    <3>4. run \in Run
      <4>1. l.realTxs + MoreTxs \in Nat /\ MinTxs \in Nat
        BY <3>3, LocalZoneAssumption
      <4>2. (IF more THEN l.batchIdx ELSE 0) \in Nat /\ (IF more THEN l.realTxs + MoreTxs ELSE MinTxs) \in Nat
        BY <3>3, <4>1
      <4> DEFINE low == StartOfWalk(more, l)
                 n == IF more THEN l.batchIdx ELSE 0
                 want == IF more THEN l.realTxs + MoreTxs ELSE MinTxs
      <4> HIDE DEF l, low, n, want
      <4>4. low \in 0..(Tip + 1) /\ n \in Nat /\ want \in Nat
        BY <3>2, <4>2 DEF low, n, want
      <4>5. [runs[r] EXCEPT !.real = l.realTxs, !.scanned = l.scanned, !.low = low, !.batchIdx = n,
                            !.started = n, !.want = want] \in Run
        BY <3>3, <4>4, AskedType
      <4>6. QED BY <4>5 DEF low, n, want
    <3>5. Continue(r, run, l) \/ Fails(r)
      BY <2>2 DEF Asked
    <3> HIDE DEF run, l
    <3>6. QED BY <1>1, <2>0, <2>f, <3>1, <3>4, <3>5, ContinueType
  <2>3. CASE Fetched(r)
    <3> DEFINE lo   == LowEnd(runs[r])
               hi   == runs[r].low - 1
               sent == ToSend(local, lo, hi)
               run  == [runs[r] EXCEPT !.low = lo, !.hi = hi, !.scanned = @ + (hi - lo + 1), !.sent = sent]
               l    == [local EXCEPT !.low = lo, !.scanned = run.scanned]
    <3>1. lo \in 1..hi /\ hi \in 1..Tip
      BY <2>3, BatchType DEF Fetched, TypeInv, Above
    <3>2. sent \subseteq Blocks
      <4>1. \A b \in lo..hi : b \in Blocks
        <5> HIDE DEF lo, hi
        <5> QED BY <3>1, LocalZoneAssumption DEF Blocks
      <4>2. QED BY <4>1, Zenon DEF ToSend
    <3>3. run \in Run
      <4>1. runs[r].scanned + (hi - lo + 1) \in Nat
        <5>1. runs[r].scanned \in Nat
          BY DEF Run
        <5> HIDE DEF lo, hi
        <5>2. QED BY <3>1, <5>1, LocalZoneAssumption
      <4>2. lo \in 0..(Tip + 1) /\ hi \in 0..Tip
        <5> HIDE DEF lo, hi
        <5> QED BY <3>1, LocalZoneAssumption
      <4> HIDE DEF lo, hi, sent
      <4>3. QED BY <3>2, <4>1, <4>2, FetchedType
    <3>4. l \in Local
      <4>1. run.scanned \in Nat
        BY <3>3 DEF Run
      <4>2. lo \in 0..(Tip + 1)
        <5> HIDE DEF lo, hi
        <5> QED BY <3>1, LocalZoneAssumption
      <4> HIDE DEF run, lo
      <4>3. QED BY <4>1, <4>2 DEF Local
    <3>5. [run EXCEPT !.batchIdx = @ + 1] \in Run
      <4> HIDE DEF lo, hi, sent, run
      <4> QED BY <3>3 DEF Run
    <3>6. [run EXCEPT !.pc = "decode"] \in Run /\ Above([run EXCEPT !.pc = "decode"])
      <4>1. run.low = lo /\ lo >= 1
        BY <3>1 DEF Run
      <4> HIDE DEF lo, hi, sent, run
      <4>2. QED BY <3>3, <4>1 DEF Run, Above
    <3>7. \/ Continue(r, [run EXCEPT !.batchIdx = @ + 1], l)
          \/ runs' = [runs EXCEPT ![r] = [run EXCEPT !.pc = "decode"]] /\ local' = l /\ UNCHANGED saved
      BY <2>3, Zenon DEF Fetched
    <3> HIDE DEF lo, hi, sent, run, l
    <3>8. CASE Continue(r, [run EXCEPT !.batchIdx = @ + 1], l)
      BY <1>1, <2>0, <3>4, <3>5, <3>8, ContinueType
    <3>9. CASE runs' = [runs EXCEPT ![r] = [run EXCEPT !.pc = "decode"]] /\ local' = l /\ UNCHANGED saved
      BY <1>1, <2>0, <3>4, <3>6, <3>9 DEF TypeInv, TypeOK, Above
    <3>10. QED BY <3>7, <3>8, <3>9
  <2>4. CASE NotFetched(r)
    BY <1>1, <2>0, <2>4, <2>f, FinishType DEF NotFetched
  <2>5. CASE Decoded(r)
    <3> DEFINE got   == {b \in runs[r].sent : chain[b] # "bad"}
               first == runs[r].batchIdx = 0
               fresh == IF first THEN got ELSE got \cap Real
               run   == [runs[r] EXCEPT !.real = @ + NewTxs(got),
                                        !.ok = @ \/ fresh # {}, !.batchIdx = @ + 1, !.sent = {}]
               skip  == IF first /\ ~run.more
                        THEN got = runs[r].sent /\ \A b \in got : chain[b] # "bare"
                        ELSE local.skip
               shown == [b \in Blocks |-> local.shown[b] + IF b \in got \cap Real THEN 1 ELSE 0]
               l     == [local EXCEPT
                           !.status = "ok", !.realTxs = run.real, !.batchIdx = run.batchIdx,
                           !.any = @ \/ fresh # {},
                           !.shown = shown,
                           !.skip = skip]
    <3>1. NewTxs(got) \in Nat
      BY NewTxsType
    <3>2. run \in Run
      <4>1. runs[r].real + NewTxs(got) \in Nat /\ runs[r].batchIdx + 1 \in Nat
        BY <3>1 DEF Run
      <4>2. (runs[r].ok \/ fresh # {}) \in BOOLEAN
        OBVIOUS
      <4> HIDE DEF got, fresh
      <4>3. QED BY <4>1, <4>2, DecodedType
    <3>3. skip \in BOOLEAN /\ run.real \in Nat /\ run.batchIdx \in Nat
      BY <3>2 DEF Run, Local
    <3>4. shown \in [Blocks -> Nat]
      BY DEF Local
    <3>5. l \in Local
      <4> HIDE DEF got, fresh, run, skip, shown
      <4> QED BY <3>3, <3>4 DEF Local
    <3>6. Continue(r, run, l)
      BY <2>5, Zenon DEF Decoded
    <3> HIDE DEF run, l
    <3>7. QED BY <1>1, <2>0, <3>2, <3>5, <3>6, ContinueType
  <2>6. CASE NotDecoded(r)
    <3>1. [runs[r] EXCEPT !.sent = {}] \in Run
      BY DEF Run
    <3>2. [local EXCEPT !.missing = @ \cup (runs[r].low..runs[r].hi)] \in Local
      <4>1. \A b \in runs[r].low..runs[r].hi : b \in Blocks
        BY <2>6, LocalZoneAssumption DEF NotDecoded, TypeInv, Above, Run, Blocks
      <4>2. QED BY <4>1 DEF Local
    <3>3. QED BY <1>1, <2>0, <2>6, <2>f, <3>1, <3>2, FinishType DEF NotDecoded
  <2>7. QED BY <1>6, <2>1, <2>2, <2>3, <2>4, <2>5, <2>6 DEF Walk
<1>7. CASE UNCHANGED vars
  BY <1>7 DEF vars, TypeInv, TypeOK
<1>8. QED BY <1>2, <1>3, <1>4, <1>5, <1>6, <1>7 DEF Next

\* What the page keeps and what its runs remember have their types; no run asks for
\* blocks above the tip or below the first.
THEOREM LocalTypes == Spec => []TypeOK
<1>1. Spec => []TypeInv
  BY TypeInit, TypeStep, PTL DEF Spec
<1>2. TypeInv => TypeOK
  BY DEF TypeInv
<1>3. QED BY <1>1, <1>2, PTL

--------------------------------------------------------------------------------
(* The refinement *)

Closed == [low |-> Tip + 1, shown |-> [b \in Blocks |-> 0], missing |-> Blocks]
Top    == [low |-> Tip + 1, shown |-> [b \in Blocks |-> 0], missing |-> {}]
Win(l, low) == IF l.met THEN Closed ELSE [low |-> low, shown |-> l.shown, missing |-> l.missing]

NoBare == \A b \in Blocks : chain[b] # "bare"

\* Nothing below low is shown, or given up.
Clean(l, low) == \A b \in Blocks : b < low => l.shown[b] = 0 /\ b \notin l.missing

\* The walk begins at the tip, before anything can be skipped.
FromTip(run, l) == run.batchIdx = 0 /\ ~run.more => run.low = Tip + 1 /\ ~l.skip

\* A run that is alone has its place in common with LOCAL; what it has sent is what
\* LOCAL is still to show.
RunInv(run) ==
  /\ run.pc \in {"open", "ask"} =>
       IF run.more THEN local.low > 0 ELSE local.low = 0 /\ ~local.skip
  /\ run.pc = "fetch" => run.low = LowOf(local) /\ FromTip(run, local)
  /\ run.pc = "decode" =>
       /\ run.low = local.low /\ run.low <= run.hi
       /\ Clean(local, run.hi + 1)
       /\ run.sent \subseteq run.low..run.hi
       /\ Real \cap (run.low..run.hi) \subseteq run.sent
       /\ run.batchIdx = 0 /\ ~run.more => \A b \in Blocks : b > Tip - FirstBatch => b \in run.sent

LocalInv == ~local.met =>
  /\ Clean(local, LowOf(local))
  /\ local.status = "ok" => local.low > 0
  /\ local.skip => NoBare
  /\ \A r, s \in Going : r = s
  /\ Going # {} => local.status \notin {"idle", "error"}
  /\ \A r \in Going : RunInv(runs[r])
SavedInv == ~saved.met =>
  /\ Clean(saved, LowOf(saved))
  /\ saved.status = "ok" => saved.low > 0

Inv == TypeInv /\ FairSample(chain) /\ LocalInv /\ SavedInv
\* What is shown moves as the promise says.
LEMMA Moves ==
  ASSUME chain' = chain, K' \in {K, W', Closed},
         \/ W' \in {Closed, W, K, Top}
         \/ /\ W # Closed
            /\ \E lo \in 1..(W.low - 1) :
                 \/ W' = [low |-> lo, missing |-> W.missing,
                          shown |-> [b \in Blocks |-> IF b \in lo..(W.low - 1)
                                                      THEN (IF b \in Real THEN 1 ELSE 0) ELSE W.shown[b]]]
                 \/ W' = [low |-> lo, shown |-> W.shown, missing |-> W.missing \cup lo..(W.low - 1)]
  PROVE  Promise!Next
<1>1. Promise!Closed = Closed /\ Promise!Top = Top /\ Promise!Blocks = Blocks
  BY DEF Promise!Closed, Promise!Top, Promise!Blocks, Closed, Top, Blocks
<1>2. Real' = Real
  BY DEF Real
<1>3. K' \in {K, W', Promise!Closed}
  BY <1>1
<1>4. Shows(local, Lower(Going)) = W /\ Shows(saved, LowOf(saved)) = K
      /\ Shows(local, Lower(Going))' = W' /\ Shows(saved, LowOf(saved))' = K'
  BY DEF W, K
<1> HIDE DEF W, K
<1>5. CASE W' \in {Closed, W, K, Top}
  BY <1>1, <1>2, <1>3, <1>4, <1>5, Zenon DEF Promise!Next, Promise!Close, Promise!Open, Promise!Restore
<1>6. ASSUME NEW lo \in 1..(W.low - 1), W # Closed,
             W' = [low |-> lo, missing |-> W.missing,
                   shown |-> [b \in Blocks |-> IF b \in lo..(W.low - 1)
                                               THEN (IF b \in Real THEN 1 ELSE 0) ELSE W.shown[b]]]
      PROVE  Promise!Next
  <2>1. Promise!Extend
    <3>1. W # Promise!Closed
      BY <1>1, <1>6
    <3>2. QED BY <1>4, <1>6, <3>1, Zenon DEF Promise!Extend, Promise!Blocks, Blocks
  <2>2. QED BY <1>2, <1>3, <1>4, <2>1, Zenon DEF Promise!Next
<1>7. ASSUME NEW lo \in 1..(W.low - 1), W # Closed,
             W' = [low |-> lo, shown |-> W.shown, missing |-> W.missing \cup lo..(W.low - 1)]
      PROVE  Promise!Next
  <2>1. Promise!Lose
    <3>1. W # Promise!Closed
      BY <1>1, <1>7
    <3>2. QED BY <1>4, <1>7, <3>1, Zenon DEF Promise!Lose
  <2>2. QED BY <1>2, <1>3, <1>4, <2>1, Zenon DEF Promise!Next
<1>8. QED BY <1>5, <1>6, <1>7

\* Where the window ends, with no run and with one.
LEMMA LowerNone == Going = {} => Lower(Going) = LowOf(local)
  BY DEF Lower

LEMMA LowerOne ==
  ASSUME TypeOK, NEW r \in Runs, Going = {r}, runs[r].pc = "decode" => runs[r].hi > 0
  PROVE  Lower(Going) = IF runs[r].pc = "decode" THEN runs[r].hi + 1 ELSE LowOf(local)
<1>1. runs[r].hi \in 0..Tip
  BY DEF TypeOK, Run
<1>2. CASE runs[r].pc = "decode"
  <2>1. runs[r].hi \in Blocks
    BY <1>1, <1>2, LocalZoneAssumption DEF Blocks
  <2>2. (CHOOSE h \in Blocks : \E q \in Going : runs[q].pc = "decode" /\ h = runs[q].hi) = runs[r].hi
    BY <1>2, <2>1
  <2>3. Lower(Going) = (CHOOSE h \in Blocks : \E q \in Going : runs[q].pc = "decode" /\ h = runs[q].hi) + 1
    BY <1>2, Zenon DEF Lower
  <2>4. QED BY <1>2, <2>2, <2>3
<1>3. CASE runs[r].pc # "decode"
  BY <1>3 DEF Lower
<1>4. QED BY <1>2, <1>3

\* The window of a run that is alone.
LEMMA WindowOne ==
  ASSUME Inv, NEW r \in Runs, r \in Going, ~local.met
  PROVE  /\ Going = {r} /\ RunInv(runs[r])
         /\ W = Win(local, IF runs[r].pc = "decode" THEN runs[r].hi + 1 ELSE LowOf(local))
         /\ W # Closed
<1>1. Going = {r} /\ RunInv(runs[r]) /\ local.status \notin {"idle", "error"}
  BY DEF Inv, LocalInv
<1>2. TypeOK /\ local \in Local /\ runs[r] \in Run /\ Above(runs[r])
  BY DEF Inv, TypeInv, TypeOK
<1>3. runs[r].pc = "decode" => runs[r].hi > 0
  BY <1>1, <1>2 DEF RunInv, Above, Run
<1>4. Lower(Going) = IF runs[r].pc = "decode" THEN runs[r].hi + 1 ELSE LowOf(local)
  BY <1>1, <1>2, <1>3, LowerOne
<1>5. W = [low |-> Lower(Going), shown |-> local.shown, missing |-> local.missing]
  BY <1>1 DEF W, Shows
<1>6. Lower(Going) \in 1..(Tip + 1) /\ Clean(local, Lower(Going))
  BY <1>1, <1>2, <1>3, <1>4, LocalZoneAssumption DEF LowOf, Local, Run, RunInv, Inv, LocalInv
<1>7. W # Closed
  <2>1. CASE Lower(Going) = Tip + 1
    <3>1. 1 \in Blocks /\ 1 < Tip + 1
      BY LocalZoneAssumption DEF Blocks
    <3>2. 1 \notin local.missing
      BY <1>6, <2>1, <3>1 DEF Clean
    <3>3. QED BY <1>5, <3>1, <3>2 DEF Closed
  <2>2. CASE Lower(Going) # Tip + 1
    BY <1>5, <2>2 DEF Closed
  <2>3. QED BY <2>1, <2>2
<1>8. QED BY <1>1, <1>4, <1>5, <1>7 DEF Win

\* What a run hands to the rest of its loop: its place and LOCAL.
Hands(r, run, l) ==
  /\ run \in Run /\ l \in Local /\ l.met = local.met
  /\ ~l.met => /\ Clean(l, run.low) /\ run.low >= 1
               /\ l.skip => NoBare

LEMMA FinishStep ==
  ASSUME Inv, TypeInv', NEW r \in Runs, r \in Going, chain' = chain,
         NEW run, NEW l, Hands(r, run, l), Finish(r, run, l)
  PROVE  /\ LocalInv' /\ SavedInv'
         /\ W' \in {Closed, Win(l, run.low)} /\ K' \in {K, W', Closed}
<1> USE DEF Hands
<1> DEFINE walked == [l EXCEPT !.scanned = run.scanned, !.low = run.low, !.realTxs = run.real,
                               !.batchIdx = run.batchIdx, !.genesis = run.low <= 1,
                               !.more = run.low > 1 /\ run.scanned < MaxBlocks]
           done == [walked EXCEPT !.status = IF run.scanned > 0 /\ (run.ok \/ l.any) THEN "ok" ELSE "error"]
<1>1. /\ walked.met = l.met /\ walked.low = run.low /\ walked.shown = l.shown
      /\ walked.missing = l.missing /\ walked.skip = l.skip
      /\ done = [walked EXCEPT !.status = done.status]
      /\ done.status \in {"ok", "error"}
  BY DEF Local
<1>2. /\ done.met = l.met /\ done.low = run.low /\ done.shown = l.shown
      /\ done.missing = l.missing /\ done.skip = l.skip
  BY <1>1 DEF Local
<1>3. local' = done /\ saved' \in {saved, done, Fresh} /\ Ends(r)
  BY Zenon DEF Finish
<1> HIDE DEF walked, done
<1>4. Fresh.status = "idle" /\ Fresh.met = FALSE /\ Clean(Fresh, LowOf(Fresh))
  BY DEF Fresh, Clean
<1>5. Real' = Real /\ NoBare' = NoBare
  BY DEF Real, NoBare
<1>6. Shows(Fresh, LowOf(Fresh)) = Closed
  BY <1>4 DEF Shows, Closed
<1>7. CASE l.met
  <2>1. W' = Closed
    BY <1>2, <1>3, <1>7 DEF W, Shows, Closed
  <2>2. saved' = done => K' = Closed
    BY <1>2, <1>7 DEF K, Shows, Closed
  <2>3. K' \in {K, Closed}
    BY <1>3, <1>6, <2>2 DEF K
  <2>4. LocalInv'
    BY <1>2, <1>3, <1>7 DEF LocalInv
  <2>5. SavedInv'
    BY <1>2, <1>3, <1>4, <1>7 DEF SavedInv, Inv, Clean, LowOf
  <2>6. QED BY <2>1, <2>3, <2>4, <2>5
<1>8. CASE ~l.met
  <2>1. Going = {r}
    BY <1>8 DEF Inv, LocalInv
  <2>2. Going' = {}
    <3>1. runs' = [runs EXCEPT ![r] = NoRun] /\ NoRun.pc = "none"
      BY <1>3 DEF Ends, NoRun
    <3>2. QED BY <2>1, <3>1 DEF Going, Inv, TypeInv, TypeOK
  <2>3. run.low \in Nat /\ run.low >= 1 /\ LowOf(done) = run.low
    BY <1>2, <1>8, LocalZoneAssumption DEF Run, LowOf
  <2>4. Lower(Going)' = LowOf(done)
    BY <1>3, <2>2 DEF Lower
  <2>5. W' = Shows(done, run.low)
    BY <1>3, <2>3, <2>4 DEF W
  <2>6. Shows(done, run.low) \in {Closed, Win(l, run.low)}
    BY <1>1, <1>2, <1>8 DEF Shows, Closed, Win
  <2>7. K' \in {K, W', Closed}
    BY <1>3, <1>6, <2>3, <2>5 DEF K
  <2>8. Clean(done, LowOf(done))
    BY <1>2, <1>8, <2>3 DEF Clean
  <2>9. LocalInv'
    BY <1>1, <1>2, <1>3, <1>5, <1>8, <2>2, <2>3, <2>8 DEF LocalInv, Clean, LowOf
  <2>10. SavedInv'
    BY <1>2, <1>3, <1>4, <1>8, <2>3, <2>8 DEF SavedInv, Inv, Clean, LowOf
  <2>11. QED BY <2>5, <2>6, <2>7, <2>9, <2>10
<1>9. QED BY <1>7, <1>8

LEMMA ContinueStep ==
  ASSUME Inv, TypeInv', NEW r \in Runs, r \in Going, chain' = chain,
         NEW run, NEW l, Hands(r, run, l), Continue(r, run, l),
         ~l.met => /\ LowOf(l) = run.low /\ FromTip(run, l)
                   /\ l.status \notin {"idle", "error"}
                   /\ l.status = "ok" => l.low > 0
  PROVE  /\ LocalInv' /\ SavedInv'
         /\ W' \in {Closed, Win(l, run.low)} /\ K' \in {K, W', Closed}
<1> USE DEF Hands
<1>1. CASE Finish(r, run, l)
  BY <1>1, FinishStep
<1>2. CASE /\ run.low > 1 /\ runs' = [runs EXCEPT ![r] = [run EXCEPT !.pc = "fetch"]]
           /\ local' = l /\ UNCHANGED saved
  <2>1. K' = K
    BY <1>2 DEF K
  <2>2. SavedInv'
    BY <1>2 DEF Inv, SavedInv, Clean, LowOf
  <2>3. CASE l.met
    BY <1>2, <2>1, <2>2, <2>3 DEF LocalInv, W, Shows, Closed
  <2>4. CASE ~l.met
    <3>1. Going = {r}
      BY <2>4 DEF Inv, LocalInv
    <3> DEFINE next == [run EXCEPT !.pc = "fetch"]
    <3>2. /\ next.pc = "fetch" /\ next.low = run.low /\ next.batchIdx = run.batchIdx
          /\ next.more = run.more
      BY DEF Run
    <3> HIDE DEF next
    <3>3. runs'[r] = next /\ Going' = {r}
      BY <1>2, <3>1, <3>2 DEF Going, Inv, TypeInv, TypeOK, next
    <3>4. Lower(Going)' = LowOf(l)
      BY <1>2, <3>2, <3>3 DEF Lower
    <3>5. W' = Win(l, run.low)
      BY <1>2, <2>4, <3>4 DEF W, Shows, Win
    <3>6. RunInv(runs[r])'
      BY <1>2, <2>4, <3>2, <3>3 DEF RunInv, FromTip, LowOf
    <3>7. NoBare' = NoBare
      BY DEF NoBare
    <3>8. Clean(local, LowOf(local))'
      BY <1>2, <2>4 DEF Clean, LowOf
    <3>9. LocalInv'
      BY <1>2, <2>4, <3>3, <3>6, <3>7, <3>8 DEF LocalInv
    <3>10. QED BY <2>1, <2>2, <3>5, <3>9
  <2>5. QED BY <2>3, <2>4
<1>3. QED BY <1>1, <1>2, Zenon DEF Continue

\* Goal of every step: the invariant, and a move of the promise.
Kept == LocalInv' /\ SavedInv' /\ Promise!Next

LEMMA FailsStep ==
  ASSUME Inv, NEW r \in Runs, r \in Going, chain' = chain, Fails(r)
  PROVE  Kept
<1>1. local' = [local EXCEPT !.status = "error"] /\ saved' = saved
  BY DEF Fails
<1>2. /\ local'.met = local.met /\ local'.low = local.low /\ local'.shown = local.shown
      /\ local'.missing = local.missing /\ local'.skip = local.skip /\ local'.status = "error"
  BY <1>1 DEF Inv, TypeInv, TypeOK, Local
<1>3. K' = K /\ W' = Closed
  BY <1>1, <1>2 DEF K, W, Shows, Closed
<1>4. ~local.met => Going' = {}
  <2> SUFFICES ASSUME ~local.met PROVE Going' = {}
    OBVIOUS
  <2>1. Going = {r}
    BY DEF Inv, LocalInv
  <2>2. runs' = [runs EXCEPT ![r] = NoRun] /\ NoRun.pc = "none"
    BY DEF Fails, Ends, NoRun
  <2>3. QED BY <2>1, <2>2 DEF Going, Inv, TypeInv, TypeOK
<1>5. LocalInv' /\ SavedInv'
  BY <1>1, <1>2, <1>4 DEF Inv, LocalInv, SavedInv, Clean, LowOf, NoBare
<1>6. QED BY <1>3, <1>5, Moves DEF Kept

LEMMA DisconnectStep ==
  ASSUME Inv, Disconnect
  PROVE  Kept
<1>1. local' = [Fresh EXCEPT !.met = Going # {}] /\ saved' = Fresh /\ runs' = runs /\ chain' = chain
  BY DEF Disconnect
<1>2. /\ local'.met = (Going # {}) /\ local'.low = 0 /\ local'.skip = FALSE
      /\ local'.shown = [b \in Blocks |-> 0] /\ local'.missing = {} /\ local'.status = "idle"
  BY <1>1, Zenon DEF Fresh
<1>3. /\ saved'.low = 0 /\ saved'.status = "idle"
      /\ saved'.shown = [b \in Blocks |-> 0] /\ saved'.missing = {}
  BY <1>1 DEF Fresh
<1>4. W' = Closed /\ K' = Closed
  BY <1>2, <1>3 DEF W, K, Shows, Closed
<1>5. Going' = Going
  BY <1>1 DEF Going
<1>6. LocalInv' /\ SavedInv'
  BY <1>2, <1>3, <1>5 DEF LocalInv, SavedInv, Clean
<1>7. QED BY <1>1, <1>4, <1>6, Moves DEF Kept

LEMMA NewPageStep ==
  ASSUME Inv, NewPage
  PROVE  Kept
<1>1. /\ local' = IF saved.any THEN [saved EXCEPT !.skip = FALSE] ELSE Fresh
      /\ runs' = [r \in Runs |-> NoRun] /\ saved' = saved /\ chain' = chain
  BY DEF NewPage
<1>2. Going' = {} /\ K' = K
  BY <1>1 DEF Going, NoRun, K
<1>3. Lower(Going)' = LowOf(local')
  BY <1>2 DEF Lower, LowOf
<1>4. SavedInv'
  BY <1>1 DEF Inv, SavedInv, Clean, LowOf
<1>5. CASE saved.any
  <2>1. /\ local'.met = saved.met /\ local'.low = saved.low /\ local'.skip = FALSE
        /\ local'.shown = saved.shown /\ local'.missing = saved.missing /\ local'.status = saved.status
    BY <1>1, <1>5 DEF Inv, TypeInv, TypeOK, Local
  <2>2. LowOf(local') = LowOf(saved)
    BY <2>1 DEF LowOf
  <2>3. W' = K
    BY <1>3, <2>1, <2>2 DEF W, K, Shows
  <2>4. LocalInv'
    BY <1>1, <1>2, <2>1, <2>2 DEF LocalInv, Inv, SavedInv, Clean, LowOf
  <2>5. QED BY <1>1, <1>2, <1>4, <2>3, <2>4, Moves DEF Kept
<1>6. CASE ~saved.any
  <2>1. /\ local'.low = 0 /\ local'.skip = FALSE
        /\ local'.shown = [b \in Blocks |-> 0] /\ local'.missing = {} /\ local'.status = "idle"
    BY <1>1, <1>6 DEF Fresh
  <2>2. W' = Closed
    BY <2>1 DEF W, Shows, Closed
  <2>3. LocalInv'
    BY <1>2, <2>1 DEF LocalInv, Clean
  <2>4. QED BY <1>1, <1>2, <1>4, <2>2, <2>3, Moves DEF Kept
<1>7. QED BY <1>5, <1>6

LEMMA ConnectStep ==
  ASSUME Inv, NEW r \in Runs, Connect(r)
  PROVE  Kept
<1>1. /\ local' = [Fresh EXCEPT !.status = "connecting", !.met = Going # {}]
      /\ runs' = [runs EXCEPT ![r] = [NoRun EXCEPT !.pc = "open"]] /\ saved' = saved /\ chain' = chain
  BY DEF Connect
<1>2. /\ local'.met = (Going # {}) /\ local'.low = 0 /\ local'.skip = FALSE
      /\ local'.shown = [b \in Blocks |-> 0] /\ local'.missing = {} /\ local'.status = "connecting"
  BY <1>1, Zenon DEF Fresh
<1>3. /\ runs'[r].pc = "open" /\ runs'[r].more = FALSE
      /\ \A q \in Runs \ {r} : runs'[q] = runs[q]
  BY <1>1 DEF NoRun, Inv, TypeInv, TypeOK
<1>4. SavedInv' /\ K' = K
  BY <1>1 DEF Inv, SavedInv, Clean, LowOf, K
<1>5. CASE Going # {}
  <2>1. W' = Closed
    BY <1>2, <1>5 DEF W, Shows, Closed
  <2>2. LocalInv'
    BY <1>2, <1>5 DEF LocalInv
  <2>3. QED BY <1>1, <1>4, <2>1, <2>2, Moves DEF Kept
<1>6. CASE Going = {}
  <2>1. Going' = {r}
    BY <1>3, <1>6 DEF Going
  <2>2. Lower(Going)' = Tip + 1
    BY <1>2, <1>3, <2>1 DEF Lower, LowOf
  <2>3. W' = Top
    BY <1>2, <1>6, <2>2 DEF W, Shows, Top
  <2>4. LocalInv'
    BY <1>2, <1>3, <1>6, <2>1 DEF LocalInv, RunInv, Clean
  <2>5. QED BY <1>1, <1>4, <2>3, <2>4, Moves DEF Kept
<1>7. QED BY <1>5, <1>6

LEMMA MoreStep ==
  ASSUME Inv, NEW r \in Runs, More(r)
  PROVE  Kept
<1>1. /\ local' = [local EXCEPT !.status = "reading", !.met = @ \/ Going # {}] /\ local.status = "ok"
      /\ runs' = [runs EXCEPT ![r] = [NoRun EXCEPT !.pc = "open", !.more = TRUE]]
      /\ saved' = saved /\ chain' = chain
  BY DEF More
<1>2. /\ local'.met = (local.met \/ Going # {}) /\ local'.low = local.low /\ local'.skip = local.skip
      /\ local'.shown = local.shown /\ local'.missing = local.missing /\ local'.status = "reading"
  BY <1>1, Zenon DEF Inv, TypeInv, TypeOK, Local
<1>3. /\ runs'[r].pc = "open" /\ runs'[r].more = TRUE
      /\ \A q \in Runs \ {r} : runs'[q] = runs[q]
  BY <1>1 DEF NoRun, Inv, TypeInv, TypeOK
<1>4. SavedInv' /\ K' = K
  BY <1>1 DEF Inv, SavedInv, Clean, LowOf, K
<1>5. CASE local.met \/ Going # {}
  <2>1. W' = Closed
    BY <1>2, <1>5 DEF W, Shows, Closed
  <2>2. LocalInv'
    BY <1>2, <1>5 DEF LocalInv
  <2>3. QED BY <1>1, <1>4, <2>1, <2>2, Moves DEF Kept
<1>6. CASE ~local.met /\ Going = {}
  <2>1. Going' = {r}
    BY <1>3, <1>6 DEF Going
  <2>2. Lower(Going)' = LowOf(local) /\ Lower(Going) = LowOf(local)
    BY <1>2, <1>3, <1>6, <2>1, LowerNone DEF Lower, LowOf
  <2>3. W' = W
    BY <1>1, <1>2, <1>6, <2>2 DEF W, Shows
  <2>4. LocalInv'
    BY <1>1, <1>2, <1>3, <1>6, <2>1 DEF Inv, LocalInv, RunInv, Clean, LowOf, NoBare
  <2>5. QED BY <1>1, <1>4, <2>3, <2>4, Moves DEF Kept
<1>7. QED BY <1>5, <1>6

LEMMA OpenedStep ==
  ASSUME Inv, NEW r \in Runs, chain' = chain, Opened(r)
  PROVE  Kept
<1>0. r \in Going
  BY DEF Opened, Going
<1>1. CASE Fails(r)
  BY <1>0, <1>1, FailsStep
<1>2. CASE /\ local' = [local EXCEPT !.status = "reading"]
           /\ runs' = [runs EXCEPT ![r].pc = "ask"] /\ saved' = saved
  <2>1. /\ local'.met = local.met /\ local'.low = local.low /\ local'.shown = local.shown
        /\ local'.missing = local.missing /\ local'.skip = local.skip /\ local'.status = "reading"
    BY <1>2 DEF Inv, TypeInv, TypeOK, Local
  <2>2. /\ runs'[r].pc = "ask" /\ runs'[r].more = runs[r].more /\ runs[r].pc = "open"
        /\ \A q \in Runs \ {r} : runs'[q] = runs[q]
    BY <1>2 DEF Opened, Inv, TypeInv, TypeOK, Run
  <2>3. Going' = Going
    BY <1>0, <2>2 DEF Going
  <2>4. SavedInv' /\ K' = K
    BY <1>2 DEF Inv, SavedInv, Clean, LowOf, K
  <2>5. CASE local.met
    BY <2>1, <2>4, <2>5, Moves DEF Kept, LocalInv, W, Shows, Closed
  <2>6. CASE ~local.met
    <3>1. Going = {r} /\ RunInv(runs[r]) /\ W = Win(local, LowOf(local))
      BY <1>0, <2>2, <2>6, WindowOne
    <3>2. Lower(Going)' = LowOf(local)
      BY <2>1, <2>2, <2>3, <3>1 DEF Lower, LowOf
    <3>3. W' = W
      BY <2>1, <2>6, <3>1, <3>2 DEF W, Shows, Win
    <3>4. LocalInv'
      BY <2>1, <2>2, <2>3, <2>6, <3>1 DEF Inv, LocalInv, RunInv, Clean, LowOf, NoBare
    <3>5. QED BY <2>4, <3>3, <3>4, Moves DEF Kept
  <2>7. QED BY <2>5, <2>6
<1>3. QED BY <1>1, <1>2 DEF Opened

LEMMA AskedStep ==
  ASSUME Inv, TypeInv', NEW r \in Runs, chain' = chain, Asked(r)
  PROVE  Kept
<1>0. r \in Going /\ runs[r].pc = "ask"
  BY DEF Asked, Going
<1> DEFINE more == runs[r].more
           l    == IF more THEN local ELSE [local EXCEPT !.tip = Tip]
           low  == StartOfWalk(more, l)
           n    == IF more THEN l.batchIdx ELSE 0
           want == IF more THEN l.realTxs + MoreTxs ELSE MinTxs
           run  == [runs[r] EXCEPT !.real = l.realTxs, !.scanned = l.scanned, !.low = low,
                                   !.batchIdx = n, !.started = n, !.want = want]
<1>1. /\ l \in Local /\ l.met = local.met /\ l.low = local.low /\ l.shown = local.shown
      /\ l.missing = local.missing /\ l.skip = local.skip /\ l.status = local.status
      /\ more \/ l.tip = Tip
  BY LocalZoneAssumption DEF Inv, TypeInv, TypeOK, Local
<1>2. /\ l.realTxs \in Nat /\ l.scanned \in Nat /\ l.batchIdx \in Nat
      /\ low \in 0..(Tip + 1) /\ n \in Nat /\ want \in Nat
  BY <1>1, LocalZoneAssumption DEF Local, StartOfWalk
<1>3. Continue(r, run, l) \/ Fails(r)
  BY DEF Asked
<1>4. runs[r] \in Run
  BY DEF Inv, TypeInv, TypeOK
<1> HIDE DEF l
<1>5. ~local.met => low = LowOf(local) /\ (more \/ (low = Tip + 1 /\ ~local.skip))
  <2> SUFFICES ASSUME ~local.met PROVE low = LowOf(local) /\ (more \/ (low = Tip + 1 /\ ~local.skip))
    OBVIOUS
  <2>1. RunInv(runs[r])
    BY <1>0, WindowOne
  <2> local.low \in 0..(Tip + 1)
    BY DEF Inv, TypeInv, TypeOK, Local
  <2>2. CASE more
    <3>1. local.low > 0 /\ l.low > 0
      BY <1>0, <1>1, <2>1, <2>2 DEF RunInv
    <3>2. low = local.low
      BY <1>1, <2>2, <3>1, Zenon DEF StartOfWalk
    <3>3. local.low # 0
      BY <3>1
    <3>4. QED BY <2>2, <3>2, <3>3, Zenon DEF LowOf
  <2>3. CASE ~more
    BY <1>0, <1>1, <2>1, <2>3 DEF RunInv, StartOfWalk, LowOf
  <2>4. QED BY <2>2, <2>3
<1> HIDE DEF low, n, want
<1>6. /\ run \in Run /\ run.low = low /\ run.batchIdx = n /\ run.more = more
  <2>1. run \in Run
    BY <1>2, <1>4, AskedType
  <2>2. QED BY <1>4, <2>1, Zenon DEF Run
<1> HIDE DEF run, more
<1>7. CASE Continue(r, run, l)
  <2>1. ~local.met => /\ W = Win(local, low) /\ W # Closed /\ local.status \notin {"idle", "error"}
                      /\ low >= 1
    BY <1>0, <1>1, <1>5, WindowOne, LocalZoneAssumption DEF Inv, LocalInv, LowOf, Local
  <2>2. Hands(r, run, l)
    BY <1>1, <1>5, <1>6, <2>1 DEF Hands, Inv, LocalInv, Clean
  <2>3. ~l.met => /\ LowOf(l) = run.low /\ FromTip(run, l)
                  /\ l.status \notin {"idle", "error"}
                  /\ l.status = "ok" => l.low > 0
    BY <1>1, <1>5, <1>6, <2>1 DEF Inv, LocalInv, LowOf, FromTip
  <2>4. /\ LocalInv' /\ SavedInv'
        /\ W' \in {Closed, Win(l, run.low)} /\ K' \in {K, W', Closed}
    BY <1>0, <1>7, <2>2, <2>3, ContinueStep
  <2>5. Win(l, run.low) \in {Closed, W}
    BY <1>1, <1>6, <2>1 DEF Win
  <2>6. W' \in {Closed, W}
    BY <2>4, <2>5
  <2>7. QED BY <2>4, <2>6, Moves DEF Kept
<1>8. QED BY <1>0, <1>3, <1>7, FailsStep

LEMMA NotFetchedStep ==
  ASSUME Inv, TypeInv', NEW r \in Runs, chain' = chain, NotFetched(r)
  PROVE  Kept
<1>0. r \in Going /\ runs[r].pc = "fetch"
  BY DEF NotFetched, Going
<1>1. CASE Fails(r)
  BY <1>0, <1>1, FailsStep
<1>2. CASE Finish(r, runs[r], local)
  <2>1. ~local.met => /\ W = Win(local, runs[r].low) /\ runs[r].low = LowOf(local)
    <3> SUFFICES ASSUME ~local.met PROVE W = Win(local, runs[r].low) /\ runs[r].low = LowOf(local)
      OBVIOUS
    <3>1. RunInv(runs[r]) /\ W = Win(local, LowOf(local))
      BY <1>0, WindowOne
    <3>2. QED BY <1>0, <3>1 DEF RunInv
  <2>2. Hands(r, runs[r], local)
    BY <1>0, <2>1 DEF Hands, Inv, TypeInv, Above, TypeOK, LocalInv, Run
  <2>3. /\ LocalInv' /\ SavedInv'
        /\ W' \in {Closed, Win(local, runs[r].low)} /\ K' \in {K, W', Closed}
    BY <1>0, <1>2, <2>2, FinishStep
  <2>4. W' \in {Closed, W}
    BY <2>1, <2>3 DEF Win
  <2>5. QED BY <2>3, <2>4, Moves DEF Kept
<1>3. QED BY <1>1, <1>2 DEF NotFetched

LEMMA NotDecodedStep ==
  ASSUME Inv, TypeInv', NEW r \in Runs, chain' = chain, NotDecoded(r)
  PROVE  Kept
<1>0. r \in Going /\ runs[r].pc = "decode"
  BY DEF NotDecoded, Going
<1>1. CASE Fails(r)
  BY <1>0, <1>1, FailsStep
<1> DEFINE lo == runs[r].low
           hi == runs[r].hi
           run == [runs[r] EXCEPT !.sent = {}]
           l   == [local EXCEPT !.missing = @ \cup (lo..hi)]
<1>2. CASE Finish(r, run, l)
  <2>1. runs[r] \in Run /\ local \in Local /\ lo >= 1 /\ lo \in 0..(Tip + 1) /\ hi \in 0..Tip
    BY <1>0 DEF Inv, TypeInv, TypeOK, Above, Run
  <2>2. run \in Run /\ run.low = lo
    BY <2>1 DEF Run
  <2>3. \A b \in lo..hi : b \in Blocks
    BY <2>1, LocalZoneAssumption DEF Blocks
  <2>4. /\ l \in Local /\ l.met = local.met /\ l.shown = local.shown
        /\ l.missing = local.missing \cup (lo..hi) /\ l.skip = local.skip
    BY <2>1, <2>3 DEF Local
  <2>5. ~local.met => /\ W = Win(local, hi + 1) /\ W # Closed
                      /\ lo = local.low /\ lo <= hi /\ Clean(local, hi + 1)
    <3> SUFFICES ASSUME ~local.met
                 PROVE  /\ W = Win(local, hi + 1) /\ W # Closed
                        /\ lo = local.low /\ lo <= hi /\ Clean(local, hi + 1)
      OBVIOUS
    <3>1. RunInv(runs[r]) /\ W = Win(local, hi + 1) /\ W # Closed
      BY <1>0, WindowOne
    <3>2. QED BY <1>0, <3>1 DEF RunInv
  <2> HIDE DEF lo, hi, run, l
  <2>6. ~l.met => Clean(l, lo)
    BY <2>1, <2>4, <2>5, LocalZoneAssumption DEF Clean, Blocks
  <2>7. Hands(r, run, l)
    BY <2>1, <2>2, <2>4, <2>6 DEF Hands, Inv, LocalInv
  <2>8. /\ LocalInv' /\ SavedInv'
        /\ W' \in {Closed, Win(l, lo)} /\ K' \in {K, W', Closed}
    BY <1>0, <1>2, <2>2, <2>7, FinishStep
  <2>9. CASE local.met
    BY <2>4, <2>8, <2>9, Moves DEF Kept, Win
  <2>10. CASE ~local.met
    <3>1. W = [low |-> hi + 1, shown |-> local.shown, missing |-> local.missing]
      BY <2>5, <2>10 DEF Win
    <3>2. Win(l, lo) = [low |-> lo, shown |-> W.shown, missing |-> W.missing \cup lo..(W.low - 1)]
      <4>1. W.low = hi + 1 /\ (hi + 1) - 1 = hi
        BY <2>1, <3>1
      <4>2. QED BY <2>4, <2>10, <3>1, <4>1 DEF Win
    <3>3. lo \in 1..(W.low - 1)
      BY <2>1, <2>5, <2>10, <3>1
    <3>4. \/ W' = Closed
          \/ W' = [low |-> lo, shown |-> W.shown, missing |-> W.missing \cup lo..(W.low - 1)]
      BY <2>8, <3>2
    <3>5. QED BY <2>5, <2>8, <2>10, <3>3, <3>4, Moves DEF Kept
  <2>11. QED BY <2>9, <2>10
<1>3. QED BY <1>1, <1>2 DEF NotDecoded

LEMMA DecodedStep ==
  ASSUME Inv, TypeInv', NEW r \in Runs, chain' = chain, Decoded(r)
  PROVE  Kept
<1>0. r \in Going /\ runs[r].pc = "decode"
  BY DEF Decoded, Going
<1> DEFINE lo    == runs[r].low
           hi    == runs[r].hi
           got   == {b \in runs[r].sent : chain[b] # "bad"}
           first == runs[r].batchIdx = 0
           fresh == IF first THEN got ELSE got \cap Real
           run   == [runs[r] EXCEPT !.real = @ + NewTxs(got),
                                    !.ok = @ \/ fresh # {}, !.batchIdx = @ + 1, !.sent = {}]
           skip  == IF first /\ ~run.more
                    THEN got = runs[r].sent /\ \A b \in got : chain[b] # "bare"
                    ELSE local.skip
           shown == [b \in Blocks |-> local.shown[b] + IF b \in got \cap Real THEN 1 ELSE 0]
           l     == [local EXCEPT
                       !.status = "ok", !.realTxs = run.real, !.batchIdx = run.batchIdx,
                       !.any = @ \/ fresh # {}, !.shown = shown, !.skip = skip]
<1>1. /\ runs[r] \in Run /\ local \in Local /\ lo >= 1 /\ lo \in 0..(Tip + 1) /\ hi \in 0..Tip
      /\ runs[r].batchIdx \in Nat
  BY <1>0 DEF Inv, TypeInv, TypeOK, Above, Run
<1>2. /\ run \in Run /\ run.low = lo /\ run.batchIdx = runs[r].batchIdx + 1
      /\ run.more = runs[r].more /\ run.real \in Nat
  <2>1. runs[r].real + NewTxs(got) \in Nat /\ runs[r].batchIdx + 1 \in Nat
    BY <1>1, NewTxsType DEF Run
  <2>2. (runs[r].ok \/ fresh # {}) \in BOOLEAN
    OBVIOUS
  <2> HIDE DEF got, fresh
  <2>3. run \in Run
    BY <1>1, <2>1, <2>2, DecodedType
  <2>4. QED BY <1>1, <2>1, <2>3 DEF Run
<1>3. Continue(r, run, l)
  BY Zenon DEF Decoded
<1>4. /\ skip \in BOOLEAN /\ shown \in [Blocks -> Nat]
      /\ run.batchIdx \in Nat
  <2>1. skip \in BOOLEAN
    BY <1>1 DEF Local
  <2>2. shown \in [Blocks -> Nat]
    BY <1>1 DEF Local
  <2>3. QED BY <1>1, <1>2, <2>1, <2>2
<1>5. /\ l \in Local /\ l.met = local.met /\ l.low = local.low /\ l.shown = shown
      /\ l.missing = local.missing /\ l.skip = skip /\ l.status = "ok"
  <2> HIDE DEF got, first, fresh, run, skip, shown
  <2> QED BY <1>1, <1>2, <1>4 DEF Local
<1> HIDE DEF run, l
<1>6. ~local.met => /\ W = Win(local, hi + 1) /\ W # Closed
                    /\ lo = local.low /\ lo <= hi /\ Clean(local, hi + 1)
                    /\ runs[r].sent \subseteq lo..hi /\ Real \cap (lo..hi) \subseteq runs[r].sent
                    /\ first /\ ~runs[r].more => \A b \in Blocks : b > Tip - FirstBatch => b \in runs[r].sent
  <2> SUFFICES ASSUME ~local.met
               PROVE  /\ W = Win(local, hi + 1) /\ W # Closed /\ RunInv(runs[r])
    BY <1>0 DEF RunInv
  <2> QED BY <1>0, WindowOne
<1>7. ~local.met => \A b \in Blocks : shown[b] = IF b \in lo..hi THEN (IF b \in Real THEN 1 ELSE 0)
                                                  ELSE local.shown[b]
  <2> SUFFICES ASSUME ~local.met, NEW b \in Blocks
               PROVE  shown[b] = IF b \in lo..hi THEN (IF b \in Real THEN 1 ELSE 0) ELSE local.shown[b]
    OBVIOUS
  <2>1. local.shown[b] \in Nat
    BY <1>1 DEF Local
  <2>2. b \in Real => chain[b] # "bad"
    BY DEF Real
  <2>3. CASE b \in lo..hi
    <3>1. local.shown[b] = 0
      BY <1>1, <1>6, <2>3 DEF Clean, Blocks
    <3>2. b \in got \cap Real <=> b \in Real
      BY <1>6, <2>2, <2>3
    <3>3. QED BY <2>3, <3>1, <3>2
  <2>4. CASE b \notin lo..hi
    <3>1. b \notin got
      BY <1>6, <2>4
    <3>2. QED BY <2>1, <2>4, <3>1
  <2>5. QED BY <2>3, <2>4
<1>8. ~local.met /\ skip => NoBare
  <2> SUFFICES ASSUME ~local.met, skip PROVE NoBare
    OBVIOUS
  <2>1. CASE first /\ ~runs[r].more
    <3>1. got = runs[r].sent /\ \A b \in got : chain[b] # "bare"
      BY <1>2, <2>1
    <3>2. \A b \in Blocks : b > Tip - FirstBatch => chain[b] \in {"tick", "full"}
      BY <1>6, <2>1, <3>1 DEF Inv, TypeInv, TypeOK, Kinds
    <3>3. QED BY <3>2 DEF NoBare, FairSample, Inv
  <2>2. CASE ~(first /\ ~runs[r].more)
    BY <1>2, <2>2 DEF Inv, LocalInv
  <2>3. QED BY <2>1, <2>2
<1> HIDE DEF lo, hi, got, first, skip, shown
<1>9. ~local.met => Clean(l, lo)
  BY <1>1, <1>5, <1>6, <1>7 DEF Clean, Blocks
<1>10. Hands(r, run, l)
  BY <1>1, <1>2, <1>5, <1>8, <1>9 DEF Hands
<1>11. ~l.met => /\ LowOf(l) = run.low /\ FromTip(run, l) /\ l.status \notin {"idle", "error"}
                 /\ l.status = "ok" => l.low > 0
  BY <1>1, <1>2, <1>5, <1>6 DEF LowOf, FromTip
<1>12. /\ LocalInv' /\ SavedInv'
       /\ W' \in {Closed, Win(l, lo)} /\ K' \in {K, W', Closed}
  BY <1>0, <1>2, <1>3, <1>10, <1>11, ContinueStep
<1>13. CASE local.met
  BY <1>5, <1>12, <1>13, Moves DEF Kept, Win
<1>14. CASE ~local.met
  <2>1. W = [low |-> hi + 1, shown |-> local.shown, missing |-> local.missing] /\ W # Closed
    BY <1>6, <1>14 DEF Win
  <2>2. W.low - 1 = hi /\ lo \in 1..(W.low - 1) /\ W.shown = local.shown /\ W.missing = local.missing
    BY <1>1, <1>6, <1>14, <2>1
  <2>3. l.shown = [b \in Blocks |-> IF b \in lo..(W.low - 1)
                                    THEN (IF b \in Real THEN 1 ELSE 0) ELSE W.shown[b]]
    BY <1>4, <1>5, <1>7, <1>14, <2>2
  <2>4. Win(l, lo) = [low |-> lo, missing |-> W.missing, shown |-> l.shown]
    BY <1>5, <1>14, <2>2 DEF Win
  <2>5. \/ W' = Closed
        \/ W' = [low |-> lo, missing |-> W.missing,
                 shown |-> [b \in Blocks |-> IF b \in lo..(W.low - 1)
                                             THEN (IF b \in Real THEN 1 ELSE 0) ELSE W.shown[b]]]
    BY <1>12, <2>3, <2>4
  <2>6. QED BY <1>12, <2>1, <2>2, <2>5, Moves DEF Kept
<1>15. QED BY <1>13, <1>14

LEMMA FetchedStep ==
  ASSUME Inv, TypeInv', NEW r \in Runs, chain' = chain, Fetched(r)
  PROVE  Kept
<1>0. r \in Going /\ runs[r].pc = "fetch"
  BY DEF Fetched, Going
<1> DEFINE lo   == LowEnd(runs[r])
           hi   == runs[r].low - 1
           sent == ToSend(local, lo, hi)
           run  == [runs[r] EXCEPT !.low = lo, !.hi = hi, !.scanned = @ + (hi - lo + 1), !.sent = sent]
           l    == [local EXCEPT !.low = lo, !.scanned = run.scanned]
           past == [run EXCEPT !.batchIdx = @ + 1]
           next == [run EXCEPT !.pc = "decode"]
<1>7. \/ sent = {} /\ Continue(r, past, l)
      \/ sent # {} /\ runs' = [runs EXCEPT ![r] = next] /\ local' = l /\ UNCHANGED saved
  BY Zenon DEF Fetched
<1>1. /\ runs[r] \in Run /\ local \in Local /\ runs[r].low > 1 /\ runs[r].low \in 0..(Tip + 1)
      /\ runs[r].batchIdx \in Nat /\ runs[r].scanned \in Nat
  BY <1>0 DEF Inv, TypeInv, TypeOK, Above, Run
<1>2. /\ lo \in 1..hi /\ hi \in 1..Tip
      /\ runs[r].batchIdx = 0 => lo <= IF runs[r].low - FirstBatch < 1 THEN 1 ELSE runs[r].low - FirstBatch
  BY <1>1, BatchType
<1>3. sent = {b \in lo..hi : local.skip => chain[b] \in {"full", "bad"}} /\ sent \subseteq lo..hi
  BY DEF ToSend
<1> HIDE DEF lo
<1>4. \A b \in lo..hi : b \in Blocks
  BY <1>2, LocalZoneAssumption DEF Blocks
<1> HIDE DEF sent
<1>5. run \in Run /\ run.scanned \in Nat
  <2>1. runs[r].scanned + (hi - lo + 1) \in Nat
    BY <1>1, <1>2, LocalZoneAssumption
  <2>2. sent \subseteq Blocks
    BY <1>3, <1>4
  <2>3. lo \in 0..(Tip + 1) /\ hi \in 0..Tip
    BY <1>2, LocalZoneAssumption
  <2> HIDE DEF hi
  <2>4. run \in Run
    BY <1>1, <2>1, <2>2, <2>3, FetchedType
  <2>5. QED BY <2>4 DEF Run
<1>6. /\ run.low = lo /\ run.hi = hi /\ run.sent = sent /\ run.more = runs[r].more
      /\ run.batchIdx = runs[r].batchIdx
  BY <1>1 DEF Run
<1> HIDE DEF run
<1>8. /\ l \in Local /\ l.met = local.met /\ l.low = lo /\ l.shown = local.shown
      /\ l.missing = local.missing /\ l.skip = local.skip /\ l.status = local.status
  <2>1. lo \in 0..(Tip + 1)
    BY <1>2, LocalZoneAssumption
  <2> HIDE DEF hi
  <2>2. QED BY <1>1, <1>5, <2>1 DEF Local
<1>9. /\ past \in Run /\ past.low = lo /\ past.batchIdx = runs[r].batchIdx + 1 /\ past.more = run.more
      /\ next.pc = "decode" /\ next.low = lo /\ next.hi = hi /\ next.sent = sent
      /\ next.batchIdx = runs[r].batchIdx /\ next.more = runs[r].more
  BY <1>1, <1>5, <1>6 DEF Run
<1> HIDE DEF l, past, next
<1>10. ~local.met => /\ Going = {r} /\ W = Win(local, hi + 1) /\ W # Closed
                     /\ Clean(local, hi + 1) /\ FromTip(runs[r], local)
  <2> SUFFICES ASSUME ~local.met
               PROVE  /\ Going = {r} /\ W = Win(local, hi + 1) /\ W # Closed
                      /\ Clean(local, hi + 1) /\ FromTip(runs[r], local)
    OBVIOUS
  <2>1. Going = {r} /\ RunInv(runs[r]) /\ W = Win(local, LowOf(local)) /\ W # Closed
    BY <1>0, WindowOne
  <2>2. runs[r].low = LowOf(local) /\ hi + 1 = runs[r].low
    BY <1>0, <1>1, <2>1 DEF RunInv
  <2>3. QED BY <1>0, <2>1, <2>2 DEF Inv, LocalInv, RunInv
<1>11. ~local.met => Real \cap (lo..hi) \subseteq sent
  <2>1. ~local.met /\ local.skip => NoBare
    BY DEF Inv, LocalInv
  <2>2. QED BY <1>3, <1>4, <2>1 DEF Real, NoBare
<1> HIDE DEF hi
<1>12. ~l.met => Clean(l, lo) /\ LowOf(l) = lo
  BY <1>2, <1>8, <1>10, LocalZoneAssumption DEF Clean, LowOf, Blocks
<1>13. ~l.met => /\ l.status \notin {"idle", "error"}
                 /\ l.status = "ok" => l.low > 0
                 /\ l.skip => NoBare
  BY <1>0, <1>2, <1>8 DEF Inv, LocalInv
<1>14. CASE Continue(r, past, l) /\ sent = {}
  <2>1. Hands(r, past, l)
    BY <1>2, <1>8, <1>9, <1>12, <1>13 DEF Hands
  <2>2. ~l.met => FromTip(past, l)
    BY <1>1, <1>9 DEF FromTip
  <2>3. /\ LocalInv' /\ SavedInv'
        /\ W' \in {Closed, Win(l, lo)} /\ K' \in {K, W', Closed}
    BY <1>0, <1>9, <1>12, <1>13, <1>14, <2>1, <2>2, ContinueStep
  <2>4. CASE local.met
    BY <1>8, <2>3, <2>4, Moves DEF Kept, Win
  <2>5. CASE ~local.met
    <3>1. W = [low |-> hi + 1, shown |-> local.shown, missing |-> local.missing] /\ W # Closed
      BY <1>10, <2>5 DEF Win
    <3>2. W.low - 1 = hi /\ lo \in 1..(W.low - 1) /\ W.shown = local.shown /\ W.missing = local.missing
      BY <1>2, <3>1
    <3>3. \A b \in Blocks : local.shown[b] = IF b \in lo..hi THEN (IF b \in Real THEN 1 ELSE 0)
                                             ELSE local.shown[b]
      BY <1>2, <1>10, <1>11, <1>14, <2>5 DEF Clean, Blocks
    <3>4. local.shown = [b \in Blocks |-> IF b \in lo..(W.low - 1)
                                          THEN (IF b \in Real THEN 1 ELSE 0) ELSE W.shown[b]]
      BY <1>1, <3>2, <3>3 DEF Local
    <3>5. Win(l, lo) = [low |-> lo, missing |-> W.missing, shown |-> local.shown]
      BY <1>8, <2>5, <3>2 DEF Win
    <3>6. \/ W' = Closed
          \/ W' = [low |-> lo, missing |-> W.missing,
                   shown |-> [b \in Blocks |-> IF b \in lo..(W.low - 1)
                                               THEN (IF b \in Real THEN 1 ELSE 0) ELSE W.shown[b]]]
      BY <2>3, <3>4, <3>5
    <3>7. QED BY <2>3, <3>1, <3>2, <3>6, Moves DEF Kept
  <2>6. QED BY <2>4, <2>5
<1>15. CASE sent # {} /\ runs' = [runs EXCEPT ![r] = next] /\ local' = l /\ saved' = saved
  <2>1. K' = K /\ SavedInv'
    BY <1>15 DEF K, Inv, SavedInv, Clean, LowOf
  <2>2. CASE local.met
    BY <1>8, <1>15, <2>1, <2>2, Moves DEF Kept, LocalInv, W, Shows, Closed
  <2>3. CASE ~local.met
    <3>1. runs'[r] = next /\ Going' = {r}
      BY <1>9, <1>10, <1>15, <2>3 DEF Going, Inv, TypeInv, TypeOK
    <3>2. Lower(Going)' = hi + 1
      <4>1. (Going = {r} /\ runs[r].pc = "decode")'
        BY <1>9, <3>1
      <4>2. hi \in Blocks
        BY <1>2, LocalZoneAssumption DEF Blocks
      <4>3. (CHOOSE h \in Blocks : \E q \in Going' : runs'[q].pc = "decode" /\ h = runs'[q].hi) = hi
        BY <1>9, <3>1, <4>2
      <4>4. Lower(Going)' = (CHOOSE h \in Blocks : \E q \in Going' : runs'[q].pc = "decode" /\ h = runs'[q].hi) + 1
        BY <4>1, Zenon DEF Lower
      <4>5. QED BY <4>3, <4>4
    <3>3. W' = W
      BY <1>8, <1>10, <1>13, <1>15, <2>3, <3>2 DEF W, Shows, Win
    <3>4. Clean(l, hi + 1)
      BY <1>8, <1>10, <2>3 DEF Clean
    <3>5. runs[r].batchIdx = 0 /\ ~runs[r].more => \A b \in Blocks : b > Tip - FirstBatch => b \in sent
      <4> SUFFICES ASSUME runs[r].batchIdx = 0, ~runs[r].more, NEW b \in Blocks, b > Tip - FirstBatch
                   PROVE  b \in sent
        OBVIOUS
      <4>1. runs[r].low = Tip + 1 /\ ~local.skip
        BY <1>10, <2>3 DEF FromTip
      <4>2. hi = Tip
        BY <1>2, <4>1, LocalZoneAssumption DEF hi
      <4>3. b \in lo..hi
        BY <1>2, <4>1, <4>2, LocalZoneAssumption DEF Blocks
      <4>4. QED BY <1>3, <4>1, <4>3
    <3>6. RunInv(runs[r])'
      BY <1>2, <1>3, <1>8, <1>9, <1>11, <1>15, <2>3, <3>1, <3>4, <3>5 DEF RunInv, Clean, Real
    <3>7. LocalInv'
      BY <1>8, <1>12, <1>13, <1>15, <2>3, <3>1, <3>6 DEF LocalInv, Clean, LowOf, NoBare
    <3>8. QED BY <2>1, <3>3, <3>7, Moves DEF Kept
  <2>4. QED BY <2>2, <2>3
<1>16. QED BY <1>7, <1>14, <1>15

LEMMA InvInit == Init => Inv /\ Promise!Init
<1> SUFFICES ASSUME Init PROVE Inv /\ Promise!Init
  OBVIOUS
<1>1. TypeInv /\ FairSample(chain)
  BY TypeInit DEF Init
<1>2. /\ Fresh.status = "idle" /\ Fresh.low = 0 /\ Fresh.skip = FALSE
      /\ Fresh.shown = [b \in Blocks |-> 0] /\ Fresh.missing = {}
  BY DEF Fresh
<1>3. local = Fresh /\ saved = Fresh /\ Going = {}
  BY DEF Init, Going, NoRun
<1>4. LocalInv /\ SavedInv
  BY <1>2, <1>3, Zenon DEF LocalInv, SavedInv, Clean
<1>5. /\ Shows(local, Lower(Going)) = Promise!Closed
      /\ Shows(saved, LowOf(saved)) = Promise!Closed
  BY <1>2, <1>3 DEF Shows, Promise!Closed, Promise!Blocks, Blocks
<1>6. Real \subseteq Promise!Blocks
  BY DEF Real, Blocks, Promise!Blocks
<1>7. QED BY <1>1, <1>4, <1>5, <1>6 DEF Inv, Promise!Init

LEMMA InvStep == Inv /\ [Next]_vars => Inv' /\ [Promise!Next]_<<Real, W, K>>
<1> SUFFICES ASSUME Inv, [Next]_vars PROVE Inv' /\ [Promise!Next]_<<Real, W, K>>
  OBVIOUS
<1>1. TypeInv'
  BY TypeStep DEF Inv
<1>2. chain' = chain
  BY DEF Next, Disconnect, NewPage, Connect, More, Walk, vars
<1>3. FairSample(chain)'
  BY <1>2 DEF FairSample, Inv
<1>4. CASE UNCHANGED vars
  <2>1. LocalInv' /\ SavedInv'
    BY <1>4 DEF vars, Inv, LocalInv, SavedInv, RunInv, Clean, LowOf, FromTip, NoBare, Going, Real
  <2>2. UNCHANGED <<Real, W, K>>
    BY <1>4 DEF vars, W, K, Lower, Going, Real, LowOf
  <2>3. QED BY <1>1, <1>3, <2>1, <2>2 DEF Inv
<1>5. CASE Next
  <2>1. ASSUME NEW r \in Runs, Walk(r) PROVE Kept
    BY <1>1, <1>2, <2>1, OpenedStep, AskedStep, FetchedStep, NotFetchedStep, DecodedStep,
       NotDecodedStep DEF Walk
  <2>2. Kept
    BY <1>5, <2>1, DisconnectStep, NewPageStep, ConnectStep, MoreStep DEF Next
  <2>3. QED BY <1>1, <1>3, <2>2 DEF Kept, Inv
<1>6. QED BY <1>4, <1>5

\* A visitor's reader shows a window of the chain: all of it from some block up, each
\* transaction once but for whole batches that were refused, and what a later page
\* restores is a window the reader had.  It holds whatever the batch sizes and limits
\* are, for a chain whose newest batch is a fair sample, until two runs meet.
THEOREM ReadsAWindow == Spec => Refines
<1>1. Init => Inv /\ Promise!Init
  BY InvInit
<1>2. Inv /\ [Next]_vars => Inv' /\ [Promise!Next]_<<Real, W, K>>
  BY InvStep
<1>3. Spec => [][Promise!Next]_<<Real, W, K>>
  BY <1>1, <1>2, PTL DEF Spec
<1>4. Spec => Promise!Init /\ [][Promise!Next]_<<Real, W, K>>
  BY <1>1, <1>3, PTL DEF Spec
<1>5. QED BY <1>4 DEF Refines, Promise!Spec, W, K

\* A window that can still grow: nothing below it is given up.
Tidy(w) == \/ w = Closed
           \/ /\ w.low \in 1..(Tip + 1) /\ Promise!Exact(w)
              /\ \A b \in Blocks : b < w.low => b \notin w.missing

LEMMA TidyStep ==
  ASSUME Tidy(W), Tidy(K), [Promise!Next]_<<Real, W, K>>
  PROVE  Tidy(W)' /\ Tidy(K)'
<1> USE DEF Promise!Exact
<1>1. /\ Promise!Closed = Closed /\ Promise!Top = Top /\ Promise!Blocks = Blocks
      /\ Shows(local, Lower(Going)) = W /\ Shows(saved, LowOf(saved)) = K
      /\ Shows(local, Lower(Going))' = W' /\ Shows(saved, LowOf(saved))' = K'
  BY DEF Promise!Closed, Promise!Top, Promise!Blocks, Closed, Top, Blocks, W, K
<1>2. Real' = Real
  BY DEF Promise!Next
<1>3. Tidy(Closed) /\ Tidy(Top)
  BY <1>1, LocalZoneAssumption DEF Tidy, Top, Blocks
<1> HIDE DEF W, K
<1>4. ASSUME NEW lo \in 1..(W.low - 1), W # Closed,
             W' = [low |-> lo, missing |-> W.missing,
                   shown |-> [b \in Blocks |-> IF b \in lo..(W.low - 1)
                                               THEN (IF b \in Real THEN 1 ELSE 0) ELSE W.shown[b]]]
      PROVE  Tidy(W')
  <2>1. W'.low = lo /\ W'.missing = W.missing /\ lo \in 1..(Tip + 1) /\ W.low \in 1..(Tip + 1)
    BY <1>4, LocalZoneAssumption DEF Tidy
  <2>2. ASSUME NEW b \in Blocks
        PROVE  /\ W'.shown[b] = IF b >= lo /\ b \in Real \ W.missing THEN 1 ELSE 0
               /\ b < lo => b \notin W.missing
    <3>1. W.shown[b] = IF b >= W.low /\ b \in Real \ W.missing THEN 1 ELSE 0
      BY <1>1, <1>4 DEF Tidy
    <3>2. b < W.low => b \notin W.missing
      BY <1>4 DEF Tidy
    <3>3. W'.shown[b] = IF b \in lo..(W.low - 1) THEN (IF b \in Real THEN 1 ELSE 0) ELSE W.shown[b]
      BY <1>4
    <3>4. QED BY <2>1, <3>1, <3>2, <3>3 DEF Blocks
  <2>3. QED BY <1>1, <2>1, <2>2 DEF Tidy
<1>5. ASSUME NEW lo \in 1..(W.low - 1), W # Closed,
             W' = [low |-> lo, shown |-> W.shown, missing |-> W.missing \cup lo..(W.low - 1)]
      PROVE  Tidy(W')
  <2>1. W'.low = lo /\ W'.missing = W.missing \cup lo..(W.low - 1) /\ W'.shown = W.shown
        /\ lo \in 1..(Tip + 1) /\ W.low \in 1..(Tip + 1)
    BY <1>5, LocalZoneAssumption DEF Tidy
  <2>2. ASSUME NEW b \in Blocks
        PROVE  /\ W'.shown[b] = IF b >= lo /\ b \in Real \ W'.missing THEN 1 ELSE 0
               /\ b < lo => b \notin W'.missing
    <3>1. W.shown[b] = IF b >= W.low /\ b \in Real \ W.missing THEN 1 ELSE 0
      BY <1>1, <1>5 DEF Tidy
    <3>2. b < W.low => b \notin W.missing
      BY <1>5 DEF Tidy
    <3>3. QED BY <2>1, <3>1, <3>2 DEF Blocks
  <2>3. QED BY <1>1, <2>1, <2>2 DEF Tidy
<1>6. \/ W' \in {W, K, Closed, Top}
      \/ \E lo \in 1..(W.low - 1) : W # Closed /\
           \/ W' = [low |-> lo, missing |-> W.missing,
                    shown |-> [b \in Blocks |-> IF b \in lo..(W.low - 1)
                                                THEN (IF b \in Real THEN 1 ELSE 0) ELSE W.shown[b]]]
           \/ W' = [low |-> lo, shown |-> W.shown, missing |-> W.missing \cup lo..(W.low - 1)]
  BY <1>1, Zenon DEF Promise!Next, Promise!Close, Promise!Open, Promise!Restore, Promise!Extend,
     Promise!Lose
<1>7. K' \in {K, W', Closed}
  BY <1>1, Zenon DEF Promise!Next
<1>8. Tidy(W')
  BY <1>3, <1>4, <1>5, <1>6
<1>9. QED BY <1>2, <1>3, <1>7, <1>8 DEF Tidy

\* What that promise amounts to: in the table of the local zone, and in what the
\* session keeps of it, every transaction from the lowest block on is there exactly
\* once, unless its batch was refused.
THEOREM WindowIsExact == Spec => [](Promise!Exact(W) /\ Promise!Exact(K))
<1> DEFINE AllTidy == Tidy(W) /\ Tidy(K)
<1>1. Init => Inv /\ AllTidy
  BY InvInit DEF Promise!Init, Tidy, W, K, Closed, Promise!Closed, Promise!Blocks, Blocks
<1>2. Inv /\ AllTidy /\ [Next]_vars => (Inv /\ AllTidy)'
  BY InvStep, TidyStep
<1>3. Inv /\ AllTidy => Promise!Exact(W) /\ Promise!Exact(K)
  BY DEF Tidy, Promise!Exact, Closed, Promise!Closed, Promise!Blocks, Blocks
<1> HIDE DEF AllTidy
<1>4. QED BY <1>1, <1>2, <1>3, PTL DEF Spec

--------------------------------------------------------------------------------
(* The counters *)

ShownIn(l) == {b \in Blocks : l.shown[b] = 1}

\* The counters of a LOCAL say what it shows and how far down it was read.
Right(l) == /\ \A b \in Blocks : l.shown[b] <= 1
            /\ l.realTxs = Cardinality(ShownIn(l))
            /\ l.scanned = Tip + 1 - LowOf(l)
            /\ l.genesis => l.low = 1

\* A run goes by counters of its own, which LOCAL follows.
Abreast(run, l) == run.low = LowOf(l) /\ run.real = l.realTxs /\ run.scanned = l.scanned

CountInv ==
  /\ ~local.met => /\ Right(local)
                   /\ \A r \in Going : runs[r].pc \in {"fetch", "decode"} => Abreast(runs[r], local)
  /\ ~saved.met => Right(saved)

LEMMA FreshRight ==
  ASSUME NEW l, l.low = 0, l.scanned = 0, l.realTxs = 0, l.genesis = FALSE,
         l.shown = [b \in Blocks |-> 0]
  PROVE  Right(l)
<1>1. ShownIn(l) = {}
  BY DEF ShownIn
<1>2. Cardinality(ShownIn(l)) = 0
  BY <1>1, FS_EmptySet
<1>3. LowOf(l) = Tip + 1 /\ 0 = Tip + 1 - (Tip + 1)
  BY LocalZoneAssumption DEF LowOf
<1>4. QED BY <1>2, <1>3 DEF Right

\* What the counters do not depend on.
LEMMA SameRight ==
  ASSUME NEW l, NEW m, Right(l), m.low = l.low, m.scanned = l.scanned, m.realTxs = l.realTxs,
         m.genesis = l.genesis, m.shown = l.shown
  PROVE  Right(m) /\ LowOf(m) = LowOf(l)
  BY DEF Right, ShownIn, LowOf

LEMMA FinishCounts ==
  ASSUME Inv, CountInv, NEW r \in Runs, r \in Going,
         NEW run, NEW l, Hands(r, run, l), ~l.met => Right(l) /\ Abreast(run, l),
         Finish(r, run, l)
  PROVE  CountInv'
<1> USE DEF Hands
<1> DEFINE walked == [l EXCEPT !.scanned = run.scanned, !.low = run.low, !.realTxs = run.real,
                               !.batchIdx = run.batchIdx, !.genesis = run.low <= 1,
                               !.more = run.low > 1 /\ run.scanned < MaxBlocks]
           done == [walked EXCEPT !.status = IF run.scanned > 0 /\ (run.ok \/ l.any) THEN "ok" ELSE "error"]
<1>1. /\ done.met = l.met /\ done.low = run.low /\ done.shown = l.shown
      /\ done.scanned = run.scanned /\ done.realTxs = run.real /\ done.genesis = (run.low <= 1)
  BY DEF Local
<1>2. local' = done /\ saved' \in {saved, done, Fresh} /\ Ends(r)
  BY Zenon DEF Finish
<1> HIDE DEF walked, done
<1>3. ~l.met => Right(done)
  <2> SUFFICES ASSUME ~l.met PROVE Right(done)
    OBVIOUS
  <2>1. run.low \in Nat /\ run.low >= 1 /\ LowOf(done) = run.low /\ LowOf(l) = run.low
    BY <1>1, LocalZoneAssumption DEF Run, LowOf, Abreast
  <2>2. ShownIn(done) = ShownIn(l)
    BY <1>1 DEF ShownIn
  <2>3. done.genesis => done.low = 1
    <3>1. done.genesis => run.low <= 1
      BY <1>1, Zenon
    <3>2. QED BY <1>1, <2>1, <3>1
  <2>4. done.realTxs = l.realTxs /\ done.scanned = l.scanned
    BY <1>1 DEF Abreast
  <2>5. QED BY <1>1, <2>1, <2>2, <2>3, <2>4 DEF Right
<1>4. ~local'.met => Going' = {}
  <2> SUFFICES ASSUME ~l.met PROVE Going' = {}
    BY <1>1, <1>2
  <2>1. Going = {r}
    BY DEF Inv, LocalInv
  <2>2. runs' = [runs EXCEPT ![r] = NoRun] /\ NoRun.pc = "none"
    BY <1>2 DEF Ends, NoRun
  <2>3. QED BY <2>1, <2>2 DEF Going, Inv, TypeInv, TypeOK
<1>5. Right(Fresh)
  BY FreshRight DEF Fresh
<1>6. ~local'.met => Right(local')
  BY <1>1, <1>2, <1>3
<1>7. ~saved'.met => Right(saved')
  BY <1>1, <1>2, <1>3, <1>5 DEF CountInv
<1>8. (~local.met => Right(local))' /\ (~saved.met => Right(saved))'
  BY <1>6, <1>7 DEF Right, ShownIn, LowOf
<1>9. QED BY <1>4, <1>8 DEF CountInv

LEMMA ContinueCounts ==
  ASSUME Inv, CountInv, NEW r \in Runs, r \in Going,
         NEW run, NEW l, Hands(r, run, l), ~l.met => Right(l) /\ Abreast(run, l),
         Continue(r, run, l)
  PROVE  CountInv'
<1>1. CASE Finish(r, run, l)
  BY <1>1, FinishCounts
<1>2. CASE /\ runs' = [runs EXCEPT ![r] = [run EXCEPT !.pc = "fetch"]]
           /\ local' = l /\ UNCHANGED saved
  <2>1. ~saved'.met => Right(saved)'
    BY <1>2 DEF CountInv, Right, ShownIn, LowOf
  <2>2. CASE l.met
    BY <1>2, <2>1, <2>2 DEF CountInv
  <2>3. CASE ~l.met
    <3>1. Going = {r} /\ run \in Run
      BY <2>3 DEF Inv, LocalInv, Hands
    <3> DEFINE next == [run EXCEPT !.pc = "fetch"]
    <3>2. next.low = run.low /\ next.real = run.real /\ next.scanned = run.scanned /\ next.pc = "fetch"
      BY <3>1 DEF Run
    <3> HIDE DEF next
    <3>3. runs'[r] = next /\ Going' = {r}
      BY <1>2, <3>1, <3>2 DEF Going, Inv, TypeInv, TypeOK, next
    <3>4. Abreast(runs[r], local)'
      BY <1>2, <2>3, <3>2, <3>3 DEF Abreast, LowOf
    <3>5. Right(local)'
      BY <1>2, <2>3 DEF Right, ShownIn, LowOf
    <3>6. QED BY <2>1, <3>3, <3>4, <3>5 DEF CountInv
  <2>4. QED BY <2>2, <2>3
<1>3. QED BY <1>1, <1>2, Zenon DEF Continue

LEMMA FailsCounts ==
  ASSUME Inv, CountInv, NEW r \in Runs, r \in Going, Fails(r)
  PROVE  CountInv'
<1>1. local' = [local EXCEPT !.status = "error"] /\ saved' = saved
  BY DEF Fails
<1>2. /\ local'.met = local.met /\ local'.low = local.low /\ local'.shown = local.shown
      /\ local'.scanned = local.scanned /\ local'.realTxs = local.realTxs
      /\ local'.genesis = local.genesis
  BY <1>1 DEF Inv, TypeInv, TypeOK, Local
<1>3. ~local.met => Going' = {}
  <2> SUFFICES ASSUME ~local.met PROVE Going' = {}
    OBVIOUS
  <2>1. Going = {r}
    BY DEF Inv, LocalInv
  <2>2. runs' = [runs EXCEPT ![r] = NoRun] /\ NoRun.pc = "none"
    BY DEF Fails, Ends, NoRun
  <2>3. QED BY <2>1, <2>2 DEF Going, Inv, TypeInv, TypeOK
<1>4. ~local'.met => Right(local)'
  BY <1>2, SameRight DEF CountInv, Right, ShownIn, LowOf
<1>5. QED BY <1>1, <1>2, <1>3, <1>4 DEF CountInv, Right, ShownIn, LowOf

LEMMA PanelCounts ==
  ASSUME Inv, CountInv, Disconnect \/ NewPage \/ \E r \in Runs : Connect(r) \/ More(r)
  PROVE  CountInv'
<1>f. /\ Fresh.low = 0 /\ Fresh.scanned = 0 /\ Fresh.realTxs = 0 /\ Fresh.genesis = FALSE
      /\ Fresh.shown = [b \in Blocks |-> 0] /\ Right(Fresh)
  BY FreshRight DEF Fresh
<1>1. CASE Disconnect
  <2>1. /\ local'.met = (Going # {}) /\ local'.low = 0 /\ local'.scanned = 0 /\ local'.realTxs = 0
        /\ local'.genesis = FALSE /\ local'.shown = [b \in Blocks |-> 0]
    BY <1>1, Zenon DEF Disconnect, Fresh
  <2>2. Right(local') /\ saved' = Fresh /\ Going' = Going
    BY <1>1, <2>1, FreshRight DEF Disconnect, Going
  <2>3. Right(local)' /\ Right(saved)'
    BY <1>f, <2>2 DEF Right, ShownIn, LowOf
  <2>4. QED BY <2>1, <2>2, <2>3 DEF CountInv
<1>2. CASE NewPage
  <2>1. Going' = {} /\ saved' = saved
    BY <1>2 DEF NewPage, Going, NoRun
  <2>2. ~local'.met => Right(local')
    <3>1. CASE saved.any
      <4>1. local' = [saved EXCEPT !.skip = FALSE] /\ saved \in Local
        BY <1>2, <3>1 DEF NewPage, Inv, TypeInv, TypeOK
      <4>2. /\ local'.met = saved.met /\ local'.low = saved.low /\ local'.shown = saved.shown
            /\ local'.scanned = saved.scanned /\ local'.realTxs = saved.realTxs
            /\ local'.genesis = saved.genesis
        BY <4>1 DEF Local
      <4>3. QED BY <4>2, SameRight DEF CountInv
    <3>2. CASE ~saved.any
      BY <1>2, <1>f, <3>2 DEF NewPage
    <3>3. QED BY <3>1, <3>2
  <2>3. (~local.met => Right(local))' /\ (~saved.met => Right(saved))'
    BY <2>1, <2>2 DEF CountInv, Right, ShownIn, LowOf
  <2>4. QED BY <2>1, <2>3 DEF CountInv
<1>3. ASSUME NEW r \in Runs, Connect(r) PROVE CountInv'
  <2>1. /\ local'.met = (Going # {}) /\ local'.low = 0 /\ local'.scanned = 0 /\ local'.realTxs = 0
        /\ local'.genesis = FALSE /\ local'.shown = [b \in Blocks |-> 0]
    BY <1>3, Zenon DEF Connect, Fresh
  <2>2. /\ runs'[r].pc = "open" /\ \A q \in Runs \ {r} : runs'[q] = runs[q]
    BY <1>3 DEF Connect, NoRun, Inv, TypeInv, TypeOK
  <2>3. Right(local') /\ saved' = saved
    BY <1>3, <2>1, FreshRight DEF Connect
  <2>4. Right(local)' /\ (~saved.met => Right(saved))'
    BY <2>3 DEF CountInv, Right, ShownIn, LowOf
  <2>5. ~local'.met => Going' = {r}
    <3>1. ~local'.met => Going = {}
      BY <2>1, Zenon
    <3>2. QED BY <2>2, <3>1 DEF Going
  <2>6. QED BY <2>2, <2>4, <2>5 DEF CountInv
<1>4. ASSUME NEW r \in Runs, More(r) PROVE CountInv'
  <2>1. /\ local'.met = (local.met \/ Going # {}) /\ local'.low = local.low
        /\ local'.scanned = local.scanned /\ local'.realTxs = local.realTxs
        /\ local'.genesis = local.genesis /\ local'.shown = local.shown
    BY <1>4, Zenon DEF More, Inv, TypeInv, TypeOK, Local
  <2>2. /\ runs'[r].pc = "open" /\ \A q \in Runs \ {r} : runs'[q] = runs[q]
    BY <1>4 DEF More, NoRun, Inv, TypeInv, TypeOK
  <2>3. ~local'.met => Right(local')
    BY <2>1, SameRight DEF CountInv
  <2>4. (~local.met => Right(local))' /\ (~saved.met => Right(saved))'
    BY <1>4, <2>3 DEF More, CountInv, Right, ShownIn, LowOf
  <2>5. ~local'.met => Going' = {r}
    <3>1. ~local'.met => Going = {}
      BY <2>1, Zenon
    <3>2. QED BY <2>2, <3>1 DEF Going
  <2>6. QED BY <2>2, <2>4, <2>5 DEF CountInv
<1>5. QED BY <1>1, <1>2, <1>3, <1>4

LEMMA OpenedCounts ==
  ASSUME Inv, CountInv, NEW r \in Runs, Opened(r)
  PROVE  CountInv'
<1>0. r \in Going
  BY DEF Opened, Going
<1>1. CASE /\ local' = [local EXCEPT !.status = "reading"]
           /\ runs' = [runs EXCEPT ![r].pc = "ask"] /\ saved' = saved
  <2>1. /\ local'.met = local.met /\ local'.low = local.low /\ local'.shown = local.shown
        /\ local'.scanned = local.scanned /\ local'.realTxs = local.realTxs
        /\ local'.genesis = local.genesis
    BY <1>1 DEF Inv, TypeInv, TypeOK, Local
  <2>2. runs'[r].pc = "ask" /\ \A q \in Runs \ {r} : runs'[q] = runs[q]
    BY <1>1 DEF Inv, TypeInv, TypeOK, Run
  <2>3. ~local.met => Going' = {r}
    BY <1>0, <2>2 DEF Inv, LocalInv, Going
  <2>4. ~local'.met => Right(local')
    BY <2>1, SameRight DEF CountInv
  <2>5. (~local.met => Right(local))' /\ (~saved.met => Right(saved))'
    BY <1>1, <2>4 DEF CountInv, Right, ShownIn, LowOf
  <2>6. QED BY <2>1, <2>2, <2>3, <2>5 DEF CountInv
<1>2. QED BY <1>0, <1>1, FailsCounts DEF Opened

LEMMA AskedCounts ==
  ASSUME Inv, CountInv, NEW r \in Runs, Asked(r)
  PROVE  CountInv'
<1>0. r \in Going /\ runs[r].pc = "ask" /\ runs[r] \in Run /\ local \in Local
  BY DEF Asked, Going, Inv, TypeInv, TypeOK
<1> DEFINE more == runs[r].more
           l    == IF more THEN local ELSE [local EXCEPT !.tip = Tip]
           low  == StartOfWalk(more, l)
           n    == IF more THEN l.batchIdx ELSE 0
           want == IF more THEN l.realTxs + MoreTxs ELSE MinTxs
           run  == [runs[r] EXCEPT !.real = l.realTxs, !.scanned = l.scanned, !.low = low,
                                   !.batchIdx = n, !.started = n, !.want = want]
<1>1. /\ l \in Local /\ l.met = local.met /\ l.low = local.low /\ l.shown = local.shown
      /\ l.missing = local.missing /\ l.skip = local.skip /\ l.scanned = local.scanned
      /\ l.realTxs = local.realTxs /\ l.genesis = local.genesis
      /\ more \/ l.tip = Tip
  BY <1>0, LocalZoneAssumption DEF Local
<1>2. /\ l.realTxs \in Nat /\ l.scanned \in Nat /\ l.batchIdx \in Nat
      /\ low \in 0..(Tip + 1) /\ n \in Nat /\ want \in Nat
  BY <1>1, LocalZoneAssumption DEF Local, StartOfWalk
<1>3. Continue(r, run, l) \/ Fails(r)
  BY DEF Asked
<1> HIDE DEF l
<1>4. ~local.met => low = LowOf(local) /\ low >= 1
  <2> SUFFICES ASSUME ~local.met PROVE low = LowOf(local) /\ low >= 1
    OBVIOUS
  <2>1. RunInv(runs[r])
    BY <1>0, WindowOne
  <2>2. local.low \in 0..(Tip + 1)
    BY <1>0 DEF Local
  <2>3. CASE more
    <3>1. local.low > 0 /\ l.low > 0
      BY <1>0, <1>1, <2>1, <2>3 DEF RunInv
    <3>2. low = local.low
      BY <1>1, <2>3, <3>1, Zenon DEF StartOfWalk
    <3>3. local.low # 0 /\ low >= 1
      BY <2>2, <3>1, <3>2
    <3>4. QED BY <3>2, <3>3, Zenon DEF LowOf
  <2>4. CASE ~more
    BY <1>0, <1>1, <2>1, <2>4, LocalZoneAssumption DEF RunInv, StartOfWalk, LowOf
  <2>5. QED BY <2>3, <2>4
<1> HIDE DEF low, n, want
<1>5. /\ run \in Run /\ run.low = low /\ run.real = local.realTxs /\ run.scanned = local.scanned
  <2>1. run \in Run
    BY <1>0, <1>2, AskedType
  <2>2. QED BY <1>0, <1>1, <2>1, Zenon DEF Run
<1> HIDE DEF run, more
<1>6. Hands(r, run, l)
  BY <1>1, <1>4, <1>5 DEF Hands, Inv, LocalInv, Clean
<1>7. ~l.met => Right(l) /\ Abreast(run, l)
  BY <1>1, <1>4, <1>5, SameRight DEF CountInv, Abreast
<1>8. QED BY <1>0, <1>3, <1>6, <1>7, ContinueCounts, FailsCounts

LEMMA FetchedCounts ==
  ASSUME Inv, CountInv, NEW r \in Runs, Fetched(r)
  PROVE  CountInv'
<1>0. r \in Going /\ runs[r].pc = "fetch"
  BY DEF Fetched, Going
<1> DEFINE lo   == LowEnd(runs[r])
           hi   == runs[r].low - 1
           sent == ToSend(local, lo, hi)
           run  == [runs[r] EXCEPT !.low = lo, !.hi = hi, !.scanned = @ + (hi - lo + 1), !.sent = sent]
           l    == [local EXCEPT !.low = lo, !.scanned = run.scanned]
           past == [run EXCEPT !.batchIdx = @ + 1]
           next == [run EXCEPT !.pc = "decode"]
<1>1. \/ Continue(r, past, l)
      \/ runs' = [runs EXCEPT ![r] = next] /\ local' = l /\ UNCHANGED saved
  BY Zenon DEF Fetched
<1>2. /\ runs[r] \in Run /\ local \in Local /\ runs[r].low > 1 /\ runs[r].low \in 0..(Tip + 1)
      /\ runs[r].scanned \in Nat
  BY <1>0 DEF Inv, TypeInv, TypeOK, Above, Run
<1>3. lo \in 1..hi /\ hi \in 1..Tip
  BY <1>2, BatchType
<1>4. sent \subseteq lo..hi
  BY DEF ToSend
<1> HIDE DEF lo, sent
<1>5. lo \in 0..(Tip + 1) /\ \A b \in lo..hi : b \in Blocks
  BY <1>3, LocalZoneAssumption DEF Blocks
<1>6. run.scanned = runs[r].scanned + (runs[r].low - lo) /\ run.scanned \in Nat
  BY <1>2, <1>3 DEF Run
<1>7. run \in Run /\ run.low = lo /\ run.real = runs[r].real
  <2>1. hi \in 0..Tip /\ runs[r].scanned + (hi - lo + 1) \in Nat
    BY <1>2, <1>3
  <2>2. sent \subseteq Blocks
    BY <1>4, <1>5
  <2> HIDE DEF hi
  <2>3. run \in Run
    BY <1>2, <1>5, <2>1, <2>2, FetchedType
  <2>4. QED BY <1>2, <2>3 DEF Run
<1> HIDE DEF run
<1>8. /\ l \in Local /\ l.met = local.met /\ l.low = lo /\ l.shown = local.shown
      /\ l.missing = local.missing /\ l.skip = local.skip /\ l.scanned = run.scanned
      /\ l.realTxs = local.realTxs /\ l.genesis = local.genesis
  BY <1>2, <1>5, <1>6 DEF Local
<1>9. /\ past \in Run /\ past.low = lo /\ past.real = run.real /\ past.scanned = run.scanned
      /\ next.low = lo /\ next.real = run.real /\ next.scanned = run.scanned /\ next.pc = "decode"
  BY <1>7 DEF Run
<1> HIDE DEF l, past, next
<1>10. ~local.met => /\ Going = {r} /\ Abreast(runs[r], local) /\ Clean(local, runs[r].low)
                     /\ local.skip => NoBare
  <2> SUFFICES ASSUME ~local.met
               PROVE  Going = {r} /\ Abreast(runs[r], local) /\ Clean(local, runs[r].low)
    BY DEF Inv, LocalInv
  <2>1. Going = {r} /\ RunInv(runs[r])
    BY <1>0, WindowOne
  <2>2. QED BY <1>0, <2>1 DEF Inv, LocalInv, CountInv, Abreast
<1>11. ~l.met => Right(l) /\ LowOf(l) = lo
  <2> SUFFICES ASSUME ~local.met PROVE Right(l) /\ LowOf(l) = lo
    BY <1>8
  <2>1. /\ Right(local) /\ Abreast(runs[r], local) /\ LowOf(local) = runs[r].low
    BY <1>10 DEF CountInv, Abreast
  <2>2. LowOf(l) = lo
    BY <1>3, <1>8 DEF LowOf
  <2>3. l.scanned = Tip + 1 - lo
    BY <1>2, <1>3, <1>6, <1>8, <2>1, LocalZoneAssumption DEF Right, Abreast
  <2>4. l.genesis = FALSE
    BY <1>2, <1>8, <2>1 DEF Right, LowOf, Local
  <2>5. QED BY <1>8, <2>1, <2>2, <2>3, <2>4 DEF Right, ShownIn
<1>12. ~l.met => Abreast(past, l) /\ Abreast(next, l)
  BY <1>7, <1>8, <1>9, <1>10, <1>11 DEF Abreast
<1>13. CASE Continue(r, past, l)
  <2>1. ~l.met => Clean(l, lo)
    BY <1>2, <1>3, <1>8, <1>10, LocalZoneAssumption DEF Clean, Blocks
  <2>2. Hands(r, past, l)
    BY <1>3, <1>8, <1>9, <1>10, <2>1 DEF Hands
  <2>3. QED BY <1>0, <1>11, <1>12, <1>13, <2>2, ContinueCounts
<1>14. CASE runs' = [runs EXCEPT ![r] = next] /\ local' = l /\ saved' = saved
  <2>1. ~saved'.met => Right(saved)'
    BY <1>14 DEF CountInv, Right, ShownIn, LowOf
  <2>2. CASE local.met
    BY <1>8, <1>14, <2>1, <2>2 DEF CountInv
  <2>3. CASE ~local.met
    <3>1. runs'[r] = next /\ Going' = {r}
      BY <1>9, <1>10, <1>14, <2>3 DEF Going, Inv, TypeInv, TypeOK
    <3>2. Abreast(runs[r], local)' /\ Right(local)'
      BY <1>8, <1>11, <1>12, <1>14, <2>3, <3>1 DEF Abreast, Right, ShownIn, LowOf
    <3>3. QED BY <2>1, <3>1, <3>2 DEF CountInv
  <2>4. QED BY <2>2, <2>3
<1>15. QED BY <1>1, <1>13, <1>14

LEMMA NotFetchedCounts ==
  ASSUME Inv, CountInv, NEW r \in Runs, NotFetched(r)
  PROVE  CountInv'
<1>1. r \in Going /\ runs[r].pc = "fetch" /\ runs[r] \in Run /\ local \in Local /\ runs[r].low > 1
  BY DEF NotFetched, Going, Inv, TypeInv, TypeOK, Above
<1>2. ~local.met => Right(local) /\ Abreast(runs[r], local)
  BY <1>1 DEF CountInv
<1>3. Hands(r, runs[r], local)
  BY <1>1, <1>2 DEF Hands, Abreast, Inv, LocalInv, Run
<1>4. QED BY <1>1, <1>2, <1>3, FinishCounts, FailsCounts DEF NotFetched

LEMMA NotDecodedCounts ==
  ASSUME Inv, CountInv, NEW r \in Runs, NotDecoded(r)
  PROVE  CountInv'
<1>0. r \in Going /\ runs[r].pc = "decode"
  BY DEF NotDecoded, Going
<1>1. /\ runs[r] \in Run /\ local \in Local /\ runs[r].low >= 1
      /\ runs[r].low \in 0..(Tip + 1) /\ runs[r].hi \in 0..Tip
  BY <1>0 DEF Inv, TypeInv, TypeOK, Above, Run
<1> DEFINE lo  == runs[r].low
           hi  == runs[r].hi
           run == [runs[r] EXCEPT !.sent = {}]
           l   == [local EXCEPT !.missing = @ \cup (lo..hi)]
<1>2. run \in Run /\ run.low = lo /\ run.real = runs[r].real /\ run.scanned = runs[r].scanned
  BY <1>1 DEF Run
<1>3. \A b \in lo..hi : b \in Blocks
  BY <1>1, LocalZoneAssumption DEF Blocks
<1>4. /\ l \in Local /\ l.met = local.met /\ l.shown = local.shown /\ l.low = local.low
      /\ l.missing = local.missing \cup (lo..hi) /\ l.skip = local.skip
      /\ l.scanned = local.scanned /\ l.realTxs = local.realTxs /\ l.genesis = local.genesis
  BY <1>1, <1>3 DEF Local
<1>5. Finish(r, run, l) \/ Fails(r)
  BY DEF NotDecoded
<1> HIDE DEF lo, hi, run, l
<1>6. ~local.met => Clean(local, hi + 1) /\ lo <= hi
  <2>1. ~local.met => RunInv(runs[r])
    BY <1>0, WindowOne
  <2>2. QED BY <1>0, <2>1 DEF RunInv, lo, hi
<1>7. ~l.met => Clean(l, lo)
  BY <1>1, <1>4, <1>6, LocalZoneAssumption DEF Clean, Blocks, lo, hi
<1>8. Hands(r, run, l)
  BY <1>1, <1>2, <1>4, <1>7 DEF Hands, Inv, LocalInv, lo
<1>9. ~l.met => Right(l) /\ Abreast(run, l)
  <2> SUFFICES ASSUME ~local.met PROVE Right(l) /\ Abreast(run, l)
    BY <1>4
  <2>1. Right(local) /\ Abreast(runs[r], local)
    BY <1>0 DEF CountInv
  <2>2. Right(l) /\ LowOf(l) = LowOf(local)
    BY <1>4, <2>1, SameRight
  <2>3. QED BY <1>2, <1>4, <2>1, <2>2 DEF Abreast, lo
<1>10. QED BY <1>0, <1>5, <1>8, <1>9, FinishCounts, FailsCounts

\* A batch that is decoded adds to what is shown the transactions it adds to the count.
LEMMA BatchCounted ==
  ASSUME NEW l \in Local, NEW got \in SUBSET Blocks, NEW m,
         \A b \in Blocks : l.shown[b] <= 1, \A b \in got : l.shown[b] = 0,
         m.shown = [b \in Blocks |-> l.shown[b] + IF b \in got \cap Real THEN 1 ELSE 0]
  PROVE  /\ \A b \in Blocks : m.shown[b] <= 1
         /\ Cardinality(ShownIn(m)) = Cardinality(ShownIn(l)) + NewTxs(got)
<1>1. IsFiniteSet(Blocks)
  BY FS_Interval, LocalZoneAssumption DEF Blocks
<1>2. IsFiniteSet(ShownIn(l)) /\ IsFiniteSet(got \cap Real)
  BY <1>1, FS_Subset DEF ShownIn
<1>3. \A b \in Blocks : l.shown[b] \in Nat
  BY DEF Local
<1>4. ShownIn(m) = ShownIn(l) \cup (got \cap Real)
  BY <1>3 DEF ShownIn
<1>5. ShownIn(l) \cap (got \cap Real) = {}
  BY DEF ShownIn
<1>6. /\ Cardinality(ShownIn(l) \cup (got \cap Real)) =
           Cardinality(ShownIn(l)) + Cardinality(got \cap Real) - Cardinality(ShownIn(l) \cap (got \cap Real))
  BY <1>2, FS_Union
<1>7. Cardinality(ShownIn(l) \cap (got \cap Real)) = 0
  BY <1>5, FS_EmptySet
<1>8. Cardinality(ShownIn(l)) \in Nat /\ Cardinality(got \cap Real) \in Nat
  BY <1>2, FS_CardinalityType
<1>9. \A b \in Blocks : m.shown[b] <= 1
  BY <1>3
<1>10. QED BY <1>4, <1>6, <1>7, <1>8, <1>9 DEF NewTxs

LEMMA DecodedCounts ==
  ASSUME Inv, CountInv, NEW r \in Runs, Decoded(r)
  PROVE  CountInv'
<1>0. r \in Going /\ runs[r].pc = "decode"
  BY DEF Decoded, Going
<1> DEFINE lo    == runs[r].low
           hi    == runs[r].hi
           got   == {b \in runs[r].sent : chain[b] # "bad"}
           first == runs[r].batchIdx = 0
           fresh == IF first THEN got ELSE got \cap Real
           run   == [runs[r] EXCEPT !.real = @ + NewTxs(got),
                                    !.ok = @ \/ fresh # {}, !.batchIdx = @ + 1, !.sent = {}]
           skip  == IF first /\ ~run.more
                    THEN got = runs[r].sent /\ \A b \in got : chain[b] # "bare"
                    ELSE local.skip
           shown == [b \in Blocks |-> local.shown[b] + IF b \in got \cap Real THEN 1 ELSE 0]
           l     == [local EXCEPT
                       !.status = "ok", !.realTxs = run.real, !.batchIdx = run.batchIdx,
                       !.any = @ \/ fresh # {}, !.shown = shown, !.skip = skip]
<1>1. /\ runs[r] \in Run /\ local \in Local /\ lo >= 1 /\ lo \in 0..(Tip + 1) /\ hi \in 0..Tip
      /\ runs[r].real \in Nat /\ got \subseteq Blocks
  BY <1>0 DEF Inv, TypeInv, TypeOK, Above, Run
<1>2. /\ run \in Run /\ run.low = lo /\ run.real = runs[r].real + NewTxs(got)
      /\ run.scanned = runs[r].scanned /\ run.real \in Nat /\ run.batchIdx \in Nat
  <2>1. runs[r].real + NewTxs(got) \in Nat /\ runs[r].batchIdx + 1 \in Nat
    BY <1>1, NewTxsType DEF Run
  <2>2. (runs[r].ok \/ fresh # {}) \in BOOLEAN
    OBVIOUS
  <2> HIDE DEF got, fresh
  <2>3. run \in Run
    BY <1>1, <2>1, <2>2, DecodedType
  <2>4. QED BY <1>1, <2>1, <2>3 DEF Run
<1>3. Continue(r, run, l)
  BY Zenon DEF Decoded
<1>4. skip \in BOOLEAN /\ shown \in [Blocks -> Nat]
  <2>1. skip \in BOOLEAN
    BY <1>1 DEF Local
  <2>2. shown \in [Blocks -> Nat]
    BY <1>1 DEF Local
  <2>3. QED BY <2>1, <2>2
<1>5. /\ l \in Local /\ l.met = local.met /\ l.low = local.low /\ l.shown = shown
      /\ l.missing = local.missing /\ l.skip = skip /\ l.realTxs = run.real
      /\ l.scanned = local.scanned /\ l.genesis = local.genesis
  <2> HIDE DEF got, first, fresh, run, skip, shown
  <2>1. /\ l.met = local.met /\ l.low = local.low /\ l.shown = shown
        /\ l.missing = local.missing /\ l.skip = skip /\ l.realTxs = run.real
        /\ l.scanned = local.scanned /\ l.genesis = local.genesis
    BY <1>1 DEF Local
  <2>2. run.real \in Nat /\ run.batchIdx \in Nat
    BY <1>2
  <2>3. l \in Local
    BY <1>1, <1>4, <2>2 DEF Local
  <2>4. QED BY <2>1, <2>3
<1>6. ~local.met =>
        /\ lo <= hi /\ Clean(local, hi + 1)
        /\ runs[r].sent \subseteq lo..hi
        /\ first /\ ~runs[r].more => \A b \in Blocks : b > Tip - FirstBatch => b \in runs[r].sent
  <2>1. ~local.met => RunInv(runs[r])
    BY <1>0, WindowOne
  <2>2. QED BY <1>0, <2>1 DEF RunInv
<1> HIDE DEF l
<1>7. ~local.met /\ skip => NoBare
  <2> SUFFICES ASSUME ~local.met, skip PROVE NoBare
    OBVIOUS
  <2>0. run.more = runs[r].more
    BY <1>1 DEF Run
  <2>1. CASE first /\ ~runs[r].more
    <3>1. got = runs[r].sent /\ \A b \in got : chain[b] # "bare"
      BY <2>0, <2>1
    <3>2. \A b \in Blocks : b > Tip - FirstBatch => chain[b] \in {"tick", "full"}
      BY <1>6, <2>1, <3>1 DEF Inv, TypeInv, TypeOK, Kinds
    <3>3. QED BY <3>2 DEF NoBare, FairSample, Inv
  <2>2. CASE ~(first /\ ~runs[r].more)
    BY <2>0, <2>2 DEF Inv, LocalInv
  <2>3. QED BY <2>1, <2>2
<1> HIDE DEF run
<1>8. ~local.met => \A b \in got : local.shown[b] = 0
  BY <1>1, <1>6 DEF Clean, Blocks
<1>9. ~l.met => Clean(l, lo)
  <2> SUFFICES ASSUME ~local.met, NEW b \in Blocks, b < lo
               PROVE  shown[b] = 0 /\ b \notin local.missing
    BY <1>5 DEF Clean
  <2>1. local.shown[b] = 0 /\ b \notin local.missing
    BY <1>1, <1>6 DEF Clean, Blocks
  <2>2. b \notin got
    <3>1. b \notin lo..hi
      BY <1>1 DEF Blocks
    <3>2. QED BY <1>6, <3>1
  <2> HIDE DEF got
  <2>3. QED BY <2>1, <2>2
<1>10. Hands(r, run, l)
  BY <1>1, <1>2, <1>5, <1>7, <1>9 DEF Hands
<1>11. ~l.met => Right(l) /\ Abreast(run, l)
  <2> SUFFICES ASSUME ~local.met PROVE Right(l) /\ Abreast(run, l)
    BY <1>5
  <2>1. Right(local) /\ Abreast(runs[r], local) /\ LowOf(l) = LowOf(local)
    BY <1>0, <1>5 DEF CountInv, LowOf
  <2>2. /\ \A b \in Blocks : l.shown[b] <= 1
        /\ Cardinality(ShownIn(l)) = Cardinality(ShownIn(local)) + NewTxs(got)
    <3> HIDE DEF got
    <3> QED BY <1>1, <1>5, <1>8, <2>1, BatchCounted DEF Right
  <2> HIDE DEF got, skip, shown, first, fresh
  <2>3. l.realTxs = Cardinality(ShownIn(l))
    BY <1>2, <1>5, <2>1, <2>2 DEF Right, Abreast
  <2>4. QED BY <1>2, <1>5, <2>1, <2>2, <2>3 DEF Right, Abreast, lo
<1>12. QED BY <1>0, <1>3, <1>10, <1>11, ContinueCounts

\* The counters that "load older" and the panel go by: while two runs have not met, the
\* transactions counted are the ones in the table, the blocks counted as read are those
\* from the lowest up to the tip, and the page says it has reached the genesis block
\* only when it has.
THEOREM CountersAgree == Spec => []Counts
<1>1. Init => Inv /\ CountInv
  <2> SUFFICES ASSUME Init PROVE CountInv
    BY InvInit
  <2>1. Right(Fresh)
    BY FreshRight DEF Fresh
  <2>2. local = Fresh /\ saved = Fresh /\ Going = {}
    BY DEF Init, Going, NoRun
  <2>3. QED BY <2>1, <2>2 DEF CountInv
<1>2. Inv /\ CountInv /\ [Next]_vars => (Inv /\ CountInv)'
  <2> SUFFICES ASSUME Inv, CountInv, [Next]_vars PROVE CountInv'
    BY InvStep
  <2>1. ASSUME NEW r \in Runs, Walk(r) PROVE CountInv'
    BY <2>1, OpenedCounts, AskedCounts, FetchedCounts, NotFetchedCounts, DecodedCounts,
       NotDecodedCounts DEF Walk
  <2>2. CASE UNCHANGED vars
    BY <2>2 DEF vars, CountInv, Right, Abreast, ShownIn, LowOf, Going
  <2>3. QED BY <2>1, <2>2, PanelCounts DEF Next
<1>3. Inv /\ CountInv => Counts
  <2> SUFFICES ASSUME Inv, CountInv, local.status = "ok", ~local.met
               PROVE  /\ local.realTxs = Cardinality({b \in Blocks : local.shown[b] = 1})
                      /\ \A b \in Blocks : local.shown[b] <= 1
                      /\ local.scanned = Tip + 1 - local.low
                      /\ local.genesis => local.low = 1
    BY DEF Counts
  <2>1. LowOf(local) = local.low
    BY DEF LowOf, Inv, LocalInv
  <2>2. QED BY <2>1 DEF CountInv, Right, ShownIn
<1>4. QED BY <1>1, <1>2, <1>3, PTL DEF Spec
--------------------------------------------------------------------------------
(* The end of every run *)

LEMMA StepsLeftIs ==
  \A u : /\ u.pc = "none"   => StepsLeft(u) = 0
         /\ u.pc = "open"   => StepsLeft(u) = 2 * Tip + 4
         /\ u.pc = "ask"    => StepsLeft(u) = 2 * Tip + 3
         /\ u.pc = "fetch"  => StepsLeft(u) = 2 * u.low
         /\ u.pc = "decode" => StepsLeft(u) = 2 * u.low + 1
  BY DEF StepsLeft

\* A run that is going has something left to do.
LEMMA GoingHasSteps ==
  ASSUME NEW u \in Run, Above(u), u.pc # "none"
  PROVE  StepsLeft(u) \in Nat \ {0}
<1>1. u.pc \in {"open", "ask", "fetch", "decode"} /\ u.low \in Nat /\ u.low <= Tip + 1
  BY LocalZoneAssumption DEF Run
<1>2. QED BY <1>1, StepsLeftIs, LocalZoneAssumption DEF Above

\* A step of r that ends it, or leaves it with less to do.
Lessens(r) == \E u : runs' = [runs EXCEPT ![r] = u] /\ StepsLeft(u) < StepsLeft(runs[r])

LEMMA EndsLessens ==
  ASSUME TypeInv, NEW r \in Runs, runs[r].pc # "none", Ends(r)
  PROVE  Lessens(r)
<1>1. runs[r] \in Run /\ Above(runs[r])
  BY DEF TypeInv, TypeOK
<1>2. StepsLeft(runs[r]) \in Nat \ {0}
  BY <1>1, GoingHasSteps
<1>3. StepsLeft(NoRun) = 0
  BY StepsLeftIs DEF NoRun
<1>4. StepsLeft(NoRun) < StepsLeft(runs[r])
  BY <1>2, <1>3
<1>5. QED BY <1>4 DEF Ends, Lessens

\* The head of the loop ends the run or goes on with what run has below it.
LEMMA ContinueLessens ==
  ASSUME TypeInv, NEW r \in Runs, runs[r].pc # "none", NEW run \in Run, NEW l, Continue(r, run, l),
         2 * run.low < StepsLeft(runs[r])
  PROVE  Lessens(r)
<1>1. CASE Finish(r, run, l)
  BY <1>1, EndsLessens, Zenon DEF Finish
<1>2. CASE runs' = [runs EXCEPT ![r] = [run EXCEPT !.pc = "fetch"]]
  <2> DEFINE u == [run EXCEPT !.pc = "fetch"]
  <2>1. u.pc = "fetch" /\ u.low = run.low
    BY DEF Run
  <2>2. runs' = [runs EXCEPT ![r] = u]
    BY <1>2
  <2> HIDE DEF u
  <2>3. StepsLeft(u) < StepsLeft(runs[r])
    BY <2>1, StepsLeftIs
  <2>4. QED BY <2>2, <2>3 DEF Lessens
<1>3. QED BY <1>1, <1>2, Zenon DEF Continue

\* What a step of a run comes to: it ends it, or goes on with less to do.
Carries(r) ==
  \/ Fails(r)
  \/ \E run \in Run, l \in Local : Finish(r, run, l)
  \/ \E run \in Run, l \in Local : Continue(r, run, l) /\ 2 * run.low < StepsLeft(runs[r])
  \/ \E u : /\ u.pc # "none" /\ StepsLeft(u) < StepsLeft(runs[r])
            /\ runs' = [runs EXCEPT ![r] = u] /\ UNCHANGED saved

LEMMA OpenedCarries ==
  ASSUME TypeInv, NEW r \in Runs, Opened(r)
  PROVE  Carries(r)
<1> DEFINE u == [runs[r] EXCEPT !.pc = "ask"]
<1>1. runs[r] \in Run /\ runs[r].pc = "open"
  BY DEF Opened, TypeInv, TypeOK
<1>2. CASE runs' = [runs EXCEPT ![r].pc = "ask"] /\ UNCHANGED saved
  <2>1. runs' = [runs EXCEPT ![r] = u] /\ u.pc = "ask"
    BY <1>1, <1>2 DEF TypeInv, TypeOK, Run
  <2> HIDE DEF u
  <2>2. StepsLeft(u) < StepsLeft(runs[r])
    BY <1>1, <2>1, StepsLeftIs, LocalZoneAssumption
  <2>3. QED BY <1>2, <2>1, <2>2 DEF Carries
<1>3. QED BY <1>2 DEF Opened, Carries

LEMMA AskedCarries ==
  ASSUME TypeInv, NEW r \in Runs, Asked(r)
  PROVE  Carries(r)
<1> DEFINE more == runs[r].more
           l    == IF more THEN local ELSE [local EXCEPT !.tip = Tip]
           low  == StartOfWalk(more, l)
           n    == IF more THEN l.batchIdx ELSE 0
           want == IF more THEN l.realTxs + MoreTxs ELSE MinTxs
           run  == [runs[r] EXCEPT !.real = l.realTxs, !.scanned = l.scanned, !.low = low,
                                   !.batchIdx = n, !.started = n, !.want = want]
<1>1. runs[r] \in Run /\ local \in Local /\ runs[r].pc = "ask"
  BY DEF Asked, TypeInv, TypeOK
<1>2. l \in Local
  BY <1>1 DEF Local
<1>3. low \in 0..(Tip + 1)
  BY <1>2, LocalZoneAssumption DEF Local, StartOfWalk
<1>4. Continue(r, run, l) \/ Fails(r)
  BY DEF Asked
<1>5. run \in Run /\ run.low = low
  <2>1. l.realTxs \in Nat /\ l.scanned \in Nat /\ l.batchIdx \in Nat
    BY <1>2 DEF Local
  <2>2. n \in Nat /\ want \in Nat
    BY <2>1, LocalZoneAssumption
  <2> HIDE DEF l, low, n, want
  <2>3. run \in Run
    BY <1>1, <1>3, <2>1, <2>2, AskedType
  <2>4. QED BY <1>1, <2>3 DEF Run
<1> HIDE DEF run, l, low
<1>6. 2 * run.low < StepsLeft(runs[r])
  BY <1>1, <1>3, <1>5, StepsLeftIs, LocalZoneAssumption
<1>7. QED BY <1>2, <1>4, <1>5, <1>6 DEF Carries

LEMMA FetchedCarries ==
  ASSUME TypeInv, NEW r \in Runs, Fetched(r)
  PROVE  Carries(r)
<1> DEFINE lo   == LowEnd(runs[r])
           hi   == runs[r].low - 1
           sent == ToSend(local, lo, hi)
           run  == [runs[r] EXCEPT !.low = lo, !.hi = hi, !.scanned = @ + (hi - lo + 1), !.sent = sent]
           past == [run EXCEPT !.batchIdx = @ + 1]
           next == [run EXCEPT !.pc = "decode"]
           l    == [local EXCEPT !.low = lo, !.scanned = run.scanned]
<1>1. runs[r] \in Run /\ local \in Local /\ runs[r].pc = "fetch" /\ runs[r].low > 1
  BY DEF Fetched, TypeInv, TypeOK, Above
<1>2. lo \in 1..hi /\ hi \in 1..Tip /\ runs[r].low \in Nat /\ runs[r].low = hi + 1
  <2>1. lo \in 1..hi /\ hi \in 1..Tip
    BY <1>1, BatchType
  <2>2. runs[r].low \in Nat
    BY <1>1, LocalZoneAssumption DEF Run
  <2> HIDE DEF lo
  <2>3. QED BY <2>1, <2>2
<1>3. \/ Continue(r, past, l)
      \/ runs' = [runs EXCEPT ![r] = next] /\ UNCHANGED saved
  BY Zenon DEF Fetched
<1>4. run \in Run /\ run.low = lo
  <2>1. sent \subseteq Blocks
    <3>1. \A b \in lo..hi : b \in Blocks
      <4> HIDE DEF lo, hi
      <4> QED BY <1>2, LocalZoneAssumption DEF Blocks
    <3>2. QED BY <3>1, Zenon DEF ToSend
  <2>2. runs[r].scanned \in Nat
    BY <1>1 DEF Run
  <2> HIDE DEF lo, hi, sent
  <2>3. runs[r].scanned + (hi - lo + 1) \in Nat
    BY <1>2, <2>2, LocalZoneAssumption
  <2>4. lo \in 0..(Tip + 1) /\ hi \in 0..Tip
    BY <1>2, LocalZoneAssumption
  <2>5. run \in Run
    BY <1>1, <2>1, <2>3, <2>4, FetchedType
  <2>6. QED BY <1>1, <2>5 DEF Run
<1> HIDE DEF lo, hi, sent, run
<1>5. past \in Run /\ past.low = lo /\ next.low = lo /\ next.pc = "decode"
  BY <1>4 DEF Run
<1>6. l \in Local
  <2>1. run.scanned \in Nat
    BY <1>4 DEF Run
  <2>2. lo \in 0..(Tip + 1)
    BY <1>2, LocalZoneAssumption
  <2>3. QED BY <1>1, <2>1, <2>2 DEF Local
<1> HIDE DEF past, next, l
<1>7. 2 * past.low < StepsLeft(runs[r]) /\ StepsLeft(next) < StepsLeft(runs[r])
  BY <1>1, <1>2, <1>5, StepsLeftIs, LocalZoneAssumption
<1>8. QED BY <1>3, <1>5, <1>6, <1>7 DEF Carries

LEMMA DecodedCarries ==
  ASSUME TypeInv, NEW r \in Runs, Decoded(r)
  PROVE  Carries(r)
<1> DEFINE got   == {b \in runs[r].sent : chain[b] # "bad"}
           first == runs[r].batchIdx = 0
           fresh == IF first THEN got ELSE got \cap Real
           run   == [runs[r] EXCEPT !.real = @ + NewTxs(got),
                                    !.ok = @ \/ fresh # {}, !.batchIdx = @ + 1, !.sent = {}]
           skip  == IF first /\ ~run.more
                    THEN got = runs[r].sent /\ \A b \in got : chain[b] # "bare"
                    ELSE local.skip
           shown == [b \in Blocks |-> local.shown[b] + IF b \in got \cap Real THEN 1 ELSE 0]
           l     == [local EXCEPT
                       !.status = "ok", !.realTxs = run.real, !.batchIdx = run.batchIdx,
                       !.any = @ \/ fresh # {}, !.shown = shown, !.skip = skip]
<1>1. runs[r] \in Run /\ local \in Local /\ runs[r].pc = "decode" /\ runs[r].low \in Nat
  BY LocalZoneAssumption DEF Decoded, TypeInv, TypeOK, Run
<1>2. Continue(r, run, l)
  BY Zenon DEF Decoded
<1>3. run \in Run /\ run.low = runs[r].low
  <2>1. runs[r].real + NewTxs(got) \in Nat /\ runs[r].batchIdx + 1 \in Nat
    BY <1>1, NewTxsType DEF Run
  <2>2. (runs[r].ok \/ fresh # {}) \in BOOLEAN
    OBVIOUS
  <2> HIDE DEF got, fresh
  <2>3. run \in Run
    BY <1>1, <2>1, <2>2, DecodedType
  <2>4. QED BY <1>1, <2>3 DEF Run
<1>4. l \in Local
  <2>1. skip \in BOOLEAN /\ run.real \in Nat /\ run.batchIdx \in Nat
    BY <1>1, <1>3 DEF Run, Local
  <2>2. shown \in [Blocks -> Nat]
    BY <1>1 DEF Local
  <2> HIDE DEF got, fresh, run, skip, shown
  <2>3. QED BY <1>1, <2>1, <2>2 DEF Local
<1> HIDE DEF run, l
<1>5. 2 * run.low < StepsLeft(runs[r])
  BY <1>1, <1>3, StepsLeftIs
<1>6. QED BY <1>2, <1>3, <1>4, <1>5 DEF Carries

LEMMA NotFetchedCarries ==
  ASSUME TypeInv, NEW r \in Runs, NotFetched(r)
  PROVE  Carries(r)
<1>1. runs[r] \in Run /\ local \in Local
  BY DEF TypeInv, TypeOK
<1>2. QED BY <1>1, Zenon DEF NotFetched, Carries

LEMMA NotDecodedCarries ==
  ASSUME TypeInv, NEW r \in Runs, NotDecoded(r)
  PROVE  Carries(r)
<1> DEFINE run == [runs[r] EXCEPT !.sent = {}]
           l   == [local EXCEPT !.missing = @ \cup (runs[r].low..runs[r].hi)]
<1>1. runs[r] \in Run /\ local \in Local /\ runs[r].low >= 1
  BY DEF NotDecoded, TypeInv, TypeOK, Above
<1>2. run \in Run
  BY <1>1 DEF Run
<1>3. \A b \in runs[r].low..runs[r].hi : b \in Blocks
  BY <1>1, LocalZoneAssumption DEF Run, Blocks
<1>4. l \in Local
  BY <1>1, <1>3 DEF Local
<1>5. Finish(r, run, l) \/ Fails(r)
  BY DEF NotDecoded
<1> HIDE DEF run, l
<1>6. QED BY <1>2, <1>4, <1>5 DEF Carries

LEMMA WalkCarries ==
  ASSUME TypeInv, NEW r \in Runs, Walk(r)
  PROVE  Carries(r) /\ runs[r].pc # "none"
<1>1. Carries(r)
  BY OpenedCarries, AskedCarries, FetchedCarries, DecodedCarries, NotFetchedCarries,
     NotDecodedCarries DEF Walk
<1>2. runs[r].pc # "none"
  BY DEF Walk, Opened, Asked, Fetched, NotFetched, Decoded, NotDecoded
<1>3. QED BY <1>1, <1>2

LEMMA WalkLessens ==
  ASSUME TypeInv, NEW r \in Runs, Walk(r)
  PROVE  Lessens(r)
<1>1. Carries(r) /\ runs[r].pc # "none"
  BY WalkCarries
<1>2. CASE Fails(r)
  BY <1>1, <1>2, EndsLessens DEF Fails
<1>3. ASSUME NEW run \in Run, NEW l \in Local, Finish(r, run, l) PROVE Lessens(r)
  BY <1>1, <1>3, EndsLessens, Zenon DEF Finish
<1>4. ASSUME NEW run \in Run, NEW l \in Local, Continue(r, run, l), 2 * run.low < StepsLeft(runs[r])
      PROVE  Lessens(r)
  BY <1>1, <1>4, ContinueLessens
<1>5. QED BY <1>1, <1>2, <1>3, <1>4 DEF Carries, Lessens

\* Every step of a run leaves it with less to do and touches no other, whatever the other
\* runs and the panel have made of LOCAL: fairness is all it takes for a run to end.
THEOREM RunsEndInTime == Spec => RunsRunDown
<1>1. ASSUME TypeInv, Next, clicks' = clicks
      PROVE  \E r \in Runs : /\ StepsLeft(runs'[r]) < StepsLeft(runs[r])
                             /\ \A q \in Runs \ {r} : runs'[q] = runs[q]
  <2>1. ~Click
    BY <1>1 DEF Click, TypeInv, TypeOK
  <2>2. PICK r \in Runs : Walk(r)
    BY <1>1, <2>1 DEF Next, Connect, More, Disconnect, NewPage
  <2>3. PICK u : runs' = [runs EXCEPT ![r] = u] /\ StepsLeft(u) < StepsLeft(runs[r])
    BY <1>1, <2>2, WalkLessens DEF Lessens
  <2>4. runs'[r] = u /\ \A q \in Runs \ {r} : runs'[q] = runs[q]
    BY <1>1, <2>3 DEF TypeInv, TypeOK
  <2>5. QED BY <2>3, <2>4
<1>2. TypeInv /\ [Next]_vars =>
        [ clicks' = clicks =>
            \E r \in Runs : /\ StepsLeft(runs'[r]) < StepsLeft(runs[r])
                            /\ \A q \in Runs \ {r} : runs'[q] = runs[q] ]_vars
  BY <1>1
<1>3. QED BY <1>2, TypeInit, TypeStep, PTL DEF Spec, RunsRunDown

\* What is restored does not say that it reads.
ReadInv == ReadingRuns /\ saved.status \in {"idle", "ok"}

LEMMA EndsQuiet ==
  ASSUME ReadInv, local'.status \in {"ok", "error"}, saved' = saved \/ saved'.status \in {"idle", "ok"}
  PROVE  ReadInv'
  BY DEF ReadInv, ReadingRuns, Busy

LEMMA FinishQuiet ==
  ASSUME TypeInv, ReadInv, NEW r \in Runs, NEW run, NEW l \in Local, Finish(r, run, l)
  PROVE  ReadInv'
<1> DEFINE walked == [l EXCEPT !.scanned = run.scanned, !.low = run.low, !.realTxs = run.real,
                               !.batchIdx = run.batchIdx, !.genesis = run.low <= 1,
                               !.more = run.low > 1 /\ run.scanned < MaxBlocks]
           status == IF run.scanned > 0 /\ (run.ok \/ l.any) THEN "ok" ELSE "error"
           done == [walked EXCEPT !.status = status]
<1>1. local' = done /\ saved' = IF run.scanned = 0 THEN saved ELSE IF done.status = "ok" THEN done ELSE Fresh
  BY Zenon DEF Finish
<1>2. done.status = status
  BY DEF Local
<1>3. status \in {"ok", "error"}
  OBVIOUS
<1> HIDE DEF walked, done, status
<1>4. Fresh.status = "idle"
  BY DEF Fresh
<1>5. saved' = saved \/ saved'.status \in {"idle", "ok"}
  BY <1>1, <1>4
<1>6. QED BY <1>1, <1>2, <1>3, <1>5, EndsQuiet

LEMMA FailsQuiet ==
  ASSUME TypeInv, ReadInv, NEW r \in Runs, Fails(r)
  PROVE  ReadInv'
<1>1. local'.status = "error" /\ saved' = saved
  BY DEF Fails, TypeInv, TypeOK, Local
<1>2. QED BY <1>1, EndsQuiet

\* A run that is still going is there to say otherwise.
LEMMA GoesOnQuiet ==
  ASSUME TypeInv, ReadInv, NEW r \in Runs, NEW u, u.pc # "none", runs' = [runs EXCEPT ![r] = u],
         saved' \in {saved, Fresh}
  PROVE  ReadInv'
<1>1. r \in Going'
  BY DEF Going, TypeInv, TypeOK
<1>2. saved'.status \in {"idle", "ok"}
  BY DEF ReadInv, Fresh
<1>3. QED BY <1>1, <1>2 DEF ReadInv, ReadingRuns

LEMMA ContinueQuiet ==
  ASSUME TypeInv, ReadInv, NEW r \in Runs, NEW run \in Run, NEW l \in Local, Continue(r, run, l)
  PROVE  ReadInv'
<1>1. CASE Finish(r, run, l)
  BY <1>1, FinishQuiet
<1>2. CASE runs' = [runs EXCEPT ![r] = [run EXCEPT !.pc = "fetch"]] /\ UNCHANGED saved
  <2>1. [run EXCEPT !.pc = "fetch"].pc = "fetch"
    BY DEF Run
  <2>2. QED BY <1>2, <2>1, GoesOnQuiet
<1>3. QED BY <1>1, <1>2, Zenon DEF Continue

LEMMA WalkQuiet ==
  ASSUME TypeInv, ReadInv, NEW r \in Runs, Walk(r)
  PROVE  ReadInv'
<1>1. Carries(r)
  BY WalkCarries
<1>2. ASSUME NEW run \in Run, NEW l \in Local, Finish(r, run, l) PROVE ReadInv'
  BY <1>2, FinishQuiet
<1>3. ASSUME NEW run \in Run, NEW l \in Local, Continue(r, run, l) PROVE ReadInv'
  BY <1>3, ContinueQuiet
<1>4. ASSUME NEW u, u.pc # "none", runs' = [runs EXCEPT ![r] = u], UNCHANGED saved PROVE ReadInv'
  BY <1>4, GoesOnQuiet
<1>5. QED BY <1>1, <1>2, <1>3, <1>4, FailsQuiet DEF Carries

LEMMA PanelQuiet ==
  ASSUME TypeInv, ReadInv,
         Disconnect \/ NewPage \/ \E r \in Runs : Connect(r) \/ More(r)
  PROVE  ReadInv'
<1>1. Fresh.status = "idle" /\ saved.status \in {"idle", "ok"} /\ saved \in Local
  BY DEF Fresh, ReadInv, TypeInv, TypeOK
<1>2. CASE Disconnect
  <2>1. local'.status = "idle"
    BY <1>1, <1>2, FreshType DEF Disconnect, Local
  <2>2. QED BY <1>1, <1>2, <2>1 DEF Disconnect, ReadInv, ReadingRuns, Busy
<1>3. CASE NewPage
  <2>1. local'.status \in {"idle", "ok"}
    BY <1>1, <1>3 DEF NewPage, Local
  <2>2. QED BY <1>3, <2>1 DEF NewPage, ReadInv, ReadingRuns, Busy
<1>4. ASSUME NEW r \in Runs, Connect(r) PROVE ReadInv'
  <2>1. [NoRun EXCEPT !.pc = "open"].pc = "open"
    BY FreshType DEF Run
  <2>2. QED BY <1>4, <2>1, GoesOnQuiet DEF Connect
<1>5. ASSUME NEW r \in Runs, More(r) PROVE ReadInv'
  <2>1. [NoRun EXCEPT !.pc = "open", !.more = TRUE].pc = "open"
    BY FreshType DEF Run
  <2>2. QED BY <1>5, <2>1, GoesOnQuiet DEF More
<1>6. QED BY <1>2, <1>3, <1>4, <1>5

\* While the page says that it connects or reads, some run is going: whichever of two
\* runs ends last, by whatever way, takes that from the page, and a page that is restored
\* never has it.
THEOREM ReadingHasRun == Spec => []ReadingRuns
<1>1. Init => TypeInv /\ ReadInv
  BY TypeInit DEF Init, ReadInv, ReadingRuns, Busy, Fresh
<1>2. TypeInv /\ ReadInv /\ [Next]_vars => (TypeInv /\ ReadInv)'
  <2> SUFFICES ASSUME TypeInv, ReadInv, [Next]_vars PROVE ReadInv'
    BY TypeStep
  <2>1. CASE UNCHANGED vars
    BY <2>1 DEF vars, ReadInv, ReadingRuns, Busy, Going
  <2>2. QED BY <2>1, WalkQuiet, PanelQuiet DEF Next
<1>3. TypeInv /\ ReadInv => ReadingRuns
  BY DEF ReadInv
<1>4. QED BY <1>1, <1>2, <1>3, PTL DEF Spec
================================================================================
