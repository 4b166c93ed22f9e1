----------------------------- MODULE SettlingProofs -----------------------------
(* Theorems about Settling, for every value of its constants. *)
EXTENDS Settling, FiniteSetTheorems, WellFoundedInduction, TLAPS

--------------------------------------------------------------------------------
(* The largest of finitely many slots *)

LEMMA SomeLargest ==
  ASSUME NEW n \in Nat, NEW S \in SUBSET (1..n), S # {}
  PROVE  \E x \in S : \A y \in S : y <= x
<1> DEFINE D == {n - x : x \in S}
           R == OpToRel(<, Nat)
<1>1. D \subseteq Nat /\ D # {}
  <2>1. \A x \in S : n - x \in Nat
    OBVIOUS
  <2>2. QED BY <2>1
<1>2. IsWellFoundedOn(R, Nat)
  BY NatLessThanWellFounded
<1>3. PICK d \in D : \A e \in D : <<e, d>> \notin R
  <2> HIDE DEF D, R
  <2> QED BY <1>1, <1>2, WFMin
<1>4. \A e \in D : d <= e
  <2>1. \A e \in D : ~(e < d)
    BY <1>1, <1>3, Zenon DEF OpToRel
  <2>2. QED BY <1>1, <2>1
<1>5. PICK x \in S : d = n - x
  OBVIOUS
<1>6. \A y \in S : n - x <= n - y
  BY <1>4, <1>5
<1>7. \A y \in S : y <= x
  <2> HIDE DEF D, R
  <2> QED BY <1>6
<1>8. QED BY <1>7

LEMMA LastOfSome ==
  ASSUME NEW n \in Nat, NEW S \in SUBSET (1..n)
  PROVE  /\ S = {} => Last(S) = 0
         /\ S # {} => Last(S) \in S /\ \A y \in S : y <= Last(S)
  BY SomeLargest, Zenon DEF Last

--------------------------------------------------------------------------------
(* The evidence *)

Track == [slotSeen : Nat, advanced : BOOLEAN, tipSeen : {-1} \cup 0..MaxTip, rpc : BOOLEAN,
          record : Nat, counted : BOOLEAN, user : BOOLEAN, raw : BOOLEAN]

\* What the slots hold is known up to the tip; nothing else goes beyond it.
SlotsInv ==
  /\ Tip \in Nat /\ DOMAIN inscribed = 1..Tip
  /\ \A s \in 1..Tip : inscribed[s] \in Kinds
  /\ lib \in Int /\ lib <= Tip
  /\ l1 \in [ingested : Nat, first : Nat]
  /\ track \in Track
  /\ readSlots \subseteq 1..Tip

\* The newest slot is one of the zone's; what was read is not above it, and is noted.
EvidenceInv ==
  /\ track.slotSeen # 0 => track.slotSeen \in Inscribed(1..Tip)
  /\ \A s \in Inscribed(readSlots) : s <= track.slotSeen
  /\ \A s \in readSlots : /\ inscribed[s] = "user" => track.user
                          /\ inscribed[s] = "raw" => track.raw

HealthInv == SlotsInv /\ EvidenceInv

LEMMA HealthInit == Init => HealthInv
<1> SUFFICES ASSUME Init PROVE HealthInv
  OBVIOUS
<1>1. inscribed = <<>> /\ DOMAIN inscribed = {}
  BY DEF Init
<1>2. Tip = 0 /\ DOMAIN inscribed = 1..0
  BY <1>1, FS_EmptySet DEF Tip
<1>3. /\ lib = -1 /\ readSlots = {} /\ l1 \in [ingested : Nat, first : Nat]
      /\ track \in Track /\ track.slotSeen = 0
  BY DEF Init, NoL1, NoTrack, None, Track
<1>4. QED BY <1>2, <1>3 DEF HealthInv, SlotsInv, EvidenceInv, Inscribed

LEMMA SlotStep ==
  ASSUME HealthInv, NEW kind \in Kinds, Slot(kind)
  PROVE  HealthInv'
<1> DEFINE n == Tip
<1>1. n \in Nat /\ DOMAIN inscribed = 1..n
  BY DEF HealthInv, SlotsInv
<1>2. inscribed' = [s \in 1..(n + 1) |-> IF s <= n THEN inscribed[s] ELSE kind]
  BY DEF Slot
<1>3. UNCHANGED <<lib, l1, track, readSlots, restarts>>
  BY DEF Slot
<1>4. Tip' = n + 1
  <2>1. DOMAIN inscribed' = 1..(n + 1)
    BY <1>2
  <2> HIDE DEF n
  <2>2. Cardinality(1..(n + 1)) = n + 1
    BY <1>1, FS_Interval
  <2>3. QED BY <2>1, <2>2 DEF Tip
<1> HIDE DEF n
<1>5. \A s \in 1..n : inscribed'[s] = inscribed[s]
  BY <1>1, <1>2
<1>6. SlotsInv /\ EvidenceInv /\ n = Tip
  BY DEF HealthInv, n
<1>7. SlotsInv'
  BY <1>1, <1>2, <1>3, <1>4, <1>6 DEF SlotsInv
<1>8. readSlots \subseteq 1..n /\ Inscribed(readSlots)' = Inscribed(readSlots)
  BY <1>3, <1>5, <1>6 DEF Inscribed, SlotsInv
<1>9. Inscribed(1..Tip) \subseteq Inscribed(1..Tip)'
  BY <1>1, <1>4, <1>5, <1>6 DEF Inscribed
<1>10. EvidenceInv'
  BY <1>3, <1>5, <1>6, <1>8, <1>9 DEF EvidenceInv
<1>11. QED BY <1>7, <1>10 DEF HealthInv

\* Slots are read, in one piece, by any of the three readers.
LEMMA ReadStep ==
  ASSUME HealthInv, NEW P \in SUBSET (1..Tip), NEW uncounted, Read(P, uncounted),
         l1' \in [ingested : Nat, first : Nat]
  PROVE  HealthInv'
<1> DEFINE I == Inscribed(P)
           last == Last(I)
           seen == Larger(track.slotSeen, last)
<1>1. SlotsInv /\ EvidenceInv /\ track \in Track /\ Tip \in Nat /\ track.slotSeen \in Nat
  BY DEF HealthInv, SlotsInv, Track
<1>2. /\ inscribed' = inscribed /\ lib' = lib /\ Tip' = Tip
      /\ readSlots' = readSlots \cup P
  BY DEF Read, Tip
<1>3. I \in SUBSET (1..Tip) /\ I \subseteq P
  BY DEF Inscribed
<1>4. (I = {} => last = 0) /\ (I # {} => last \in I /\ \A y \in I : y <= last)
  BY <1>1, <1>3, LastOfSome
<1>5. track' = [track EXCEPT !.slotSeen = seen,
                  !.counted = @ \/ \E s \in I : inscribed[s] # uncounted,
                  !.user = @ \/ \E s \in I : inscribed[s] = "user",
                  !.raw = @ \/ \E s \in I : inscribed[s] = "raw"]
  BY Zenon DEF Read, Ingested, IngestedFrom
<1> HIDE DEF I, last
<1>6. seen \in Nat /\ seen \in {track.slotSeen, last} /\ seen >= track.slotSeen /\ seen >= last
  <2>1. last \in Nat
    <3>1. CASE I = {}
      BY <1>4, <3>1
    <3>2. CASE I # {}
      <4>1. last \in 1..Tip
        BY <1>3, <1>4, <3>2
      <4>2. QED BY <1>1, <4>1
    <3>3. QED BY <3>1, <3>2
  <2>2. QED BY <1>1, <2>1 DEF Larger
<1> HIDE DEF seen
<1>7. /\ track' \in Track /\ track'.slotSeen = seen
      /\ track'.user = (track.user \/ \E s \in I : inscribed[s] = "user")
      /\ track'.raw = (track.raw \/ \E s \in I : inscribed[s] = "raw")
  <2> DEFINE counted == track.counted \/ \E s \in I : inscribed[s] # uncounted
             user == track.user \/ \E s \in I : inscribed[s] = "user"
             raw == track.raw \/ \E s \in I : inscribed[s] = "raw"
  <2>1. counted \in BOOLEAN /\ user \in BOOLEAN /\ raw \in BOOLEAN
    OBVIOUS
  <2>2. track' = [track EXCEPT !.slotSeen = seen, !.counted = counted, !.user = user, !.raw = raw]
    BY <1>5
  <2> HIDE DEF counted, user, raw
  <2>3. track' \in Track /\ track'.slotSeen = seen /\ track'.user = user /\ track'.raw = raw
    BY <1>1, <1>6, <2>1, <2>2 DEF Track
  <2>4. QED BY <2>3 DEF user, raw
<1>8. SlotsInv'
  BY <1>1, <1>2, <1>7 DEF SlotsInv
<1>9. Inscribed(1..Tip)' = Inscribed(1..Tip)
  BY <1>2 DEF Inscribed
<1>10. track'.slotSeen # 0 => track'.slotSeen \in Inscribed(1..Tip)'
  <2>1. I \subseteq Inscribed(1..Tip)
    BY DEF Inscribed, I
  <2>2. QED BY <1>1, <1>4, <1>6, <1>7, <1>9, <2>1 DEF EvidenceInv
<1>11. \A s \in Inscribed(readSlots)' : s <= track'.slotSeen
  <2> SUFFICES ASSUME NEW s \in Inscribed(readSlots)' PROVE s <= seen
    BY <1>7
  <2>1. s \in 1..Tip /\ (s \in Inscribed(readSlots) \/ s \in I)
    BY <1>1, <1>2 DEF Inscribed, I, SlotsInv
  <2>2. s \in I => s <= last /\ last \in 1..Tip
    BY <1>3, <1>4
  <2>3. s \in Inscribed(readSlots) => s <= track.slotSeen
    BY <1>1 DEF EvidenceInv
  <2>4. QED BY <1>1, <1>6, <2>1, <2>2, <2>3
<1>12. ASSUME NEW s \in readSlots'
       PROVE  (inscribed'[s] = "user" => track'.user) /\ (inscribed'[s] = "raw" => track'.raw)
  <2>1. s \in P /\ inscribed[s] \in {"user", "raw"} => s \in I
    BY DEF Inscribed, I
  <2>2. s \in readSlots \/ s \in P
    BY <1>2, <1>12
  <2>3. s \in readSlots => (inscribed[s] = "user" => track.user) /\ (inscribed[s] = "raw" => track.raw)
    BY <1>1 DEF EvidenceInv
  <2>4. (inscribed[s] = "user" => track'.user) /\ (inscribed[s] = "raw" => track'.raw)
    BY <1>7, <2>1, <2>2, <2>3, Zenon
  <2>5. QED BY <1>2, <2>4
<1>13. QED BY <1>8, <1>10, <1>11, <1>12 DEF HealthInv, EvidenceInv

LEMMA NotedType ==
  ASSUME l1 \in [ingested : Nat, first : Nat], NEW s \in Nat
  PROVE  Noted(s) \in [ingested : Nat, first : Nat]
  BY DEF Noted, Larger

\* The steps that leave what the slots hold and what was read of them.
LEMMA PollStep ==
  ASSUME HealthInv, UNCHANGED <<inscribed, readSlots>>,
         lib' \in Int, lib' <= Tip, l1' \in [ingested : Nat, first : Nat],
         track' \in Track, track'.slotSeen = track.slotSeen,
         track'.user = track.user, track'.raw = track.raw
  PROVE  HealthInv'
<1>1. Tip' = Tip
  BY DEF Tip
<1>2. QED BY <1>1 DEF HealthInv, SlotsInv, EvidenceInv, Inscribed

LEMMA HealthStep == HealthInv /\ [Next]_vars => HealthInv'
<1> SUFFICES ASSUME HealthInv, [Next]_vars PROVE HealthInv'
  OBVIOUS
<1>1. /\ Tip \in Nat /\ lib \in Int /\ lib <= Tip /\ l1 \in [ingested : Nat, first : Nat]
      /\ track \in Track /\ readSlots \subseteq 1..Tip
  BY DEF HealthInv, SlotsInv
<1>2. ASSUME NEW k \in Kinds, Slot(k) PROVE HealthInv'
  BY <1>2, SlotStep
<1>3. CASE AliveTipPasses
  <2>1. UNCHANGED <<inscribed, lib, l1, readSlots>> /\ track' = [track EXCEPT !.advanced = FALSE]
    BY <1>3 DEF AliveTipPasses
  <2>2. /\ track' \in Track /\ track'.slotSeen = track.slotSeen
        /\ track'.user = track.user /\ track'.raw = track.raw
    BY <1>1, <2>1 DEF Track
  <2>3. QED BY <1>1, <2>1, <2>2, PollStep
<1>4. CASE StreamRead
  <2>1. Tip \in 1..Tip /\ Read({Tip}, "nothing") /\ l1' = Noted(Tip)
    BY <1>1, <1>4 DEF StreamRead
  <2>2. QED BY <1>1, <2>1, NotedType, ReadStep
<1>5. CASE WalkRead
  <2>1. PICK hi \in 1..lib : \E lo \in 1..hi : l1' = Noted(hi) /\ Read(lo..hi, "raw")
    BY <1>5 DEF WalkRead
  <2>2. PICK lo \in 1..hi : l1' = Noted(hi) /\ Read(lo..hi, "raw")
    BY <2>1
  <2>3. hi \in Nat /\ lo..hi \in SUBSET (1..Tip)
    BY <1>1
  <2>4. QED BY <1>1, <2>2, <2>3, NotedType, ReadStep
<1>6. CASE SeedRead
  <2>1. PICK lo \in 1..lib : Read(lo..lib, "nothing") /\ l1' = l1
    BY <1>6 DEF SeedRead
  <2>2. lo..lib \in SUBSET (1..Tip)
    BY <1>1
  <2>3. QED BY <1>1, <2>1, <2>2, ReadStep
<1>7. CASE PollInfo
  <2>1. lib' \in Int /\ lib' <= Tip /\ UNCHANGED <<inscribed, l1, track, readSlots>>
    BY <1>1, <1>7 DEF PollInfo, Larger
  <2>2. QED BY <1>1, <2>1, PollStep
<1>8. CASE PollChannel
  <2>1. PICK s \in Inscribed(1..Tip) : track' = [track EXCEPT !.record = s]
    BY <1>8 DEF PollChannel
  <2>2. s \in Nat /\ UNCHANGED <<inscribed, lib, l1, readSlots>>
    BY <1>8, <2>1 DEF PollChannel, Inscribed
  <2>3. /\ track' \in Track /\ track'.slotSeen = track.slotSeen
        /\ track'.user = track.user /\ track'.raw = track.raw
    BY <1>1, <2>1, <2>2 DEF Track
  <2>4. QED BY <1>1, <2>2, <2>3, PollStep
<1>9. CASE PollTip
  <2>1. PICK tip \in 0..MaxTip :
          track' = [track EXCEPT !.tipSeen = tip, !.rpc = TRUE,
                      !.advanced = @ \/ (track.tipSeen # None /\ tip > track.tipSeen)]
    BY <1>9 DEF PollTip
  <2> DEFINE advanced == track.advanced \/ (track.tipSeen # None /\ tip > track.tipSeen)
  <2>2. advanced \in BOOLEAN /\ track' = [track EXCEPT !.tipSeen = tip, !.rpc = TRUE, !.advanced = advanced]
    BY <2>1
  <2> HIDE DEF advanced
  <2>3. /\ track' \in Track /\ track'.slotSeen = track.slotSeen
        /\ track'.user = track.user /\ track'.raw = track.raw
    BY <1>1, <2>2 DEF Track
  <2>4. UNCHANGED <<inscribed, lib, l1, readSlots>>
    BY <1>9 DEF PollTip
  <2>5. QED BY <1>1, <2>3, <2>4, PollStep
<1>10. CASE Restart
  <2>1. /\ l1' \in [ingested : Nat, first : Nat] /\ lib' = -1 /\ readSlots' = {}
        /\ inscribed' = inscribed /\ track' = [track EXCEPT !.tipSeen = -1]
    BY <1>10 DEF Restart, NoL1, None
  <2>2. /\ track' \in Track /\ track'.slotSeen = track.slotSeen
    BY <1>1, <2>1 DEF Track
  <2>3. Tip' = Tip
    BY <2>1 DEF Tip
  <2>4. SlotsInv'
    BY <1>1, <2>1, <2>2, <2>3 DEF HealthInv, SlotsInv
  <2>5. Inscribed(1..Tip)' = Inscribed(1..Tip) /\ Inscribed(readSlots)' = {}
    BY <2>1, <2>3 DEF Inscribed
  <2>6. EvidenceInv'
    BY <2>1, <2>2, <2>5 DEF HealthInv, EvidenceInv
  <2>7. QED BY <2>4, <2>6 DEF HealthInv
<1>11. CASE UNCHANGED vars
  BY <1>1, <1>11, PollStep DEF vars
<1>12. QED BY <1>2, <1>3, <1>4, <1>5, <1>6, <1>7, <1>8, <1>9, <1>10, <1>11 DEF Next

LEMMA HealthInvariant == Spec => []HealthInv
  BY HealthInit, HealthStep, PTL DEF Spec

--------------------------------------------------------------------------------
(* The verdicts *)

LEMMA SettlesByEvidence ==
  ASSUME HealthInv, SettleSlots \in Nat, Verdict = "settling"
  PROVE  \E s \in Inscribed(1..Tip) : l1.ingested - s < SettleSlots
<1>1. track.slotSeen > 0 /\ Minus(l1.ingested, track.slotSeen) < SettleSlots
  BY DEF Verdict
<1>2. track.slotSeen \in Nat /\ l1.ingested \in Nat
  BY DEF HealthInv, SlotsInv, Track
<1>3. track.slotSeen \in Inscribed(1..Tip)
  BY <1>1, <1>2 DEF HealthInv, EvidenceInv
<1>4. l1.ingested - track.slotSeen < SettleSlots
  BY <1>1, <1>2 DEF Minus
<1>5. QED BY <1>3, <1>4

LEMMA StalledByEvidence ==
  ASSUME HealthInv, SettleSlots \in Nat, Verdict = "stalled"
  PROVE  /\ Inscribed(Window \cap readSlots) = {}
         /\ l1.first..l1.ingested \subseteq readSlots => Inscribed(Window) = {}
<1>1. /\ ~(track.slotSeen > 0 /\ Minus(l1.ingested, track.slotSeen) < SettleSlots)
      /\ Minus(l1.ingested, l1.first) >= SettleSlots
  BY DEF Verdict
<1>2. track.slotSeen \in Nat /\ l1.ingested \in Nat /\ l1.first \in Nat /\ Tip \in Nat
  BY DEF HealthInv, SlotsInv, Track
<1>3. ASSUME NEW s \in Inscribed(Window \cap readSlots) PROVE FALSE
  <2>1. s \in 1..l1.ingested /\ l1.ingested - s < SettleSlots /\ s \in Inscribed(readSlots)
    BY <1>3 DEF Inscribed, Window
  <2>2. s <= track.slotSeen
    BY <2>1 DEF HealthInv, EvidenceInv
  <2>3. QED BY <1>1, <1>2, <2>1, <2>2 DEF Minus
<1>4. Window \subseteq l1.first..l1.ingested
  BY <1>1, <1>2 DEF Window, Minus
<1>5. l1.first..l1.ingested \subseteq readSlots => Window \cap readSlots = Window
  BY <1>4
<1>6. QED BY <1>3, <1>5

LEMMA ActivityByEvidence ==
  ASSUME HealthInv, Kinds \subseteq {"nothing", "clock", "user", "raw"}
  PROVE  /\ Activity = "clock-only" =>
              {inscribed[s] : s \in readSlots} \subseteq {"nothing", "clock"}
         /\ Activity = "raw" => "user" \notin {inscribed[s] : s \in readSlots}
<1>1. Activity \in {"clock-only", "raw"} => ~track.user
  BY DEF Activity
<1>2. Activity = "clock-only" => ~track.raw
  BY DEF Activity
<1>3. \A s \in readSlots : inscribed[s] \in {"nothing", "clock", "user", "raw"}
  BY DEF HealthInv, SlotsInv
<1>4. \A s \in readSlots : /\ inscribed[s] = "user" => track.user
                           /\ inscribed[s] = "raw" => track.raw
  BY DEF HealthInv, EvidenceInv
<1>5. QED BY <1>1, <1>2, <1>3, <1>4

LEMMA EvidenceSaid ==
  ASSUME HealthInv, SettleSlots \in Nat, Kinds \subseteq {"nothing", "clock", "user", "raw"}
  PROVE  SaidOfZone
  BY SettlesByEvidence, StalledByEvidence, ActivityByEvidence, Zenon DEF SaidOfZone

\* Whatever the settling threshold, and however the stream, the walk and the scan at
\* the start shared the reading, before and after restarts: a zone is said to settle
\* only on an inscription of it near the frontier, to have stalled only when none was
\* read in the window, and to hold ticks or raw data only when no more was read.
THEOREM RestsOnEvidence ==
  ASSUME SettleSlots \in Nat, Kinds \subseteq {"nothing", "clock", "user", "raw"}
  PROVE  Spec => []SaidOfZone
<1>1. HealthInv => SaidOfZone
  BY EvidenceSaid, Zenon
<1>2. QED BY <1>1, HealthInvariant, PTL
================================================================================
