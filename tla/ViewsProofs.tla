------------------------------- MODULE ViewsProofs ------------------------------
(***************************************************************************)
(* Theorems about the parts that MCViews checks, for every value of the    *)
(* constants.  Each part is proved of the variables MCViews gives it:      *)
(*   the chain that starts over: v1 the chain, v2 what each reader heard,  *)
(*     v3 the cursors, v4 the verdicts, v5 the walk, v7 the one reader;    *)
(*   the privacy labels: v1 the chain, v2 its balances, v3 the labels, v4  *)
(*     what the relabellers have in hand, v6 the labels derived with       *)
(*     everything below stored;                                            *)
(*   the health of a zone, from SettlingProofs;                            *)
(*   the scans of the CLI: v1 the zone, v2 the scan, v3 the track, v4 how  *)
(*     many scans, v5 the slots folded, v6 those seen raw only, v7 watch;  *)
(*   the live feed: v1 the rolling feed, v2 its hashes, v3 the readers, v4 *)
(*     the store, v5 the pushes, v6 the client's feed, v8 what it owes, v9 *)
(*     what was pushed late.                                               *)
(***************************************************************************)
EXTENDS MCViews, Sequences, SequenceTheorems, FiniteSetTheorems, WellFoundedInduction, TLAPS

--------------------------------------------------------------------------------
(* The one form of induction here: a set of naturals has a least element *)

LEMMA Least ==
  ASSUME NEW S \in SUBSET Nat, S # {}
  PROVE  \E x \in S : \A y \in S : x <= y
<1> DEFINE R == OpToRel(<, Nat)
<1>1. IsWellFoundedOn(R, Nat)
  BY NatLessThanWellFounded
<1>2. PICK x \in S : \A y \in S : <<y, x>> \notin R
  <2> HIDE DEF R
  <2> QED BY <1>1, WFMin
<1>3. \A y \in S : ~(y < x)
  BY <1>2, Zenon DEF OpToRel
<1>4. QED BY <1>3

--------------------------------------------------------------------------------
(* The chain of a zone that starts over *)

Block == [gen : Nat, id : Nat, bad : BOOLEAN]

\* The next block of a generation, or the first of the next one.
Follows(a, b) ==
  \/ b.gen = a.gen /\ b.id = a.id + 1
  \/ b.gen = a.gen + 1 /\ b.id = 0 /\ ~b.bad

ChainInv ==
  /\ v1 \in Seq(Block)
  /\ Len(v1) > 0 => v1[1].gen = 0 /\ v1[1].id = 0 /\ ~v1[1].bad
  /\ \A p \in 1..(Len(v1) - 1) : Follows(v1[p], v1[p + 1])

Positions == 1..Len(v1)

OneGen(P) == \A p, q \in P : v1[p].gen = v1[q].gen

LEMMA PositionsOf ==
  ASSUME ChainInv
  PROVE  /\ Len(v1) \in Nat /\ Verify!Positions = Positions /\ Positions \subseteq Nat
         /\ \A p \in Positions : v1[p] \in Block
         /\ \A p \in Positions : p # 1 => p - 1 \in Positions /\ Follows(v1[p - 1], v1[p])
<1>1. Len(v1) \in Nat /\ Verify!Positions = Positions /\ \A p \in Positions : v1[p] \in Block
  BY DEF ChainInv, Positions, Verify!Positions
<1>2. ASSUME NEW p \in Positions, p # 1 PROVE p - 1 \in Positions /\ Follows(v1[p - 1], v1[p])
  <2>1. p - 1 \in 1..(Len(v1) - 1) /\ p - 1 + 1 = p /\ p - 1 \in Positions
    BY <1>1, <1>2 DEF Positions
  <2>2. Follows(v1[p - 1], v1[p - 1 + 1])
    BY <2>1 DEF ChainInv
  <2>3. QED BY <2>1, <2>2
<1>3. Positions \subseteq Nat
  BY <1>1 DEF Positions
<1>4. QED BY <1>1, <1>2, <1>3

\* In a generation the ids go up with the positions.
LEMMA InOrder ==
  ASSUME ChainInv
  PROVE  \A p, q \in Positions : p <= q =>
           /\ v1[p].gen <= v1[q].gen
           /\ v1[p].gen = v1[q].gen => v1[q].id = v1[p].id + (q - p)
<1> DEFINE Ok(p, q) == /\ v1[p].gen <= v1[q].gen
                       /\ v1[p].gen = v1[q].gen => v1[q].id = v1[p].id + (q - p)
           Wrong == {d \in Nat : \E p, q \in Positions : q = p + d /\ ~Ok(p, q)}
<1>1. Wrong = {}
  <2> SUFFICES ASSUME Wrong # {} PROVE FALSE
    OBVIOUS
  <2>1. PICK d \in Wrong : \A e \in Wrong : d <= e
    <3>1. Wrong \subseteq Nat
      OBVIOUS
    <3> HIDE DEF Wrong
    <3>2. QED BY <3>1, Least
  <2>2. PICK p \in Positions, q \in Positions : q = p + d /\ ~Ok(p, q)
    BY <2>1
  <2>3. d \in Nat /\ v1[p] \in Block /\ v1[q] \in Block /\ p \in Nat /\ q \in Nat
    BY <2>1, PositionsOf
  <2>4. CASE d = 0
    BY <2>2, <2>3, <2>4 DEF Block
  <2>5. CASE d > 0
    <3>1. q # 1
      BY <2>2, <2>3, <2>5 DEF Positions
    <3>2. q - 1 \in Positions /\ Follows(v1[q - 1], v1[q]) /\ v1[q - 1] \in Block
      BY <3>1, PositionsOf
    <3>3. d - 1 \in Nat /\ q - 1 = p + (d - 1) /\ ~(d <= d - 1)
      BY <2>2, <2>3, <2>5
    <3>4. d - 1 \notin Wrong
      <4> HIDE DEF Wrong
      <4>1. QED BY <2>1, <3>3
    <3>5. Ok(p, q - 1)
      BY <3>2, <3>3, <3>4
    <3>6. Ok(p, q)
      BY <2>3, <3>2, <3>5 DEF Follows, Block
    <3>7. QED BY <2>2, <3>6
  <2>6. QED BY <2>3, <2>4, <2>5
<1>2. ASSUME NEW p \in Positions, NEW q \in Positions, p <= q PROVE Ok(p, q)
  <2>1. q - p \in Nat /\ q = p + (q - p)
    BY <1>2, PositionsOf
  <2>2. QED BY <1>1, <2>1
<1>3. QED BY <1>2

LEMMA IdsDiffer ==
  ASSUME ChainInv, NEW P \in SUBSET Positions, OneGen(P), NEW p \in P, NEW q \in P
  PROVE  v1[p].id - v1[q].id = p - q
<1>1. v1[p].gen = v1[q].gen /\ p \in Nat /\ q \in Nat /\ v1[p] \in Block /\ v1[q] \in Block
  BY PositionsOf DEF OneGen
<1>2. CASE p <= q
  <2>1. v1[q].id = v1[p].id + (q - p)
    BY <1>1, <1>2, InOrder
  <2>2. QED BY <1>1, <2>1 DEF Block
<1>3. CASE q <= p
  <2>1. v1[p].id = v1[q].id + (p - q)
    BY <1>1, <1>3, InOrder
  <2>2. QED BY <1>1, <2>1 DEF Block
<1>4. QED BY <1>1, <1>2, <1>3

LEMMA Counting == \A S : Verify!Cardinality(S) = Cardinality(S)
  BY Zenon DEF Verify!Cardinality, Cardinality

LEMMA FewPositions ==
  ASSUME ChainInv, NEW P \in SUBSET Positions
  PROVE  IsFiniteSet(P) /\ Cardinality(P) \in Nat
<1>1. IsFiniteSet(Positions)
  BY PositionsOf, FS_Interval DEF Positions
<1>2. QED BY <1>1, FS_Subset, FS_CardinalityType

\* What is read of a generation has as many blocks as positions.
LEMMA ReadOnce ==
  ASSUME ChainInv, NEW P \in SUBSET Positions, OneGen(P)
  PROVE  IsFiniteSet(Verify!Read(P)) /\ Cardinality(Verify!Read(P)) = Cardinality(P)
<1> DEFINE f == [p \in P |-> v1[p]]
<1>1. IsFiniteSet(P)
  BY FewPositions
<1>2. \A p, q \in P : f[p] = f[q] => p = q
  <2> SUFFICES ASSUME NEW p \in P, NEW q \in P, v1[p] = v1[q] PROVE p = q
    OBVIOUS
  <2>1. v1[p].id - v1[q].id = p - q /\ v1[p] \in Block /\ p \in Nat /\ q \in Nat
    BY IdsDiffer, PositionsOf
  <2>2. QED BY <2>1 DEF Block
<1>3. f \in [P -> Verify!Read(P)] /\ \A b \in Verify!Read(P) : \E p \in P : f[p] = b
  BY DEF Verify!Read
<1> HIDE DEF f
<1>4. f \in Bijection(P, Verify!Read(P))
  BY <1>2, <1>3 DEF Bijection, Injection, Surjection, IsInjective
<1>5. ExistsBijection(P, Verify!Read(P))
  BY <1>4 DEF ExistsBijection
<1>6. QED BY <1>1, <1>5, FS_Bijection

LEMMA GensOf ==
  ASSUME ChainInv, NEW P \in SUBSET Positions, Verify!Cardinality(Verify!Gens(P)) <= 1
  PROVE  OneGen(P)
<1> DEFINE G == Verify!Gens(P)
<1>1. IsFiniteSet(G)
  <2> DEFINE f == [p \in P |-> v1[p].gen]
  <2>1. f \in [P -> G] /\ \A g \in G : \E p \in P : f[p] = g
    BY DEF Verify!Gens
  <2> HIDE DEF f, G
  <2>2. f \in Surjection(P, G)
    BY <2>1 DEF Surjection
  <2>3. QED BY <2>2, FewPositions, FS_Surjection
<1>2. Cardinality(G) <= 1
  BY Counting
<1>3. ASSUME NEW x \in G, NEW y \in G PROVE x = y
  <2> HIDE DEF G
  <2> SUFFICES ASSUME x # y PROVE FALSE
    OBVIOUS
  <2>1. IsFiniteSet({x}) /\ Cardinality({x}) = 1
    BY FS_Singleton
  <2>2. Cardinality({x} \cup {y}) = 2
    BY <2>1, FS_AddElement
  <2>3. {x} \cup {y} \in SUBSET G
    OBVIOUS
  <2>4. Cardinality({x} \cup {y}) <= Cardinality(G)
    BY <1>1, <2>3, FS_Subset
  <2>5. Cardinality(G) \in Nat
    BY <1>1, FS_CardinalityType
  <2>6. QED BY <1>2, <2>2, <2>4, <2>5
<1>4. \A p \in P : v1[p].gen \in G
  BY DEF Verify!Gens
<1> HIDE DEF G
<1>5. QED BY <1>3, <1>4 DEF OneGen

--------------------------------------------------------------------------------
(* The verdict of a window *)

Broken(B, b) ==
  LET below == {p \in B : p.id = b.id - 1} IN
  Verify!Cardinality(below) = 1 /\ \A p \in below : ~Verify!Child(b, p)

LEMMA BreaksOf ==
  ASSUME NEW B PROVE Verify!Verdict(B).breaks = Verify!Cardinality({b \in B : Broken(B, b)})
  BY DEF Verify!Verdict, Broken

\* Of a stretch of one generation it counts the bad blocks of which the parent was read.
LEMMA BreaksAreBad ==
  ASSUME ChainInv, NEW P \in SUBSET Positions, OneGen(P)
  PROVE  Verify!Verdict(Verify!Read(P)).breaks =
           Verify!Cardinality({p \in Verify!Bad(P) : p - 1 \in P})
<1> DEFINE B == Verify!Read(P)  Q == {p \in Verify!Bad(P) : p - 1 \in P}
<1>1. Q \subseteq P
  BY DEF Verify!Bad
<1>2. ASSUME NEW p \in P PROVE Broken(B, v1[p]) <=> p \in Q
  <2> DEFINE b == v1[p]  below == {x \in B : x.id = b.id - 1}
  <2>1. p \in Nat /\ b \in Block
    BY PositionsOf
  <2>2. ASSUME NEW x \in below PROVE p - 1 \in P /\ x = v1[p - 1]
    <3>1. PICK q \in P : x = v1[q]
      BY DEF Verify!Read
    <3>2. b.id - x.id = p - q /\ q \in Nat /\ x \in Block
      BY <3>1, IdsDiffer, PositionsOf
    <3>3. x.id = b.id - 1
      OBVIOUS
    <3> HIDE DEF b, below
    <3>4. q = p - 1
      BY <2>1, <3>2, <3>3 DEF Block
    <3>5. QED BY <3>1, <3>4
  <2>3. CASE p - 1 \in P
    <3>1. b.id - v1[p - 1].id = p - (p - 1) /\ v1[p - 1] \in Block
      BY <2>3, IdsDiffer, PositionsOf
    <3>2. v1[p - 1].id = b.id - 1
      BY <2>1, <3>1 DEF Block
    <3>3. below = {v1[p - 1]}
      BY <2>2, <2>3, <3>2 DEF Verify!Read
    <3>4. v1[p - 1].gen = b.gen
      BY <2>3 DEF OneGen
    <3>5. Verify!Cardinality(below) = 1
      BY <3>3, Counting, FS_Singleton
    <3>6. Verify!Child(b, v1[p - 1]) <=> ~b.bad
      BY <3>2, <3>4 DEF Verify!Child
    <3>7. Broken(B, b) <=> b.bad
      BY <3>3, <3>5, <3>6 DEF Broken
    <3>8. QED BY <2>3, <3>7 DEF Verify!Bad
  <2>4. CASE p - 1 \notin P
    <3>1. below = {}
      BY <2>2, <2>4
    <3>2. Verify!Cardinality(below) = 0
      BY <3>1, Counting, FS_EmptySet
    <3>3. QED BY <2>4, <3>2 DEF Broken
  <2>5. QED BY <2>3, <2>4
<1>3. {b \in B : Broken(B, b)} = Verify!Read(Q)
  <2> HIDE DEF Q
  <2>1. \A b : b \in Verify!Read(Q) <=> \E p \in Q : b = v1[p]
    BY DEF Verify!Read
  <2>2. \A b : b \in B <=> \E p \in P : b = v1[p]
    BY DEF Verify!Read
  <2> HIDE DEF B
  <2>3. QED BY <1>1, <1>2, <2>1, <2>2
<1>4. OneGen(Q) /\ Q \in SUBSET Positions
  BY <1>1 DEF OneGen
<1> HIDE DEF B, Q
<1>5. Cardinality(Verify!Read(Q)) = Cardinality(Q)
  BY <1>4, ReadOnce
<1>6. Verify!Verdict(B).breaks = Verify!Cardinality(Q)
  BY <1>3, <1>5, BreaksOf, Counting
<1>7. QED BY <1>6 DEF B, Q

\* A window of an honest zone that begins with a generation has no broken link.
LEMMA HonestWindow ==
  ASSUME ChainInv, NEW lo \in Positions, NEW hi \in Positions, Verify!Bad(Positions) = {},
         v1[lo].id = 0
  PROVE  Verify!Verdict(Verify!Read(lo..hi)).breaks = 0
<1> DEFINE B == Verify!Read(lo..hi)
<1>0. lo..hi \subseteq Positions /\ lo \in Nat /\ hi \in Nat
  BY PositionsOf DEF Positions
<1>1. ASSUME NEW b \in B PROVE ~Broken(B, b)
  <2>1. PICK q \in lo..hi : b = v1[q]
    BY DEF Verify!Read
  <2>2. q \in Positions /\ b \in Block /\ ~b.bad /\ q \in Nat
    BY <1>0, <2>1, PositionsOf DEF Verify!Bad
  <2> DEFINE below == {p \in B : p.id = b.id - 1}
  <2>3. \A x \in B : x \in Block
    BY <1>0, PositionsOf DEF Verify!Read
  <2>4. CASE b.id = 0
    <3>1. below = {}
      BY <2>2, <2>3, <2>4 DEF Block
    <3>2. Verify!Cardinality(below) = 0
      BY <3>1, Counting, FS_EmptySet
    <3>3. QED BY <3>2 DEF Broken
  <2>5. CASE b.id # 0
    <3>1. q # lo /\ q # 1
      <4>1. q # lo
        BY <2>1, <2>5
      <4>2. Positions # {} => v1[1].id = 0
        BY PositionsOf DEF ChainInv, Positions
      <4>3. QED BY <2>1, <2>2, <2>5, <4>1, <4>2
    <3>2. q - 1 \in lo..hi /\ q - 1 \in Positions /\ Follows(v1[q - 1], v1[q])
           /\ v1[q - 1] \in Block
      BY <1>0, <2>1, <2>2, <3>1, PositionsOf
    <3>3. v1[q - 1].id = b.id - 1 /\ v1[q - 1].gen = b.gen
      BY <2>1, <2>2, <2>5, <3>2 DEF Follows, Block
    <3>4. v1[q - 1] \in below /\ Verify!Child(b, v1[q - 1])
      BY <2>2, <3>2, <3>3 DEF Verify!Read, Verify!Child
    <3>5. QED BY <3>4 DEF Broken
  <2>6. QED BY <2>4, <2>5
<1>2. {b \in B : Broken(B, b)} = {}
  BY <1>1
<1> HIDE DEF B
<1>3. Verify!Verdict(B).breaks = 0
  BY <1>2, BreaksOf, Counting, FS_EmptySet
<1>4. QED BY <1>3 DEF B

--------------------------------------------------------------------------------
(* The buffer of a walk *)

LEMMA OnePut ==
  ASSUME ChainInv, VerifCap \in Nat, NEW R \in SUBSET Positions, NEW p \in Positions,
         OneGen(R \cup {p}), Cardinality(R \cup {p}) <= VerifCap
  PROVE  Verify!Put(Verify!Read(R), v1[p]) = Verify!Read(R \cup {p})
<1> DEFINE B == Verify!Read(R)
<1>1. OneGen(R)
  BY DEF OneGen
<1>2. Verify!Cardinality(B) = Cardinality(R) /\ IsFiniteSet(R) /\ Cardinality(R) \in Nat
  BY <1>1, ReadOnce, Counting, FewPositions
<1>3. Verify!Read(R \cup {p}) = B \cup {v1[p]}
  BY DEF Verify!Read
<1>4. \A q \in R : v1[q].id = v1[p].id => q = p
  <2> SUFFICES ASSUME NEW q \in R, v1[q].id = v1[p].id PROVE q = p
    OBVIOUS
  <2>1. v1[q].id - v1[p].id = q - p
    BY IdsDiffer
  <2>2. q \in Nat /\ p \in Nat /\ v1[p] \in Block /\ v1[q] \in Block
    BY PositionsOf
  <2>3. QED BY <2>1, <2>2 DEF Block
<1>5. {x \in B : x.id # v1[p].id} \cup {v1[p]} = B \cup {v1[p]}
  BY <1>4 DEF Verify!Read
<1>6. CASE p \in R
  <2>1. v1[p] \in B
    BY <1>6 DEF Verify!Read
  <2> HIDE DEF B
  <2>2. B \cup {v1[p]} = B
    BY <2>1
  <2>3. {x \in B : x.id # v1[p].id} \cup {v1[p]} = B
    BY <1>5, <2>2
  <2>4. Verify!Put(B, v1[p]) = B
    BY <2>3 DEF Verify!Put
  <2>5. Verify!Put(B, v1[p]) = Verify!Read(R \cup {p})
    BY <1>3, <2>2, <2>4
  <2>6. QED BY <2>5 DEF B
<1>7. CASE p \notin R
  <2>1. Cardinality(R \cup {p}) = Cardinality(R) + 1
    BY <1>2, <1>7, FS_AddElement
  <2>2. Verify!Cardinality(B) < VerifCap
    BY <1>2, <2>1
  <2> HIDE DEF B
  <2>3. Verify!Put(B, v1[p]) = {x \in B : x.id # v1[p].id} \cup {v1[p]}
    BY <2>2 DEF Verify!Put
  <2>4. Verify!Put(B, v1[p]) = Verify!Read(R \cup {p})
    BY <1>3, <1>5, <2>3
  <2>5. QED BY <2>4 DEF B
<1>8. QED BY <1>6, <1>7

\* g is the buffer after each of lo, lo + 1, ..., hi.
IsPut(g, buf, lo, hi) ==
  g[lo - 1] = buf /\ \A p \in lo..hi : g[p] = Verify!Put(g[p - 1], v1[p])
PutTo(g, buf, lo, hi) == IsPut(g, buf, lo, hi) /\ g = [p \in (lo - 1)..hi |-> g[p]]

LEMMA PutExists ==
  \A buf : \A lo, n \in Nat : \E g : PutTo(g, buf, lo, lo + n - 1)
<1> TAKE buf
<1> TAKE lo, n \in Nat
<1> DEFINE Has(m) == \E g : PutTo(g, buf, lo, lo + m - 1)
           Lacks == {m \in Nat : ~Has(m)}
<1> SUFFICES ASSUME Lacks # {} PROVE FALSE
  OBVIOUS
<1>1. PICK m \in Lacks : \A k \in Lacks : m <= k
  <2> HIDE DEF Has
  <2> QED BY Least
<1>2. CASE m = 0
  <2> DEFINE g == [p \in (lo - 1)..(lo + 0 - 1) |-> buf]
  <2>1. PutTo(g, buf, lo, lo + 0 - 1)
    BY DEF IsPut, PutTo
  <2> HIDE DEF g
  <2>2. QED BY <1>2, <2>1
<1>3. CASE m > 0
  <2> DEFINE t == lo + m - 1
  <2>1. m - 1 \in Nat /\ m - 1 \notin Lacks /\ t \in Nat /\ lo + (m - 1) - 1 = t - 1 /\ lo <= t
    <3>1. m \in Nat
      BY <1>1
    <3>2. m - 1 \in Nat /\ t \in Nat /\ lo + (m - 1) - 1 = t - 1 /\ lo <= t /\ ~(m <= m - 1)
      BY <1>3, <3>1
    <3> HIDE DEF Lacks, t
    <3>3. QED BY <1>1, <3>2
  <2>2. PICK g : PutTo(g, buf, lo, t - 1)
    BY <2>1
  <2> DEFINE h == [p \in (lo - 1)..t |-> IF p < t THEN g[p] ELSE Verify!Put(g[t - 1], v1[t])]
  <2>3. h = [p \in (lo - 1)..t |-> h[p]]
    OBVIOUS
  <2>4. h[t] = Verify!Put(g[t - 1], v1[t]) /\ \A p \in (lo - 1)..(t - 1) : h[p] = g[p]
    BY <2>1
  <2> HIDE DEF h, t
  <2>5. IsPut(h, buf, lo, t)
    <3>1. ASSUME NEW p \in lo..t PROVE h[p] = Verify!Put(h[p - 1], v1[p])
      <4>1. h[p - 1] = g[p - 1]
        <5>1. p - 1 \in (lo - 1)..(t - 1)
          BY <2>1
        <5>2. QED BY <2>4, <5>1
      <4>2. CASE p = t
        BY <2>4, <4>1, <4>2
      <4>3. CASE p # t
        <5>1. p \in lo..(t - 1) /\ p \in (lo - 1)..(t - 1)
          BY <2>1, <4>3
        <5>2. g[p] = Verify!Put(g[p - 1], v1[p])
          BY <2>2, <5>1 DEF IsPut, PutTo
        <5>3. QED BY <2>4, <4>1, <5>1, <5>2
      <4>4. QED BY <4>2, <4>3
    <3>2. h[lo - 1] = buf
      BY <2>1, <2>2, <2>4 DEF IsPut, PutTo
    <3>3. QED BY <3>1, <3>2 DEF IsPut
  <2>6. PutTo(h, buf, lo, t)
    BY <2>3, <2>5 DEF PutTo
  <2>7. QED BY <2>6 DEF t
<1>4. QED BY <1>2, <1>3

LEMMA PutEach ==
  ASSUME ChainInv, VerifCap \in Nat, NEW R \in SUBSET Positions,
         NEW lo \in Positions, NEW hi \in Positions, lo <= hi,
         OneGen(R \cup (lo..hi)), Cardinality(R \cup (lo..hi)) <= VerifCap,
         NEW g, IsPut(g, Verify!Read(R), lo, hi)
  PROVE  g[hi] = Verify!Read(R \cup (lo..hi))
<1> DEFINE S(m) == R \cup (lo..(lo + m - 1))
           Wrong == {m \in Nat : m <= hi - lo + 1 /\ g[lo + m - 1] # Verify!Read(S(m))}
<1>0. lo \in Nat /\ hi \in Nat /\ lo..hi \subseteq Positions /\ hi - lo + 1 \in Nat
      /\ IsFiniteSet(R \cup (lo..hi)) /\ Cardinality(R \cup (lo..hi)) \in Nat
  <2>1. lo \in Nat /\ hi \in Nat /\ lo..hi \subseteq Positions /\ hi - lo + 1 \in Nat
    BY PositionsOf DEF Positions
  <2>2. R \cup (lo..hi) \in SUBSET Positions
    BY <2>1
  <2>3. QED BY <2>1, <2>2, FewPositions
<1>1. Wrong = {}
  <2> SUFFICES ASSUME Wrong # {} PROVE FALSE
    OBVIOUS
  <2>1. PICK m \in Wrong : \A k \in Wrong : m <= k
    <3>1. Wrong \subseteq Nat
      OBVIOUS
    <3> HIDE DEF Wrong
    <3>2. QED BY <3>1, Least
  <2>2. m \in Nat /\ m <= hi - lo + 1
    BY <2>1
  <2>3. CASE m = 0
    <3>1. S(0) = R /\ lo + 0 - 1 = lo - 1
      BY <1>0
    <3>2. g[lo - 1] = Verify!Read(R)
      BY DEF IsPut
    <3>3. g[lo + 0 - 1] = Verify!Read(S(0))
      BY <3>1, <3>2
    <3>4. QED BY <2>1, <2>3, <3>3
  <2>4. CASE m > 0
    <3> DEFINE t == lo + m - 1
    <3>1. m - 1 \in Nat /\ t \in lo..hi /\ lo + (m - 1) - 1 = t - 1 /\ ~(m <= m - 1)
           /\ m - 1 <= hi - lo + 1
      BY <1>0, <2>2, <2>4
    <3>2. m - 1 \notin Wrong
      <4> HIDE DEF Wrong
      <4>1. QED BY <2>1, <3>1
    <3>3. g[t - 1] = Verify!Read(R \cup (lo..(t - 1)))
      BY <3>1, <3>2
    <3>4. (R \cup (lo..(t - 1))) \cup {t} = R \cup (lo..t)
           /\ R \cup (lo..t) \subseteq R \cup (lo..hi)
          /\ R \cup (lo..(t - 1)) \in SUBSET Positions /\ t \in Positions
      BY <1>0, <3>1
    <3>5. OneGen(R \cup (lo..t)) /\ Cardinality(R \cup (lo..t)) <= VerifCap
      <4>1. Cardinality(R \cup (lo..t)) <= Cardinality(R \cup (lo..hi))
             /\ Cardinality(R \cup (lo..t)) \in Nat
        BY <1>0, <3>4, FS_Subset, FS_CardinalityType
      <4>2. QED BY <1>0, <3>4, <4>1 DEF OneGen
    <3>6. g[t] = Verify!Put(g[t - 1], v1[t])
      BY <3>1 DEF IsPut
    <3> HIDE DEF t
    <3>7. g[t] = Verify!Read(R \cup (lo..t))
      BY <3>3, <3>4, <3>5, <3>6, OnePut
    <3>8. QED BY <2>1, <3>7 DEF t
  <2>5. QED BY <2>2, <2>3, <2>4
<1>2. lo + (hi - lo + 1) - 1 = hi
  BY <1>0
<1>3. g[lo + (hi - lo + 1) - 1] = Verify!Read(S(hi - lo + 1))
  <2> DEFINE n == hi - lo + 1
  <2>1. n \in Nat /\ n <= hi - lo + 1
    BY <1>0
  <2> HIDE DEF n
  <2>2. n \notin Wrong
    <3> HIDE DEF Wrong
    <3>1. QED BY <1>1
  <2>3. g[lo + n - 1] = Verify!Read(S(n))
    BY <2>1, <2>2
  <2>4. QED BY <2>3 DEF n
<1>4. QED BY <1>2, <1>3

\* While the buffer is fair nothing that was read is pushed out of it.
LEMMA PutAllIs ==
  ASSUME ChainInv, VerifCap \in Nat, NEW R \in SUBSET Positions,
         NEW lo \in Positions, NEW hi \in Positions, lo <= hi,
         OneGen(R \cup (lo..hi)), Cardinality(R \cup (lo..hi)) <= VerifCap
  PROVE  Verify!PutAll(Verify!Read(R), lo, hi) = Verify!Read(R \cup (lo..hi))
<1> DEFINE buf == Verify!Read(R)
           All(g) == [p \in (lo - 1)..hi |-> IF p < lo THEN buf ELSE Verify!Put(g[p - 1], v1[p])]
           upTo == CHOOSE g : g = All(g)
<1>0. lo \in Nat /\ hi \in Nat /\ hi - lo + 1 \in Nat /\ lo + (hi - lo + 1) - 1 = hi
  BY PositionsOf
<1>1. Verify!PutAll(buf, lo, hi) = upTo[hi]
  BY DEF Verify!PutAll
<1> HIDE DEF buf
<1>2. PICK g : PutTo(g, buf, lo, hi)
  <2>1. \A m \in Nat : \E g : PutTo(g, buf, lo, lo + m - 1)
    BY <1>0, PutExists, Zenon
  <2>2. QED BY <1>0, <2>1
<1>3. g = All(g)
  <2>1. \A p \in (lo - 1)..hi : g[p] = IF p < lo THEN buf ELSE Verify!Put(g[p - 1], v1[p])
    <3>1. \A p \in (lo - 1)..hi : p = lo - 1 \/ p \in lo..hi
      BY <1>0
    <3>2. \A p \in lo..hi : ~(p < lo) /\ g[p] = Verify!Put(g[p - 1], v1[p])
      <4>1. \A p \in lo..hi : ~(p < lo)
        BY <1>0
      <4>2. \A p \in lo..hi : g[p] = Verify!Put(g[p - 1], v1[p])
        BY <1>2 DEF IsPut, PutTo
      <4>3. QED BY <4>1, <4>2
    <3>3. g[lo - 1] = buf /\ lo - 1 < lo
      BY <1>0, <1>2 DEF IsPut, PutTo
    <3>4. QED BY <3>1, <3>2, <3>3
  <2>2. g = [p \in (lo - 1)..hi |-> g[p]]
    BY <1>2 DEF PutTo
  <2>3. QED BY <2>1, <2>2
<1>4. upTo = All(upTo)
  BY <1>3
<1> HIDE DEF upTo
<1>5. IsPut(upTo, buf, lo, hi)
  BY <1>0, <1>4 DEF IsPut
<1>6. QED BY <1>1, <1>5, PutEach DEF buf

--------------------------------------------------------------------------------
(* Who is accused *)

\* The cursor of a reader that alone has verified, and is at h: at its last block, or
\* still in an older generation and above; a block that starts over is no matter.
Abreast(h) ==
  h >= 1 /\ (h = Len(v1) \/ v1[h + 1].id # 0) =>
    v3 = Verify!NoBlock \/ v3.id > v1[h].id \/ v3 = v1[h]

ReaderInv ==
  /\ v2 \in [Verify!Readers -> Nat] /\ \A r \in Verify!Readers : v2[r] <= Len(v1)
  /\ v3 = Verify!NoBlock \/ \E p \in Positions : v3 = v1[p]
  /\ v7 \in {"nobody", "none"} \cup Verify!Readers
  /\ v7 = "nobody" => v3 = Verify!NoBlock
  /\ v7 \in Verify!Readers => Abreast(v2[v7])

BufferInv ==
  /\ v5.read \subseteq Positions /\ (v5.on => v5.hi \in Positions)
  /\ Verify!FairBuffer(v5) => v5.buf = Verify!Read(v5.read)

VerifyInv ==
  /\ ChainInv /\ ReaderInv /\ BufferInv
  /\ v4.whole \subseteq Positions /\ Verify!NotAccused

LEMMA VerifyInit == Verify!Init => VerifyInv
<1> SUFFICES ASSUME Verify!Init PROVE VerifyInv
  OBVIOUS
<1>1. /\ v1 = <<>> /\ v2 = [r \in Verify!Readers |-> 0] /\ v3 = Verify!NoBlock
      /\ v4 = Verify!NoVerdict /\ v5 = Verify!NoWalk /\ v7 = "nobody"
  BY DEF Verify!Init
<1>2. ChainInv
  BY <1>1 DEF ChainInv
<1>3. ReaderInv
  BY <1>1 DEF ReaderInv, Verify!Readers
<1>4. BufferInv
  BY <1>1 DEF BufferInv, Verify!NoWalk, Verify!Read
<1>5. v4.whole \subseteq Positions /\ Verify!NotAccused
  BY <1>1 DEF Verify!NoVerdict, Verify!NotAccused
<1>6. QED BY <1>2, <1>3, <1>4, <1>5 DEF VerifyInv

\* A verdict on what is entitled to one accuses no honest zone, and counts right.
LEMMA JudgedFair ==
  ASSUME ChainInv, NEW P \in SUBSET Positions,
         \/ OneGen(P)
         \/ \E lo, hi \in Positions : P = lo..hi /\ v1[lo].id = 0
  PROVE  /\ Verify!Bad(Positions) = {} => Verify!Verdict(Verify!Read(P)).breaks = 0
         /\ Verify!Cardinality(Verify!Gens(P)) = 1 =>
              Verify!Verdict(Verify!Read(P)).breaks =
                Verify!Cardinality({p \in Verify!Bad(P) : p - 1 \in P})
<1>1. ASSUME OneGen(P), Verify!Bad(Positions) = {} PROVE Verify!Verdict(Verify!Read(P)).breaks = 0
  <2>1. {p \in Verify!Bad(P) : p - 1 \in P} = {}
    BY <1>1 DEF Verify!Bad
  <2>2. QED BY <1>1, <2>1, BreaksAreBad, Counting, FS_EmptySet
<1>2. CASE OneGen(P)
  BY <1>1, <1>2, BreaksAreBad
<1>3. CASE ~OneGen(P)
  <2>1. PICK lo \in Positions, hi \in Positions : P = lo..hi /\ v1[lo].id = 0
    BY <1>3
  <2>2. Verify!Bad(Positions) = {} => Verify!Verdict(Verify!Read(P)).breaks = 0
    BY <2>1, HonestWindow
  <2>3. Verify!Cardinality(Verify!Gens(P)) # 1
    <3>1. Verify!Cardinality(Verify!Gens(P)) = 1 => Verify!Cardinality(Verify!Gens(P)) <= 1
      OBVIOUS
    <3>2. QED BY <1>3, <3>1, GensOf
  <2>4. QED BY <2>2, <2>3
<1>4. QED BY <1>2, <1>3

\* What was read and judged stays as it was when the zone goes on.
LEMMA BlockStep ==
  ASSUME VerifyInv, NEW b \in Block, v1' = Append(v1, b),
         v1 = <<>> => b.gen = 0 /\ b.id = 0 /\ ~b.bad,
         v1 # <<>> => Follows(v1[Len(v1)], b),
         UNCHANGED <<v3, v4, v5, v7>>,
         v2' \in [Verify!Readers -> Nat],
         \A r \in Verify!Readers : v2'[r] = v2[r] \/ (v2'[r] = Len(v1) /\ b.id = 0)
  PROVE  VerifyInv'
<1> DEFINE n == Len(v1)
<1>0. ChainInv /\ ReaderInv /\ BufferInv /\ v4.whole \subseteq Positions /\ Verify!NotAccused
  BY DEF VerifyInv
<1>1. /\ n \in Nat /\ v1' \in Seq(Block) /\ Len(v1') = n + 1 /\ v1'[n + 1] = b
      /\ \A p \in 1..n : v1'[p] = v1[p]
  BY <1>0 DEF ChainInv
<1>2. Positions = 1..n /\ Positions' = 1..(n + 1) /\ Positions \subseteq Positions'
      /\ Verify!Positions = Positions /\ Verify!Positions' = Positions'
  BY <1>1 DEF Positions, Verify!Positions
<1>3. v1 # <<>> <=> n > 0
  BY <1>0, <1>1 DEF ChainInv
<1> HIDE DEF n
<1>4. ChainInv'
  <2>1. v1'[1].gen = 0 /\ v1'[1].id = 0 /\ ~v1'[1].bad
    <3>1. CASE n = 0
      BY <1>1, <1>3, <3>1
    <3>2. CASE n > 0
      <4>1. 1 \in 1..n
        BY <1>1, <3>2
      <4>2. v1[1].gen = 0 /\ v1[1].id = 0 /\ ~v1[1].bad
        BY <1>0, <3>2 DEF ChainInv, n
      <4>3. QED BY <1>1, <4>1, <4>2
    <3>3. QED BY <1>1, <3>1, <3>2
  <2>2. ASSUME NEW p \in 1..n PROVE Follows(v1'[p], v1'[p + 1])
    <3>1. CASE p = n
      BY <1>1, <1>3, <3>1 DEF n
    <3>2. CASE p # n
      <4>1. p \in 1..(n - 1) /\ p + 1 \in 1..n
        BY <1>1, <3>2
      <4>2. Follows(v1[p], v1[p + 1])
        BY <1>0, <4>1 DEF ChainInv, n
      <4>3. QED BY <1>1, <4>1, <4>2
    <3>3. QED BY <3>1, <3>2
  <2>3. Len(v1') - 1 = n
    BY <1>1
  <2>4. QED BY <1>1, <2>1, <2>2, <2>3 DEF ChainInv
<1>5. ASSUME NEW P \in SUBSET Positions
      PROVE  /\ Verify!Read(P)' = Verify!Read(P) /\ Verify!Gens(P)' = Verify!Gens(P)
             /\ Verify!Bad(P)' = Verify!Bad(P)
  <2>1. \A p \in P : v1'[p] = v1[p]
    BY <1>1, <1>2
  <2>2. QED BY <2>1 DEF Verify!Read, Verify!Gens, Verify!Bad
<1>6. BufferInv'
  <2>1. Verify!FairBuffer(v5)' = Verify!FairBuffer(v5)
    <3>1. Verify!Gens(v5.read)' = Verify!Gens(v5.read)
      BY <1>0, <1>5 DEF BufferInv, Verify!Gens
    <3>2. QED BY <3>1 DEF Verify!FairBuffer
  <2>2. Verify!Read(v5.read)' = Verify!Read(v5.read)
    BY <1>0, <1>5 DEF BufferInv, Verify!Read
  <2>3. QED BY <1>0, <1>2, <2>1, <2>2 DEF BufferInv
<1>7. Verify!NotAccused'
  <2>1. Verify!Bad(Verify!Positions)' = {} => Verify!Bad(Verify!Positions) = {}
    BY <1>1, <1>2 DEF Verify!Bad
  <2>2. Verify!Gens(v4.whole)' = Verify!Gens(v4.whole)
         /\ Verify!Bad(v4.whole)' = Verify!Bad(v4.whole)
    BY <1>0, <1>5 DEF Verify!Gens, Verify!Bad
  <2>3. QED BY <1>0, <2>1, <2>2 DEF Verify!NotAccused
<1>8. ReaderInv'
  <2>1. \A r \in Verify!Readers : v2'[r] <= Len(v1')
    BY <1>0, <1>1 DEF ReaderInv, n
  <2>2. v3' = Verify!NoBlock' \/ \E p \in Positions' : v3' = v1'[p]
    BY <1>0, <1>1, <1>2 DEF ReaderInv, Verify!NoBlock
  <2>3. ASSUME v7 \in Verify!Readers PROVE Abreast(v2[v7])'
    <3> DEFINE h == v2'[v7]
    <3>1. h \in Nat /\ h <= n /\ (h = v2[v7] \/ (h = n /\ b.id = 0))
      BY <1>0, <1>1, <2>3 DEF ReaderInv, n
    <3> HIDE DEF h
    <3>2. SUFFICES ASSUME h >= 1, h = n + 1 \/ v1'[h + 1].id # 0
                   PROVE  v3 = Verify!NoBlock \/ v3.id > v1'[h].id \/ v3 = v1'[h]
      BY <1>1 DEF Abreast, h, Verify!NoBlock
    <3>3. h \in 1..n /\ v1'[h + 1].id # 0 /\ v1'[h] = v1[h]
      BY <1>1, <3>1, <3>2
    <3>4. h = v2[v7]
      BY <1>1, <3>1, <3>3
    <3>5. h = n \/ v1[h + 1].id # 0
      <4>1. h # n => v1'[h + 1] = v1[h + 1]
        BY <1>1, <3>3
      <4>2. QED BY <3>3, <4>1
    <3>6. Abreast(h)
      BY <1>0, <2>3, <3>4 DEF ReaderInv
    <3>7. QED BY <3>2, <3>3, <3>5, <3>6 DEF Abreast, n
  <2>4. QED BY <1>0, <2>1, <2>2, <2>3 DEF ReaderInv, Verify!Readers, Verify!NoBlock
<1>9. v4'.whole \subseteq Positions'
  BY <1>0, <1>2
<1>10. QED BY <1>4, <1>6, <1>7, <1>8, <1>9 DEF VerifyInv

LEMMA VerifyMint ==
  ASSUME VerifyInv, Verify!ZoneReset \/ \E bad \in BOOLEAN : Verify!Mint(bad)
  PROVE  VerifyInv'
<1>0. ChainInv /\ Len(v1) \in Nat /\ v2 \in [Verify!Readers -> Nat]
  BY PositionsOf DEF VerifyInv, ReaderInv
<1>1. v1 # <<>> => Len(v1) \in Positions /\ v1[Len(v1)] \in Block /\ Verify!Resets = v1[Len(v1)].gen
  <2>1. v1 # <<>> => Len(v1) \in Positions
    BY <1>0 DEF ChainInv, Positions
  <2>2. QED BY <1>0, <2>1, PositionsOf DEF Verify!Resets
<1>2. CASE Verify!ZoneReset
  <2> DEFINE b == [gen |-> Verify!Resets + 1, id |-> 0, bad |-> FALSE]
  <2>1. v1 # <<>> /\ v1' = Append(v1, b) /\ v2' = [v2 EXCEPT !["rpc"] = Len(v1)]
        /\ UNCHANGED <<v3, v4, v5, v7>>
    BY <1>2 DEF Verify!ZoneReset, Verify!Append1
  <2>2. b \in Block /\ Follows(v1[Len(v1)], b) /\ b.id = 0
    BY <1>1, <2>1 DEF Block, Follows
  <2>3. v2' \in [Verify!Readers -> Nat]
         /\ \A r \in Verify!Readers : v2'[r] = v2[r] \/ v2'[r] = Len(v1)
    BY <1>0, <2>1
  <2> HIDE DEF b
  <2>4. QED BY <2>1, <2>2, <2>3, BlockStep
<1>3. ASSUME NEW bad \in BOOLEAN, Verify!Mint(bad) PROVE VerifyInv'
  <2> DEFINE id == IF v1 = <<>> THEN 0 ELSE v1[Len(v1)].id + 1
             b == [gen |-> Verify!Resets, id |-> id, bad |-> bad]
  <2>1. v1' = Append(v1, b) /\ (bad => id > 0) /\ UNCHANGED <<v2, v3, v4, v5, v7>>
    BY <1>3 DEF Verify!Mint, Verify!Append1
  <2>2. CASE v1 = <<>>
    <3>1. Verify!Resets = 0 /\ id = 0
      BY <2>2 DEF Verify!Resets
    <3>2. b \in Block /\ b.gen = 0 /\ b.id = 0 /\ ~b.bad
      BY <2>1, <3>1 DEF Block
    <3> HIDE DEF b, id
    <3>3. QED BY <1>0, <2>1, <2>2, <3>2, BlockStep
  <2>3. CASE v1 # <<>>
    <3>1. b \in Block /\ Follows(v1[Len(v1)], b)
      BY <1>1, <2>3 DEF Block, Follows
    <3> HIDE DEF b, id
    <3>2. QED BY <1>0, <2>1, <2>3, <3>1, BlockStep
  <2>4. QED BY <2>2, <2>3
<1>4. QED BY <1>2, <1>3

\* Nothing but v2, v3, v4, v5 and v7 has changed: the chain is what it was.
LEMMA SameChain ==
  ASSUME ChainInv, UNCHANGED v1
  PROVE  ChainInv' /\ Positions' = Positions
  BY DEF ChainInv, Positions, Follows, Block

\* A block heard by a reader that is entitled to judge it.
LEMMA HeardFair ==
  ASSUME VerifyInv, NEW r \in Verify!Readers, v2[r] < Len(v1), Verify!FairEar(r),
         ~v1[v2[r] + 1].bad, v3 # Verify!NoBlock
  PROVE  ~Verify!Link(v1[v2[r] + 1]).brk
<1> DEFINE h == v2[r]  b == v1[h + 1]
<1>0. ChainInv /\ ReaderInv
  BY DEF VerifyInv
<1>1. h \in Nat /\ h + 1 \in Positions /\ b \in Block /\ Len(v1) \in Nat
  <2>1. h \in Nat /\ Len(v1) \in Nat
    BY <1>0, PositionsOf DEF ReaderInv
  <2>2. h + 1 \in Positions
    BY <2>1 DEF Positions
  <2>3. QED BY <1>0, <2>1, <2>2, PositionsOf
<1>2. PICK p \in Positions : v3 = v1[p]
  BY <1>0 DEF ReaderInv
<1>3. v3 \in Block
  BY <1>0, <1>2, PositionsOf
<1> SUFFICES ASSUME b.id = v3.id + 1, ~Verify!Child(b, v3) PROVE FALSE
  BY DEF Verify!Link
<1>4. b.gen # v3.gen
  BY <1>1, <1>3 DEF Verify!Child, Block
<1>5. CASE Verify!Resets = 0
  <2>1. Len(v1) \in Positions /\ v1 # <<>>
    BY <1>0, <1>1 DEF Positions, ChainInv
  <2>2. v1[Len(v1)].gen = 0
    BY <1>5, <2>1 DEF Verify!Resets
  <2>3. ASSUME NEW q \in Positions PROVE v1[q].gen = 0
    <3>1. q <= Len(v1) /\ v1[q] \in Block
      BY <1>0, <1>1, PositionsOf DEF Positions
    <3>2. v1[q].gen <= v1[Len(v1)].gen
      BY <1>0, <2>1, <3>1, InOrder
    <3>3. QED BY <2>2, <3>1, <3>2 DEF Block
  <2>4. QED BY <1>1, <1>2, <1>4, <2>3
<1>6. CASE Verify!Resets # 0
  <2>1. v7 = r
    BY <1>0, <1>6 DEF Verify!FairEar, ReaderInv
  <2>2. h + 1 # 1
    <3>1. v1[1].id = 0
      BY <1>0, <1>1 DEF ChainInv, Positions
    <3>2. b.id # 0
      BY <1>3 DEF Block
    <3>3. QED BY <3>1, <3>2
  <2>3. h >= 1 /\ h + 1 - 1 = h
    BY <1>1, <2>2
  <2>4. Follows(v1[h], b) /\ h \in Positions /\ v1[h] \in Block
    <3>1. \A q \in Positions : q # 1 => q - 1 \in Positions /\ Follows(v1[q - 1], v1[q])
      BY <1>0, PositionsOf
    <3>2. h \in Positions /\ Follows(v1[h], v1[h + 1])
      <4> DEFINE n == h + 1
      <4>1. n \in Positions /\ n # 1 /\ n - 1 = h
        BY <1>1, <2>2, <2>3
      <4> HIDE DEF n, h, b
      <4>2. h \in Positions /\ Follows(v1[h], v1[n])
        BY <3>1, <4>1
      <4>3. QED BY <4>2 DEF n
    <3>3. QED BY <1>0, <3>2, PositionsOf
  <2>5. b.id # 0 /\ b.id = v1[h].id + 1 /\ b.gen = v1[h].gen
    BY <1>3, <2>4 DEF Follows, Block
  <2>6. v3.id > v1[h].id \/ v3 = v1[h]
    BY <1>0, <2>1, <2>3, <2>5 DEF ReaderInv, Abreast
  <2>7. QED BY <1>3, <1>4, <2>4, <2>5, <2>6 DEF Block
<1>7. QED BY <1>5, <1>6

LEMMA VerifyHear ==
  ASSUME VerifyInv, NEW r \in Verify!Readers, Verify!Hear(r)
  PROVE  VerifyInv'
<1> DEFINE h == v2[r]  b == v1[h + 1]
           l == IF v3 = Verify!NoBlock THEN [brk |-> FALSE, gap |-> FALSE] ELSE Verify!Link(b)
<1>0. ChainInv /\ ReaderInv /\ BufferInv /\ v4.whole \subseteq Positions /\ Verify!NotAccused
  BY DEF VerifyInv
<1>1. /\ h < Len(v1)
      /\ v2' = [v2 EXCEPT ![r] = @ + 1]
      /\ v4' = [checked |-> v4.checked + 1,
                breaks  |-> v4.breaks + Verify!One(l.brk),
                gaps    |-> v4.gaps + Verify!One(l.gap),
                whole   |-> {}, fair |-> v4.fair /\ Verify!FairEar(r)]
      /\ v3' = (IF b.id >= v3.id THEN b ELSE v3)
      /\ v7' = (IF v7 \in {"nobody", r} THEN r ELSE "none")
      /\ UNCHANGED <<v1, v5>>
  BY DEF Verify!Hear
<1>2. h \in Nat /\ h + 1 \in Positions /\ b \in Block /\ Len(v1) \in Nat
  <2>1. h \in Nat /\ Len(v1) \in Nat
    BY <1>0, PositionsOf DEF ReaderInv
  <2>2. h + 1 \in Positions
    BY <1>1, <2>1 DEF Positions
  <2>3. QED BY <1>0, <2>1, <2>2, PositionsOf
<1>3. ChainInv' /\ Positions' = Positions
  BY <1>0, <1>1, SameChain
<1>4. v3.id \in Int
  <2>1. v3 = Verify!NoBlock \/ v3 \in Block
    BY <1>0, PositionsOf DEF ReaderInv
  <2>2. QED BY <2>1 DEF Verify!NoBlock, Block
<1>5. ReaderInv'
  <2>1. v2' \in [Verify!Readers -> Nat] /\ v2'[r] = h + 1
         /\ \A q \in Verify!Readers : v2'[q] <= Len(v1)
    BY <1>0, <1>1, <1>2 DEF ReaderInv
  <2>2. v3' = Verify!NoBlock \/ \E p \in Positions : v3' = v1[p]
    BY <1>0, <1>1, <1>2 DEF ReaderInv
  <2>3. v7' \in {r, "none"}
    BY <1>1
  <2>4. v3' = b \/ (v3' = v3 /\ v3.id > b.id)
    BY <1>1, <1>2, <1>4 DEF Block
  <2>5. v7' = r => v2'[v7'] = h + 1 /\ v1'[v2'[v7']] = b
    BY <1>1, <2>1
  <2>6. v7' = r => Abreast(v2[v7])'
    <3> HIDE DEF h, b, l
    <3>1. QED BY <2>4, <2>5 DEF Abreast
  <2>7. r \notin {"nobody", "none"}
    BY DEF Verify!Readers
  <2>8. QED BY <1>1, <1>3, <2>1, <2>2, <2>3, <2>6, <2>7 DEF ReaderInv, Verify!Readers,
          Verify!NoBlock
<1>6. BufferInv'
  BY <1>0, <1>1, <1>3 DEF BufferInv, Verify!FairBuffer, Verify!Gens, Verify!Read
<1>7. ASSUME v4'.fair, Verify!Bad(Verify!Positions) = {} PROVE v4'.breaks = 0
  <2>1. v4.fair /\ Verify!FairEar(r) /\ v4.breaks = 0
    BY <1>0, <1>1, <1>7 DEF Verify!NotAccused
  <2>2. ~b.bad
    BY <1>0, <1>2, <1>7, PositionsOf DEF Verify!Bad
  <2>3. ~l.brk
    <3>1. CASE v3 = Verify!NoBlock
      BY <3>1
    <3>2. CASE v3 # Verify!NoBlock
      BY <1>1, <2>1, <2>2, <3>2, HeardFair
    <3>3. QED BY <3>1, <3>2
  <2>4. Verify!One(l.brk) = 0
    BY <2>3 DEF Verify!One
  <2> HIDE DEF l
  <2>5. v4'.breaks = v4.breaks + Verify!One(l.brk)
    BY <1>1
  <2>6. QED BY <2>1, <2>4, <2>5
<1>8. v4'.whole = {}
  BY <1>1
<1>9. Verify!NotAccused'
  BY <1>1, <1>7, <1>8 DEF Verify!NotAccused, Verify!Bad, Verify!Positions
<1>10. QED BY <1>3, <1>5, <1>6, <1>8, <1>9 DEF VerifyInv

\* A verdict is given by the window, and is fair only where that is entitled to one.
LEMMA JudgeStep ==
  ASSUME ChainInv, NEW B, NEW P \in SUBSET Positions, NEW fair, UNCHANGED v1,
         v4' = Verify!Judged(B, P, fair),
         fair => /\ B = Verify!Read(P)
                 /\ \/ OneGen(P)
                    \/ \E lo, hi \in Positions : P = lo..hi /\ v1[lo].id = 0
  PROVE  v4'.whole \subseteq Positions' /\ Verify!NotAccused'
<1>1. v4'.whole = P /\ v4'.breaks = Verify!Verdict(B).breaks /\ v4'.fair = fair
  BY DEF Verify!Judged
<1>2. Positions' = Positions
  BY SameChain
<1>3. ASSUME fair
      PROVE  /\ Verify!Bad(Verify!Positions) = {} => v4'.breaks = 0
             /\ Verify!Cardinality(Verify!Gens(P)) = 1 =>
                  v4'.breaks = Verify!Cardinality({p \in Verify!Bad(P) : p - 1 \in P})
  BY <1>1, <1>3, JudgedFair, PositionsOf
<1>4. Verify!NotAccused'
  <2>1. /\ Verify!Bad(Verify!Positions)' = Verify!Bad(Verify!Positions)
        /\ Verify!Gens(v4.whole)' = Verify!Gens(P) /\ Verify!Bad(v4.whole)' = Verify!Bad(P)
    BY <1>1 DEF Verify!Bad, Verify!Gens, Verify!Positions
  <2>2. QED BY <1>1, <1>3, <2>1 DEF Verify!NotAccused
<1>5. QED BY <1>1, <1>2, <1>4

LEMMA VerifySeed ==
  ASSUME VerifyInv, Verify!Seed
  PROVE  VerifyInv'
<1>0. ChainInv /\ ReaderInv /\ BufferInv
  BY DEF VerifyInv
<1>1. PICK lo \in Verify!Positions, hi \in Verify!Positions :
        lo <= hi /\ v4' = Verify!Judged(Verify!Read(lo..hi), lo..hi, Verify!FairWindow(lo, hi))
  BY DEF Verify!Seed
<1>2. UNCHANGED <<v1, v2, v3, v5, v7>>
  BY DEF Verify!Seed
<1>3. lo \in Positions /\ hi \in Positions /\ lo..hi \in SUBSET Positions
  BY <1>0, PositionsOf DEF Positions
<1>4. Verify!FairWindow(lo, hi) => \/ OneGen(lo..hi)
                                   \/ \E x, y \in Positions : lo..hi = x..y /\ v1[x].id = 0
  <2>1. Verify!Cardinality(Verify!Gens(lo..hi)) = 1 => Verify!Cardinality(Verify!Gens(lo..hi)) <= 1
    OBVIOUS
  <2>2. QED BY <1>0, <1>3, <2>1, GensOf DEF Verify!FairWindow
<1>5. v4'.whole \subseteq Positions' /\ Verify!NotAccused'
  BY <1>0, <1>1, <1>2, <1>3, <1>4, JudgeStep
<1>6. ChainInv' /\ Positions' = Positions
  BY <1>0, <1>2, SameChain
<1>7. ReaderInv' /\ BufferInv'
  BY <1>0, <1>2, <1>6 DEF ReaderInv, BufferInv, Abreast, Verify!NoBlock, Verify!Readers,
                          Verify!FairBuffer, Verify!Gens, Verify!Read
<1>8. QED BY <1>5, <1>6, <1>7 DEF VerifyInv

LEMMA VerifyWalk ==
  ASSUME VerifyInv, Verify!WalkChunk
  PROVE  VerifyInv'
<1> DEFINE from == IF v5.hi > ChunkSize THEN v5.hi - ChunkSize ELSE 1
           W(ok) == [on     |-> from > 1, hi |-> from - 1, chunks |-> v5.chunks + 1,
                     buf    |-> IF ok THEN Verify!PutAll(v5.buf, from, v5.hi) ELSE v5.buf,
                     read   |-> IF ok THEN v5.read \cup (from..v5.hi) ELSE v5.read]
<1>0. ChainInv /\ ReaderInv /\ BufferInv /\ v4.whole \subseteq Positions /\ Verify!NotAccused
  BY DEF VerifyInv
<1>1. v5.on /\ UNCHANGED <<v1, v2, v3, v7>>
  BY DEF Verify!WalkChunk
<1>2. PICK ok \in BOOLEAN :
        /\ v5' = (IF W(ok).on THEN W(ok) ELSE Verify!NoWalk)
        /\ v4' = (IF ~W(ok).on \/ W(ok).chunks % MergeEvery = 0 THEN Verify!Merged(W(ok)) ELSE v4)
  BY DEF Verify!WalkChunk
<1>3. /\ v5.hi \in Positions /\ from \in Positions /\ from <= v5.hi
          /\ from..v5.hi \subseteq Positions
      /\ from > 1 => from - 1 \in Positions
  <2>1. v5.hi \in Positions /\ v5.hi \in Nat /\ ChunkSize \in Nat \ {0} /\ Len(v1) \in Nat
    BY <1>0, <1>1, PositionsOf, ViewsAssumption DEF BufferInv
  <2>2. QED BY <2>1 DEF Positions
<1> DEFINE w == W(ok)
<1>4. w.on = (from > 1) /\ w.hi = from - 1
      /\ w.buf = (IF ok THEN Verify!PutAll(v5.buf, from, v5.hi) ELSE v5.buf)
      /\ w.read = (IF ok THEN v5.read \cup (from..v5.hi) ELSE v5.read)
  OBVIOUS
<1> HIDE DEF w, W, from
<1>5. w.read \in SUBSET Positions /\ v5.read \in SUBSET Positions /\ v5.read \subseteq w.read
  BY <1>0, <1>3, <1>4 DEF BufferInv
<1>6. ASSUME Verify!FairBuffer(w) PROVE OneGen(w.read) /\ w.buf = Verify!Read(w.read)
  <2>1. OneGen(w.read) /\ Cardinality(w.read) <= VerifCap
    BY <1>0, <1>5, <1>6, GensOf, Counting DEF Verify!FairBuffer
  <2>2. v5.buf = Verify!Read(v5.read)
    <3>1. Verify!Gens(v5.read) \subseteq Verify!Gens(w.read) /\ IsFiniteSet(w.read)
      BY <1>0, <1>5, FewPositions DEF Verify!Gens
    <3>2. IsFiniteSet(Verify!Gens(w.read))
      <4> DEFINE f == [p \in w.read |-> v1[p].gen]
      <4>1. f \in [w.read -> Verify!Gens(w.read)]
             /\ \A g \in Verify!Gens(w.read) : \E p \in w.read : f[p] = g
        BY DEF Verify!Gens
      <4> HIDE DEF f
      <4>2. f \in Surjection(w.read, Verify!Gens(w.read))
        BY <4>1 DEF Surjection
      <4>3. QED BY <3>1, <4>2, FS_Surjection
    <3>3. Cardinality(Verify!Gens(v5.read)) <= Cardinality(Verify!Gens(w.read))
          /\ Cardinality(Verify!Gens(v5.read)) \in Nat /\ Cardinality(Verify!Gens(w.read)) \in Nat
      BY <3>1, <3>2, FS_Subset, FS_CardinalityType
    <3>4. Cardinality(v5.read) <= Cardinality(w.read)
          /\ Cardinality(v5.read) \in Nat /\ Cardinality(w.read) \in Nat
      BY <1>5, <3>1, FS_Subset, FS_CardinalityType
    <3>5. Cardinality(Verify!Gens(w.read)) <= 1 /\ VerifCap \in Nat
      BY <1>6, Counting, ViewsAssumption DEF Verify!FairBuffer
    <3>6. Cardinality(Verify!Gens(v5.read)) <= 1 /\ Cardinality(v5.read) <= VerifCap
      BY <2>1, <3>3, <3>4, <3>5
    <3>7. Verify!FairBuffer(v5)
      BY <3>6, Counting DEF Verify!FairBuffer
    <3>8. QED BY <1>0, <3>7 DEF BufferInv
  <2>3. CASE ok
    <3>1. Verify!PutAll(Verify!Read(v5.read), from, v5.hi) = Verify!Read(v5.read \cup (from..v5.hi))
      BY <1>0, <1>3, <1>4, <1>5, <2>1, <2>3, PutAllIs, ViewsAssumption
    <3>2. QED BY <1>4, <2>1, <2>2, <2>3, <3>1
  <2>4. CASE ~ok
    BY <1>4, <2>1, <2>2, <2>4
  <2>5. QED BY <2>3, <2>4
<1>7. ChainInv' /\ Positions' = Positions
  BY <1>0, <1>1, SameChain
<1>8. BufferInv'
  <2>1. CASE w.on
    <3>1. v5' = w
      BY <1>2, <2>1 DEF w
    <3>2. v5'.read \subseteq Positions /\ v5'.hi \in Positions
      BY <1>3, <1>4, <1>5, <2>1, <3>1
    <3>3. Verify!FairBuffer(v5)' = Verify!FairBuffer(w)
           /\ Verify!Read(v5.read)' = Verify!Read(w.read)
      BY <1>1, <3>1 DEF Verify!FairBuffer, Verify!Gens, Verify!Read
    <3>4. QED BY <1>6, <1>7, <3>1, <3>2, <3>3 DEF BufferInv
  <2>2. CASE ~w.on
    <3>1. v5' = Verify!NoWalk
      BY <1>2, <2>2 DEF w
    <3>2. QED BY <3>1 DEF BufferInv, Verify!NoWalk, Verify!Read
  <2>3. QED BY <2>1, <2>2
<1>9. v4'.whole \subseteq Positions' /\ Verify!NotAccused'
  <2>1. CASE v4' = v4
    BY <1>0, <1>1, <1>7, <2>1 DEF Verify!NotAccused, Verify!Bad, Verify!Gens, Verify!Positions
  <2>2. CASE v4' = Verify!Judged(w.buf, w.read, Verify!FairBuffer(w))
    BY <1>0, <1>1, <1>5, <1>6, <2>2, JudgeStep
  <2>3. v4' = v4 \/ v4' = Verify!Merged(w)
    BY <1>2 DEF w
  <2>4. QED BY <2>1, <2>2, <2>3 DEF Verify!Merged
<1>10. ReaderInv'
  BY <1>0, <1>1, <1>7 DEF ReaderInv, Abreast, Verify!NoBlock, Verify!Readers
<1>11. QED BY <1>7, <1>8, <1>9, <1>10 DEF VerifyInv

LEMMA VerifyOther ==
  ASSUME VerifyInv,
         (\E r \in Verify!Readers : Verify!Miss(r)) \/ Verify!StartWalk \/ Verify!Restart
         \/ UNCHANGED <<v1, v2, v3, v4, v5, v7>>
  PROVE  VerifyInv'
<1>0. ChainInv /\ ReaderInv /\ BufferInv /\ v4.whole \subseteq Positions /\ Verify!NotAccused
      /\ Len(v1) \in Nat
  BY PositionsOf DEF VerifyInv
<1>1. UNCHANGED <<v1, v4>>
  BY DEF Verify!Miss, Verify!StartWalk, Verify!Restart
<1>2. ChainInv' /\ Positions' = Positions
  BY <1>0, <1>1, SameChain
<1>3. v4'.whole \subseteq Positions' /\ Verify!NotAccused'
  BY <1>0, <1>1, <1>2 DEF Verify!NotAccused, Verify!Bad, Verify!Gens, Verify!Positions
<1>4. ASSUME NEW r \in Verify!Readers, Verify!Miss(r) PROVE ReaderInv' /\ BufferInv'
  <2>1. v2' = [v2 EXCEPT ![r] = Len(v1)] /\ v7' = "none" /\ UNCHANGED <<v3, v5>>
    BY <1>4 DEF Verify!Miss
  <2>2. BufferInv'
    BY <1>0, <1>1, <1>2, <2>1 DEF BufferInv, Verify!FairBuffer, Verify!Gens, Verify!Read
  <2>3. "none" \notin Verify!Readers
    BY DEF Verify!Readers
  <2>4. ReaderInv'
    BY <1>0, <1>1, <1>2, <2>1, <2>3 DEF ReaderInv, Verify!NoBlock, Verify!Readers
  <2>5. QED BY <2>2, <2>4
<1>5. CASE Verify!StartWalk
  <2>1. UNCHANGED <<v2, v3, v7>>
    BY <1>5 DEF Verify!StartWalk
  <2>2. PICK hi \in Verify!Positions : v5' = [Verify!NoWalk EXCEPT !.on = TRUE, !.hi = hi]
    BY <1>5 DEF Verify!StartWalk
  <2>3. v5'.read = {} /\ v5'.buf = {} /\ v5'.hi \in Positions
    BY <1>0, <2>2, PositionsOf DEF Verify!NoWalk
  <2>4. BufferInv'
    BY <1>2, <2>3 DEF BufferInv, Verify!Read
  <2>5. ReaderInv'
    BY <1>0, <1>1, <1>2, <2>1 DEF ReaderInv, Abreast, Verify!NoBlock, Verify!Readers
  <2>6. QED BY <1>2, <1>3, <2>4, <2>5 DEF VerifyInv
<1>6. CASE Verify!Restart
  <2>1. v3' = Verify!NoBlock /\ v5' = Verify!NoWalk /\ UNCHANGED <<v2, v7>>
    BY <1>6 DEF Verify!Restart
  <2>2. BufferInv'
    BY <2>1 DEF BufferInv, Verify!NoWalk, Verify!Read
  <2>3. ReaderInv'
    BY <1>0, <1>1, <1>2, <2>1 DEF ReaderInv, Abreast, Verify!NoBlock, Verify!Readers
  <2>4. QED BY <1>2, <1>3, <2>2, <2>3 DEF VerifyInv
<1>7. CASE UNCHANGED <<v1, v2, v3, v4, v5, v7>>
  <2>1. BufferInv'
    BY <1>0, <1>2, <1>7 DEF BufferInv, Verify!FairBuffer, Verify!Gens, Verify!Read
  <2>2. ReaderInv'
    BY <1>0, <1>2, <1>7 DEF ReaderInv, Abreast, Verify!NoBlock, Verify!Readers
  <2>3. QED BY <1>2, <1>3, <2>1, <2>2 DEF VerifyInv
<1>8. QED BY <1>2, <1>3, <1>4, <1>5, <1>6, <1>7 DEF VerifyInv

\* Whatever readers, windows and walks wrote the verdict, however long the chain and
\* however often the zone started over: where the evidence is fair an honest zone has no
\* broken link, and a stretch of one generation has as many as bad blocks with a parent.
THEOREM OnlyTheGuilty == Spec => []NotAccused
<1> DEFINE Inv == part = "verify" => VerifyInv
<1>1. Init => Inv
  BY VerifyInit DEF Init
<1>2. Inv /\ [Next]_vars => Inv'
  <2>1. ASSUME Inv, UNCHANGED vars PROVE Inv'
    <3>1. UNCHANGED <<v1, v2, v3, v4, v5, v7>> /\ part' = part
      BY <2>1 DEF vars
    <3>2. QED BY <2>1, <3>1, VerifyOther
  <2>2. ASSUME VerifyInv, Verify!Next PROVE VerifyInv'
    BY <2>2, VerifyMint, VerifyHear, VerifySeed, VerifyWalk, VerifyOther DEF Verify!Next
  <2>3. ASSUME Inv, Next PROVE Inv'
    BY <2>2, <2>3 DEF Next
  <2>4. QED BY <2>1, <2>3
<1>3. Inv => NotAccused
  BY DEF NotAccused, VerifyInv
<1>4. QED BY <1>1, <1>2, <1>3, PTL DEF Spec

--------------------------------------------------------------------------------
(* Replays: the balances after each block of a chain *)

\* The balances after a transaction.
After(f, t) ==
  IF t.kind = "private" THEN [f EXCEPT ![t.acct] = t.n]
  ELSE Labels!Plus(Labels!Plus(f, t.acct, -t.n), t.to, t.n)

\* g are the balances after each of the first n blocks of c, of which a replay sees those of R.
IsReplay(g, c, R, n) ==
  /\ g[0] = [a \in Accounts |-> 0]
  /\ \A i \in 1..n : g[i] = IF i \in R THEN After(g[i - 1], c[i]) ELSE g[i - 1]

LEMMA ReplayExists ==
  ASSUME NEW c, NEW R, NEW n \in Nat
  PROVE  \E g : IsReplay(g, c, R, n) /\ g = [i \in 0..n |-> g[i]]
<1> DEFINE Has(m) == \E g : IsReplay(g, c, R, m) /\ g = [i \in 0..m |-> g[i]]
           Lacks == {m \in Nat : ~Has(m)}
<1> SUFFICES ASSUME Lacks # {} PROVE FALSE
  OBVIOUS
<1>1. PICK m \in Lacks : \A k \in Lacks : m <= k
  <2> HIDE DEF Has
  <2> QED BY Least
<1>2. CASE m = 0
  <2> DEFINE g == [i \in 0..0 |-> [a \in Accounts |-> 0]]
  <2>1. IsReplay(g, c, R, 0) /\ g = [i \in 0..0 |-> g[i]]
    BY DEF IsReplay
  <2> HIDE DEF g
  <2>2. QED BY <1>2, <2>1
<1>3. CASE m > 0
  <2>1. m - 1 \in Nat /\ m - 1 \notin Lacks
    BY <1>1, <1>3
  <2>2. PICK g : IsReplay(g, c, R, m - 1) /\ g = [i \in 0..(m - 1) |-> g[i]]
    BY <2>1
  <2> DEFINE h == [i \in 0..m |-> IF i < m THEN g[i]
                                  ELSE IF i \in R THEN After(g[i - 1], c[i]) ELSE g[i - 1]]
  <2>3. h = [i \in 0..m |-> h[i]]
    OBVIOUS
  <2>4. h[0] = g[0] /\ \A i \in 1..m : h[i - 1] = g[i - 1]
    BY <1>3
  <2>5. \A i \in 1..(m - 1) : h[i] = g[i]
    BY <1>3
  <2>6. h[m] = IF m \in R THEN After(g[m - 1], c[m]) ELSE g[m - 1]
    BY <1>3
  <2> HIDE DEF h
  <2>7. IsReplay(h, c, R, m)
    <3>1. ASSUME NEW i \in 1..m PROVE h[i] = IF i \in R THEN After(h[i - 1], c[i]) ELSE h[i - 1]
      <4>1. h[i - 1] = g[i - 1]
        BY <2>4
      <4>2. CASE i = m
        BY <2>6, <4>1, <4>2
      <4>3. CASE i # m
        <5>1. i \in 1..(m - 1)
          BY <1>3, <4>3
        <5>2. g[i] = IF i \in R THEN After(g[i - 1], c[i]) ELSE g[i - 1]
          BY <2>2, <5>1 DEF IsReplay
        <5>3. QED BY <2>5, <4>1, <5>1, <5>2
      <4>4. QED BY <4>2, <4>3
    <3>2. h[0] = [a \in Accounts |-> 0]
      BY <2>2, <2>4 DEF IsReplay
    <3>3. QED BY <3>1, <3>2 DEF IsReplay
  <2>8. QED BY <2>3, <2>7
<1>4. QED BY <1>2, <1>3

LEMMA ReplaysAgree ==
  ASSUME NEW g, NEW c, NEW R, NEW n \in Nat, IsReplay(g, c, R, n),
         NEW h, NEW Q, NEW m \in Nat, IsReplay(h, c, Q, m),
         NEW k \in Nat, k <= n, k <= m, \A i \in 1..k : i \in R <=> i \in Q
  PROVE  \A i \in 0..k : g[i] = h[i]
<1> DEFINE Differ == {i \in 0..k : g[i] # h[i]}
<1> SUFFICES ASSUME Differ # {} PROVE FALSE
  OBVIOUS
<1>1. PICK i \in Differ : \A j \in Differ : i <= j
  <2>1. Differ \subseteq Nat
    OBVIOUS
  <2> HIDE DEF Differ
  <2>2. QED BY <2>1, Least
<1>2. i # 0
  BY <1>1 DEF IsReplay
<1>3. i - 1 \in 0..k /\ i \in 1..k /\ i \in 1..n /\ i \in 1..m /\ i - 1 \notin Differ
  BY <1>1, <1>2
<1>4. g[i - 1] = h[i - 1]
  BY <1>3
<1>5. g[i] = h[i]
  BY <1>3, <1>4 DEF IsReplay
<1>6. QED BY <1>1, <1>5

LEMMA TrackedReplay ==
  ASSUME NEW b \in 1..MaxBlock
  PROVE  \E g : IsReplay(g, v1, Labels!Rows, MaxBlock) /\ Labels!Tracked(b) = g[b - 1]
<1> DEFINE Bal(g) == [i \in 0..MaxBlock |->
             IF i = 0 THEN [a \in Accounts |-> 0]
             ELSE IF i \notin Labels!Rows THEN g[i - 1]
             ELSE LET t == v1[i] IN
                  IF t.kind = "private" THEN [g[i - 1] EXCEPT ![t.acct] = t.n]
                  ELSE Labels!Plus(Labels!Plus(g[i - 1], t.acct, -t.n), t.to, t.n)]
           bal == CHOOSE g : g = Bal(g)
<1>1. Labels!Tracked(b) = bal[b - 1]
  BY DEF Labels!Tracked
<1>2. \A g : Bal(g) = [i \in 0..MaxBlock |->
                          IF i = 0 THEN [a \in Accounts |-> 0]
                          ELSE IF i \in Labels!Rows THEN After(g[i - 1], v1[i]) ELSE g[i - 1]]
  BY DEF After
<1> HIDE DEF Bal
<1>0. MaxBlock \in Nat
  BY ViewsAssumption
<1>3. PICK g : IsReplay(g, v1, Labels!Rows, MaxBlock) /\ g = [i \in 0..MaxBlock |-> g[i]]
  BY <1>0, ReplayExists, Zenon
<1>4. g = Bal(g)
  <2>1. \A i \in 0..MaxBlock : g[i] = IF i = 0 THEN [a \in Accounts |-> 0]
                                      ELSE IF i \in Labels!Rows THEN After(g[i - 1], v1[i])
                                        ELSE g[i - 1]
    <3>1. IsReplay(g, v1, Labels!Rows, MaxBlock)
      BY <1>3
    <3>2. \A i \in 0..MaxBlock : i # 0 => i \in 1..MaxBlock
      BY <1>0
    <3>3. QED BY <3>1, <3>2 DEF IsReplay
  <2>2. QED BY <1>2, <1>3, <2>1
<1>5. bal = Bal(bal)
  BY <1>4
<1> HIDE DEF bal
<1>6. IsReplay(bal, v1, Labels!Rows, MaxBlock)
  BY <1>2, <1>5, ViewsAssumption DEF IsReplay
<1>7. QED BY <1>1, <1>6

Tx == [kind : {"private", "public"}, acct : Accounts, to : Accounts, n : Int,
       way : {"shield", "deshield", "none"}]

\* Which way the funds go when the balance was f.
Way(t, f) == IF t.n > f[t.acct] THEN "deshield" ELSE "shield"

\* The chain's balances are those of its replay, and so is the way of its transactions.
Honest ==
  \E g : /\ IsReplay(g, v1, Labels!Blocks, Len(v1)) /\ g[Len(v1)] = v2
         /\ \A b \in Labels!Private : v1[b].way = Way(v1[b], g[b - 1])

LabelsInv ==
  /\ v1 \in Seq(Tx) /\ Len(v1) <= MaxBlock
  /\ Honest
  /\ Labels!Rows \subseteq Labels!Blocks
  /\ v6 \subseteq Labels!Rows /\ \A b \in v6 : v3[b] = v1[b].way
  /\ DOMAIN v4 = Relabellers
  /\ \A r \in Relabellers : \A b \in DOMAIN v4[r] :
       b \in Labels!Rows /\ (v4[r][b].known => v4[r][b].sub = v1[b].way)

LEMMA LabelsInit == Labels!Init => LabelsInv
<1> SUFFICES ASSUME Labels!Init PROVE LabelsInv
  OBVIOUS
<1>1. /\ v1 = <<>> /\ v2 = [a \in Accounts |-> 0] /\ v3 = <<>> /\ v6 = {}
      /\ v4 = [r \in Relabellers |-> <<>>]
  BY DEF Labels!Init
<1>2. Len(v1) = 0 /\ Labels!Blocks = {} /\ Labels!Private = {} /\ Labels!Rows = {}
       /\ DOMAIN <<>> = {}
  BY <1>1 DEF Labels!Blocks, Labels!Private, Labels!Rows
<1>3. Honest
  <2> DEFINE g == [i \in 0..0 |-> v2]
  <2>1. g[0] = v2 /\ IsReplay(g, v1, Labels!Blocks, Len(v1))
    BY <1>1, <1>2 DEF IsReplay
  <2>2. QED BY <1>2, <2>1 DEF Honest
<1>4. QED BY <1>1, <1>2, <1>3, ViewsAssumption DEF LabelsInv

LEMMA HonestKept ==
  ASSUME Honest, UNCHANGED <<v1, v2>>
  PROVE  Honest' /\ Labels!Blocks' = Labels!Blocks
<1>1. Labels!Blocks' = Labels!Blocks /\ Labels!Private' = Labels!Private
  BY DEF Labels!Blocks, Labels!Private
<1>2. QED BY <1>1 DEF Honest

\* A new block whose balances follow from its transaction.
LEMMA MintStep ==
  ASSUME LabelsInv, NEW t \in Tx, Labels!Mint(t, After(v2, t)),
         t.kind = "private" => t.way = Way(t, v2)
  PROVE  LabelsInv'
<1> DEFINE n == Len(v1)
<1>1. /\ v1' = Append(v1, t) /\ v2' = After(v2, t) /\ n < MaxBlock
      /\ UNCHANGED <<v3, v4, v5, v6>>
  BY DEF Labels!Mint
<1>2. /\ v1' \in Seq(Tx) /\ Len(v1') = n + 1 /\ n \in Nat
      /\ v1'[n + 1] = t /\ \A i \in 1..n : v1'[i] = v1[i]
  BY <1>1 DEF LabelsInv
<1>3. Labels!Blocks = 1..n /\ Labels!Blocks' = 1..(n + 1) /\ Labels!Rows' = Labels!Rows
  BY <1>1, <1>2 DEF Labels!Blocks, Labels!Rows
<1>4. PICK g : /\ IsReplay(g, v1, Labels!Blocks, n) /\ g[n] = v2
               /\ \A b \in Labels!Private : v1[b].way = Way(v1[b], g[b - 1])
  BY DEF LabelsInv, Honest
<1> HIDE DEF n
<1> DEFINE h == [i \in 0..(n + 1) |-> IF i = n + 1 THEN After(g[n], t) ELSE g[i]]
<1>5. h[n + 1] = After(g[n], t) /\ h[0] = g[0] /\ \A i \in 0..n : h[i] = g[i]
  BY <1>2
<1> HIDE DEF h
<1>6. IsReplay(h, v1', 1..(n + 1), n + 1)
  <2>1. ASSUME NEW i \in 1..(n + 1) PROVE h[i] = After(h[i - 1], v1'[i])
    <3>1. CASE i = n + 1
      BY <1>2, <1>5, <3>1
    <3>2. CASE i # n + 1
      <4>1. i \in 1..n /\ i - 1 \in 0..n /\ i \in 0..n
        BY <1>2, <3>2
      <4>2. g[i] = After(g[i - 1], v1[i])
        BY <1>3, <1>4, <4>1 DEF IsReplay
      <4>3. QED BY <1>2, <1>5, <4>1, <4>2
    <3>3. QED BY <3>1, <3>2
  <2>2. h[0] = [a \in Accounts |-> 0]
    BY <1>4, <1>5 DEF IsReplay
  <2>3. QED BY <2>1, <2>2 DEF IsReplay
<1>7. ASSUME NEW b \in Labels!Private' PROVE v1'[b].way = Way(v1'[b], h[b - 1])
  <2>1. b \in 1..(n + 1) /\ v1'[b].kind = "private"
    BY <1>3 DEF Labels!Private
  <2>2. CASE b = n + 1
    BY <1>2, <1>4, <1>5, <2>1, <2>2
  <2>3. CASE b # n + 1
    <3>1. b \in 1..n /\ b - 1 \in 0..n
      BY <1>2, <2>1, <2>3
    <3>2. b \in Labels!Private
      BY <1>2, <1>3, <2>1, <3>1 DEF Labels!Private
    <3>3. QED BY <1>2, <1>4, <1>5, <3>1, <3>2
  <2>4. QED BY <2>2, <2>3
<1>8. Honest'
  <2>1. h[Len(v1')] = v2' /\ IsReplay(h, v1', Labels!Blocks', Len(v1'))
    BY <1>1, <1>2, <1>3, <1>4, <1>5, <1>6
  <2>2. QED BY <1>7, <2>1 DEF Honest
<1>9. Labels!Rows \subseteq 1..n /\ v6 \subseteq Labels!Rows
  BY <1>3 DEF LabelsInv
<1>10. (\A b \in v6' : v3'[b] = v1'[b].way) /\ Len(v1') <= MaxBlock
  BY <1>1, <1>2, <1>9, ViewsAssumption DEF LabelsInv
<1>11. ASSUME NEW r \in Relabellers, NEW b \in DOMAIN v4'[r]
       PROVE  b \in Labels!Rows' /\ (v4'[r][b].known => v4'[r][b].sub = v1'[b].way)
  <2>1. b \in DOMAIN v4[r] /\ v4' = v4
    BY <1>1, <1>11
  <2>2. b \in Labels!Rows /\ (v4[r][b].known => v4[r][b].sub = v1[b].way)
    BY <2>1 DEF LabelsInv
  <2>3. QED BY <1>2, <1>3, <1>9, <2>1, <2>2
<1>12. Labels!Rows' \subseteq Labels!Blocks' /\ v6' \subseteq Labels!Rows'
        /\ DOMAIN v4' = Relabellers
  BY <1>1, <1>2, <1>3, <1>9 DEF LabelsInv
<1>13. QED BY <1>2, <1>8, <1>10, <1>11, <1>12 DEF LabelsInv

\* A label derived when everything below was stored is right.
LEMMA DerivedRight ==
  ASSUME LabelsInv, NEW b \in Labels!Rows, b \in Labels!Private, 1..b \subseteq Labels!Rows
  PROVE  Labels!Derived(b) = v1[b].way
<1>1. Len(v1) \in Nat /\ b \in 1..Len(v1) /\ Len(v1) <= MaxBlock /\ MaxBlock \in Nat
      /\ Labels!Rows \subseteq 1..Len(v1) /\ Labels!Blocks = 1..Len(v1)
  BY ViewsAssumption DEF LabelsInv, Labels!Blocks
<1>2. PICK g : /\ IsReplay(g, v1, Labels!Blocks, Len(v1))
               /\ \A i \in Labels!Private : v1[i].way = Way(v1[i], g[i - 1])
  BY DEF LabelsInv, Honest
<1>3. PICK h : IsReplay(h, v1, Labels!Rows, MaxBlock) /\ Labels!Tracked(b) = h[b - 1]
  BY <1>1, TrackedReplay
<1>4. /\ b - 1 \in Nat /\ b - 1 <= Len(v1) /\ b - 1 <= MaxBlock
      /\ \A i \in 1..(b - 1) : i \in Labels!Blocks <=> i \in Labels!Rows
  BY <1>1
<1>5. \A i \in 0..(b - 1) : g[i] = h[i]
  <2>1. IsReplay(g, v1, Labels!Blocks, Len(v1)) /\ IsReplay(h, v1, Labels!Rows, MaxBlock)
    BY <1>2, <1>3
  <2>2. Len(v1) \in Nat /\ MaxBlock \in Nat
    BY <1>1
  <2> DEFINE n == Len(v1)  k == b - 1  R == Labels!Blocks  Q == Labels!Rows
  <2>3. /\ IsReplay(g, v1, R, n) /\ IsReplay(h, v1, Q, MaxBlock) /\ n \in Nat /\ MaxBlock \in Nat
        /\ k \in Nat /\ k <= n /\ k <= MaxBlock /\ \A i \in 1..k : i \in R <=> i \in Q
    BY <1>4, <2>1, <2>2
  <2> HIDE DEF n, k, R, Q
  <2>4. \A i \in 0..k : g[i] = h[i]
    BY <2>3, ReplaysAgree
  <2>5. QED BY <2>4 DEF k
<1>6. g[b - 1] = h[b - 1]
  BY <1>4, <1>5
<1>7. QED BY <1>2, <1>3, <1>6 DEF Labels!Derived, Way

LEMMA LabelsStep == LabelsInv /\ Labels!Next => LabelsInv'
<1> SUFFICES ASSUME LabelsInv, Labels!Next PROVE LabelsInv'
  OBVIOUS
<1>1. CASE Labels!MintPrivate
  <2>1. PICK a \in Accounts, n \in 0..MaxBalance :
          Labels!Mint([kind |-> "private", acct |-> a, to |-> a, n |-> n,
                       way |-> IF n > v2[a] THEN "deshield" ELSE "shield"],
                      [v2 EXCEPT ![a] = n])
    BY <1>1 DEF Labels!MintPrivate
  <2> DEFINE t == [kind |-> "private", acct |-> a, to |-> a, n |-> n,
                   way |-> IF n > v2[a] THEN "deshield" ELSE "shield"]
  <2>2. t \in Tx /\ t.way = Way(t, v2) /\ After(v2, t) = [v2 EXCEPT ![a] = n]
    BY DEF Tx, Way, After
  <2>3. QED BY <2>1, <2>2, MintStep
<1>2. CASE Labels!MintTransfer
  <2>1. PICK a \in Accounts, b \in Accounts, n \in 1..MaxBalance :
          Labels!Mint([kind |-> "public", acct |-> a, to |-> b, n |-> n, way |-> "none"],
                      Labels!Plus(Labels!Plus(v2, a, -n), b, n))
    BY <1>2 DEF Labels!MintTransfer
  <2> DEFINE t == [kind |-> "public", acct |-> a, to |-> b, n |-> n, way |-> "none"]
  <2>2. t \in Tx /\ t.kind # "private" /\ After(v2, t) = Labels!Plus(Labels!Plus(v2, a, -n), b, n)
    BY DEF Tx, After
  <2>3. QED BY <2>1, <2>2, MintStep
<1>3. CASE Labels!Commit
  <2>1. PICK lo \in Labels!Blocks, hi \in Labels!Blocks :
          /\ v3' = [b \in Labels!Rows \cup (lo..hi) |->
                      IF b \in lo..hi THEN Labels!Decoded(b) ELSE v3[b]]
          /\ v6' = v6 \ (lo..hi)
    BY <1>3 DEF Labels!Commit
  <2>2. UNCHANGED <<v1, v2, v4>>
    BY <1>3 DEF Labels!Commit
  <2>3. lo..hi \subseteq Labels!Blocks
    BY DEF LabelsInv, Labels!Blocks
  <2>4. Labels!Rows' = Labels!Rows \cup (lo..hi) /\ Labels!Blocks' = Labels!Blocks
    BY <2>1, <2>2 DEF Labels!Rows, Labels!Blocks
  <2>5. Honest'
    BY <2>2, HonestKept DEF LabelsInv
  <2>6. QED BY <2>1, <2>2, <2>3, <2>4, <2>5 DEF LabelsInv
<1>4. ASSUME NEW r \in Relabellers, Labels!RelabelRead(r) PROVE LabelsInv'
  <2>1. /\ v4' = [v4 EXCEPT ![r] = [b \in Labels!Rows \cap Labels!Private |->
                    [sub |-> Labels!Derived(b), known |-> 1..b \subseteq Labels!Rows]]]
        /\ UNCHANGED <<v1, v2, v3, v6>>
    BY <1>4 DEF Labels!RelabelRead
  <2>2. Honest' /\ Labels!Rows' = Labels!Rows /\ Labels!Blocks' = Labels!Blocks
    BY <2>1, HonestKept DEF LabelsInv, Labels!Rows
  <2>3. ASSUME NEW q \in Relabellers, NEW b \in DOMAIN v4'[q]
        PROVE  b \in Labels!Rows /\ (v4'[q][b].known => v4'[q][b].sub = v1[b].way)
    <3>1. CASE q = r
      <4>1. v4'[q] = [x \in Labels!Rows \cap Labels!Private |->
                       [sub |-> Labels!Derived(x), known |-> 1..x \subseteq Labels!Rows]]
        BY <2>1, <3>1 DEF LabelsInv
      <4>2. /\ b \in Labels!Rows \cap Labels!Private /\ v4'[q][b].sub = Labels!Derived(b)
            /\ v4'[q][b].known = (1..b \subseteq Labels!Rows)
        BY <2>3, <4>1
      <4>3. QED BY <4>2, DerivedRight
    <3>2. CASE q # r
      <4>1. v4'[q] = v4[q]
        BY <2>1, <3>2 DEF LabelsInv
      <4>2. QED BY <2>3, <4>1 DEF LabelsInv
    <3>3. QED BY <3>1, <3>2
  <2>4. DOMAIN v4' = Relabellers
    BY <2>1 DEF LabelsInv
  <2>5. QED BY <2>1, <2>2, <2>3, <2>4 DEF LabelsInv
<1>5. ASSUME NEW r \in Relabellers, Labels!RelabelWrite(r) PROVE LabelsInv'
  <2> DEFINE u == v4[r]
  <2>1. /\ v3' = [b \in Labels!Rows |-> IF b \in DOMAIN u THEN u[b].sub ELSE v3[b]]
        /\ v6' = (v6 \ DOMAIN u) \cup {b \in DOMAIN u : u[b].known}
        /\ v4' = [v4 EXCEPT ![r] = <<>>]
        /\ UNCHANGED <<v1, v2>>
    BY <1>5 DEF Labels!RelabelWrite
  <2>2. Honest' /\ Labels!Rows' = Labels!Rows /\ Labels!Blocks' = Labels!Blocks
    BY <2>1, HonestKept DEF LabelsInv, Labels!Rows
  <2>3. \A b \in DOMAIN u : b \in Labels!Rows /\ (u[b].known => u[b].sub = v1[b].way)
    BY DEF LabelsInv
  <2>4. DOMAIN v4' = Relabellers /\ DOMAIN v4'[r] = {}
         /\ \A q \in Relabellers : q # r => v4'[q] = v4[q]
    BY <2>1 DEF LabelsInv
  <2> HIDE DEF u
  <2>5. v6' \subseteq Labels!Rows /\ \A b \in v6' : v3'[b] = v1[b].way
    BY <2>1, <2>3 DEF LabelsInv
  <2>6. ASSUME NEW q \in Relabellers, NEW b \in DOMAIN v4'[q]
        PROVE  b \in Labels!Rows /\ (v4'[q][b].known => v4'[q][b].sub = v1[b].way)
    <3>1. q # r /\ v4'[q] = v4[q]
      BY <2>4, <2>6
    <3>2. QED BY <2>6, <3>1 DEF LabelsInv
  <2>7. v6' \subseteq Labels!Rows' /\ \A b \in v6' : v3'[b] = v1'[b].way
    BY <2>1, <2>2, <2>5
  <2>8. v1' \in Seq(Tx) /\ Len(v1') <= MaxBlock /\ Labels!Rows' \subseteq Labels!Blocks'
    BY <2>1, <2>2 DEF LabelsInv
  <2>9. \A q \in Relabellers : \A b \in DOMAIN v4'[q] :
          b \in Labels!Rows' /\ (v4'[q][b].known => v4'[q][b].sub = v1'[b].way)
    BY <2>1, <2>2, <2>6
  <2>10. Honest'
    BY <2>2
  <2> HIDE DEF Honest
  <2>11. QED BY <2>4, <2>7, <2>8, <2>9, <2>10 DEF LabelsInv
<1>6. QED BY <1>1, <1>2, <1>3, <1>4, <1>5 DEF Labels!Next

\* However the walk, the reader and the stream commit between the read and the write of
\* however many relabellers: a label derived when everything below was stored, and
\* not written over by a commit since, says which way the funds went.
THEOREM LabelsAreRight == Spec => []LabelsRight
<1> DEFINE Inv == part = "labels" => LabelsInv
<1>1. Init => Inv
  BY LabelsInit DEF Init
<1>2. Inv /\ [Next]_vars => Inv'
  <2>1. ASSUME Inv, UNCHANGED vars PROVE Inv'
    BY <2>1, HonestKept DEF vars, LabelsInv, Labels!Rows
  <2>2. QED BY <2>1, LabelsStep DEF Next
<1>3. Inv => LabelsRight
  BY DEF LabelsInv, LabelsRight, Labels!LabelsRight
<1>4. QED BY <1>1, <1>2, <1>3, PTL DEF Spec
--------------------------------------------------------------------------------
(* The health of a zone: Settling is the module SettlingProofs extends *)

SettleP == INSTANCE SettlingProofs WITH
  inscribed <- v1, lib <- v2, l1 <- v3, track <- v4, readSlots <- v5, restarts <- v6

LEMMA SettleInit == Settle!Init => SettleP!Init
  BY DEF Settle!Init, SettleP!Init, Settle!NoL1, SettleP!NoL1, Settle!NoTrack, SettleP!NoTrack,
         Settle!None, SettleP!None

LEMMA SettleHelpers ==
  /\ Settle!Tip = SettleP!Tip /\ Settle!None = SettleP!None
  /\ \A x, y : Settle!Larger(x, y) = SettleP!Larger(x, y)
  /\ \A P : Settle!Inscribed(P) = SettleP!Inscribed(P)
  /\ \A S : Settle!Last(S) = SettleP!Last(S)
  /\ \A s : Settle!Noted(s) = SettleP!Noted(s)
<1>1. \A x, y : Settle!Larger(x, y) = SettleP!Larger(x, y)
  BY DEF Settle!Larger, SettleP!Larger
<1>2. \A s : Settle!Noted(s) = SettleP!Noted(s)
  BY <1>1, Zenon DEF Settle!Noted, SettleP!Noted
<1>3. \A S : Settle!Last(S) = SettleP!Last(S)
  BY DEF Settle!Last, SettleP!Last
<1>4. \A P : Settle!Inscribed(P) = SettleP!Inscribed(P)
  BY DEF Settle!Inscribed, SettleP!Inscribed
<1>5. Settle!Tip = SettleP!Tip /\ Settle!None = SettleP!None
  BY DEF Settle!Tip, SettleP!Tip, Settle!None, SettleP!None, Settle!Cardinality, SettleP!Cardinality
<1>6. QED BY <1>1, <1>2, <1>3, <1>4, <1>5

LEMMA SettleReads ==
  \A P, u : Settle!Read(P, u) => SettleP!Read(P, u)
  BY SettleHelpers DEF Settle!Read, SettleP!Read, Settle!Ingested, SettleP!Ingested,
                       Settle!IngestedFrom, SettleP!IngestedFrom

LEMMA SettleNext == Settle!Next => SettleP!Next
<1>1. ASSUME NEW k \in Kinds, Settle!Slot(k) PROVE SettleP!Next
  BY <1>1, SettleHelpers DEF Settle!Slot, SettleP!Slot, SettleP!Next
<1>2. ASSUME Settle!AliveTipPasses PROVE SettleP!Next
  BY <1>2 DEF Settle!AliveTipPasses, SettleP!AliveTipPasses, SettleP!Next
<1>3. ASSUME Settle!StreamRead PROVE SettleP!Next
  BY <1>3, SettleHelpers, SettleReads DEF Settle!StreamRead, SettleP!StreamRead, SettleP!Next
<1>4. ASSUME Settle!WalkRead PROVE SettleP!Next
  BY <1>4, SettleHelpers, SettleReads DEF Settle!WalkRead, SettleP!WalkRead, SettleP!Next
<1>5. ASSUME Settle!SeedRead PROVE SettleP!Next
  BY <1>5, SettleReads DEF Settle!SeedRead, SettleP!SeedRead, SettleP!Next
<1>6. ASSUME Settle!PollInfo PROVE SettleP!Next
  BY <1>6, SettleHelpers DEF Settle!PollInfo, SettleP!PollInfo, SettleP!Next
<1>7. ASSUME Settle!PollChannel PROVE SettleP!Next
  BY <1>7, SettleHelpers DEF Settle!PollChannel, SettleP!PollChannel, SettleP!Next
<1>8. ASSUME Settle!PollTip PROVE SettleP!Next
  BY <1>8, SettleHelpers DEF Settle!PollTip, SettleP!PollTip, SettleP!Next
<1>9. ASSUME Settle!Restart PROVE SettleP!Next
  BY <1>9 DEF Settle!Restart, SettleP!Restart, SettleP!Next, Settle!NoL1, SettleP!NoL1,
              Settle!None, SettleP!None
<1>10. QED BY <1>1, <1>2, <1>3, <1>4, <1>5, <1>6, <1>7, <1>8, <1>9 DEF Settle!Next

LEMMA SettleSaid == SettleP!SaidOfZone => Settle!SaidOfZone
<1>1. \A x, y : Settle!Minus(x, y) = SettleP!Minus(x, y)
  BY DEF Settle!Minus, SettleP!Minus
<1>2. Settle!Verdict = SettleP!Verdict
  BY <1>1 DEF Settle!Verdict, SettleP!Verdict
<1>3. Settle!Activity = SettleP!Activity
  BY SettleHelpers DEF Settle!Activity, SettleP!Activity, Settle!HasPendingActivity,
                       SettleP!HasPendingActivity
<1>4. Settle!Window = SettleP!Window
  BY DEF Settle!Window, SettleP!Window
<1>5. QED BY <1>2, <1>3, <1>4, SettleHelpers, Zenon DEF Settle!SaidOfZone, SettleP!SaidOfZone

\* The stream, the walk, the scan at the start, the polls and the restarts come in any
\* order, for any number of slots and any settling threshold: what is said of a zone's
\* health, settling, stalled, ticks only or raw data, rests on what was read of it.
THEOREM HealthRestsOnEvidence == Spec => []SaidOfZone
<1> DEFINE Inv == part = "settle" => SettleP!HealthInv
<1>1. Init => Inv
  BY SettleInit, SettleP!HealthInit DEF Init
<1>2. Inv /\ [Next]_vars => Inv'
  <2>1. ASSUME Inv, UNCHANGED vars PROVE Inv'
    <3>1. part = "settle" => [SettleP!Next]_(SettleP!vars)
      BY <2>1 DEF vars, SettleP!vars
    <3>2. QED BY <2>1, <3>1, SettleP!HealthStep DEF vars
  <2>2. ASSUME Inv, Next PROVE Inv'
    BY <2>2, SettleNext, SettleP!HealthStep DEF Next
  <2>3. QED BY <2>1, <2>2
<1>3. Inv => SaidOfZone
  BY SettleSaid, SettleP!EvidenceSaid, ViewsAssumption DEF SaidOfZone
<1>4. QED BY <1>1, <1>2, <1>3, PTL DEF Spec

--------------------------------------------------------------------------------
(* The scan: an aggregate and the slots it was made from *)

LEMMA ExtremeOf ==
  ASSUME NEW S \in SUBSET Int, NEW x \in S
  PROVE  /\ (\A y \in S : y <= x) => Cli!Max(S) = x
         /\ (\A y \in S : x <= y) => Cli!Min(S) = x
<1>1. ASSUME \A y \in S : y <= x PROVE Cli!Max(S) = x
  <2>1. \E z \in S : \A y \in S : z >= y
    BY <1>1
  <2>2. Cli!Max(S) \in S /\ \A y \in S : Cli!Max(S) >= y
    BY <2>1 DEF Cli!Max
  <2>3. Cli!Max(S) \in Int /\ x \in Int /\ x <= Cli!Max(S) /\ Cli!Max(S) <= x
    BY <1>1, <2>2
  <2>4. QED BY <2>3
<1>2. ASSUME \A y \in S : x <= y PROVE Cli!Min(S) = x
  <2>1. \E z \in S : \A y \in S : z <= y
    BY <1>2
  <2>2. Cli!Min(S) \in S /\ \A y \in S : Cli!Min(S) <= y
    BY <2>1 DEF Cli!Min
  <2>3. Cli!Min(S) \in Int /\ x \in Int /\ x <= Cli!Min(S) /\ Cli!Min(S) <= x
    BY <1>2, <2>2
  <2>4. QED BY <2>3
<1>3. QED BY <1>1, <1>2

LEMMA OfTwo ==
  \A x, y \in Int : /\ Cli!Max({x, y}) = IF x >= y THEN x ELSE y
                    /\ Cli!Min({x, y}) = IF x <= y THEN x ELSE y
<1> TAKE x, y \in Int
<1>1. CASE x >= y
  <2>1. \A z \in {x, y} : z <= x /\ y <= z
    BY <1>1
  <2>2. QED BY <1>1, <2>1, ExtremeOf
<1>2. CASE x < y
  <2>1. \A z \in {x, y} : z <= y /\ x <= z
    BY <1>2
  <2>2. QED BY <1>2, <2>1, ExtremeOf
<1>3. QED BY <1>1, <1>2

LEMMA CountOf ==
  ASSUME NEW A \in SUBSET Cli!Slots
  PROVE  /\ Cli!Cardinality(Cli!Inscribed(A)) \in Nat
         /\ Cli!Cardinality(Cli!Inscribed(A)) = 0 <=> Cli!Inscribed(A) = {}
         /\ \A s \in Cli!Slots \ A :
              Cli!Cardinality(Cli!Inscribed(A) \cup {s}) = Cli!Cardinality(Cli!Inscribed(A)) + 1
<1>1. \A S : Cli!Cardinality(S) = Cardinality(S)
  BY Zenon DEF Cli!Cardinality, Cardinality
<1>2. IsFiniteSet(Cli!Inscribed(A))
  <2>1. IsFiniteSet(Cli!Slots)
    BY FS_Interval, ViewsAssumption DEF Cli!Slots
  <2>2. QED BY <2>1, FS_Subset DEF Cli!Inscribed
<1>3. \A s \in Cli!Slots \ A : s \notin Cli!Inscribed(A)
  BY DEF Cli!Inscribed
<1>4. QED BY <1>1, <1>2, <1>3, FS_CardinalityType, FS_EmptySet, FS_AddElement

Agg == [latest : Nat, min : Nat, count : Nat, txs : Int, inited : BOOLEAN,
        minSlot : Int, maxSlot : Int]

\* a is made from the slots of A.
MadeFrom(a, A) ==
  LET I == Cli!Inscribed(A)
      B == Cli!Ids(A)
  IN  /\ a \in Agg /\ a.count = Cli!Cardinality(I)
      /\ I = {} => a.minSlot = -1 /\ a.maxSlot = -1
      /\ I # {} => /\ a.minSlot \in I /\ a.maxSlot \in I
                   /\ \A s \in I : a.minSlot <= s /\ s <= a.maxSlot
      /\ a.inited = (B # {})
      /\ B = {} => a.latest = 0 /\ a.min = 0
      /\ B # {} => /\ a.min \in B /\ a.latest \in B /\ v1[a.txs] = a.latest
                   /\ \A n \in B : a.min <= n /\ n <= a.latest

Zone == v1 \in [Cli!Slots -> Cli!Holds]

\* The next slot of the window.
Seen(a, s) == IF v1[s] = Cli!None THEN a ELSE Cli!Update(a, s)

LEMMA SeenIs ==
  ASSUME Zone, NEW A \in SUBSET Cli!Slots, NEW s \in Cli!Slots \ A, NEW a, MadeFrom(a, A)
  PROVE  MadeFrom(Seen(a, s), A \cup {s})
<1> DEFINE I == Cli!Inscribed(A)  B == Cli!Ids(A)
           J == Cli!Inscribed(A \cup {s})  C == Cli!Ids(A \cup {s})
<1>0. MaxSlot \in Nat /\ MaxId \in Nat /\ s \in Nat /\ v1[s] \in -1..(MaxId + 1)
      /\ I \subseteq Nat /\ B \subseteq 0..MaxId
  <2>1. MaxSlot \in Nat /\ MaxId \in Nat /\ Cli!Slots = 0..MaxSlot
    BY ViewsAssumption DEF Cli!Slots
  <2>2. s \in Nat /\ A \subseteq Nat
    BY <2>1
  <2>3. v1[s] \in -1..(MaxId + 1)
    <3>1. v1[s] \in Cli!Holds
      BY DEF Zone
    <3>2. QED BY <2>1, <3>1 DEF Cli!Holds, Cli!None, Cli!Raw
  <2>4. I \subseteq Nat /\ B \subseteq 0..MaxId
    BY <2>2 DEF Cli!Inscribed, Cli!Ids
  <2>5. QED BY <2>1, <2>2, <2>3, <2>4
<1>1. CASE v1[s] = -1
  <2>1. J = I /\ C = B
    BY <1>0, <1>1 DEF Cli!Inscribed, Cli!Ids, Cli!None
  <2>2. QED BY <1>1, <2>1 DEF MadeFrom, Seen, Cli!None
<1>2. CASE v1[s] # -1
  <2> DEFINE u == Cli!Update(a, s)
             block == v1[s] # Cli!Raw
             b == IF block /\ ~a.inited THEN [a EXCEPT !.latest = v1[s], !.min = v1[s]] ELSE a
  <2>1. J = I \cup {s} /\ Cli!Cardinality(J) = Cli!Cardinality(I) + 1
    <3>1. J = I \cup {s}
      BY <1>2 DEF Cli!Inscribed, Cli!None
    <3>2. QED BY <3>1, CountOf
  <2>2. block => v1[s] \in 0..MaxId /\ C = B \cup {v1[s]}
    BY <1>0, <1>2 DEF Cli!Raw, Cli!Ids
  <2>3. ~block => C = B
    BY <1>0, <1>2 DEF Cli!Raw, Cli!Ids
  <2>4. /\ a \in Agg /\ a.count = Cli!Cardinality(I) /\ a.inited = (B # {})
        /\ I = {} => a.minSlot = -1 /\ a.maxSlot = -1
        /\ I # {} => /\ a.minSlot \in I /\ a.maxSlot \in I
                     /\ \A x \in I : a.minSlot <= x /\ x <= a.maxSlot
        /\ B = {} => a.latest = 0 /\ a.min = 0
        /\ B # {} => /\ a.min \in B /\ a.latest \in B /\ v1[a.txs] = a.latest
                     /\ \A n \in B : a.min <= n /\ n <= a.latest
    BY DEF MadeFrom
  <2>5. b \in Agg
    <3>1. a \in Agg /\ (block => v1[s] \in Nat)
      BY <1>0, <2>2, <2>4
    <3>2. CASE b = a
      BY <3>1, <3>2
    <3>3. CASE b # a
      <4>1. block /\ b = [a EXCEPT !.latest = v1[s], !.min = v1[s]]
        BY <3>3
      <4> HIDE DEF b, block
      <4>2. QED BY <3>1, <4>1 DEF Agg
    <3>4. QED BY <3>2, <3>3
  <2>6. u = [latest  |-> IF block THEN Cli!Max({b.latest, v1[s]}) ELSE b.latest,
             min     |-> IF block THEN Cli!Min({b.min, v1[s]}) ELSE b.min,
             count   |-> b.count + 1,
             txs     |-> IF block /\ v1[s] >= b.latest THEN s ELSE b.txs,
             inited  |-> b.inited \/ block,
             minSlot |-> IF b.minSlot = -1 THEN s ELSE Cli!Min({b.minSlot, s}),
             maxSlot |-> Cli!Max({b.maxSlot, s})]
    BY DEF Cli!Update, Cli!None
  <2>7. /\ b.count = a.count /\ b.txs = a.txs /\ b.inited = a.inited
        /\ b.minSlot = a.minSlot /\ b.maxSlot = a.maxSlot
        /\ block /\ B = {} => b.latest = v1[s] /\ b.min = v1[s]
        /\ ~(block /\ B = {}) => b.latest = a.latest /\ b.min = a.min
    BY <2>4 DEF Agg
  <2> HIDE DEF u, b, I, B, J, C
  <2>8. /\ u.count = Cli!Cardinality(J) /\ u.inited = (C # {})
    BY <2>1, <2>2, <2>3, <2>4, <2>6, <2>7
  <2>9. /\ u.minSlot \in J /\ u.maxSlot \in J /\ \A x \in J : u.minSlot <= x /\ x <= u.maxSlot
    <3>1. /\ a.minSlot \in Int /\ a.maxSlot \in Int /\ s \in Nat
      BY <1>0, <2>4 DEF Agg
    <3>2. /\ u.minSlot = IF a.minSlot = -1 \/ s <= a.minSlot THEN s ELSE a.minSlot
          /\ u.maxSlot = IF a.maxSlot >= s THEN a.maxSlot ELSE s
      <4>1. /\ Cli!Min({a.minSlot, s}) = IF a.minSlot <= s THEN a.minSlot ELSE s
            /\ Cli!Max({a.maxSlot, s}) = IF a.maxSlot >= s THEN a.maxSlot ELSE s
        <5>1. a.minSlot \in Int /\ a.maxSlot \in Int /\ s \in Int
          BY <3>1
        <5>2. QED BY <5>1, OfTwo, Zenon
      <4>2. /\ u.minSlot = IF a.minSlot = -1 THEN s ELSE Cli!Min({a.minSlot, s})
            /\ u.maxSlot = Cli!Max({a.maxSlot, s})
        BY <2>6, <2>7
      <4>3. QED BY <3>1, <4>1, <4>2
    <3>3. QED BY <1>0, <2>1, <2>4, <3>1, <3>2
  <2>10. CASE block
    <3>1. v1[s] \in Nat /\ b.latest \in Nat /\ b.min \in Nat
      BY <2>2, <2>5, <2>10 DEF Agg
    <3>2. /\ u.latest = IF b.latest >= v1[s] THEN b.latest ELSE v1[s]
          /\ u.min = IF b.min <= v1[s] THEN b.min ELSE v1[s]
          /\ u.txs = IF v1[s] >= b.latest THEN s ELSE b.txs
      <4>1. /\ Cli!Max({b.latest, v1[s]}) = IF b.latest >= v1[s] THEN b.latest ELSE v1[s]
            /\ Cli!Min({b.min, v1[s]}) = IF b.min <= v1[s] THEN b.min ELSE v1[s]
        <5>1. b.latest \in Int /\ b.min \in Int /\ v1[s] \in Int
          BY <3>1
        <5>2. QED BY <5>1, OfTwo, Zenon
      <4>2. QED BY <2>6, <2>10, <4>1
    <3>3. /\ u.min \in C /\ u.latest \in C /\ v1[u.txs] = u.latest
          /\ \A n \in C : u.min <= n /\ n <= u.latest
      <4>1. CASE B = {}
        <5>1. C = {v1[s]} /\ u.latest = v1[s] /\ u.min = v1[s] /\ u.txs = s
          BY <2>2, <2>7, <2>10, <3>1, <3>2, <4>1
        <5>2. QED BY <3>1, <5>1
      <4>2. CASE B # {}
        <5>1. /\ b.min \in B /\ b.latest \in B /\ v1[b.txs] = b.latest
              /\ \A n \in B : b.min <= n /\ n <= b.latest
          BY <2>4, <2>7, <4>2
        <5>2. C = B \cup {v1[s]} /\ \A n \in B : n \in Int
          BY <1>0, <2>2, <2>10
        <5>3. QED BY <3>1, <3>2, <5>1, <5>2
      <4>3. QED BY <4>1, <4>2
    <3>4. u \in Agg
      <4>1. u.minSlot \in Int /\ u.maxSlot \in Int
        <5>1. J \subseteq Int
          BY <1>0, <2>1
        <5>2. QED BY <2>9, <5>1
      <4>2. u.latest \in Nat /\ u.min \in Nat /\ u.txs \in Int
        BY <1>0, <2>5, <3>1, <3>2 DEF Agg
      <4>3. b.count + 1 \in Nat /\ (b.inited \/ block) \in BOOLEAN
        BY <2>5 DEF Agg
      <4>4. QED BY <2>6, <4>1, <4>2, <4>3 DEF Agg
    <3>5. QED BY <1>2, <2>1, <2>2, <2>8, <2>9, <2>10, <3>3, <3>4 DEF MadeFrom, Seen, u, J, C,
            Cli!None
  <2>11. CASE ~block
    <3>1. u.latest = a.latest /\ u.min = a.min /\ u.txs = a.txs
      BY <2>6, <2>7, <2>11
    <3>2. u \in Agg
      BY <1>0, <2>1, <2>4, <2>5, <2>6, <2>7, <2>9, <2>11, <3>1 DEF Agg
    <3>3. QED BY <1>2, <2>1, <2>3, <2>4, <2>8, <2>9, <2>11, <3>1, <3>2 DEF MadeFrom, Seen, u, J,
            C, Cli!None
  <2>12. QED BY <2>10, <2>11
<1>3. QED BY <1>1, <1>2

\* g is what is made of a after each of from, from + 1, ..., hi.
IsSeen(g, a, from, hi) ==
  g[from - 1] = a /\ \A s \in from..hi : g[s] = Seen(g[s - 1], s)
SeenTo(g, a, from, hi) == IsSeen(g, a, from, hi) /\ g = [s \in (from - 1)..hi |-> g[s]]

LEMMA SeenExists ==
  \A a : \A from, n \in Nat :
    \E g : SeenTo(g, a, from, from + n - 1)
<1> TAKE a
<1> TAKE from, n \in Nat
<1> DEFINE Has(m) == \E g : SeenTo(g, a, from, from + m - 1)
           Lacks == {m \in Nat : ~Has(m)}
<1> SUFFICES ASSUME Lacks # {} PROVE FALSE
  OBVIOUS
<1>1. PICK m \in Lacks : \A k \in Lacks : m <= k
  <2> HIDE DEF Has
  <2> QED BY Least
<1>2. CASE m = 0
  <2> DEFINE g == [s \in (from - 1)..(from + 0 - 1) |-> a]
  <2>1. SeenTo(g, a, from, from + 0 - 1)
    BY DEF IsSeen, SeenTo
  <2> HIDE DEF g
  <2>2. QED BY <1>2, <2>1
<1>3. CASE m > 0
  <2> DEFINE t == from + m - 1
  <2>1. m - 1 \in Nat /\ m - 1 \notin Lacks /\ t \in Nat /\ from + (m - 1) - 1 = t - 1 /\ from <= t
    <3>1. m \in Nat
      BY <1>1
    <3>2. m - 1 \in Nat /\ t \in Nat /\ from + (m - 1) - 1 = t - 1 /\ from <= t /\ ~(m <= m - 1)
      BY <1>3, <3>1
    <3> HIDE DEF Lacks, t
    <3>3. QED BY <1>1, <3>2
  <2>2. PICK g : SeenTo(g, a, from, t - 1)
    BY <2>1
  <2> DEFINE h == [s \in (from - 1)..t |-> IF s < t THEN g[s] ELSE Seen(g[t - 1], t)]
  <2>3. h = [s \in (from - 1)..t |-> h[s]]
    OBVIOUS
  <2>4. h[t] = Seen(g[t - 1], t) /\ \A s \in (from - 1)..(t - 1) : h[s] = g[s]
    BY <2>1
  <2> HIDE DEF h, t
  <2>5. IsSeen(h, a, from, t)
    <3>1. ASSUME NEW s \in from..t PROVE h[s] = Seen(h[s - 1], s)
      <4>1. h[s - 1] = g[s - 1]
        <5>1. s - 1 \in (from - 1)..(t - 1)
          BY <2>1
        <5>2. QED BY <2>4, <5>1
      <4>2. CASE s = t
        BY <2>4, <4>1, <4>2
      <4>3. CASE s # t
        <5>1. s \in from..(t - 1) /\ s \in (from - 1)..(t - 1)
          BY <2>1, <4>3
        <5>2. g[s] = Seen(g[s - 1], s)
          BY <2>2, <5>1 DEF IsSeen, SeenTo
        <5>3. QED BY <2>4, <4>1, <5>1, <5>2
      <4>4. QED BY <4>2, <4>3
    <3>2. h[from - 1] = a
      BY <2>1, <2>2, <2>4 DEF IsSeen, SeenTo
    <3>3. QED BY <3>1, <3>2 DEF IsSeen
  <2>6. SeenTo(h, a, from, t)
    BY <2>3, <2>5 DEF SeenTo
  <2>7. QED BY <2>6 DEF t
<1>4. QED BY <1>2, <1>3

LEMMA SeenAll ==
  ASSUME Zone, NEW A \in SUBSET Cli!Slots, NEW a, MadeFrom(a, A), NEW from \in Nat,
    NEW hi \in Cli!Slots,
         from <= hi, A \cap (from..hi) = {}, NEW g, IsSeen(g, a, from, hi)
  PROVE  MadeFrom(g[hi], A \cup (from..hi))
<1> DEFINE Fails == {m \in Nat : /\ m <= hi - from + 1
                                 /\ ~MadeFrom(g[from + m - 1], A \cup (from..(from + m - 1)))}
<1>0. hi \in Nat /\ hi <= MaxSlot /\ MaxSlot \in Nat /\ Cli!Slots = 0..MaxSlot
  BY ViewsAssumption DEF Cli!Slots
<1>1. Fails = {}
  <2> SUFFICES ASSUME Fails # {} PROVE FALSE
    OBVIOUS
  <2>1. PICK m \in Fails : \A k \in Fails : m <= k
    <3>1. Fails \subseteq Nat
      OBVIOUS
    <3> HIDE DEF Fails
    <3>2. QED BY <3>1, Least
  <2>2. CASE m = 0
    <3>1. g[from + m - 1] = a /\ A \cup (from..(from + m - 1)) = A
      BY <2>2 DEF IsSeen
    <3>2. QED BY <2>1, <3>1
  <2>3. CASE m > 0
    <3> DEFINE t == from + m - 1
    <3>1. m - 1 \in Nat /\ t \in from..hi /\ t \in Cli!Slots /\ from + (m - 1) - 1 = t - 1
      BY <1>0, <2>1, <2>3
    <3>2. MadeFrom(g[t - 1], A \cup (from..(t - 1)))
      <4>1. m - 1 \notin Fails
        <5>1. m \in Nat
          BY <2>1
        <5> HIDE DEF Fails
        <5>2. ~(m <= m - 1)
          BY <5>1
        <5>3. QED BY <2>1, <5>2
      <4>2. m - 1 <= hi - from + 1
        BY <1>0, <2>1
      <4>3. MadeFrom(g[from + (m - 1) - 1], A \cup (from..(from + (m - 1) - 1)))
        BY <3>1, <4>1, <4>2
      <4>4. QED BY <3>1, <4>3
    <3>3. A \cup (from..t) = (A \cup (from..(t - 1))) \cup {t}
      BY <3>1
    <3>4. t \notin A \cup (from..(t - 1)) /\ A \cup (from..(t - 1)) \subseteq Cli!Slots
      BY <1>0, <3>1
    <3>5. g[t] = Seen(g[t - 1], t)
      BY <3>1 DEF IsSeen
    <3> HIDE DEF t
    <3>6. MadeFrom(g[t], A \cup (from..t))
      BY <3>1, <3>2, <3>3, <3>4, <3>5, SeenIs
    <3>7. QED BY <2>1, <3>6 DEF t
  <2>4. QED BY <2>1, <2>2, <2>3
<1>2. hi - from + 1 \in Nat /\ from + (hi - from + 1) - 1 = hi
  BY <1>0
<1>3. QED BY <1>1, <1>2

LEMMA UpdatedIs ==
  ASSUME Zone, NEW A \in SUBSET Cli!Slots, NEW a, MadeFrom(a, A), NEW from \in Nat,
    NEW hi \in Cli!Slots,
         from <= hi, A \cap (from..hi) = {}
  PROVE  MadeFrom(Cli!Updated(a, from, hi), A \cup (from..hi))
<1> DEFINE All(g) == [s \in (from - 1)..hi |->
                        IF s < from THEN a
                        ELSE IF v1[s] = Cli!None THEN g[s - 1] ELSE Cli!Update(g[s - 1], s)]
           upTo == CHOOSE g : g = All(g)
<1>0. hi \in Nat /\ hi - from + 1 \in Nat /\ from + (hi - from + 1) - 1 = hi
  BY ViewsAssumption DEF Cli!Slots
<1>1. Cli!Updated(a, from, hi) = upTo[hi]
  BY DEF Cli!Updated
<1>2. \A g : All(g) = [s \in (from - 1)..hi |-> IF s < from THEN a ELSE Seen(g[s - 1], s)]
  BY DEF Seen
<1> HIDE DEF All
<1>3. PICK g : SeenTo(g, a, from, hi)
  <2>1. \A m \in Nat : \E g : SeenTo(g, a, from, from + m - 1)
    BY SeenExists, Zenon
  <2>2. QED BY <1>0, <2>1
<1>4. g = All(g)
  <2>1. \A s \in (from - 1)..hi : g[s] = IF s < from THEN a ELSE Seen(g[s - 1], s)
    <3>1. \A s \in (from - 1)..hi : s = from - 1 \/ s \in from..hi
      BY <1>0
    <3>2. \A s \in from..hi : ~(s < from) /\ g[s] = Seen(g[s - 1], s)
      <4>1. \A s \in from..hi : ~(s < from)
        BY <1>0
      <4>2. \A s \in from..hi : g[s] = Seen(g[s - 1], s)
        BY <1>3 DEF IsSeen, SeenTo
      <4>3. QED BY <4>1, <4>2
    <3>3. g[from - 1] = a /\ from - 1 < from
      BY <1>3 DEF IsSeen, SeenTo
    <3>4. QED BY <3>1, <3>2, <3>3
  <2>2. QED BY <1>2, <1>3, <2>1 DEF SeenTo
<1>5. upTo = All(upTo)
  BY <1>4
<1> HIDE DEF upTo
<1>6. IsSeen(upTo, a, from, hi)
  BY <1>0, <1>2, <1>5 DEF IsSeen
<1>7. QED BY <1>1, <1>6, SeenAll

--------------------------------------------------------------------------------
(* The track that scans seed, and the watch *)

\* What the running or last scan has read.
ScanInv ==
  /\ v2.pc \in {"off", "walk", "done"}
  /\ v2.answered \subseteq Cli!Slots /\ v2.lo \in Cli!Slots /\ v2.hi \in Cli!Slots
  /\ v2.chunk \in Nat \ {0}
  /\ DOMAIN v2 = {"pc", "lib", "lo", "hi", "chunk", "agg", "answered"}
  /\ v2.pc # "off" => v4 > 0 /\ MadeFrom(v2.agg, v2.answered)
  /\ v2.pc = "walk" => v2.lo <= v2.hi /\ \A s \in v2.answered : s > v2.hi

\* The track's extremes are those of all the slots folded into it.
TrackInv ==
  LET B == Cli!Ids(v5) IN
  /\ v5 \subseteq Cli!Slots /\ v6 \in BOOLEAN
  /\ v3 \in [latest : Nat, first : Nat, count : Nat]
  /\ v4 = 0 => v5 = {}
  /\ B = {} => v3.latest = 0 /\ v3.first = 0
  /\ B # {} => /\ v3.latest \in B /\ \A n \in B : n <= v3.latest
               /\ 0 \notin B /\ ~v6 => v3.first \in B /\ \A n \in B : v3.first <= n

\* What the watch says was so between the answers it compares.
WatchInv ==
  v7.said = "not settling" => v7.slotNow > v7.before[1] /\ v7.tipNow = v7.before[2]

CliInv == Zone /\ v4 \in Nat /\ ScanInv /\ TrackInv /\ WatchInv

LEMMA CliInit == Cli!Init => CliInv
<1> SUFFICES ASSUME Cli!Init PROVE CliInv
  OBVIOUS
<1>0. MaxSlot \in Nat /\ 0 \in Cli!Slots
  BY ViewsAssumption DEF Cli!Slots
<1>1. /\ v1 = [s \in Cli!Slots |-> Cli!None] /\ v2 = Cli!NoScan /\ v3 = Cli!NoTrack
      /\ v4 = 0 /\ v5 = {} /\ v6 = FALSE /\ v7 = Cli!NoWatch
  BY DEF Cli!Init
<1>2. Zone
  BY <1>1 DEF Zone, Cli!Holds
<1>3. ScanInv
  BY <1>0, <1>1 DEF ScanInv, Cli!NoScan
<1>4. TrackInv
  BY <1>1 DEF TrackInv, Cli!NoTrack, Cli!Ids
<1>5. WatchInv
  BY <1>1 DEF WatchInv, Cli!NoWatch
<1>6. QED BY <1>1, <1>2, <1>3, <1>4, <1>5 DEF CliInv

LEMMA NothingRead == MadeFrom(Cli!NoAgg, {})
<1>1. Cli!Inscribed({}) = {} /\ Cli!Ids({}) = {}
  BY DEF Cli!Inscribed, Cli!Ids
<1>2. Cli!Cardinality({}) = 0
  BY <1>1, CountOf
<1>3. Cli!NoAgg \in Agg
  BY DEF Cli!NoAgg, Cli!None, Agg
<1>4. QED BY <1>1, <1>2, <1>3 DEF MadeFrom, Cli!NoAgg, Cli!None

LEMMA StartStep == CliInv /\ Cli!Start => CliInv'
<1> SUFFICES ASSUME CliInv, Cli!Start PROVE CliInv'
  OBVIOUS
<1>0. MaxSlot \in Nat /\ Cli!Slots = 0..MaxSlot
  BY ViewsAssumption DEF Cli!Slots
<1>1. /\ v4' = v4 + 1 /\ UNCHANGED <<v3, v5, v6, v7>>
      /\ IF v4 = 0 THEN v1' \in [Cli!Slots -> Cli!Holds] ELSE UNCHANGED v1
  BY DEF Cli!Start
<1>2. PICK lib \in Cli!Slots, back \in Cli!Slots, chunk \in 1..MaxChunk :
        v2' = [Cli!NoScan EXCEPT !.pc = "walk", !.lib = lib, !.lo = Cli!Minus(lib, back),
          !.hi = lib,
                                 !.chunk = chunk]
  BY DEF Cli!Start
<1>3. /\ v2'.pc = "walk" /\ v2'.hi = lib /\ v2'.lo = Cli!Minus(lib, back) /\ v2'.chunk = chunk
      /\ v2'.agg = Cli!NoAgg /\ v2'.answered = {}
      /\ DOMAIN v2' = {"pc", "lib", "lo", "hi", "chunk", "agg", "answered"}
  BY <1>2 DEF Cli!NoScan
<1>4. v2'.lo \in Cli!Slots /\ v2'.lo <= v2'.hi
  BY <1>0, <1>3 DEF Cli!Minus
<1>5. Zone' /\ v4' \in Nat /\ v4' > 0
  BY <1>1 DEF CliInv, Zone
<1>6. MadeFrom(Cli!NoAgg, {})'
  <2>1. Cli!Inscribed({})' = {} /\ Cli!Ids({})' = {} /\ Cli!Inscribed({}) = {} /\ Cli!Ids({}) = {}
    BY DEF Cli!Inscribed, Cli!Ids
  <2>2. QED BY <2>1, NothingRead DEF MadeFrom
<1>7. MadeFrom(v2.agg, v2.answered)'
  BY <1>3, <1>6 DEF MadeFrom, Cli!Inscribed, Cli!Ids
<1>8. ScanInv'
  BY <1>3, <1>4, <1>5, <1>7 DEF ScanInv
<1>9. TrackInv'
  <2>1. Cli!Ids(v5)' = Cli!Ids(v5)
    <3>1. CASE v4 = 0
      BY <1>1, <3>1 DEF CliInv, TrackInv, Cli!Ids
    <3>2. CASE v4 # 0
      BY <1>1, <3>2 DEF Cli!Ids
    <3>3. QED BY <3>1, <3>2
  <2>2. QED BY <1>1, <1>5, <2>1 DEF CliInv, TrackInv
<1>10. WatchInv'
  BY <1>1 DEF CliInv, WatchInv
<1>11. QED BY <1>5, <1>8, <1>9, <1>10 DEF CliInv

LEMMA ChunkStep == CliInv /\ Cli!Chunk => CliInv'
<1> SUFFICES ASSUME CliInv, Cli!Chunk PROVE CliInv'
  OBVIOUS
<1> DEFINE from == Cli!Max({Cli!Minus(v2.hi, v2.chunk), v2.lo})
<1>0. MaxSlot \in Nat /\ Cli!Slots = 0..MaxSlot
  BY ViewsAssumption DEF Cli!Slots
<1>1. v2.pc = "walk" /\ UNCHANGED <<v1, v3, v4, v5, v6, v7>>
  BY DEF Cli!Chunk
<1>2. PICK ok \in BOOLEAN :
        v2' = [v2 EXCEPT !.pc = IF from <= v2.lo THEN "done" ELSE "walk",
                 !.hi = Cli!NextHi(from),
                 !.agg = IF ok THEN Cli!Updated(@, from, v2.hi) ELSE @,
                 !.answered = IF ok THEN @ \cup (from..v2.hi) ELSE @]
  BY DEF Cli!Chunk
<1>3. /\ Zone /\ v2.answered \subseteq Cli!Slots /\ v2.lo \in Cli!Slots /\ v2.hi \in Cli!Slots
      /\ v2.chunk \in Nat \ {0} /\ v4 > 0 /\ MadeFrom(v2.agg, v2.answered)
      /\ v2.lo <= v2.hi /\ \A s \in v2.answered : s > v2.hi
      /\ DOMAIN v2 = {"pc", "lib", "lo", "hi", "chunk", "agg", "answered"}
  BY <1>1 DEF CliInv, ScanInv
<1>4. from \in Nat /\ from <= v2.hi /\ v2.lo <= from
  <2>1. Cli!Minus(v2.hi, v2.chunk) \in Nat /\ Cli!Minus(v2.hi, v2.chunk) <= v2.hi
    BY <1>0, <1>3 DEF Cli!Minus
  <2>2. Cli!Minus(v2.hi, v2.chunk) \in Int /\ v2.lo \in Int
    BY <1>0, <1>3, <2>1
  <2>3. from = IF Cli!Minus(v2.hi, v2.chunk) >= v2.lo THEN Cli!Minus(v2.hi, v2.chunk) ELSE v2.lo
    BY <2>2, OfTwo, Zenon
  <2> HIDE DEF from
  <2>4. QED BY <1>0, <1>3, <2>1, <2>3
<1> HIDE DEF from
<1>5. Cli!NextHi(from) \in Cli!Slots /\ (from > v2.lo => Cli!NextHi(from) = from - 1)
  BY <1>0, <1>3, <1>4 DEF Cli!NextHi, Cli!Minus
<1>6. /\ v2'.pc = (IF from <= v2.lo THEN "done" ELSE "walk") /\ v2'.hi = Cli!NextHi(from)
      /\ v2'.lo = v2.lo /\ v2'.chunk = v2.chunk
      /\ v2'.agg = (IF ok THEN Cli!Updated(v2.agg, from, v2.hi) ELSE v2.agg)
      /\ v2'.answered = (IF ok THEN v2.answered \cup (from..v2.hi) ELSE v2.answered)
      /\ DOMAIN v2' = {"pc", "lib", "lo", "hi", "chunk", "agg", "answered"}
  BY <1>2, <1>3
<1>7. MadeFrom(v2'.agg, v2'.answered)
  <2>1. CASE ok
    <3>1. v2.answered \cap (from..v2.hi) = {}
      BY <1>0, <1>3, <1>4
    <3>2. MadeFrom(Cli!Updated(v2.agg, from, v2.hi), v2.answered \cup (from..v2.hi))
      BY <1>3, <1>4, <3>1, UpdatedIs
    <3>3. QED BY <1>6, <2>1, <3>2
  <2>2. CASE ~ok
    BY <1>3, <1>6, <2>2
  <2>3. QED BY <2>1, <2>2
<1>8. MadeFrom(v2.agg, v2.answered)'
  BY <1>1, <1>7 DEF MadeFrom, Cli!Inscribed, Cli!Ids
<1>9. v2'.pc = "walk" => v2'.lo <= v2'.hi /\ \A s \in v2'.answered : s > v2'.hi
  BY <1>0, <1>3, <1>4, <1>5, <1>6
<1>10. v2'.answered \subseteq Cli!Slots
  BY <1>0, <1>3, <1>4, <1>6
<1>11. ScanInv'
  BY <1>1, <1>3, <1>5, <1>6, <1>8, <1>9, <1>10 DEF ScanInv
<1>12. QED BY <1>1, <1>11 DEF CliInv, Zone, TrackInv, WatchInv, Cli!Ids

LEMMA SeedStep == CliInv /\ Cli!Seed => CliInv'
<1> SUFFICES ASSUME CliInv, Cli!Seed PROVE CliInv'
  OBVIOUS
<1> DEFINE a == v2.agg  A == v2.answered  B == Cli!Ids(v5)  C == Cli!Ids(A)
<1>0. MaxSlot \in Nat /\ MaxId \in Nat /\ Cli!Slots = 0..MaxSlot
  BY ViewsAssumption DEF Cli!Slots
<1>1. /\ v2.pc = "done" /\ v2' = Cli!NoScan /\ UNCHANGED <<v1, v4, v7>>
      /\ v3' = (IF a.count > 0 THEN Cli!Seeded(v3, a) ELSE v3)
      /\ v5' = v5 \cup A
      /\ v6' = (v6 \/ (a.count > 0 /\ ~a.inited))
  BY DEF Cli!Seed
<1>2. Zone /\ A \subseteq Cli!Slots /\ v4 \in Nat /\ v4 > 0 /\ MadeFrom(a, A)
  BY <1>1 DEF CliInv, ScanInv
<1>3. ScanInv'
  BY <1>0, <1>1 DEF ScanInv, Cli!NoScan
<1>4. Cli!Ids(v5)' = B \cup C /\ B \subseteq 0..MaxId /\ C \subseteq 0..MaxId
  BY <1>1 DEF Cli!Ids
<1>5. /\ v5 \subseteq Cli!Slots /\ v6 \in BOOLEAN /\ v3 \in [latest : Nat, first : Nat, count : Nat]
      /\ B = {} => v3.latest = 0 /\ v3.first = 0
      /\ B # {} => /\ v3.latest \in B /\ \A n \in B : n <= v3.latest
                   /\ 0 \notin B /\ ~v6 => v3.first \in B /\ \A n \in B : v3.first <= n
  BY DEF CliInv, TrackInv
<1>6. /\ a \in Agg /\ a.inited = (C # {})
      /\ C = {} => a.latest = 0 /\ a.min = 0
      /\ C # {} => /\ a.min \in C /\ a.latest \in C /\ \A n \in C : a.min <= n /\ n <= a.latest
  BY <1>2 DEF MadeFrom
<1>7. a.count = 0 => C = {}
  <2>1. a.count = 0 => Cli!Inscribed(A) = {}
    BY <1>2, CountOf DEF MadeFrom
  <2>2. Cli!Inscribed(A) = {} => C = {}
    BY <1>0 DEF Cli!Inscribed, Cli!Ids, Cli!None
  <2>3. QED BY <2>1, <2>2
<1> HIDE DEF a, A, B, C
<1>8. TrackInv'
  <2>1. CASE a.count = 0
    <3>1. v3' = v3 /\ (v6' <=> v6) /\ v6' \in BOOLEAN
      BY <1>1, <1>5, <2>1
    <3>2. B \cup C = B
      BY <1>7, <2>1
    <3>3. Cli!Ids(v5)' = B
      BY <1>4, <3>2
    <3>4. v6' = v6
      BY <1>5, <3>1
    <3>5. v5' \subseteq Cli!Slots /\ ~(v4' = 0)
      BY <1>1, <1>2, <1>5
    <3>6. QED BY <1>5, <3>1, <3>3, <3>4, <3>5 DEF TrackInv
  <2>2. CASE a.count > 0
    <3>1. /\ v3.latest \in Nat /\ v3.first \in Nat /\ v3.count \in Nat
          /\ a.latest \in Nat /\ a.min \in Nat /\ a.count \in Nat
      BY <1>5, <1>6 DEF Agg
    <3>2. v3' = [latest |-> IF v3.latest >= a.latest THEN v3.latest ELSE a.latest,
                 first  |-> IF v3.first = 0 THEN a.min
                            ELSE IF v3.first <= a.min THEN v3.first ELSE a.min,
                 count  |-> IF v3.count >= a.count THEN v3.count ELSE a.count]
      <4>1. /\ Cli!Max({v3.latest, a.latest}) = IF v3.latest >= a.latest THEN v3.latest
                 ELSE a.latest
            /\ Cli!Min({v3.first, a.min}) = IF v3.first <= a.min THEN v3.first ELSE a.min
            /\ Cli!Max({v3.count, a.count}) = IF v3.count >= a.count THEN v3.count ELSE a.count
        <5>1. /\ v3.latest \in Int /\ a.latest \in Int /\ v3.first \in Int /\ a.min \in Int
              /\ v3.count \in Int /\ a.count \in Int
          BY <3>1
        <5>2. QED BY <5>1, OfTwo, Zenon
      <4>2. v3' = [latest |-> Cli!Max({v3.latest, a.latest}),
                   first  |-> IF v3.first = 0 THEN a.min ELSE Cli!Min({v3.first, a.min}),
                   count  |-> Cli!Max({v3.count, a.count})]
        BY <1>1, <2>2 DEF Cli!Seeded
      <4>3. QED BY <4>1, <4>2, Zenon
    <3>3. v3' \in [latest : Nat, first : Nat, count : Nat]
      BY <3>1, <3>2
    <3>4. v6' \in BOOLEAN /\ (~v6' => ~v6 /\ C # {})
      BY <1>1, <1>5, <1>6, <2>2
    <3>5. B \cup C = {} => v3'.latest = 0 /\ v3'.first = 0
      BY <1>5, <1>6, <3>2
    <3>6. B \cup C # {} => v3'.latest \in B \cup C /\ \A n \in B \cup C : n <= v3'.latest
      BY <1>4, <1>5, <1>6, <3>1, <3>2
    <3>7. 0 \notin B \cup C /\ ~v6' => v3'.first \in B \cup C /\ \A n \in B \cup C : v3'.first <= n
      BY <1>4, <1>5, <1>6, <3>1, <3>2, <3>4
    <3>8. v5' \subseteq Cli!Slots /\ ~(v4' = 0)
      BY <1>1, <1>2, <1>5
    <3>9. QED BY <1>4, <3>3, <3>4, <3>5, <3>6, <3>7, <3>8 DEF TrackInv
  <2>3. QED BY <1>6, <2>1, <2>2 DEF Agg
<1>9. QED BY <1>1, <1>3, <1>8 DEF CliInv, Zone, WatchInv

LEMMA WatchStep == CliInv /\ Cli!Poll => CliInv'
<1> SUFFICES ASSUME CliInv, Cli!Poll PROVE CliInv'
  OBVIOUS
<1>1. UNCHANGED <<v1, v2, v3, v4, v5, v6>>
  BY DEF Cli!Poll
<1>2. PICK slotNow \in v7.slotNow..MaxSlot, tipNow \in v7.tipNow..MaxId, s \in BOOLEAN,
        t \in BOOLEAN :
        v7' = [slotNow |-> slotNow, tipNow |-> tipNow,
               slot |-> IF s THEN slotNow ELSE v7.slot,
               tip |-> IF t THEN tipNow ELSE v7.tip,
               said |-> IF t THEN Cli!Status(tipNow, IF s THEN slotNow ELSE Cli!None)
                 ELSE "unreachable",
               before |-> <<v7.slot, v7.tip>>,
               polls |-> v7.polls + 1]
  BY DEF Cli!Poll
<1>3. WatchInv'
  <2> SUFFICES ASSUME v7'.said = "not settling"
               PROVE  slotNow > v7.slot /\ tipNow = v7.tip
    BY <1>2 DEF WatchInv
  <2>1. t /\ Cli!Status(tipNow, IF s THEN slotNow ELSE Cli!None) = "not settling"
    BY <1>2
  <2>2. QED BY <2>1 DEF Cli!Status
<1>4. ScanInv' /\ TrackInv' /\ Zone' /\ v4' \in Nat
  <2>1. ScanInv'
    BY <1>1 DEF CliInv, ScanInv, MadeFrom, Cli!Inscribed, Cli!Ids
  <2>2. QED BY <1>1, <2>1 DEF CliInv, TrackInv, Zone, Cli!Ids
<1>5. QED BY <1>3, <1>4 DEF CliInv

LEMMA CliReported == CliInv => Cli!Reported
<1> SUFFICES ASSUME CliInv PROVE Cli!Reported
  OBVIOUS
<1>0. MaxSlot \in Nat /\ MaxId \in Nat /\ Cli!Slots = 0..MaxSlot
  BY ViewsAssumption DEF Cli!Slots
<1>1. ASSUME v2.pc = "done"
      PROVE  LET I == Cli!Inscribed(v2.answered)
                 B == Cli!Ids(v2.answered)
                 a == v2.agg
             IN  /\ a.count = Cli!Cardinality(I)
                 /\ I # {} => a.minSlot = Cli!Min(I) /\ a.maxSlot = Cli!Max(I)
                 /\ B # {} => a.min = Cli!Min(B) /\ a.latest = Cli!Max(B) /\ v1[a.txs] = a.latest
  <2> DEFINE I == Cli!Inscribed(v2.answered)  B == Cli!Ids(v2.answered)  a == v2.agg
  <2>1. MadeFrom(a, v2.answered) /\ v2.answered \subseteq Cli!Slots
    BY <1>1 DEF CliInv, ScanInv
  <2>2. I \in SUBSET Int /\ B \in SUBSET Int
    BY <1>0, <2>1 DEF Cli!Inscribed, Cli!Ids
  <2>3. /\ a.count = Cli!Cardinality(I)
        /\ I # {} => /\ a.minSlot \in I /\ a.maxSlot \in I
                     /\ \A s \in I : a.minSlot <= s /\ s <= a.maxSlot
        /\ B # {} => /\ a.min \in B /\ a.latest \in B /\ v1[a.txs] = a.latest
                     /\ \A n \in B : a.min <= n /\ n <= a.latest
    BY <2>1 DEF MadeFrom
  <2> HIDE DEF I, B, a
  <2>4. I # {} => a.minSlot = Cli!Min(I) /\ a.maxSlot = Cli!Max(I)
    BY <2>2, <2>3, ExtremeOf
  <2>5. B # {} => a.min = Cli!Min(B) /\ a.latest = Cli!Max(B) /\ v1[a.txs] = a.latest
    BY <2>2, <2>3, ExtremeOf
  <2>6. QED BY <2>3, <2>4, <2>5 DEF I, B, a
<1>2. ASSUME Cli!Ids(v5) # {}
      PROVE  /\ v3.latest = Cli!Max(Cli!Ids(v5))
             /\ 0 \notin Cli!Ids(v5) /\ ~v6 => v3.first = Cli!Min(Cli!Ids(v5))
  <2> DEFINE B == Cli!Ids(v5)
  <2>1. B \in SUBSET Int
    BY <1>0 DEF Cli!Ids
  <2>2. /\ v3.latest \in B /\ \A n \in B : n <= v3.latest
        /\ 0 \notin B /\ ~v6 => v3.first \in B /\ \A n \in B : v3.first <= n
    BY <1>2 DEF CliInv, TrackInv
  <2> HIDE DEF B
  <2>3. v3.latest = Cli!Max(B) /\ (0 \notin B /\ ~v6 => v3.first = Cli!Min(B))
    BY <2>1, <2>2, ExtremeOf
  <2>4. QED BY <2>3 DEF B
<1>3. QED BY <1>1, <1>2 DEF Cli!Reported, CliInv, WatchInv

\* Whatever the window, the chunks and the requests that fail: a scan reports the count
\* and the extremes of what was answered, a track seeded by several scans those of them
\* all, and the watch says what was so between the answers that it compares.
THEOREM ScansReport == Spec => []Reported
<1> DEFINE Inv == part = "cli" => CliInv
<1>1. Init => Inv
  BY CliInit DEF Init
<1>2. Inv /\ [Next]_vars => Inv'
  <2>1. ASSUME Inv, UNCHANGED vars PROVE Inv'
    <3>1. UNCHANGED <<v1, v2, v3, v4, v5, v6, v7, part>>
      BY <2>1 DEF vars
    <3>2. ScanInv => ScanInv'
      BY <3>1 DEF ScanInv, MadeFrom, Cli!Inscribed, Cli!Ids
    <3>3. TrackInv => TrackInv'
      BY <3>1 DEF TrackInv, Cli!Ids
    <3>4. CliInv => CliInv'
      BY <3>1, <3>2, <3>3 DEF CliInv, WatchInv, Zone
    <3>5. QED BY <2>1, <3>1, <3>4
  <2>2. QED BY <2>1, StartStep, ChunkStep, SeedStep, WatchStep DEF Next, Cli!Next
<1>3. Inv => Reported
  BY CliReported DEF Reported
<1>4. QED BY <1>1, <1>2, <1>3, PTL DEF Spec

--------------------------------------------------------------------------------
(* The feed: what is in memory, on its way and shown *)

Hashes(s) == {s[i].hash : i \in 1..Len(s)}

MemInv ==
  /\ v1 \in Seq(Txs) /\ Len(v1) <= Cap
  /\ \A i, j \in 1..Len(v1) : v1[i].hash = v1[j].hash => i = j
  /\ v2 = Hashes(v1)

Jobs == [pc : {"idle", "read", "push"}, tx : Txs \cup {Live!NoTx}]

Bounded == \E b \in Nat : \A t \in v4 : t.at <= b

\* What is pushed is in the store.
StoredInv ==
  /\ v4 \subseteq Txs /\ v5 \in Seq(v4)
  /\ v3 \in [Sources -> Jobs]
  /\ \A r \in Sources : /\ v3[r].pc = "read" => v3[r].tx \in Txs
                        /\ v3[r].pc = "push" => v3[r].tx \in v4

Feeds == [rows : Seq(v4), seen : SUBSET {t.hash : t \in Txs}, cursor : Nat, done : BOOLEAN,
          first : BOOLEAN, pc : {"asking", "answered", "rest"}, answer : Seq(v4)]

Falling(s) == \A i, j \in 1..Len(s) : i < j => s[i].at > s[j].at

Under(c, t) == c = 0 \/ t.at < c

FeedInv ==
  /\ v6 \in Feeds /\ v9 \subseteq v4
  /\ Hashes(v6.rows) \subseteq v6.seen
  /\ v6.first \/ v6.pc # "rest" => ~v6.done
  /\ v6.first => v6.cursor = 0
  /\ ~v6.first /\ v6.cursor = 0 => v6.done
  /\ \A i, j \in 1..Len(v6.rows) : i < j /\ v6.rows[i] = v6.rows[j] => v6.rows[i] \in v9
  /\ \A i \in 1..Len(v6.rows) : v6.rows[i].at >= v6.cursor \/ v6.rows[i] \in v9
  /\ Len(v6.answer) <= Page /\ Falling(v6.answer)
  /\ \A i \in 1..Len(v6.answer) : Under(v6.cursor, v6.answer[i])

\* What is owed is shown, or on its way, or below what has been paged through.
OwedInv ==
  /\ v8 \subseteq v4
  /\ v6.first /\ v6.pc # "answered" => v8 = {}
  /\ \A t \in v8 :
       \/ ~v6.first /\ t.hash \in Hashes(v6.rows)
       \/ /\ v6.pc = "answered"
          /\ \/ \E i \in 1..Len(v6.answer) : t = v6.answer[i]
             \/ Len(v6.answer) = Page /\ t.at < v6.answer[Page].at
       \/ v6.pc # "answered" /\ ~v6.first /\ ~v6.done /\ t.at < v6.cursor

LiveInv == MemInv /\ StoredInv /\ Bounded /\ FeedInv /\ OwedInv

\* A transaction has a place of its own.
LEMMA Txs0 == /\ Cap \in Nat /\ Page \in Nat /\ Page > 0
              /\ \A t \in Txs : t.at \in Nat /\ t.at > 0
              /\ \A t, u \in Txs : t.at = u.at => t = u
  BY ViewsAssumption

LEMMA SeqOf ==
  ASSUME NEW S, NEW s \in Seq(S)
  PROVE  /\ Len(s) \in Nat /\ \A i \in 1..Len(s) : s[i] \in S
         /\ Live!Hashes(s) = Hashes(s)
<1>1. Len(s) \in Nat /\ DOMAIN s = 1..Len(s) /\ \A i \in 1..Len(s) : s[i] \in S
  OBVIOUS
<1>2. Live!ToSet(s) = {s[i] : i \in 1..Len(s)}
  BY <1>1 DEF Live!ToSet
<1>3. Live!Hashes(s) = {s[i].hash : i \in 1..Len(s)}
  BY <1>2 DEF Live!Hashes
<1>4. QED BY <1>1, <1>3 DEF Hashes

LEMMA CountSame == \A S : Live!Cardinality(S) = Cardinality(S)
  BY Zenon DEF Live!Cardinality, Cardinality

\* A sequence of different hashes has as many.
LEMMA HashCount ==
  ASSUME NEW s \in Seq(Txs), \A i, j \in 1..Len(s) : s[i].hash = s[j].hash => i = j
  PROVE  Live!Cardinality(Hashes(s)) = Len(s)
<1> DEFINE f == [i \in 1..Len(s) |-> s[i].hash]
<1>1. Len(s) \in Nat
  OBVIOUS
<1>2. f \in Bijection(1..Len(s), Hashes(s))
  <2>1. f \in [1..Len(s) -> Hashes(s)]
    BY DEF Hashes
  <2>2. \A i, j \in 1..Len(s) : f[i] = f[j] => i = j
    OBVIOUS
  <2>3. \A h \in Hashes(s) : \E i \in 1..Len(s) : f[i] = h
    BY DEF Hashes
  <2> HIDE DEF f
  <2>4. f \in Injection(1..Len(s), Hashes(s)) /\ f \in Surjection(1..Len(s), Hashes(s))
    BY <2>1, <2>2, <2>3 DEF Injection, Surjection, IsInjective
  <2>5. QED BY <2>4 DEF Bijection
<1>3. ExistsBijection(1..Len(s), Hashes(s))
  BY <1>2 DEF ExistsBijection
<1>4. Cardinality(Hashes(s)) = Len(s)
  BY <1>1, <1>3, FS_CountingElements
<1>5. QED BY <1>4, CountSame

--------------------------------------------------------------------------------
(* The page a request is answered with *)

LEMMA NewestIs ==
  ASSUME StoredInv, Bounded, NEW S \in SUBSET v4, S # {}
  PROVE  Live!Newest(S) \in S /\ \A t \in S : t.at <= Live!Newest(S).at
<1>1. PICK b \in Nat : \A t \in v4 : t.at <= b
  BY DEF Bounded
<1> DEFINE D == {n \in Nat : \E t \in S : t.at = b - n}
<1>2. \A t \in S : t.at \in Nat /\ t.at <= b
  BY <1>1, Txs0 DEF StoredInv
<1>3. D # {}
  <2>1. PICK t \in S : TRUE
    OBVIOUS
  <2>2. b - t.at \in Nat /\ t.at = b - (b - t.at)
    BY <1>2
  <2>3. QED BY <2>2
<1>4. PICK n \in D : \A m \in D : n <= m
  <2>1. D \in SUBSET Nat
    OBVIOUS
  <2> HIDE DEF D
  <2>2. QED BY <1>3, <2>1, Least
<1>5. PICK t \in S : t.at = b - n
  OBVIOUS
<1>6. \A u \in S : u.at <= t.at
  <2> TAKE u \in S
  <2>1. b - u.at \in Nat /\ u.at = b - (b - u.at)
    BY <1>2
  <2>2. b - u.at \in D
    BY <2>1
  <2>3. n <= b - u.at /\ n \in Nat
    BY <1>4, <2>2
  <2>4. QED BY <1>2, <1>5, <2>3
<1>7. QED BY <1>6 DEF Live!Newest

Step(s) ==
  IF Live!Below(Live!From(s)) = {} THEN s
  ELSE Append(s, Live!Newest(Live!Below(Live!From(s))))

\* s is the page after n rows were asked for.
PageTo(s, n) ==
  /\ s \in Seq(v4) /\ Len(s) <= n /\ Falling(s)
  /\ \A i \in 1..Len(s) : Under(v6.cursor, s[i])
  /\ \A t \in v4 : Under(v6.cursor, t) <=> \/ \E i \in 1..Len(s) : t = s[i]
                                           \/ Under(Live!From(s), t)
  /\ Len(s) = n \/ \A t \in v4 : ~Under(Live!From(s), t)

LEMMA BelowIs == \A c : Live!Below(c) = {t \in v4 : Under(c, t)}
  BY DEF Live!Below, Under

LEMMA FromIs ==
  \A s \in Seq(v4) : Live!From(s) = IF Len(s) = 0 THEN v6.cursor ELSE s[Len(s)].at
<1> TAKE s \in Seq(v4)
<1>1. Len(s) \in Nat /\ (s = <<>> <=> Len(s) = 0)
  OBVIOUS
<1>2. QED BY <1>1 DEF Live!From, Live!Last

LEMMA PageStart == PageTo(<<>>, 0)
<1>1. <<>> \in Seq(v4) /\ Len(<<>>) = 0
  OBVIOUS
<1>2. Live!From(<<>>) = v6.cursor
  BY Zenon DEF Live!From
<1>3. QED BY <1>2, <1>1 DEF PageTo, Falling

\* A row more.
LEMMA PageStep ==
  ASSUME StoredInv, Bounded, v6.cursor \in Nat, NEW n \in Nat, NEW s, PageTo(s, n)
  PROVE  PageTo(Step(s), n + 1)
<1> DEFINE c == Live!From(s)
           B == {t \in v4 : Under(c, t)}
<1>0. s \in Seq(v4) /\ Len(s) \in Nat /\ v4 \subseteq Txs /\ \A i \in 1..Len(s) : s[i] \in v4
  BY DEF PageTo, StoredInv
<1>1. \A t \in v4 : t.at \in Nat /\ t.at > 0
  BY <1>0, Txs0
<1>2. Live!Below(Live!From(s)) = B
  BY BelowIs
<1>3. c = IF Len(s) = 0 THEN v6.cursor ELSE s[Len(s)].at
  BY <1>0, FromIs
<1>4. CASE B = {}
  <2>1. Step(s) = s
    BY <1>2, <1>4 DEF Step
  <2>2. QED BY <1>0, <1>4, <2>1 DEF PageTo
<1>5. CASE B # {}
  <2> DEFINE t == Live!Newest(B)
             u == Append(s, t)
  <2>1. t \in v4 /\ Under(c, t) /\ \A x \in v4 : Under(c, x) => x.at <= t.at
    <3>1. B \in SUBSET v4
      OBVIOUS
    <3>2. t \in B /\ \A x \in B : x.at <= t.at
      BY <1>5, <3>1, NewestIs
    <3> HIDE DEF t
    <3>3. QED BY <3>2
  <2>2. Step(s) = u
    BY <1>2, <1>5 DEF Step
  <2> HIDE DEF t, c
  <2>3. /\ u \in Seq(v4) /\ Len(u) = Len(s) + 1 /\ u[Len(s) + 1] = t
        /\ \A i \in 1..Len(s) : u[i] = s[i]
    BY <1>0, <2>1
  <2> HIDE DEF u
  <2>4. Len(s) = n
    BY <1>5 DEF PageTo, c
  <2>5. Live!From(u) = t.at
    <3>1. Live!From(u) = u[Len(u)].at
      BY <1>0, <2>3, FromIs
    <3>2. QED BY <2>3, <3>1
  <2>6. t.at \in Nat /\ t.at > 0 /\ c \in Nat
    BY <1>0, <1>1, <1>3, <2>1
  <2>7. \A i \in 1..Len(s) : s[i].at > t.at
    <3> TAKE i \in 1..Len(s)
    <3>1. Len(s) > 0 /\ Len(s) \in 1..Len(s) /\ c = s[Len(s)].at /\ c > 0
      BY <1>0, <1>1, <1>3
    <3>2. t.at < c
      BY <2>1, <2>6, <3>1 DEF Under
    <3>3. s[i].at >= s[Len(s)].at
      BY <1>0, <1>1, <3>1 DEF PageTo, Falling
    <3>4. QED BY <1>0, <1>1, <2>6, <3>1, <3>2, <3>3
  <2>8. Falling(u)
    <3> SUFFICES ASSUME NEW i \in 1..Len(u), NEW j \in 1..Len(u), i < j PROVE u[i].at > u[j].at
      BY DEF Falling
    <3>1. i \in 1..Len(s)
      BY <1>0, <2>3
    <3>2. CASE j = Len(s) + 1
      BY <2>3, <2>7, <3>1, <3>2
    <3>3. CASE j # Len(s) + 1
      <4>1. j \in 1..Len(s)
        BY <1>0, <2>3, <3>3
      <4>2. QED BY <2>3, <3>1, <4>1 DEF PageTo, Falling
    <3>4. QED BY <3>2, <3>3
  <2>9. \A i \in 1..Len(u) : Under(v6.cursor, u[i])
    <3> TAKE i \in 1..Len(u)
    <3>1. CASE i \in 1..Len(s)
      BY <2>3, <3>1 DEF PageTo
    <3>2. CASE i = Len(s) + 1
      BY <2>1, <2>3, <3>2 DEF PageTo, c
    <3>3. QED BY <1>0, <2>3, <3>1, <3>2
  <2>10. \A x \in v4 : Under(c, x) <=> x = t \/ Under(t.at, x)
    <3> TAKE x \in v4
    <3>1. x.at \in Nat /\ x.at > 0 /\ x \in Txs /\ t \in Txs
      BY <1>0, <1>1, <2>1
    <3>2. x.at = t.at => x = t
      BY <3>1, Txs0
    <3>3. ASSUME Under(c, x) PROVE x = t \/ Under(t.at, x)
      <4>1. x.at <= t.at
        BY <2>1, <3>3
      <4>2. QED BY <2>6, <3>1, <3>2, <4>1 DEF Under
    <3>4. ASSUME Under(t.at, x) PROVE Under(c, x)
      BY <2>1, <2>6, <3>1, <3>4 DEF Under
    <3>5. QED BY <2>1, <3>3, <3>4
  <2>11. \A x \in v4 : (\E i \in 1..Len(u) : x = u[i]) <=> x = t \/ \E i \in 1..Len(s) : x = s[i]
    <3>1. 1..Len(u) = (1..Len(s)) \cup {Len(s) + 1}
      BY <1>0, <2>3
    <3>2. QED BY <2>3, <3>1
  <2>12. \A x \in v4 : Under(v6.cursor, x) <=> \/ \E i \in 1..Len(u) : x = u[i]
                                              \/ Under(t.at, x)
    <3> TAKE x \in v4
    <3>1. Under(v6.cursor, x) <=> (\E i \in 1..Len(s) : x = s[i]) \/ Under(c, x)
      BY DEF PageTo, c
    <3>2. QED BY <2>10, <2>11, <3>1
  <2>13. PageTo(u, n + 1)
    BY <1>0, <2>3, <2>4, <2>5, <2>8, <2>9, <2>12 DEF PageTo
  <2>14. QED BY <2>2, <2>13
<1>6. QED BY <1>4, <1>5

IsPages(g, n) ==
  g = [m \in 0..n |-> IF m = 0 THEN <<>> ELSE Step(g[m - 1])]

LEMMA PagesExist == \A n \in Nat : \E g : IsPages(g, n)
<1> DEFINE Has(n) == \E g : IsPages(g, n)
           Lacks == {n \in Nat : ~Has(n)}
<1> SUFFICES ASSUME Lacks # {} PROVE FALSE
  OBVIOUS
<1>1. PICK n \in Lacks : \A m \in Lacks : n <= m
  <2>1. Lacks \in SUBSET Nat
    OBVIOUS
  <2> HIDE DEF Lacks
  <2>2. QED BY <2>1, Least
<1>2. CASE n = 0
  <2> DEFINE g == [m \in 0..0 |-> <<>>]
  <2>1. \A m \in 0..0 : m = 0
    OBVIOUS
  <2>2. IsPages(g, 0)
    BY <2>1 DEF IsPages
  <2>3. QED BY <1>2, <2>2
<1>3. CASE n > 0
  <2>1. n \in Nat /\ n - 1 \in Nat /\ ~(n <= n - 1)
    BY <1>3
  <2>2. n - 1 \notin Lacks
    <3> HIDE DEF Lacks
    <3>1. QED BY <1>1, <2>1
  <2>3. PICK g : IsPages(g, n - 1)
    BY <2>1, <2>2
  <2> DEFINE h == [m \in 0..n |-> IF m = n THEN Step(g[n - 1]) ELSE g[m]]
  <2>4. \A m \in 0..(n - 1) : h[m] = g[m]
    BY <2>1
  <2>5. h[n] = Step(g[n - 1])
    BY <2>1
  <2>6. h = [m \in 0..n |-> h[m]]
    OBVIOUS
  <2> HIDE DEF h
  <2>7. \A m \in 0..n : h[m] = IF m = 0 THEN <<>> ELSE Step(h[m - 1])
    <3> TAKE m \in 0..n
    <3>1. CASE m = n
      <4>1. n - 1 \in 0..(n - 1) /\ m # 0
        BY <1>3, <2>1, <3>1
      <4>2. QED BY <2>4, <2>5, <3>1, <4>1
    <3>2. CASE m # n
      <4>1. m \in 0..(n - 1) /\ (m # 0 => m - 1 \in 0..(n - 1))
        BY <2>1, <3>2
      <4>2. g[m] = IF m = 0 THEN <<>> ELSE Step(g[m - 1])
        BY <2>3, <4>1 DEF IsPages
      <4>3. QED BY <2>4, <4>1, <4>2
    <3>3. QED BY <3>1, <3>2
  <2>8. IsPages(h, n)
    BY <2>6, <2>7 DEF IsPages
  <2>9. QED BY <1>1, <2>8
<1>4. QED BY <1>1, <1>2, <1>3

\* The page has the rows below the cursor, newest first: all, or Page of them and
\* what lacks lies below the last.
LEMMA PageIs ==
  ASSUME StoredInv, Bounded, v6.cursor \in Nat
  PROVE  PageTo(Live!PageRows, Page)
<1> DEFINE All(g) == [n \in 0..Page |-> IF n = 0 THEN <<>> ELSE Step(g[n - 1])]
           upTo == CHOOSE g : g = All(g)
           Wrong == {n \in Nat : n <= Page /\ ~PageTo(upTo[n], n)}
<1>1. Live!PageRows = upTo[Page]
  BY DEF Live!PageRows, Step
<1>2. upTo = All(upTo)
  <2>1. \E g : g = All(g)
    BY Txs0, PagesExist DEF IsPages
  <2>2. QED BY <2>1
<1> HIDE DEF upTo
<1>3. upTo[0] = <<>> /\ \A n \in 1..Page : upTo[n] = Step(upTo[n - 1])
  <2>1. 0 \in 0..Page /\ \A n \in 1..Page : n \in 0..Page /\ n # 0
    BY Txs0
  <2>2. \A n \in 0..Page : upTo[n] = IF n = 0 THEN <<>> ELSE Step(upTo[n - 1])
    BY <1>2
  <2>3. QED BY <2>1, <2>2
<1>4. Wrong = {}
  <2> SUFFICES ASSUME Wrong # {} PROVE FALSE
    OBVIOUS
  <2>1. PICK n \in Wrong : \A m \in Wrong : n <= m
    <3>1. Wrong \in SUBSET Nat
      OBVIOUS
    <3> HIDE DEF Wrong
    <3>2. QED BY <3>1, Least
  <2>2. CASE n = 0
    BY <1>3, <2>1, <2>2, PageStart
  <2>3. CASE n # 0
    <3>1. n - 1 \in Nat /\ n - 1 <= Page /\ n \in 1..Page /\ n - 1 + 1 = n /\ ~(n <= n - 1)
      BY <2>3, Txs0
    <3>2. n - 1 \notin Wrong
      <4> HIDE DEF Wrong
      <4>1. QED BY <2>1, <3>1
    <3>3. PageTo(upTo[n - 1], n - 1)
      BY <3>1, <3>2
    <3>4. PageTo(Step(upTo[n - 1]), n - 1 + 1)
      BY <3>1, <3>3, PageStep
    <3>5. QED BY <1>3, <2>1, <3>1, <3>4
  <2>4. QED BY <2>2, <2>3
<1>5. Page \notin Wrong /\ Page \in Nat /\ Page <= Page
  BY <1>4, Txs0
<1>6. QED BY <1>1, <1>5

--------------------------------------------------------------------------------
(* The steps of the readers *)

LEMMA LiveInit == Live!Init => LiveInv
<1> SUFFICES ASSUME Live!Init PROVE LiveInv
  OBVIOUS
<1> USE DEF Live!Init
<1>1. Hashes(<<>>) = {}
  BY DEF Hashes
<1>2. MemInv
  BY <1>1, Txs0 DEF MemInv
<1>3. StoredInv /\ Bounded
  <2>1. Live!Idle \in Jobs /\ Live!Idle.pc = "idle"
    BY DEF Live!Idle, Jobs
  <2>2. v3 \in [Sources -> Jobs] /\ \A r \in Sources : v3[r].pc = "idle"
    BY <2>1
  <2>3. v4 \subseteq Txs /\ v5 \in Seq(v4)
    OBVIOUS
  <2>4. Bounded
    BY DEF Bounded
  <2>5. QED BY <2>2, <2>3, <2>4 DEF StoredInv
<1>4. v6 = Live!NewFeed /\ v8 = {} /\ v9 = {} /\ v4 = {}
  OBVIOUS
<1>5. FeedInv /\ OwedInv
  BY <1>1, <1>4, Txs0 DEF FeedInv, OwedInv, Live!NewFeed, Feeds, Falling
<1>6. QED BY <1>2, <1>3, <1>5 DEF LiveInv

LEMMA Prefix ==
  ASSUME NEW s \in Seq(Txs), NEW k \in 0..Len(s)
  PROVE  /\ SubSeq(s, 1, k) \in Seq(Txs) /\ Len(SubSeq(s, 1, k)) = k
         /\ \A i \in 1..k : SubSeq(s, 1, k)[i] = s[i]
  OBVIOUS

\* push_tx keeps the hashes different, and forgets those it lets go of.
LEMMA PushStep ==
  ASSUME MemInv, NEW t \in Txs, Live!PushTx(t)
  PROVE  MemInv'
<1>0. v1 \in Seq(Txs) /\ Len(v1) \in Nat /\ Len(v1) <= Cap /\ Cap \in Nat /\ v2 = Hashes(v1)
  BY Txs0 DEF MemInv
<1>1. CASE t.hash \in v2
  BY <1>1 DEF Live!PushTx, MemInv, Hashes
<1>2. CASE t.hash \notin v2
  <2> DEFINE m == <<t>> \o v1
             k == IF Len(m) <= Cap THEN Len(m) ELSE Cap
             top == SubSeq(m, 1, k)
             rest == SubSeq(m, Cap + 1, Len(m))
  <2>1. v1' = top /\ v2' = (v2 \cup {t.hash}) \ Live!Hashes(rest)
    BY <1>2 DEF Live!PushTx
  <2>2. m \in Seq(Txs) /\ Len(m) = Len(v1) + 1 /\ m[1] = t /\ \A i \in 1..Len(v1) : m[i + 1] = v1[i]
    BY <1>0
  <2> HIDE DEF m
  <2>3. k \in Nat /\ k <= Len(m) /\ k <= Cap
    BY <1>0, <2>2
  <2>4. /\ top \in Seq(Txs) /\ Len(top) = k /\ \A i \in 1..k : top[i] = m[i]
    <3>1. k \in 0..Len(m)
      BY <2>2, <2>3
    <3> HIDE DEF k
    <3>2. QED BY <2>2, <3>1, Prefix
  <2>5. /\ rest \in Seq(Txs)
        /\ \A i \in 1..Len(rest) : Cap + i \in 1..Len(m) /\ rest[i] = m[Cap + i]
        /\ \A i \in 1..Len(m) : i > k => i - Cap \in 1..Len(rest) /\ Cap + (i - Cap) = i
    <3>1. \A i \in (Cap + 1)..Len(m) : m[i] \in Txs
      BY <1>0, <2>2
    <3>2. rest \in Seq(Txs) /\ Len(rest) = (IF Cap + 1 <= Len(m) THEN Len(m) - (Cap + 1) + 1 ELSE 0)
          /\ \A i \in 1..(Len(m) - (Cap + 1) + 1) : rest[i] = m[Cap + 1 + i - 1]
      BY <1>0, <2>2, <3>1, SubSeqProperties
    <3> HIDE DEF rest
    <3>3. QED BY <1>0, <2>2, <2>3, <3>2
  <2> HIDE DEF k, top, rest
  <2>6. \A i, j \in 1..Len(m) : m[i].hash = m[j].hash => i = j
    <3>1. \A i \in 1..Len(v1) : v1[i].hash # t.hash
      BY <1>0, <1>2 DEF Hashes
    <3>2. \A i \in 1..Len(m) : i = 1 \/ (i - 1 \in 1..Len(v1) /\ m[i] = v1[i - 1])
      <4> TAKE i \in 1..Len(m)
      <4>1. i # 1 => i - 1 \in 1..Len(v1) /\ (i - 1) + 1 = i
        BY <1>0, <2>2
      <4>2. QED BY <2>2, <4>1
    <3>3. QED
      <4> TAKE i, j \in 1..Len(m)
      <4> HAVE m[i].hash = m[j].hash
      <4>1. CASE i = 1
        BY <2>2, <3>1, <3>2, <4>1
      <4>2. CASE j = 1
        BY <2>2, <3>1, <3>2, <4>2
      <4>3. CASE i # 1 /\ j # 1
        <5>1. i - 1 = j - 1
          BY <3>2, <4>3 DEF MemInv
        <5>2. QED BY <1>0, <2>2, <5>1
      <4>4. QED BY <4>1, <4>2, <4>3
  <2>7. v2 \cup {t.hash} = {m[i].hash : i \in 1..Len(m)}
    <3>1. \A i \in 1..Len(v1) : i + 1 \in 1..Len(m) /\ m[i + 1] = v1[i]
      BY <1>0, <2>2
    <3>2. \A i \in 1..Len(m) : i = 1 \/ i - 1 \in 1..Len(v1)
      BY <1>0, <2>2
    <3>3. \A i \in 1..Len(m) : i # 1 => m[i] = v1[i - 1]
      <4> TAKE i \in 1..Len(m)
      <4>1. i # 1 => (i - 1) + 1 = i
        BY <1>0, <2>2
      <4>2. QED BY <2>2, <3>2, <4>1
    <3>4. 1 \in 1..Len(m)
      BY <1>0, <2>2
    <3>5. QED BY <1>0, <2>2, <3>1, <3>2, <3>3, <3>4 DEF Hashes
  <2>8. Live!Hashes(rest) = {rest[i].hash : i \in 1..Len(rest)}
    BY <2>5, SeqOf DEF Hashes
  <2>9. v2' = Hashes(top)
    <3>1. ASSUME NEW i \in 1..k
          PROVE  i \in 1..Len(m) /\ top[i] = m[i] /\ m[i].hash \notin Live!Hashes(rest)
      <4>1. i \in 1..Len(m) /\ top[i] = m[i] /\ i <= Cap
        BY <1>0, <2>2, <2>3, <2>4
      <4>2. \A j \in 1..Len(rest) : Cap + j \in 1..Len(m) /\ rest[j] = m[Cap + j] /\ i # Cap + j
        BY <1>0, <2>5, <4>1
      <4>3. \A j \in 1..Len(rest) : rest[j].hash # m[i].hash
        BY <2>6, <4>1, <4>2
      <4>4. QED BY <2>8, <4>1, <4>3
    <3>2. ASSUME NEW i \in 1..Len(m), m[i].hash \notin Live!Hashes(rest) PROVE i \in 1..k
      <4>1. i > k => m[i].hash \in Live!Hashes(rest)
        <5>1. i > k => i - Cap \in 1..Len(rest) /\ rest[i - Cap] = m[i]
          BY <2>5
        <5>2. QED BY <2>8, <5>1
      <4>2. QED BY <2>2, <2>3, <3>2, <4>1
    <3>3. Hashes(top) = {top[i].hash : i \in 1..k}
      BY <2>4 DEF Hashes
    <3>4. QED BY <2>1, <2>7, <3>1, <3>2, <3>3
  <2>10. \A i, j \in 1..Len(top) : top[i].hash = top[j].hash => i = j
    <3>1. \A i \in 1..Len(top) : i \in 1..Len(m) /\ top[i] = m[i]
      BY <2>2, <2>3, <2>4
    <3>2. QED BY <2>6, <3>1
  <2>11. v2' = Hashes(v1') /\ v1' = top /\ Len(top) <= Cap
    BY <2>1, <2>3, <2>4, <2>9
  <2>12. QED BY <2>4, <2>10, <2>11 DEF MemInv, Hashes
<1>3. QED BY <1>1, <1>2

\* The store only grows.
LEMMA FeedKept ==
  ASSUME FeedInv, OwedInv, UNCHANGED <<v6, v8, v9>>, v4 \subseteq v4'
  PROVE  FeedInv' /\ OwedInv'
<1>1. v6' = v6 /\ v8' = v8 /\ v9' = v9
  OBVIOUS
<1>2. Seq(v4) \subseteq Seq(v4')
  BY SeqMonotonic
<1>3. v6 \in Feeds'
  BY <1>2 DEF FeedInv, Feeds
<1>4. FeedInv'
  BY <1>1, <1>3 DEF FeedInv, Hashes, Falling, Under
<1>5. OwedInv'
  BY <1>1 DEF OwedInv, Hashes
<1>6. QED BY <1>4, <1>5

LEMMA IngestStep ==
  ASSUME LiveInv, NEW r \in Sources, Live!Ingest(r)
  PROVE  LiveInv'
<1>1. PICK t \in Txs : Live!PushTx(t) /\ v3' = [v3 EXCEPT ![r] = [pc |-> "read", tx |-> t]]
  BY DEF Live!Ingest
<1>2. UNCHANGED <<v4, v5, v6, v8, v9>>
  BY DEF Live!Ingest
<1>3. MemInv'
  BY <1>1, PushStep DEF LiveInv
<1>4. StoredInv'
  <2>1. StoredInv /\ [pc |-> "read", tx |-> t] \in Jobs
    BY DEF LiveInv, Jobs
  <2>2. v3' \in [Sources -> Jobs] /\ v3'[r].pc = "read" /\ v3'[r].tx = t
        /\ \A q \in Sources : q # r => v3'[q] = v3[q]
    BY <1>1, <2>1 DEF StoredInv
  <2>3. v4' = v4 /\ v5' = v5
    BY <1>2
  <2>4. QED BY <2>1, <2>2, <2>3 DEF StoredInv
<1>5. Bounded'
  BY <1>2 DEF LiveInv, Bounded
<1>6. FeedInv' /\ OwedInv'
  BY <1>2, FeedKept DEF LiveInv
<1>7. QED BY <1>3, <1>4, <1>5, <1>6 DEF LiveInv

LEMMA CommitStep ==
  ASSUME LiveInv, NEW r \in Sources, Live!Commit(r)
  PROVE  LiveInv'
<1> DEFINE t == v3[r].tx
<1>0. StoredInv /\ v3[r].pc = "read" /\ t \in Txs /\ v3[r] \in Jobs
  BY DEF LiveInv, StoredInv, Live!Commit
<1>1. PICK ok \in BOOLEAN :
        /\ v4' = IF ok THEN v4 \cup {t} ELSE v4
        /\ v3' = [v3 EXCEPT ![r] = IF ok /\ r # "walk" THEN [@ EXCEPT !.pc = "push"] ELSE Live!Idle]
  BY DEF Live!Commit
<1>2. UNCHANGED <<v1, v2, v5, v6, v8, v9>>
  BY DEF Live!Commit
<1>3. v4 \subseteq v4' /\ v4' \subseteq Txs /\ v4' \subseteq v4 \cup {t}
  BY <1>0, <1>1 DEF StoredInv
<1>4. MemInv'
  BY <1>2 DEF LiveInv, MemInv, Hashes
<1>5. StoredInv'
  <2>1. v5' \in Seq(v4')
    <3>1. v5 \in Seq(v4)
      BY <1>0 DEF StoredInv
    <3>2. Seq(v4) \subseteq Seq(v4')
      BY <1>3, SeqMonotonic
    <3>3. QED BY <1>2, <3>1, <3>2
  <2>2. CASE ok /\ r # "walk"
    <3> DEFINE j == [v3[r] EXCEPT !.pc = "push"]
    <3>1. j \in Jobs /\ j.pc = "push" /\ j.tx = t
      BY <1>0 DEF Jobs
    <3>2. v3' = [v3 EXCEPT ![r] = j] /\ t \in v4'
      BY <1>1, <2>2
    <3> HIDE DEF j, t
    <3>3. v3' \in [Sources -> Jobs] /\ v3'[r] = j /\ \A q \in Sources : q # r => v3'[q] = v3[q]
      BY <1>0, <3>1, <3>2 DEF StoredInv
    <3>4. QED BY <1>0, <1>3, <2>1, <3>1, <3>2, <3>3 DEF StoredInv
  <2>3. CASE ~(ok /\ r # "walk")
    <3>1. Live!Idle \in Jobs /\ Live!Idle.pc = "idle"
      BY DEF Live!Idle, Jobs
    <3>2. v3' = [v3 EXCEPT ![r] = Live!Idle]
      BY <1>1, <2>3
    <3>3. v3' \in [Sources -> Jobs] /\ v3'[r].pc = "idle"
           /\ \A q \in Sources : q # r => v3'[q] = v3[q]
      BY <1>0, <3>1, <3>2 DEF StoredInv
    <3>4. QED BY <1>0, <1>3, <2>1, <3>3 DEF StoredInv
  <2>4. QED BY <2>2, <2>3
<1>6. Bounded'
  <2>1. PICK b \in Nat : \A u \in v4 : u.at <= b
    BY DEF LiveInv, Bounded
  <2>2. t.at \in Nat
    BY <1>0, Txs0
  <2> DEFINE c == IF b >= t.at THEN b ELSE t.at
  <2>3. c \in Nat /\ c >= b /\ c >= t.at
    BY <2>2
  <2>4. \A u \in v4 : u.at \in Nat
    BY <1>0, Txs0 DEF StoredInv
  <2> HIDE DEF c, t
  <2>5. \A u \in v4' : u.at <= c
    BY <1>3, <2>1, <2>2, <2>3, <2>4
  <2>6. QED BY <2>3, <2>5 DEF Bounded
<1>7. FeedInv' /\ OwedInv'
  BY <1>2, <1>3, FeedKept DEF LiveInv
<1>8. QED BY <1>4, <1>5, <1>6, <1>7 DEF LiveInv

LEMMA BroadcastStep ==
  ASSUME LiveInv, NEW r \in Sources, Live!Broadcast(r)
  PROVE  LiveInv'
<1> DEFINE t == v3[r].tx
           p == Append(v5, t)
<1>0. StoredInv /\ v5 \in Seq(v4) /\ t \in v4
  BY DEF LiveInv, StoredInv, Live!Broadcast
<1>1. /\ v5' = (IF Len(p) <= Queue THEN p ELSE Tail(p))
      /\ v3' = [v3 EXCEPT ![r] = Live!Idle]
      /\ UNCHANGED <<v1, v2, v4, v6, v8, v9>>
  BY DEF Live!Broadcast
<1>2. MemInv' /\ Bounded'
  BY <1>1 DEF LiveInv, MemInv, Hashes, Bounded
<1>3. StoredInv'
  <2>1. p \in Seq(v4) /\ p # <<>>
    BY <1>0
  <2> HIDE DEF p, t
  <2>2. Tail(p) \in Seq(v4)
    BY <2>1
  <2>3. v5' \in Seq(v4') /\ v4' = v4
    BY <1>1, <2>1, <2>2
  <2>4. Live!Idle \in Jobs /\ Live!Idle.pc = "idle"
    BY DEF Live!Idle, Jobs
  <2>5. v3' \in [Sources -> Jobs] /\ v3'[r].pc = "idle"
         /\ \A q \in Sources : q # r => v3'[q] = v3[q]
    BY <1>0, <1>1, <2>4 DEF StoredInv
  <2>6. QED BY <1>0, <2>3, <2>5 DEF StoredInv
<1>4. FeedInv' /\ OwedInv'
  BY <1>1, FeedKept DEF LiveInv
<1>5. QED BY <1>2, <1>3, <1>4 DEF LiveInv

--------------------------------------------------------------------------------
(* The steps of the client *)

\* What the client's steps leave alone, but for v5.
Rest == UNCHANGED <<v1, v2, v3, v4>>

LEMMA RestKept ==
  ASSUME LiveInv, Rest, v5' \in Seq(v4), FeedInv', OwedInv'
  PROVE  LiveInv'
<1>1. MemInv' /\ Bounded'
  BY DEF LiveInv, Rest, MemInv, Hashes, Bounded
<1>2. StoredInv'
  BY DEF LiveInv, Rest, StoredInv
<1>3. QED BY <1>1, <1>2 DEF LiveInv

LEMMA ReloadStep == ASSUME LiveInv, Live!Reload PROVE LiveInv'
<1>1. v6' = Live!NewFeed /\ v8' = {} /\ v9' = {} /\ v4' = v4 /\ v5' = v5
  BY DEF Live!Reload
<1>2. Live!NewFeed \in Feeds'
  BY DEF Live!NewFeed, Feeds
<1>3. /\ v6' \in Feeds' /\ v6'.rows = <<>> /\ v6'.cursor = 0 /\ ~v6'.done /\ v6'.first
      /\ v6'.pc = "asking" /\ v6'.answer = <<>>
  BY <1>1, <1>2 DEF Live!NewFeed
<1>4. FeedInv'
  BY <1>1, <1>3, Txs0 DEF FeedInv, Hashes, Falling
<1>5. OwedInv'
  BY <1>1, <1>3 DEF OwedInv
<1>6. QED BY <1>1, <1>4, <1>5, RestKept DEF LiveInv, StoredInv, Rest, Live!Reload

\* A request that is sent, or fails.
LEMMA AskStep ==
  ASSUME LiveInv, NEW pc \in {"asking", "rest"}, v6.pc \in {"asking", "rest"},
         v6' = [v6 EXCEPT !.pc = pc], pc = "asking" => ~v6.done,
         UNCHANGED <<v1, v2, v3, v4, v5, v8, v9>>
  PROVE  LiveInv'
<1>0. FeedInv /\ OwedInv /\ v6 \in Feeds
  BY DEF LiveInv, FeedInv
<1>1. /\ v6' \in Feeds' /\ v6'.pc = pc
      /\ v6'.rows = v6.rows /\ v6'.seen = v6.seen /\ v6'.cursor = v6.cursor
      /\ v6'.done = v6.done /\ v6'.first = v6.first /\ v6'.answer = v6.answer
  BY <1>0 DEF Feeds
<1>2. FeedInv'
  BY <1>0, <1>1 DEF FeedInv, Hashes, Falling, Under
<1>3. OwedInv'
  BY <1>0, <1>1 DEF OwedInv, Hashes
<1>4. QED BY <1>2, <1>3, RestKept DEF LiveInv, StoredInv, Rest

LEMMA AnswerStep == ASSUME LiveInv, Live!Answer PROVE LiveInv'
<1> DEFINE s == Live!PageRows
<1>0. FeedInv /\ OwedInv /\ StoredInv /\ v6 \in Feeds /\ v6.pc = "asking"
  BY DEF LiveInv, FeedInv, Live!Answer
<1>1. PageTo(s, Page)
  <2>1. v6.cursor \in Nat
    BY <1>0 DEF Feeds
  <2>2. QED BY <2>1, PageIs DEF LiveInv
<1>2. /\ v6' = [v6 EXCEPT !.pc = "answered", !.answer = s]
      /\ v8' = IF v6.first THEN v8 \cup v4 ELSE v8
      /\ UNCHANGED <<v1, v2, v3, v4, v5, v9>>
  BY DEF Live!Answer
<1> HIDE DEF s
<1>3. s \in Seq(v4) /\ Len(s) \in Nat /\ Len(s) <= Page /\ Page \in Nat /\ Page > 0
  BY <1>1, Txs0 DEF PageTo
<1>4. /\ v6' \in Feeds' /\ v6'.pc = "answered" /\ v6'.answer = s
      /\ v6'.rows = v6.rows /\ v6'.seen = v6.seen /\ v6'.cursor = v6.cursor
      /\ v6'.done = v6.done /\ v6'.first = v6.first
  BY <1>0, <1>2, <1>3 DEF Feeds
<1>5. FeedInv'
  <2>1. Falling(s) /\ \A i \in 1..Len(s) : Under(v6.cursor, s[i])
    BY <1>1 DEF PageTo
  <2>2. Falling(v6'.answer) /\ \A i \in 1..Len(v6'.answer) : Under(v6'.cursor, v6'.answer[i])
    BY <1>4, <2>1
  <2>3. ~v6.done
    BY <1>0 DEF FeedInv
  <2>4. QED BY <1>0, <1>2, <1>3, <1>4, <2>2, <2>3 DEF FeedInv, Hashes, Falling, Under
\* What lies below the cursor is on the page, or below it too.
<1>6. \A t \in v4 : Under(v6.cursor, t) =>
        (\E i \in 1..Len(s) : t = s[i]) \/ (Len(s) = Page /\ t.at < s[Page].at)
  <2> TAKE t \in v4
  <2> HAVE Under(v6.cursor, t)
  <2>1. CASE \E i \in 1..Len(s) : t = s[i]
    BY <2>1
  <2>2. CASE Under(Live!From(s), t)
    <3>1. Len(s) = Page
      BY <1>1, <2>2 DEF PageTo
    <3>2. Live!From(s) = s[Page].at /\ s[Page] \in v4
      BY <1>3, <3>1, FromIs
    <3>3. s[Page].at > 0 /\ s[Page].at \in Nat
      BY <1>0, <3>2, Txs0 DEF StoredInv
    <3>4. QED BY <2>2, <3>1, <3>2, <3>3 DEF Under
  <2>3. QED BY <1>1, <2>1, <2>2 DEF PageTo
<1>7. OwedInv'
  <2>1. v8' \subseteq v4
    BY <1>0, <1>2 DEF OwedInv
  <2>2. ASSUME NEW t \in v8'
        PROVE  \/ ~v6.first /\ t.hash \in Hashes(v6.rows)
               \/ \E i \in 1..Len(s) : t = s[i]
               \/ Len(s) = Page /\ t.at < s[Page].at
    <3>1. CASE v6.first
      <4>1. Under(v6.cursor, t)
        BY <1>0, <3>1 DEF FeedInv, Under
      <4>2. QED BY <1>6, <2>1, <4>1
    <3>2. CASE ~v6.first
      <4>1. t \in v8 /\ t \in v4
        BY <1>2, <2>1, <3>2
      <4>2. (~v6.first /\ t.hash \in Hashes(v6.rows)) \/ t.at < v6.cursor
        BY <1>0, <4>1 DEF OwedInv
      <4>3. QED BY <1>6, <4>1, <4>2 DEF Under
    <3>3. QED BY <3>1, <3>2
  <2>3. \A t \in v8' : \/ ~v6'.first /\ t.hash \in Hashes(v6'.rows)
                       \/ /\ v6'.pc = "answered"
                          /\ \/ \E i \in 1..Len(v6'.answer) : t = v6'.answer[i]
                             \/ Len(v6'.answer) = Page /\ t.at < v6'.answer[Page].at
    BY <1>4, <2>2
  <2>4. v8' \subseteq v4' /\ v6'.pc = "answered"
    BY <1>2, <1>4, <2>1
  <2>5. QED BY <2>3, <2>4 DEF OwedInv, Hashes
<1>8. v5' \in Seq(v4) /\ Rest
  BY <1>0, <1>2 DEF StoredInv, Rest
<1>9. QED BY <1>5, <1>7, <1>8, RestKept

LEMMA ArriveStep == ASSUME LiveInv, Live!Arrive PROVE LiveInv'
<1> DEFINE s == v6.answer
           old == IF v6.first THEN <<>> ELSE v6.rows
           rows == old \o s
           c == Live!From(s)
<1>0. /\ FeedInv /\ OwedInv /\ StoredInv /\ v6.pc = "answered" /\ v4 \subseteq Txs
      /\ v6 \in Feeds /\ v6.cursor \in Nat /\ s \in Seq(v4) /\ v6.rows \in Seq(v4)
      /\ v6.seen \in SUBSET {t.hash : t \in Txs}
      /\ Len(s) \in Nat /\ Page \in Nat /\ Page > 0 /\ Len(s) <= Page
  BY Txs0 DEF LiveInv, FeedInv, StoredInv, Live!Arrive, Feeds
<1>1. /\ v6' = [rows |-> rows, seen |-> v6.seen \cup Live!Hashes(s), cursor |-> c,
                done |-> Len(s) < Page, first |-> FALSE, pc |-> "rest", answer |-> <<>>]
      /\ UNCHANGED <<v1, v2, v3, v4, v5, v8, v9>>
  BY DEF Live!Arrive
<1>2. Live!Hashes(s) = Hashes(s) /\ \A i \in 1..Len(s) : s[i] \in v4
  BY <1>0, SeqOf
<1>3. c = IF Len(s) = 0 THEN v6.cursor ELSE s[Len(s)].at
  BY <1>0, FromIs
<1>4. \A t \in v4 : t.at \in Nat /\ t.at > 0
  BY <1>0, Txs0
<1>5. old \in Seq(v4) /\ Len(old) \in Nat
  BY <1>0
<1>6. /\ rows \in Seq(v4) /\ Len(rows) = Len(old) + Len(s)
      /\ \A i \in 1..Len(old) : i \in 1..Len(rows) /\ rows[i] = old[i] /\ old[i] \in v4
      /\ \A i \in 1..Len(s) : Len(old) + i \in 1..Len(rows) /\ rows[Len(old) + i] = s[i]
      /\ \A i \in 1..Len(rows) : i \in 1..Len(old) \/ i - Len(old) \in 1..Len(s)
  <2> HIDE DEF old, s
  <2>1. /\ rows \in Seq(v4) /\ Len(rows) = Len(old) + Len(s)
        /\ \A i \in 1..Len(rows) : rows[i] = IF i <= Len(old) THEN old[i] ELSE s[i - Len(old)]
    BY <1>0, <1>5
  <2> HIDE DEF rows
  <2>2. \A i \in 1..Len(old) : i \in 1..Len(rows) /\ i <= Len(old) /\ old[i] \in v4
    BY <1>0, <1>5, <2>1
  <2>3. \A i \in 1..Len(s) : /\ Len(old) + i \in 1..Len(rows) /\ ~(Len(old) + i <= Len(old))
                             /\ (Len(old) + i) - Len(old) = i
    BY <1>0, <1>5, <2>1
  <2>4. \A i \in 1..Len(old) : rows[i] = old[i]
    BY <2>1, <2>2
  <2>5. \A i \in 1..Len(s) : rows[Len(old) + i] = s[i]
    <3> TAKE i \in 1..Len(s)
    <3> DEFINE k == Len(old) + i
    <3>1. k \in 1..Len(rows) /\ ~(k <= Len(old)) /\ k - Len(old) = i
      BY <2>3
    <3> HIDE DEF k
    <3>2. rows[k] = s[i]
      BY <2>1, <3>1
    <3>3. QED BY <3>2 DEF k
  <2>6. \A i \in 1..Len(rows) : i \in 1..Len(old) \/ i - Len(old) \in 1..Len(s)
    BY <1>0, <1>5, <2>1
  <2>7. QED BY <2>1, <2>2, <2>3, <2>4, <2>5, <2>6
<1>7. \A i \in 1..Len(rows) : \/ i \in 1..Len(old) /\ rows[i] = old[i]
                              \/ i - Len(old) \in 1..Len(s) /\ rows[i] = s[i - Len(old)]
  <2> TAKE i \in 1..Len(rows)
  <2> HIDE DEF rows, old
  <2>1. CASE i \in 1..Len(old)
    BY <1>6, <2>1
  <2>2. CASE i - Len(old) \in 1..Len(s)
    <3>1. Len(old) + (i - Len(old)) = i
      BY <1>5, <1>6
    <3>2. QED BY <1>6, <2>2, <3>1
  <2>3. QED BY <1>6, <2>1, <2>2
<1>8. old # <<>> => ~v6.first /\ old = v6.rows
  OBVIOUS
<1>9. c \in Nat /\ (Len(s) > 0 => Len(s) \in 1..Len(s) /\ c = s[Len(s)].at /\ c > 0)
  BY <1>0, <1>2, <1>3, <1>4
<1> HIDE DEF rows, old, c
<1>10. /\ v6'.rows = rows /\ v6'.seen = v6.seen \cup Hashes(s) /\ v6'.cursor = c
       /\ v6'.done = (Len(s) < Page) /\ ~v6'.first /\ v6'.pc = "rest" /\ v6'.answer = <<>>
  BY <1>1, <1>2
<1>11. v6' \in Feeds'
  <2>1. Hashes(s) \subseteq {t.hash : t \in Txs}
    BY <1>0, <1>2 DEF Hashes
  <2>2. QED BY <1>0, <1>1, <1>2, <1>6, <1>9, <2>1 DEF Feeds
<1>12. Hashes(rows) = Hashes(old) \cup Hashes(s)
  <2>1. ASSUME NEW i \in 1..Len(rows) PROVE rows[i].hash \in Hashes(old) \cup Hashes(s)
    BY <1>7 DEF Hashes
  <2>2. ASSUME NEW i \in 1..Len(old) PROVE old[i].hash \in Hashes(rows)
    <3>1. i \in 1..Len(rows) /\ rows[i] = old[i]
      BY <1>6
    <3>2. QED BY <3>1 DEF Hashes
  <2>3. ASSUME NEW i \in 1..Len(s) PROVE s[i].hash \in Hashes(rows)
    <3>1. Len(old) + i \in 1..Len(rows) /\ rows[Len(old) + i] = s[i]
      BY <1>6
    <3>2. QED BY <3>1 DEF Hashes
  <2>4. QED BY <2>1, <2>2, <2>3 DEF Hashes
<1>13. \A i \in 1..Len(old) : ~v6.first /\ i \in 1..Len(v6.rows) /\ old[i] = v6.rows[i]
  BY DEF old
<1>14. Hashes(rows) \subseteq v6'.seen
  <2>1. Hashes(old) \subseteq Hashes(v6.rows)
    BY <1>13 DEF Hashes
  <2>2. QED BY <1>0, <1>10, <1>12, <2>1 DEF FeedInv
<1>15. \A i \in 1..Len(s) : s[i].at >= c
  <2> TAKE i \in 1..Len(s)
  <2>1. i = Len(s) \/ i < Len(s)
    BY <1>0
  <2>2. s[i].at \in Nat /\ s[Len(s)].at \in Nat /\ c = s[Len(s)].at
    BY <1>0, <1>2, <1>4, <1>9
  <2>3. i < Len(s) => s[i].at > s[Len(s)].at
    BY <1>0, <1>9 DEF FeedInv, Falling
  <2>4. QED BY <2>1, <2>2, <2>3
\* What was on the page before lies above the cursor, and so above what came.
<1>16. \A i \in 1..Len(old) : \A j \in 1..Len(s) : old[i].at > s[j].at \/ old[i] \in v9
  <2> TAKE i \in 1..Len(old)
  <2> TAKE j \in 1..Len(s)
  <2>1. old[i].at >= v6.cursor \/ old[i] \in v9
    BY <1>0, <1>13 DEF FeedInv
  <2>2. v6.cursor # 0
    BY <1>0, <1>13 DEF FeedInv
  <2>3. s[j].at < v6.cursor
    BY <1>0, <2>2 DEF FeedInv, Under
  <2>4. old[i].at \in Nat /\ s[j].at \in Nat
    BY <1>2, <1>4, <1>6
  <2>5. QED BY <1>0, <2>1, <2>3, <2>4
<1>17. c <= v6.cursor \/ v6.cursor = 0
  <2>1. CASE Len(s) = 0
    BY <1>0, <1>3, <2>1
  <2>2. CASE Len(s) > 0
    BY <1>0, <1>9, <2>2 DEF FeedInv, Under
  <2>3. QED BY <1>0, <2>1, <2>2
<1>18. \A i \in 1..Len(rows) : rows[i].at >= c \/ rows[i] \in v9
  <2> TAKE i \in 1..Len(rows)
  <2>1. CASE i \in 1..Len(old) /\ rows[i] = old[i]
    <3>1. old[i].at >= v6.cursor \/ old[i] \in v9
      BY <1>0, <1>13, <2>1 DEF FeedInv
    <3>2. v6.cursor # 0
      BY <1>0, <1>13, <2>1 DEF FeedInv
    <3>3. old[i].at \in Nat
      BY <1>4, <1>6, <2>1
    <3>4. QED BY <1>0, <1>9, <1>17, <2>1, <3>1, <3>2, <3>3
  <2>2. CASE i - Len(old) \in 1..Len(s) /\ rows[i] = s[i - Len(old)]
    BY <1>15, <2>2
  <2>3. QED BY <1>7, <2>1, <2>2
<1>19. \A i, j \in 1..Len(rows) : i < j /\ rows[i] = rows[j] => rows[i] \in v9
  <2> TAKE i, j \in 1..Len(rows)
  <2> HAVE i < j /\ rows[i] = rows[j]
  <2>1. CASE i \in 1..Len(old) /\ rows[i] = old[i]
    <3>1. CASE j \in 1..Len(old) /\ rows[j] = old[j]
      <4>1. v6.rows[i] = v6.rows[j] /\ i \in 1..Len(v6.rows) /\ j \in 1..Len(v6.rows)
        BY <1>13, <2>1, <3>1
      <4>2. v6.rows[i] \in v9
        BY <1>0, <4>1 DEF FeedInv
      <4>3. QED BY <1>13, <2>1, <4>2
    <3>2. CASE j - Len(old) \in 1..Len(s) /\ rows[j] = s[j - Len(old)]
      <4>1. old[i].at > s[j - Len(old)].at \/ old[i] \in v9
        BY <1>16, <2>1, <3>2
      <4>2. old[i] = s[j - Len(old)] /\ old[i].at \in Nat
        BY <1>4, <1>6, <2>1, <3>2
      <4>3. QED BY <2>1, <4>1, <4>2
    <3>3. QED BY <1>7, <3>1, <3>2
  <2>2. CASE i - Len(old) \in 1..Len(s) /\ rows[i] = s[i - Len(old)]
    <3>1. j - Len(old) \in 1..Len(s) /\ rows[j] = s[j - Len(old)]
      <4>1. ~(j \in 1..Len(old))
        BY <1>5, <2>2
      <4>2. QED BY <1>7, <4>1
    <3>2. s[i - Len(old)].at > s[j - Len(old)].at
      <4>1. i - Len(old) < j - Len(old)
        BY <1>5
      <4>2. QED BY <1>0, <2>2, <3>1, <4>1 DEF FeedInv, Falling
    <3>3. s[i - Len(old)].at \in Nat /\ s[i - Len(old)] = s[j - Len(old)]
      BY <1>2, <1>4, <2>2, <3>1
    <3>4. FALSE
      BY <3>2, <3>3
    <3>5. QED BY <3>4
  <2>3. QED BY <1>7, <2>1, <2>2
<1>20. FeedInv'
  <2>1. c = 0 => Len(s) < Page
    BY <1>0, <1>9
  <2>2. v9' \subseteq v4'
    BY <1>0, <1>1 DEF FeedInv
  <2>3. /\ \A i, j \in 1..Len(v6'.rows) : i < j /\ v6'.rows[i] = v6'.rows[j] => v6'.rows[i] \in v9'
        /\ \A i \in 1..Len(v6'.rows) : v6'.rows[i].at >= v6'.cursor \/ v6'.rows[i] \in v9'
    BY <1>1, <1>10, <1>18, <1>19
  <2>4. Hashes(v6'.rows) \subseteq v6'.seen
    BY <1>10, <1>14
  <2>5. Len(v6'.answer) <= Page /\ Falling(v6'.answer) /\ 1..Len(v6'.answer) = {}
    BY <1>0, <1>10 DEF Falling
  <2>6. QED BY <1>10, <1>11, <2>1, <2>2, <2>3, <2>4, <2>5 DEF FeedInv, Hashes, Falling
<1>21. OwedInv'
  <2>1. v8' = v8 /\ v8 \subseteq v4 /\ v4' = v4
    BY <1>0, <1>1 DEF OwedInv
  <2>2. ASSUME NEW t \in v8
        PROVE  t.hash \in Hashes(rows) \/ (~(Len(s) < Page) /\ t.at < c)
    <3>1. CASE ~v6.first /\ t.hash \in Hashes(v6.rows)
      <4>1. old = v6.rows
        BY <3>1 DEF old
      <4>2. QED BY <1>12, <3>1, <4>1
    <3>2. CASE \E i \in 1..Len(s) : t = s[i]
      <4>1. t.hash \in Hashes(s)
        BY <3>2 DEF Hashes
      <4>2. QED BY <1>12, <4>1
    <3>3. CASE Len(s) = Page /\ t.at < s[Page].at
      BY <1>0, <1>9, <3>3
    <3>4. QED BY <1>0, <3>1, <3>2, <3>3 DEF OwedInv
  <2>3. QED BY <1>10, <2>1, <2>2 DEF OwedInv, Hashes
<1>22. v5' \in Seq(v4) /\ Rest
  BY <1>0, <1>1 DEF StoredInv, Rest
<1>23. QED BY <1>20, <1>21, <1>22, RestKept

LEMMA DeliverStep == ASSUME LiveInv, Live!Deliver PROVE LiveInv'
<1> DEFINE t == Head(v5)
           rows == <<t>> \o v6.rows
<1>0. /\ FeedInv /\ OwedInv /\ StoredInv /\ v4 \subseteq Txs /\ v5 \in Seq(v4) /\ v5 # <<>>
      /\ v6 \in Feeds /\ v6.cursor \in Nat /\ v6.rows \in Seq(v4)
      /\ v6.seen \in SUBSET {x.hash : x \in Txs}
  BY DEF LiveInv, FeedInv, StoredInv, Live!Deliver, Feeds
<1>1. v5' = Tail(v5) /\ Rest
  BY DEF Live!Deliver, Rest
<1>2. v5' \in Seq(v4) /\ t \in v4
  BY <1>0, <1>1
<1>3. CASE t.hash \in v6.seen
  <2>1. UNCHANGED <<v6, v8, v9>> /\ v4 \subseteq v4'
    BY <1>1, <1>3 DEF Live!Deliver, Rest
  <2>2. QED BY <1>0, <1>1, <1>2, <2>1, FeedKept, RestKept
<1>4. CASE t.hash \notin v6.seen
  <2>1. /\ v6' = [v6 EXCEPT !.rows = rows, !.seen = v6.seen \cup {t.hash}]
        /\ v8' = IF v6.first THEN v8 ELSE v8 \cup {t}
        /\ v9' = IF ~v6.first /\ t.at < v6.cursor THEN v9 \cup {t} ELSE v9
    BY <1>4 DEF Live!Deliver, Live!Prepended
  <2>2. /\ rows \in Seq(v4) /\ Len(rows) = Len(v6.rows) + 1 /\ Len(v6.rows) \in Nat
        /\ rows[1] = t /\ \A i \in 1..Len(v6.rows) : i + 1 \in 1..Len(rows)
            /\ rows[i + 1] = v6.rows[i]
    BY <1>0, <1>2
  <2> HIDE DEF rows, t
  <2>3. \A i \in 1..Len(rows) : i = 1 \/ (i - 1 \in 1..Len(v6.rows) /\ rows[i] = v6.rows[i - 1])
    <3> TAKE i \in 1..Len(rows)
    <3>1. i # 1 => i - 1 \in 1..Len(v6.rows) /\ (i - 1) + 1 = i
      BY <2>2
    <3>2. QED BY <2>2, <3>1
  <2>4. Hashes(rows) = Hashes(v6.rows) \cup {t.hash}
    <3>1. 1 \in 1..Len(rows)
      BY <2>2
    <3>2. ASSUME NEW i \in 1..Len(rows) PROVE rows[i].hash \in Hashes(v6.rows) \cup {t.hash}
      BY <2>2, <2>3 DEF Hashes
    <3>3. ASSUME NEW i \in 1..Len(v6.rows) PROVE v6.rows[i].hash \in Hashes(rows)
      <4>1. i + 1 \in 1..Len(rows) /\ rows[i + 1] = v6.rows[i]
        BY <2>2
      <4>2. QED BY <4>1 DEF Hashes
    <3>4. t.hash \in Hashes(rows)
      BY <2>2, <3>1 DEF Hashes
    <3>5. QED BY <3>2, <3>3, <3>4 DEF Hashes
  <2>5. /\ v6' \in Feeds' /\ v6'.rows = rows /\ v6'.seen = v6.seen \cup {t.hash}
        /\ v6'.cursor = v6.cursor /\ v6'.done = v6.done /\ v6'.first = v6.first
        /\ v6'.pc = v6.pc /\ v6'.answer = v6.answer
    <3>1. v4' = v4 /\ t.hash \in {x.hash : x \in Txs}
      BY <1>0, <1>1, <1>2 DEF Rest
    <3>2. QED BY <1>0, <2>1, <2>2, <3>1 DEF Feeds
  <2>6. v9 \subseteq v9' /\ v9' \subseteq v9 \cup {t} /\ v9' \subseteq v4 /\ v4' = v4
    BY <1>0, <1>1, <1>2, <2>1 DEF FeedInv, Rest
  <2>7. t.at \in Nat /\ (t.at >= v6.cursor \/ t \in v9')
    <3>1. t.at \in Nat
      BY <1>0, <1>2, Txs0
    <3>2. v6.first => v6.cursor = 0
      BY <1>0 DEF FeedInv
    <3>3. QED BY <1>0, <2>1, <3>1, <3>2
  \* What is pushed was not on the page.
  <2>8. \A i \in 1..Len(v6.rows) : v6.rows[i] # t
    <3>1. \A i \in 1..Len(v6.rows) : v6.rows[i].hash \in v6.seen
      BY <1>0 DEF FeedInv, Hashes
    <3>2. QED BY <1>4, <3>1
  <2>9. \A i, j \in 1..Len(rows) : i < j /\ rows[i] = rows[j] => rows[i] \in v9'
    <3> TAKE i, j \in 1..Len(rows)
    <3> HAVE i < j /\ rows[i] = rows[j]
    <3>1. j # 1 /\ j - 1 \in 1..Len(v6.rows) /\ rows[j] = v6.rows[j - 1]
      BY <2>2, <2>3
    <3>2. i # 1
      BY <2>2, <2>8, <3>1
    <3>3. i - 1 \in 1..Len(v6.rows) /\ rows[i] = v6.rows[i - 1] /\ i - 1 < j - 1
      BY <2>2, <2>3, <3>2
    <3>4. v6.rows[i - 1] \in v9
      BY <1>0, <3>1, <3>3 DEF FeedInv
    <3>5. QED BY <2>6, <3>3, <3>4
  <2>10. \A i \in 1..Len(rows) : rows[i].at >= v6.cursor \/ rows[i] \in v9'
    <3> TAKE i \in 1..Len(rows)
    <3>1. CASE i = 1
      BY <2>2, <2>7, <3>1
    <3>2. CASE i # 1
      BY <1>0, <2>3, <2>6, <3>2 DEF FeedInv
    <3>3. QED BY <3>1, <3>2
  <2>11. FeedInv'
    <3>1. /\ \A i, j \in 1..Len(v6'.rows) :
              i < j /\ v6'.rows[i] = v6'.rows[j] => v6'.rows[i] \in v9'
          /\ \A i \in 1..Len(v6'.rows) : v6'.rows[i].at >= v6'.cursor \/ v6'.rows[i] \in v9'
      BY <2>5, <2>9, <2>10
    <3>2. Hashes(v6'.rows) \subseteq v6'.seen
      BY <1>0, <2>4, <2>5 DEF FeedInv
    <3>3. QED BY <1>0, <2>5, <2>6, <3>1, <3>2 DEF FeedInv, Hashes, Falling, Under
  <2>12. OwedInv'
    <3>1. v8' \subseteq v4'
      BY <1>0, <1>2, <2>1, <2>6 DEF OwedInv
    <3>2. v6'.first /\ v6'.pc # "answered" => v8' = {}
      BY <1>0, <2>1, <2>5 DEF OwedInv
    <3>3. ASSUME NEW x \in v8', x \notin v8 PROVE ~v6'.first /\ x.hash \in Hashes(v6'.rows)
      BY <2>1, <2>4, <2>5, <3>3
    <3>4. ASSUME NEW x \in v8
          PROVE  \/ ~v6'.first /\ x.hash \in Hashes(v6'.rows)
                 \/ /\ v6'.pc = "answered"
                    /\ \/ \E i \in 1..Len(v6'.answer) : x = v6'.answer[i]
                       \/ Len(v6'.answer) = Page /\ x.at < v6'.answer[Page].at
                 \/ v6'.pc # "answered" /\ ~v6'.first /\ ~v6'.done /\ x.at < v6'.cursor
      BY <1>0, <2>4, <2>5 DEF OwedInv
    <3>5. QED BY <3>1, <3>2, <3>3, <3>4 DEF OwedInv, Hashes
  <2>13. QED BY <1>1, <1>2, <2>11, <2>12, RestKept
<1>5. QED BY <1>3, <1>4

LEMMA LiveStep == LiveInv /\ Live!Next => LiveInv'
<1> SUFFICES ASSUME LiveInv, Live!Next PROVE LiveInv'
  OBVIOUS
<1>1. CASE Live!AskMore
  BY <1>1, AskStep DEF Live!AskMore
<1>2. CASE Live!NoAnswer
  <2>1. ~v6.done /\ v6.pc = "asking"
    BY <1>2 DEF LiveInv, FeedInv, Live!NoAnswer
  <2>2. QED BY <1>2, <2>1, AskStep DEF Live!NoAnswer
<1>3. QED
  BY <1>1, <1>2, IngestStep, CommitStep, BroadcastStep, ReloadStep, AnswerStep, ArriveStep,
     DeliverStep DEF Live!Next

\* The invariant says what the page promises.
LEMMA LiveShows == LiveInv => Live!FeedShows
<1> SUFFICES ASSUME LiveInv PROVE Live!FeedShows
  OBVIOUS
<1>0. MemInv /\ FeedInv /\ OwedInv /\ v6.rows \in Seq(v4) /\ v1 \in Seq(Txs)
  BY DEF LiveInv, FeedInv, MemInv, Feeds
<1>1. /\ DOMAIN v6.rows = 1..Len(v6.rows) /\ \A i \in 1..Len(v6.rows) : v6.rows[i] \in v4
      /\ Live!Hashes(v6.rows) = Hashes(v6.rows) /\ Live!Hashes(v1) = Hashes(v1)
  BY <1>0, SeqOf
<1>2. Live!Shown \subseteq v4
  BY <1>1 DEF Live!Shown, Live!ToSet
<1>3. \A i, j \in DOMAIN v6.rows : i < j /\ v6.rows[i] = v6.rows[j] => v6.rows[i] \in v9
  BY <1>0, <1>1 DEF FeedInv
<1>4. v6.done /\ v6.pc = "rest" => {t.hash : t \in v8} \subseteq Live!Hashes(v6.rows)
  BY <1>0, <1>1 DEF OwedInv
<1>5. Len(v1) <= Cap /\ Live!Cardinality(Live!Hashes(v1)) = Len(v1) /\ v2 = Live!Hashes(v1)
  BY <1>0, <1>1, HashCount DEF MemInv
<1>6. QED BY <1>2, <1>3, <1>4, <1>5 DEF Live!FeedShows

\* Whatever the readers read, commit and push while pages are on their way: a page shows
\* only what is stored, each row once unless it was pushed below what was paged through,
\* and at its end all that it ought to; the rolling feed holds a hash once
\* (push_tx, broadcast_txs, feedMore, prependTxs).
THEOREM PageShowsTheStore == Spec => []FeedShows
<1> DEFINE Inv == part = "live" => LiveInv
<1>1. Init => Inv
  BY LiveInit DEF Init
<1>2. Inv /\ [Next]_vars => Inv'
  <2> SUFFICES ASSUME Inv, [Next]_vars PROVE Inv'
    OBVIOUS
  <2>1. CASE part = "live" /\ Live!Next /\ UNCHANGED part
    BY <2>1, LiveStep
  <2>2. CASE UNCHANGED vars
    <3>1. LiveInv => LiveInv'
      BY <2>2 DEF vars, LiveInv, MemInv, StoredInv, Bounded, FeedInv, OwedInv, Hashes, Feeds,
         Falling, Under
    <3>2. QED BY <2>2, <3>1 DEF vars
  <2>3. QED BY <2>1, <2>2 DEF Next
<1>3. Inv => FeedShows
  BY LiveShows DEF FeedShows
<1>4. QED BY <1>1, <1>2, <1>3, PTL DEF Spec
================================================================================
