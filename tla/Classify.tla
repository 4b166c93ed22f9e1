-------------------------------- MODULE Classify --------------------------------
(***************************************************************************)
(* The guess of an unnamed program's name from its invocations.  They come *)
(* in one by one; every pass (refresh_guesses) compares all that are known *)
(* with the built-in interfaces and with profiles learned from programs    *)
(* that do have a name.                                                    *)
(*                                                                         *)
(* A word of an instruction is its class: a tag is itself, Big stands for  *)
(* every larger value.  Scores count in units of 1/One and are rounded     *)
(* down; a tie (within 1e-6) is equality.  Only public invocations are     *)
(* sampled, so the family of a transaction does not enter the score.       *)
(***************************************************************************)
EXTENDS Integers, Sequences, FiniteSets, FiniteSetsExt, SequencesExt

CONSTANTS Interfaces,     \* what the unnamed program may be
          Registered,     \* interfaces of the programs that have a name
          Batches,        \* how many invocations of a named program come in at a time
          MaxSamples,     \* bound: invocations of the unnamed program
          MaxNamed        \* bound: forms of the named ones

VARIABLES origin,         \* the interface of the unnamed program
          samples,        \* how many invocations of each form it has
          learned         \* the same of the named programs, by interface

vars == <<origin, samples, learned>>

One == 10000
Big == 16
AnyWord == 17

Bigs(n) == [i \in 1..n |-> Big]
Zeros(n) == [i \in 1..n |-> 0]

--------------------------------------------------------------------------------
(* Invocations *)

\* ts: has_ms_ts; def: fungible_definition reads it.
Call(accts, words) == [accts |-> accts, words |-> words, ts |-> FALSE, def |-> FALSE]
U128 == <<Big>> \o Zeros(3)

\* The forms an interface is invoked in.  "native" and "enum" are the two that go by the
\* name of authenticated_transfer; a solution of the pinata may be small.
Forms(i) ==
  CASE i = "native" -> {Call(2, U128), Call(2, <<1, 0, 0, 0>>), Call(1, Zeros(4))}
    [] i = "enum"   -> {Call(2, <<0>> \o U128), Call(1, <<1>>)}
    [] i = "token"  -> {Call(2, <<0>> \o U128), Call(2, <<0, 1, 0, 0, 0>>), Call(2, <<3>>),
                        Call(2, <<4>> \o U128), Call(2, <<5>> \o U128),
                        [Call(2, <<1, 6>> \o Bigs(2) \o U128) EXCEPT !.def = TRUE]}
    [] i = "amm"    -> {Call(5, <<0>> \o U128 \o U128)}
                       \cup {Call(5, <<v>> \o U128 \o U128 \o U128) : v \in {1, 2}}
    [] i = "ata"    -> {Call(4, <<0>> \o Bigs(8))}
                       \cup {Call(4, <<v>> \o Bigs(8) \o U128) : v \in {1, 2}}
    [] i = "pinata" -> {Call(2, Bigs(4)), Call(2, U128)}
    [] i = "clock"  -> {[Call(3, Bigs(2)) EXCEPT !.ts = TRUE]}

NameOf(i) == IF i \in {"native", "enum"} THEN "authenticated_transfer" ELSE i

Total(b) == MapThenSumSet(LAMBDA s : b[s], DOMAIN b)
Seen(b)  == {s \in DOMAIN b : b[s] > 0}
Nothing(i) == [s \in Forms(i) |-> 0]

Init ==
  /\ origin \in Interfaces
  /\ samples = Nothing(origin)
  /\ learned = [i \in Registered |-> Nothing(i)]

\* program_samples: what the store holds of the programs grows.
Invoke ==
  /\ Total(samples) < MaxSamples
  /\ \E s \in Forms(origin) : samples' = [samples EXCEPT ![s] = @ + 1]
  /\ UNCHANGED <<origin, learned>>

InvokeNamed ==
  /\ MapThenSumSet(LAMBDA i : Cardinality(Seen(learned[i])), Registered) < MaxNamed
  /\ \E i \in Registered, n \in Batches : \E s \in Forms(i) :
       /\ learned[i][s] = 0
       /\ learned' = [learned EXCEPT ![i][s] = n]
  /\ UNCHANGED <<origin, samples>>

Next == Invoke \/ InvokeNamed

Spec == Init /\ [][Next]_vars

--------------------------------------------------------------------------------
(* Scores *)

Word(w, i) == IF i \in DOMAIN w THEN w[i] ELSE 0
Cls(w) == IF w = 0 THEN "zero" ELSE IF w < Big THEN "tag" ELSE IF w = Big THEN "big" ELSE "any"
SigLen(w) == Max({0} \cup {i \in DOMAIN w : w[i] # 0})

\* Mutant: an amount may have no low word.
HasU128AtAny(w, o) == o + 4 <= Len(w) /\ w[o + 3] = 0 /\ w[o + 4] = 0

HasU128At(w, o) == o + 4 <= Len(w) /\ w[o + 1] # 0 /\ w[o + 3] = 0 /\ w[o + 4] = 0
AmountOff(w) ==
  LET at == {o \in {0, 1, 9} : HasU128At(w, o)} IN IF at = {} THEN -1 ELSE Min(at)

\* v0 and amount: AnyWord and -1 for no constraint; len is at least min where min is set.
T(accts, len, v0, amount, pat) ==
  [accts |-> accts, len |-> len, min |-> FALSE, v0 |-> v0, amount |-> amount, pat |-> pat,
   ts |-> FALSE, def |-> FALSE]

\* source_profiles
SourceTemplates(name) ==
  CASE name = "authenticated_transfer" ->
         {T({2}, 4, AnyWord, 0, <<AnyWord, 0, 0, 0>>), T({1}, 4, 0, -1, Zeros(4))}
    [] name = "token" ->
         {T({2}, 5, 0, 1, <<0>> \o U128), T({1, 2}, 1, 3, -1, <<1>>),
          [T({1, 2}, 7, 1, -1, <<>>) EXCEPT !.min = TRUE, !.def = TRUE]}
         \cup {T({1, 2}, 5, v, 1, <<1>> \o U128) : v \in {4, 5}}
    [] name = "amm" ->
         {T(3..5, 9, 0, 1, <<0>> \o U128 \o U128)}
         \cup {T(3..5, 13, v, 1, <<1>> \o U128 \o U128 \o U128) : v \in {1, 2}}
    [] name = "ata" ->
         {T(3..5, 9, 0, -1, <<0>> \o Bigs(4)), T(3..5, 13, 1, 9, <<1>> \o Bigs(8) \o U128),
          T(2..4, 13, 2, 9, <<1>> \o Bigs(8) \o U128)}
    [] name = "pinata" -> {T({2}, 4, AnyWord, -1, Bigs(4))}
    [] name = "clock" -> {[T({1, 3}, 2, AnyWord, -1, <<Big, AnyWord>>) EXCEPT !.ts = TRUE]}

\* learn_profile, a cluster.
Learn(s) ==
  [T({s.accts}, Len(s.words), IF s.words[1] < Big THEN s.words[1] ELSE AnyWord, AmountOff(s.words),
     IF s.def THEN <<>> ELSE s.words) EXCEPT !.ts = s.ts, !.def = s.def]

LenScore(t, n) ==
  IF t.min THEN IF n >= t.len THEN One ELSE (One * n) \div t.len
  ELSE LET d == Max({n, t.len}) - Min({n, t.len})
           m == Max({t.len, 4})
       IN  Max({0, (One * (m - d)) \div m})

PatScore(t, w) ==
  LET n == Max({SigLen(t.pat), SigLen(w)})
      Accepts(i) == Cls(Word(t.pat, i)) \in {"any", Cls(Word(w, i))}
  IN  IF t.pat = <<>> \/ n = 0 THEN One
      ELSE (One * Cardinality({i \in 1..n : Accepts(i)})) \div n

If(c, x, y) == IF c THEN x ELSE y

\* Template::score
Score(t, s) ==
  LET raw == ( 12 * One + 18 * LenScore(t, Len(s.words))
             + 20 * If(t.v0 \in {AnyWord, s.words[1]}, One, 0)
             + 30 * PatScore(t, s.words)
             + 12 * If(t.amount \in {-1, AmountOff(s.words)}, One, (3 * One) \div 10)
             + 8 * If(t.ts => s.ts, One, (2 * One) \div 10) ) \div 100
      a == IF s.accts \in t.accts THEN raw ELSE (raw * 20) \div 100
  IN  IF t.def => s.def THEN a ELSE (a * 15) \div 100

\* cluster and profile_score: the mean, over the invocations, of the best template's score.
ProfileScore(p) ==
  MapThenSumSet(LAMBDA s : samples[s] * Max({Score(t, s) : t \in p.templates}), Seen(samples))
    \div Total(samples)

--------------------------------------------------------------------------------
(* The guess *)

SourceNames == <<"authenticated_transfer", "token", "amm", "ata", "pinata", "clock">>

\* evidence in eighths: all of it for a built-in, what was sampled for a learned one.
Source == [k \in DOMAIN SourceNames |->
             [name |-> SourceNames[k], evidence |-> 8, templates |-> SourceTemplates(SourceNames[k])]]

\* build_reference_profiles: the programs of one name pool what is known of them.
LearnedNames == {NameOf(i) : i \in {j \in Registered : Seen(learned[j]) # {}}}
LearnedProfile(name) ==
  LET I == {i \in Registered : NameOf(i) = name} IN
  [name |-> name,
   evidence |-> Min({8, Max({2, MapThenSumSet(LAMBDA i : Total(learned[i]), I)})}),
   templates |-> UNION {{Learn(s) : s \in Seen(learned[i])} : i \in I}]

\* classify scores each of them; the learned ones come out of a hash map, in any order.
Scored(p) == [p |-> p, s |-> ProfileScore(p)]
References ==
  LET sources == [k \in DOMAIN Source |-> Scored(Source[k])]
      profiles == [n \in LearnedNames |-> Scored(LearnedProfile(n))]
  IN  {sources \o [k \in DOMAIN o |-> profiles[o[k]]] : o \in SetToSeqs(LearnedNames)}

\* content_prefers: which of two names the contents speak for, "neither" if they are silent.
ContentPrefers(a, b) ==
  LET bare == {s \in Seen(samples) : Len(s.words) = 4} IN
  IF {a, b} = {"authenticated_transfer", "pinata"} /\ bare # {}
  THEN IF \E s \in bare : s.words[3] # 0 \/ s.words[4] # 0 THEN "pinata" ELSE "authenticated_transfer"
  ELSE IF {a, b} = {"authenticated_transfer", "token"}
  THEN IF \E s \in Seen(samples) : s.def THEN "token" ELSE "authenticated_transfer"
  ELSE "neither"

NoGuess == [name |-> "unknown", generic |-> FALSE]

\* classify
Classified(refs) ==
  LET scored == SortSeq([k \in DOMAIN refs |-> [p |-> refs[k].p, s |-> refs[k].s, k |-> k]],
                        LAMBDA x, y : x.s > y.s \/ (x.s = y.s /\ x.k < y.k))
      top == scored[1]
      tied == {k \in DOMAIN scored :
                 /\ scored[k].p.name # top.p.name /\ scored[k].s = top.s
                 /\ ContentPrefers(scored[k].p.name, top.p.name) = scored[k].p.name}
      best == IF tied = {} THEN top ELSE scored[Min(tied)]
      rivals == {x \in ToSet(scored) :
                   /\ x.p.name # best.p.name
                   /\ ContentPrefers(best.p.name, x.p.name) # best.p.name}
      margin == Max({0, best.s - Max({0} \cup {x.s : x \in rivals})})
      confidence == (((best.s * (4 * One + 6 * Min({One, 4 * margin}))) \div (10 * One))
                      * best.p.evidence * Min({40, Max({16, 10 * Total(samples)})})) \div (8 * 40)
  IN  IF best.s >= (62 * One) \div 100 /\ margin >= One \div 10 /\ confidence >= (45 * One) \div 100
      THEN [name |-> best.p.name, generic |-> FALSE] ELSE NoGuess

TransferAmount(s) == s.accts <= 4 /\ Len(s.words) = 5 /\ s.words[1] < Big /\ HasU128At(s.words, 1)

\* refresh_guesses: generic_transfer when there is no guess of a name.
Guess(refs) ==
  LET g == Classified(refs) IN
  IF g # NoGuess THEN g
  ELSE IF \A s \in Seen(samples) : TransferAmount(s) THEN [name |-> "transfer", generic |-> TRUE]
  ELSE NoGuess

Guesses == IF Total(samples) = 0 THEN {NoGuess} ELSE {Guess(refs) : refs \in References}

Known(i) == IF i \in Registered THEN Seen(learned[i]) ELSE {}

\* What cannot be told apart: the small solutions of a pinata are native transfers; a program
\* of the other authenticated_transfer is like a token, unless all that it does is known
\* of one that has a name; and then a token is like it until one is defined.
Alike ==
  CASE origin = "pinata" /\ samples[Call(2, U128)] > samples[Call(2, Bigs(4))] -> {"authenticated_transfer"}
    [] origin = "enum" /\ ~(Seen(samples) \subseteq Known("enum")) -> {"token"}
    [] origin = "token" /\ Call(2, <<0>> \o U128) \in Known("enum")
                        /\ ~\E s \in Seen(samples) : s.def -> {"authenticated_transfer"}
    [] OTHER -> {}

--------------------------------------------------------------------------------
\* A program that is one of the built-in ones is not taken for another, but where the
\* two are alike: whatever invocations are seen, in whatever number, whatever the named
\* programs have done, and in whatever order their profiles come out of the map, which
\* makes no difference to the guess.
\* The code: refresh_guesses, build_reference_profiles and classify.
RightName ==
  LET guesses == Guesses IN
  /\ Cardinality(guesses) = 1
  /\ {g.name : g \in guesses} \subseteq {"unknown", "transfer", NameOf(origin)} \cup Alike
================================================================================
