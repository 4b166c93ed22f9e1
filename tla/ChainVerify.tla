------------------------------ MODULE ChainVerify ------------------------------
(***************************************************************************)
(* The verdict on a zone's chain: blocks checked, broken parent links, gaps *)
(* in the ids.  Three things write the one verdict of a zone:               *)
(*   - the live stream and the sequencer's RPC reader check every block     *)
(*     against a single cursor (SeqTrack::verify);                          *)
(*   - the scan at the start checks a window of the L1 (verify_chain);      *)
(*   - a backward walk checks what its buffer holds, one block per height.  *)
(* A zone that resets starts over at id 0: the L1 then carries several      *)
(* generations of its chain.  A block is the pair of its generation and id, *)
(* its parent the block before it in its generation, unless it is bad.      *)
(* Hash recomputation is left out: it is counted block by block.            *)
(***************************************************************************)
EXTENDS Integers, Sequences, FiniteSets

CONSTANTS MaxBlocks,     \* bound: blocks inscribed
          MaxResets,     \* bound: resets of the zone
          MaxBad,        \* bound: blocks whose parent is none
          MaxRestarts,   \* bound: applied configurations
          ChunkSize,     \* a chunk of the walk covers this many and one more (CHUNK_SLOTS)
          MergeEvery,    \* the walk merges its verdict every so many chunks
          VerifCap       \* VERIF_CAP

VARIABLES minted,        \* the zone's blocks in the order of their inscription
          heard,         \* where the stream and the RPC reader are in it
          cursor,        \* verify_cursor
          verdict,       \* consistency
          walk,          \* the running backward walk and its buffer
          restarts,
          ear            \* history: the reader that alone has verified, and missed nothing

vars == <<minted, heard, cursor, verdict, walk, restarts, ear>>

Readers   == {"stream", "rpc"}
Positions == 1..Len(minted)
NoBlock   == [gen |-> 0, id |-> -1, bad |-> FALSE]

Resets  == IF minted = <<>> THEN 0 ELSE minted[Len(minted)].gen
Bad(P)  == {p \in P : minted[p].bad}
Gens(P) == {minted[p].gen : p \in P}

Child(b, p) == p.gen = b.gen /\ p.id = b.id - 1 /\ ~b.bad

\* whole is history: the positions the blocks were read from, {} for a verdict that a
\* reader added to; fair, whether the code is entitled to that verdict (see below).
NoVerdict == [checked |-> 0, breaks |-> 0, gaps |-> 0, whole |-> {}, fair |-> TRUE]
NoWalk    == [on |-> FALSE, hi |-> 0, chunks |-> 0, buf |-> {}, read |-> {}]

Init ==
  /\ minted = <<>>
  /\ heard = [r \in Readers |-> 0]
  /\ cursor = NoBlock /\ verdict = NoVerdict /\ walk = NoWalk
  /\ restarts = 0 /\ ear = "nobody"

--------------------------------------------------------------------------------
(* The zone *)

Append1(b) ==
  /\ Len(minted) < MaxBlocks
  /\ minted' = Append(minted, b)

Mint(bad) ==
  LET id == IF minted = <<>> THEN 0 ELSE minted[Len(minted)].id + 1 IN
  /\ bad => id > 0 /\ Cardinality(Bad(Positions)) < MaxBad
  /\ Append1([gen |-> Resets, id |-> id, bad |-> bad])
  /\ UNCHANGED <<heard, cursor, verdict, walk, restarts, ear>>

\* The sequencer's own reader starts over with it.
ZoneReset ==
  /\ minted # <<>> /\ Resets < MaxResets
  /\ Append1([gen |-> Resets + 1, id |-> 0, bad |-> FALSE])
  /\ heard' = [heard EXCEPT !["rpc"] = Len(minted)]
  /\ UNCHANGED <<cursor, verdict, walk, restarts, ear>>

--------------------------------------------------------------------------------
(* Block by block *)

\* Without a reset nothing excuses an accusation; after one, only a reader that is
\* alone and missed nothing meets the block that re-anchors the cursor.
FairEar(r) == Resets = 0 \/ ear \in {"nobody", r}

\* Mutant: a block is linked to any block before it.
LinkToAny(b) == [brk |-> b.id > cursor.id /\ ~Child(b, cursor), gap |-> FALSE]

Link(b) == [brk |-> b.id = cursor.id + 1 /\ ~Child(b, cursor), gap |-> b.id > cursor.id + 1]

One(p) == IF p THEN 1 ELSE 0

Hear(r) ==
  LET b == minted[heard[r] + 1]
      l == IF cursor = NoBlock THEN [brk |-> FALSE, gap |-> FALSE] ELSE Link(b) IN
  /\ heard[r] < Len(minted)
  /\ heard' = [heard EXCEPT ![r] = @ + 1]
  /\ verdict' = [checked |-> verdict.checked + 1,
                 breaks  |-> verdict.breaks + One(l.brk),
                 gaps    |-> verdict.gaps + One(l.gap),
                 whole   |-> {}, fair |-> verdict.fair /\ FairEar(r)]
  /\ cursor' = IF b.id >= cursor.id THEN b ELSE cursor
  /\ ear' = IF ear \in {"nobody", r} THEN r ELSE "none"
  /\ UNCHANGED <<minted, walk, restarts>>

\* A reconnecting stream goes on at the present; the sequencer's reader may start at a floor.
Miss(r) ==
  /\ heard[r] < Len(minted)
  /\ heard' = [heard EXCEPT ![r] = Len(minted)]
  /\ ear' = "none"
  /\ UNCHANGED <<minted, cursor, verdict, walk, restarts>>

--------------------------------------------------------------------------------
(* By the window *)

\* verify_chain: a break is a height whose one parent is not the block's.
Verdict(B) ==
  LET Ids == {b.id : b \in B}
      Broken(b) == LET below == {p \in B : p.id = b.id - 1} IN
                   Cardinality(below) = 1 /\ \A p \in below : ~Child(b, p)
  IN  [checked |-> Cardinality(B),
       breaks  |-> Cardinality({b \in B : Broken(b)}),
       gaps    |-> Cardinality({i \in Ids : i - 1 \notin Ids /\ \E j \in Ids : j < i})]

Read(P) == {minted[p] : p \in P}
Judged(B, P, fair) ==
  LET v == Verdict(B) IN
  [checked |-> v.checked, breaks |-> v.breaks, gaps |-> v.gaps,
   whole |-> P, fair |-> fair]

\* The window holds the whole of each generation but the last, or only one.
FairWindow(lo, hi) == Cardinality(Gens(lo..hi)) = 1 \/ minted[lo].id = 0

\* discover_seed
Seed ==
  /\ ~walk.on
  /\ \E lo, hi \in Positions :
       /\ lo <= hi
       /\ verdict' = Judged(Read(lo..hi), lo..hi, FairWindow(lo, hi))
  /\ UNCHANGED <<minted, heard, cursor, walk, restarts, ear>>

StartWalk ==
  /\ ~walk.on
  /\ \E hi \in Positions : walk' = [NoWalk EXCEPT !.on = TRUE, !.hi = hi]
  /\ UNCHANGED <<minted, heard, cursor, verdict, restarts, ear>>

\* The buffer keeps the last block put at a height.
Put(buf, b) ==
  IF Cardinality(buf) < VerifCap THEN {x \in buf : x.id # b.id} \cup {b} ELSE buf

\* A chunk's blocks go in in their order.
PutAll(buf, lo, hi) ==
  LET upTo[p \in (lo - 1)..hi] == IF p < lo THEN buf ELSE Put(upTo[p - 1], minted[p])
  IN  upTo[hi]

\* The blocks of one generation do not push each other out of the buffer.
FairBuffer(w) == Cardinality(Gens(w.read)) <= 1 /\ Cardinality(w.read) <= VerifCap

Merged(w) ==
  LET v == Judged(w.buf, w.read, FairBuffer(w)) IN
  IF v.checked >= verdict.checked /\ w.buf # {} THEN v ELSE verdict

\* backfill_walk, a chunk; a failed request skips it.
WalkChunk ==
  LET from == IF walk.hi > ChunkSize THEN walk.hi - ChunkSize ELSE 1 IN
  /\ walk.on
  /\ \E ok \in BOOLEAN :
       LET w == [on     |-> from > 1, hi |-> from - 1, chunks |-> walk.chunks + 1,
                 buf    |-> IF ok THEN PutAll(walk.buf, from, walk.hi) ELSE walk.buf,
                 read   |-> IF ok THEN walk.read \cup (from..walk.hi) ELSE walk.read] IN
       /\ walk' = IF w.on THEN w ELSE NoWalk
       /\ verdict' = IF ~w.on \/ w.chunks % MergeEvery = 0 THEN Merged(w) ELSE verdict
  /\ UNCHANGED <<minted, heard, cursor, restarts, ear>>

\* apply_config: the cursor is dropped, the verdict restored, the walk superseded.
Restart ==
  /\ restarts < MaxRestarts
  /\ restarts' = restarts + 1
  /\ cursor' = NoBlock /\ walk' = NoWalk
  /\ UNCHANGED <<minted, heard, verdict, ear>>

Next ==
  \/ \E bad \in BOOLEAN : Mint(bad)
  \/ ZoneReset
  \/ \E r \in Readers : Hear(r) \/ Miss(r)
  \/ Seed
  \/ StartWalk
  \/ WalkChunk
  \/ Restart

Spec == Init /\ [][Next]_vars

--------------------------------------------------------------------------------
(* Only the guilty are accused: as long as the code's evidence is fair (no       *)
(* reset, or one reader that heard every block since; a window that cuts no      *)
(* generation but the last; a buffer in which no generation pushed out another), *)
(* an honest zone has no broken link.  And a verdict that rests on a stretch of  *)
(* one generation counts exactly the bad blocks of which the parent was read.    *)
NotAccused ==
  verdict.fair =>
    /\ Bad(Positions) = {} => verdict.breaks = 0
    /\ verdict.whole # {} /\ Cardinality(Gens(verdict.whole)) = 1 =>
         verdict.breaks =
           Cardinality({p \in Bad(verdict.whole) : p - 1 \in verdict.whole})
================================================================================
