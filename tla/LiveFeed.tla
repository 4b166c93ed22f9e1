-------------------------------- MODULE LiveFeed -------------------------------
(***************************************************************************)
(* A transaction on its way from a reader to the page.  The reader puts it *)
(* into the rolling feed in memory, commits it to the store, and only then *)
(* pushes it to the clients (the walk pushes nothing).  A client shows a   *)
(* feed: it pages through the store from the newest row down, and puts     *)
(* what is pushed on top.  Requests and pushes come over two connections,  *)
(* in no common order; a slow client loses the oldest pushes.              *)
(*                                                                         *)
(* One client, one feed without a filter, a transaction a batch.           *)
(***************************************************************************)
EXTENDS Integers, Sequences, FiniteSets, SequencesExt

CONSTANTS Txs,            \* [hash, zone, at]: at is its place in the order of the feed
          Sources,        \* which of "stream", "rpc" and "walk" read
          Cap,            \* TX_CAP
          Queue,          \* pushes kept for a slow client
          Page,           \* PAGE
          MaxReads        \* bound: transactions read, repeated ones included

VARIABLES mem, seen,      \* the rolling feed, newest first, and its hashes
          jobs,           \* what each source is doing with a transaction
          stored,         \* the rows of the store
          pushes,         \* pushes on their way to the client
          feed,           \* the client's feed
          reads,
          owed,           \* history: what the client ought to show
          late            \* history: pushed to the client below what it has paged through

vars == <<mem, seen, jobs, stored, pushes, feed, reads, owed, late>>

NoTx  == [hash |-> "none", zone |-> "none", at |-> 0]
Idle  == [pc |-> "idle", tx |-> NoTx]

\* rows: the table, top down; cursor: the last row paged in, 0 for none; answer: the page
\* on its way.
NewFeed == [rows |-> <<>>, seen |-> {}, cursor |-> 0, done |-> FALSE, first |-> TRUE,
            pc |-> "asking", answer |-> <<>>]

Init ==
  /\ mem = <<>> /\ seen = {}
  /\ jobs = [r \in Sources |-> Idle]
  /\ stored = {} /\ pushes = <<>> /\ feed = NewFeed
  /\ reads = 0 /\ owed = {} /\ late = {}

--------------------------------------------------------------------------------
(* The readers *)

Hashes(s) == {t.hash : t \in ToSet(s)}

\* push_tx
PushTx(t) ==
  IF t.hash \in seen THEN UNCHANGED <<mem, seen>>
  ELSE LET m == <<t>> \o mem IN
       /\ mem' = SubSeq(m, 1, IF Len(m) <= Cap THEN Len(m) ELSE Cap)
       /\ seen' = (seen \cup {t.hash}) \ Hashes(SubSeq(m, Cap + 1, Len(m)))

\* ingest
Ingest(r) ==
  /\ jobs[r].pc = "idle" /\ reads < MaxReads
  /\ \E t \in Txs :
       /\ PushTx(t)
       /\ jobs' = [jobs EXCEPT ![r] = [pc |-> "read", tx |-> t]]
  /\ reads' = reads + 1
  /\ UNCHANGED <<stored, pushes, feed, owed, late>>

\* Db::commit; a failed one pushes nothing.
Commit(r) ==
  /\ jobs[r].pc = "read"
  /\ \E ok \in BOOLEAN :
       /\ stored' = IF ok THEN stored \cup {jobs[r].tx} ELSE stored
       /\ jobs' = [jobs EXCEPT ![r] = IF ok /\ r # "walk" THEN [@ EXCEPT !.pc = "push"] ELSE Idle]
  /\ UNCHANGED <<mem, seen, pushes, feed, reads, owed, late>>

\* broadcast_txs: the channel keeps the last ones for a receiver that lags.
Broadcast(r) ==
  LET p == Append(pushes, jobs[r].tx) IN
  /\ jobs[r].pc = "push"
  /\ pushes' = IF Len(p) <= Queue THEN p ELSE Tail(p)
  /\ jobs' = [jobs EXCEPT ![r] = Idle]
  /\ UNCHANGED <<mem, seen, stored, feed, reads, owed, late>>

--------------------------------------------------------------------------------
(* The client *)

Shown == ToSet(feed.rows)

\* txFeed: a new feed; what is in flight for the old one is dropped when it comes.
Reload ==
  /\ ~feed.first
  /\ feed' = NewFeed /\ owed' = {} /\ late' = {}
  /\ UNCHANGED <<mem, seen, jobs, stored, pushes, reads>>

\* feedMore
AskMore ==
  /\ feed.pc = "rest" /\ ~feed.done
  /\ feed' = [feed EXCEPT !.pc = "asking"]
  /\ UNCHANGED <<mem, seen, jobs, stored, pushes, reads, owed, late>>

Below(c) == {t \in stored : c = 0 \/ t.at < c}

\* Where the page that already shows s goes on.
From(s) == IF s = <<>> THEN feed.cursor ELSE Last(s).at

Newest(S) == CHOOSE t \in S : \A u \in S : u.at <= t.at

\* Db::feed: rows from the cursor down, until there are Page of them or no more.
PageRows ==
  LET upTo[n \in 0..Page] ==
        IF n = 0 THEN <<>>
        ELSE LET s == upTo[n - 1] IN
             IF Below(From(s)) = {} THEN s ELSE Append(s, Newest(Below(From(s))))
  IN  upTo[Page]

\* The server's side of /api/txs.
Answer ==
  /\ feed.pc = "asking"
  /\ feed' = [feed EXCEPT !.pc = "answered", !.answer = PageRows]
  /\ owed' = IF feed.first THEN owed \cup stored ELSE owed
  /\ UNCHANGED <<mem, seen, jobs, stored, pushes, reads, late>>

\* feedMore, after the await: the first page replaces what the table holds.
Arrive ==
  LET list == feed.answer IN
  /\ feed.pc = "answered"
  /\ feed' = [rows   |-> (IF feed.first THEN <<>> ELSE feed.rows) \o list,
              seen   |-> feed.seen \cup Hashes(list), cursor |-> From(list),
              done   |-> Len(list) < Page, first |-> FALSE, pc |-> "rest", answer |-> <<>>]
  /\ UNCHANGED <<mem, seen, jobs, stored, pushes, reads, owed, late>>

\* feedMore: catch
NoAnswer ==
  /\ feed.pc = "asking"
  /\ feed' = [feed EXCEPT !.pc = "rest"]
  /\ UNCHANGED <<mem, seen, jobs, stored, pushes, reads, owed, late>>

\* Mutant: what is pushed is not remembered.
PrependedForgotten(t) == [feed EXCEPT !.rows = <<t>> \o @]

Prepended(t) == [feed EXCEPT !.rows = <<t>> \o @, !.seen = @ \cup {t.hash}]

\* prependTxs.  What comes before the first page arrives goes with the table's "loading".
Deliver ==
  /\ pushes # <<>>
  /\ pushes' = Tail(pushes)
  /\ LET t == Head(pushes) IN
     IF t.hash \in feed.seen THEN UNCHANGED <<feed, owed, late>>
     ELSE /\ feed' = Prepended(t)
          /\ owed' = IF feed.first THEN owed ELSE owed \cup {t}
          /\ late' = IF ~feed.first /\ t.at < feed.cursor THEN late \cup {t} ELSE late
  /\ UNCHANGED <<mem, seen, jobs, stored, reads>>

Next ==
  \/ \E r \in Sources : Ingest(r) \/ Commit(r) \/ Broadcast(r)
  \/ Reload \/ AskMore \/ Answer \/ Arrive \/ NoAnswer \/ Deliver

Spec == Init /\ [][Next]_vars

--------------------------------------------------------------------------------
(* The page shows only what is in the store, where its links lead, and shows it    *)
(* once, unless it was pushed below what the client has paged through (a reader of *)
(* old blocks pushes them as if they were new).  When it has paged to the end, it  *)
(* shows all that was in the store when the feed opened and all that was pushed to *)
(* it since; of two transactions with one hash, one.  The rolling feed holds a     *)
(* hash once, and what it has let go of it may take again.                         *)
(* The code: push_tx, persist_blocks, broadcast_txs, feedMore, prependTxs.         *)
FeedShows ==
  /\ Shown \subseteq stored
  /\ \A i, j \in DOMAIN feed.rows :
       i < j /\ feed.rows[i] = feed.rows[j] => feed.rows[i] \in late
  /\ feed.done /\ feed.pc = "rest" => {t.hash : t \in owed} \subseteq Hashes(feed.rows)
  /\ Len(mem) <= Cap /\ Cardinality(Hashes(mem)) = Len(mem) /\ seen = Hashes(mem)
================================================================================
