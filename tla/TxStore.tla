-------------------------------- MODULE TxStore --------------------------------
(***************************************************************************)
(* The transaction store of zonescan: rows keyed by hash and zone, and the *)
(* indexes that every page is read from.                                   *)
(*                                                                         *)
(* Opening the store runs five migrations, one after the other and each    *)
(* once, guarded by a version; a crash may come between any two.  After    *)
(* that, scans commit the transactions they decode, again and again and    *)
(* from sources that know more or less about them; the token learner       *)
(* reads every row in one transaction and writes in another; and a client  *)
(* pages through a feed, each page a snapshot of its own.                  *)
(*                                                                         *)
(* Abstractions: the records of a batch are committed one by one; `full`   *)
(* stands for every field a later decode can fill in; token names, owners  *)
(* and definitions, which no index depends on, are left out; a feed has no *)
(* filter and is shorter than SCAN_CAP.                                    *)
(***************************************************************************)
EXTENDS Integers, FiniteSets

CONSTANTS Decoded,       \* the records that scans decode, of every source and build
          LegacyStores,  \* the sets of rows an older build may have left
          Accounts, Programs, NoProgram,
          TokenPrograms, AtaPrograms,
          Foreign,       \* programs that only the classifier's guess recognises
          Definition,    \* the token definition each holding belongs to
          Times,         \* what the clock may say when a raw inscription is stamped
          Walks,         \* bound: the feeds a client may page through, and the direction
          Limit          \* PAGE, the rows of one page

Holdings == DOMAIN Definition

\* A transaction as stored.  Hashes and zones are numbers, for the order of the keys.
Record == [hash : Nat, chan : Nat \ {0}, kind : {"public", "private", "deploy", "raw"},
           prog : Programs \cup {NoProgram}, accts : SUBSET Accounts,
           opens : SUBSET Holdings,  \* the holding its instruction opens, if any
           block : Nat, time : Nat, full : BOOLEAN]

SameTx(r, s) == r.hash = s.hash /\ r.chan = s.chan
Keyed(R)     == \A r, s \in R : SameTx(r, s) => r = s

ASSUME StoreAssumption ==
  /\ Definition \in [Holdings -> Accounts] /\ Holdings \subseteq Accounts
  /\ NoProgram \notin Programs
  /\ Decoded \subseteq Record
  /\ \A R \in LegacyStores : IsFiniteSet(R) /\ R \subseteq Record /\ Keyed(R)
  /\ Times \subseteq Nat \ {0}
  /\ Walks \subseteq Nat \X BOOLEAN
  /\ Limit \in Nat \ {0}

\* A raw inscription is its payload: there is nothing to decode later.  Only an
\* older build stored one at time 0.
ASSUME RawAssumption ==
  /\ \A r \in Decoded \cup UNION LegacyStores :
       r.kind = "raw" => r.prog = NoProgram /\ ~r.full
  /\ \A r \in Decoded : r.kind = "raw" => r.time > 0

VARIABLES rows,       \* durable: TXS
          feed,       \* durable: IDX_FEED_TIME
          chanIdx,    \* durable: IDX_CHANNEL
          chanTime,   \* durable: IDX_CHAN_TIME
          acctIdx,    \* durable: IDX_ACCOUNT
          progIdx,    \* durable: IDX_PROGRAM
          holds,      \* durable: the holdings in HOLDING_DEF
          meta,       \* durable: which migrations have run
          pc,         \* the step Db::open is at, or "serving"
          guessed,    \* PROGRAM_INFO: the foreign programs recognised at present
          relearn,    \* what relearn_tokens has read and not yet written
          walk        \* a client paging through a feed

indexes == <<feed, chanIdx, chanTime, acctIdx, progIdx>>
durable == <<rows, indexes, holds, meta>>
vars    == <<durable, pc, guessed, relearn, walk>>

--------------------------------------------------------------------------------
(* Keys.  An index entry holds the fields it is ordered by and the key of its *)
(* row, which is both the tail of the entry's key and its value.              *)

\* Mutant of TxKey: the hash alone, as it was before zones shared a genesis.
TxKeyHashOnly(r) == <<r.hash, 1>>
TxKey(r)   == <<r.hash, r.chan>>
\* What the two scans that rebuild an index write instead: no zone.
BareKey(r) == <<r.hash, 0>>

FeedEntry(r)     == [time |-> r.time, block |-> r.block, row |-> TxKey(r)]
ChanEntry(r)     == [chan |-> r.chan, block |-> r.block, row |-> TxKey(r)]
ChanTimeEntry(r) == [chan |-> r.chan, time |-> r.time, block |-> r.block, row |-> TxKey(r)]
ProgEntries(r, key) ==
  IF r.prog = NoProgram THEN {}
  ELSE {[chan |-> r.chan, prog |-> r.prog, block |-> r.block, row |-> key]}
AcctEntries(r, accounts, key) == {[acct |-> a, block |-> r.block, row |-> key] : a \in accounts}

Recognised(p) == p \in Foreign => p \in guessed
IsTokenProgram(p) == p \in TokenPrograms /\ Recognised(p)
IsAtaProgram(p)   == p \in AtaPrograms /\ Recognised(p)

\* token_mappings: the holding a record links to its definition.
Opens(r) == IF IsTokenProgram(r.prog) \/ IsAtaProgram(r.prog) THEN r.opens ELSE {}

\* Mutant of Definitions: no look-up in HOLDING_DEF.
DefinitionsUnlearned(r, known) ==
  IF IsTokenProgram(r.prog) THEN {Definition[a] : a \in r.accts \cap Holdings} \ r.accts ELSE {}

\* The definitions a token transaction is listed under besides its own accounts.
Definitions(r, known) ==
  IF IsTokenProgram(r.prog)
  THEN {Definition[a] : a \in r.accts \cap known} \ r.accts
  ELSE {}

Row       == Nat \X Nat
FeedRow   == [time : Nat, block : Nat, row : Row]
ChanRow   == [chan : Nat, block : Nat, row : Row]
TimeRow   == [chan : Nat, time : Nat, block : Nat, row : Row]
AcctRow   == [acct : Accounts, block : Nat, row : Row]
ProgRow   == [chan : Nat, prog : Programs, block : Nat, row : Row]

--------------------------------------------------------------------------------
(* Opening: the migrations in the order of Db::open *)

OpenSteps == {"keys", "raw", "learn", "learned", "progs"}
Versions  == {"keys", "raw", "tokens", "progs"}

NoRelearn == [on |-> FALSE, links |-> {}, entries |-> {}, rows |-> {}]
NoWalk    == [on |-> FALSE, done |-> FALSE, zone |-> 0, oldest |-> FALSE,
              cursor |-> <<>>, got |-> {}, want |-> {}, again |-> FALSE]

\* A store that does not exist yet, or one of an older build: its indexes are of
\* no account, for the first migration wipes them.
Init ==
  /\ rows \in {{}} \cup LegacyStores
  /\ meta \in [Versions -> BOOLEAN] /\ ~meta["keys"]
  /\ rows = {} => \A v \in Versions : ~meta[v]
  /\ meta["raw"] => \A r \in rows : r.kind = "raw" => r.time > 0
  /\ feed = {} /\ chanIdx = {} /\ chanTime = {} /\ acctIdx = {} /\ progIdx = {}
  /\ guessed = {}
  /\ holds = IF meta["tokens"] THEN UNION {Opens(r) : r \in rows} ELSE {}
  /\ pc = "keys" /\ relearn = NoRelearn /\ walk = NoWalk

Opening(step, next) ==
  /\ pc = step /\ pc' = next
  /\ UNCHANGED <<guessed, relearn, walk>>

\* Mutant of MigrateTxKeys: version 1, before the zone's feed was ordered by time.
MigrateTxKeysV1 ==
  /\ Opening("keys", "raw")
  /\ UNCHANGED <<rows, holds, chanTime>>
  /\ feed' = {FeedEntry(r) : r \in rows}
  /\ chanIdx' = {ChanEntry(r) : r \in rows}
  /\ progIdx' = UNION {ProgEntries(r, TxKey(r)) : r \in rows}
  /\ acctIdx' = UNION {AcctEntries(r, r.accts, TxKey(r)) : r \in rows}
  /\ meta' = [meta EXCEPT !["keys"] = TRUE]

\* migrate_tx_keys: every index is built anew from the rows.  ensure_time_index,
\* which runs next, finds the time index built.
MigrateTxKeys ==
  /\ Opening("keys", "raw")
  /\ UNCHANGED <<rows, holds>>
  /\ IF meta["keys"]
     THEN UNCHANGED <<indexes, meta>>
     ELSE /\ feed' = {FeedEntry(r) : r \in rows}
          /\ chanIdx' = {ChanEntry(r) : r \in rows}
          /\ chanTime' = {ChanTimeEntry(r) : r \in rows}
          /\ progIdx' = UNION {ProgEntries(r, TxKey(r)) : r \in rows}
          /\ acctIdx' = UNION {AcctEntries(r, r.accts \cup Definitions(r, holds), TxKey(r)) : r \in rows}
          /\ meta' = [meta EXCEPT !["keys"] = TRUE]

Stale(r) == r.kind = "raw" /\ r.time = 0

\* Mutant of MigrateRawTimestamps: the old entry of the time index stays.
MigrateRawKeepingEntry(at) ==
  LET stamped == {[r EXCEPT !.time = at[r]] : r \in DOMAIN at} IN
  /\ Opening("raw", "learn")
  /\ UNCHANGED <<chanIdx, chanTime, acctIdx, progIdx, holds>>
  /\ rows' = (rows \ DOMAIN at) \cup stamped
  /\ feed' = feed \cup {FeedEntry(r) : r \in stamped}
  /\ meta' = [meta EXCEPT !["raw"] = TRUE]

\* migrate_raw_timestamps: a raw inscription gets the time it was seen at, or
\* now; its entry of the global feed moves, that of the zone's feed stays.
MigrateRawTimestamps(at) ==
  LET stamped == {[r EXCEPT !.time = at[r]] : r \in DOMAIN at} IN
  /\ Opening("raw", "learn")
  /\ UNCHANGED <<chanIdx, chanTime, acctIdx, progIdx, holds>>
  /\ IF meta["raw"]
     THEN UNCHANGED <<rows, feed, meta>>
     ELSE /\ rows' = (rows \ DOMAIN at) \cup stamped
          /\ feed' = (feed \ {FeedEntry(r) : r \in DOMAIN at}) \cup {FeedEntry(r) : r \in stamped}
          /\ meta' = [meta EXCEPT !["raw"] = TRUE]

\* relearn_tokens, what one scan of the rows finds: the holdings they open, and
\* the entries that list their token transactions under the definitions.
Learned(R) == UNION {Opens(r) : r \in R}
TokenEntries(R) ==
  UNION {AcctEntries(r, Definitions(r, Learned(R)), BareKey(r)) : r \in R}

\* backfill_token_mappings: the scan, then the version in a transaction of its own.
BackfillTokenMappings ==
  /\ UNCHANGED <<rows, feed, chanIdx, chanTime, progIdx, meta>>
  /\ IF meta["tokens"]
     THEN Opening("learn", "progs") /\ UNCHANGED <<acctIdx, holds>>
     ELSE /\ Opening("learn", "learned")
          /\ holds' = holds \cup Learned(rows)
          /\ acctIdx' = acctIdx \cup TokenEntries(rows)

TokenMappingsDone ==
  /\ Opening("learned", "progs")
  /\ meta' = [meta EXCEPT !["tokens"] = TRUE]
  /\ UNCHANGED <<rows, indexes, holds>>

\* backfill_program_index
BackfillProgramIndex ==
  /\ Opening("progs", "serving")
  /\ UNCHANGED <<rows, feed, chanIdx, chanTime, acctIdx, holds>>
  /\ IF meta["progs"]
     THEN UNCHANGED <<progIdx, meta>>
     ELSE /\ progIdx' = progIdx \cup UNION {ProgEntries(r, BareKey(r)) : r \in rows}
          /\ meta' = [meta EXCEPT !["progs"] = TRUE]

--------------------------------------------------------------------------------
(* Commits *)

Serving == pc = "serving" /\ UNCHANGED <<meta, pc>>

Stored(r) == {s \in rows : TxKey(s) = TxKey(r)}

\* A record carries something that its stored body lacks or names otherwise.
NeedsRewrite(s, r) ==
  \/ r.full /\ ~s.full
  \/ r.prog # NoProgram /\ s.prog # r.prog

\* A record that is not stored: its row and an entry of every index.
CommitNew(r) ==
  LET known == holds \cup Opens(r) IN
  /\ Serving
  /\ Stored(r) = {}
  /\ holds' = known
  /\ rows' = rows \cup {r}
  /\ feed' = feed \cup {FeedEntry(r)}
  /\ chanIdx' = chanIdx \cup {ChanEntry(r)}
  /\ chanTime' = chanTime \cup {ChanTimeEntry(r)}
  /\ progIdx' = progIdx \cup ProgEntries(r, TxKey(r))
  /\ acctIdx' = acctIdx \cup AcctEntries(r, r.accts \cup Definitions(r, known), TxKey(r))
  /\ UNCHANGED <<guessed, relearn, walk>>

\* Mutant of Relabelled: the entry of the old program stays.
RelabelledKeepingOld(idx, s, r) == idx \cup ProgEntries(r, TxKey(r))

Relabelled(idx, s, r) ==
  (idx \ ProgEntries([r EXCEPT !.prog = s.prog], TxKey(r))) \cup ProgEntries(r, TxKey(r))

\* Mutant of CommitAgain: the new body is stored next to the old one.
CommitAgainBeside(r) ==
  \E s \in Stored(r) :
    /\ Serving
    /\ NeedsRewrite(s, r)
    /\ rows' = rows \cup {r}
    /\ UNCHANGED <<holds, feed, chanIdx, chanTime, acctIdx, progIdx, guessed, relearn, walk>>

\* A record that is stored: the body is written over, and the program index is
\* the only one that follows.
CommitAgain(r) ==
  \E s \in Stored(r) :
    /\ Serving
    /\ holds' = holds \cup Opens(r)
    /\ rows' = IF NeedsRewrite(s, r) THEN (rows \ {s}) \cup {r} ELSE rows
    /\ progIdx' = IF NeedsRewrite(s, r) /\ r.prog # s.prog THEN Relabelled(progIdx, s, r) ELSE progIdx
    /\ UNCHANGED <<feed, chanIdx, chanTime, acctIdx, guessed, relearn, walk>>

Commit(r) == CommitNew(r) \/ CommitAgain(r)

--------------------------------------------------------------------------------
(* The token learner: refresh_guesses runs again and again, publishes what the *)
(* classifier recognises at the time, and learns from the rows once more.      *)

SetProgramKinds(P) ==
  /\ Serving
  /\ guessed' = P
  /\ UNCHANGED <<rows, indexes, holds, relearn, walk>>

RelearnRead ==
  /\ Serving
  /\ ~relearn.on
  /\ relearn' = [on |-> TRUE, links |-> Learned(rows), entries |-> TokenEntries(rows),
                 rows |-> {r \in rows : IsTokenProgram(r.prog)}]
  /\ UNCHANGED <<rows, indexes, holds, guessed, walk>>

RelearnWrite ==
  /\ Serving
  /\ relearn.on
  /\ relearn' = NoRelearn
  /\ holds' = holds \cup relearn.links
  /\ acctIdx' = acctIdx \cup relearn.entries
  /\ UNCHANGED <<rows, feed, chanIdx, chanTime, progIdx, guessed, walk>>

\* learn_token: a page resolved a holding through the zone's RPC.
LearnToken(h) ==
  /\ Serving
  /\ holds' = holds \cup {h}
  /\ UNCHANGED <<rows, indexes, guessed, relearn, walk>>

--------------------------------------------------------------------------------
(* A client pages through the feed of a zone, or of all zones (zone 0) *)

\* The order of the time indexes: newest first, then by block, hash and zone.
Precedes(e, f) ==
  \/ e.time > f.time
  \/ e.time = f.time /\ e.block > f.block
  \/ e.time = f.time /\ e.block = f.block /\ e.row[1] < f.row[1]
  \/ e.time = f.time /\ e.block = f.block /\ e.row[1] = f.row[1] /\ e.row[2] < f.row[2]

FeedOf(zone) ==
  IF zone = 0 THEN feed
  ELSE {[time |-> e.time, block |-> e.block, row |-> e.row] : e \in {x \in chanTime : x.chan = zone}}

InZone(zone) == {r \in rows : zone \in {0, r.chan}}

\* The first Limit entries past the cursor, in the direction of the walk.
Past(e, w)    == w.cursor = <<>> \/ (IF w.oldest THEN Precedes(e, w.cursor[1]) ELSE Precedes(w.cursor[1], e))
Ahead(e, f, w) == IF w.oldest THEN Precedes(f, e) ELSE Precedes(e, f)
Page(w) ==
  LET left == {e \in FeedOf(w.zone) : Past(e, w)}
  IN  {e \in left : Cardinality({f \in left : Ahead(f, e, w)}) < Limit}

\* Mutant of Cursor: two zones' copies of a transaction share a cursor.
CursorWithoutZone(r) == <<[time |-> r.time, block |-> r.block, row |-> BareKey(r)]>>

\* The page puts into its cursor what it was shown of its last row.
Cursor(r) == <<FeedEntry(r)>>

StartWalk(zone, oldest) ==
  /\ Serving
  /\ ~walk.on
  /\ walk' = [NoWalk EXCEPT !.on = TRUE, !.zone = zone, !.oldest = oldest,
                            !.want = {TxKey(r) : r \in InZone(zone)}]
  /\ UNCHANGED <<rows, indexes, holds, guessed, relearn>>

\* feedMore and Db::feed.  A page that is not full is the last.
NextPage ==
  LET page  == Page(walk)
      shown == {r \in rows : \E e \in page : e.row = TxKey(r)}
      last  == {e \in page : \A f \in page : f = e \/ Ahead(f, e, walk)}
  IN
  /\ Serving
  /\ walk.on /\ ~walk.done
  /\ walk' = [walk EXCEPT
       !.got   = @ \cup {TxKey(r) : r \in shown},
       !.again = @ \/ \E r \in shown : TxKey(r) \in walk.got,
       !.done  = Cardinality(page) < Limit,
       !.cursor = IF page = {} THEN @
                  ELSE Cursor(CHOOSE r \in rows : \E e \in last : e.row = TxKey(r))]
  /\ UNCHANGED <<rows, indexes, holds, guessed, relearn>>

--------------------------------------------------------------------------------
\* A crash, or an upgrade: the next start opens the store from the beginning.
Crash ==
  /\ pc' = "keys" /\ guessed' = {} /\ relearn' = NoRelearn /\ walk' = NoWalk
  /\ UNCHANGED durable

Next ==
  \/ MigrateTxKeys
  \/ \E at \in [{r \in rows : Stale(r)} -> Times] : MigrateRawTimestamps(at)
  \/ BackfillTokenMappings
  \/ TokenMappingsDone
  \/ BackfillProgramIndex
  \/ \E r \in Decoded : CommitNew(r)
  \/ \E r \in Decoded : CommitAgain(r)
  \/ \E P \in SUBSET Foreign : SetProgramKinds(P)
  \/ RelearnRead
  \/ RelearnWrite
  \/ \E h \in Holdings : LearnToken(h)
  \/ \E w \in Walks : StartWalk(w[1], w[2])
  \/ NextPage
  \/ Crash

Spec == Init /\ [][Next]_vars

--------------------------------------------------------------------------------
(* Properties *)

Migrated == meta["keys"]

TypeOK ==
  /\ rows \subseteq Record /\ Keyed(rows)
  /\ feed \subseteq FeedRow /\ chanIdx \subseteq ChanRow /\ chanTime \subseteq TimeRow
  /\ acctIdx \subseteq AcctRow /\ progIdx \subseteq ProgRow
  /\ holds \subseteq Holdings
  /\ meta \in [Versions -> BOOLEAN]
  /\ pc \in OpenSteps \cup {"serving"}
  /\ guessed \subseteq Foreign
  /\ relearn.on \in BOOLEAN /\ relearn.links \subseteq Holdings
  /\ relearn.entries \subseteq AcctRow /\ relearn.rows \subseteq Record

\* What a hash stands for in a zone does not depend on who read it: the block
\* and its time are the same whichever source and build decoded it.  (A zone that
\* starts over with the same genesis breaks this.)
Stable ==
  \A r, s \in Decoded \cup UNION LegacyStores : SameTx(r, s) =>
    /\ r.block = s.block /\ r.kind = s.kind /\ r.accts = s.accts
    /\ r.kind # "raw" => r.time = s.time

\* The global feed and the zone's block index list each row exactly once, at the
\* time and block its stored body carries, whatever migrations and re-scans with
\* more complete records went over it (commit, migrate_tx_keys,
\* migrate_raw_timestamps).
FeedAgrees ==
  Migrated /\ Stable =>
    /\ feed = {FeedEntry(r) : r \in rows}
    /\ chanIdx = {ChanEntry(r) : r \in rows}

\* A zone's feed has one entry for each of its rows and none for another's; the
\* time of that entry may be one the row no longer has (migrate_raw_timestamps).
ZoneFeedAgrees ==
  Migrated => /\ {e.row : e \in chanTime} = {TxKey(r) : r \in rows}
              /\ \A e, f \in chanTime : e.row = f.row => e = f
              /\ \A e \in chanTime : e.chan = e.row[2]

\* The program index follows every change of a label: apart from the entries
\* that name no row, it lists each row under its present program and no other
\* (commit, db.rs 559-572).
ProgramsAgree ==
  Migrated /\ Stable =>
    {e \in progIdx : e.row[2] # 0} = UNION {ProgEntries(r, TxKey(r)) : r \in rows}

\* An account's page lists every transaction with that account among its own,
\* and nothing else but the token transactions of a holding that belongs to it.
AccountsAgree ==
  Migrated /\ Stable =>
    /\ \A r \in rows : AcctEntries(r, r.accts, TxKey(r)) \subseteq acctIdx
    /\ \A e \in acctIdx : e.row[2] # 0 =>
         \E r \in rows : /\ e.row = TxKey(r)
                         /\ e.acct \in r.accts \cup {Definition[a] : a \in r.accts \cap holds}

\* What was committed stays, under its own zone: no other zone's copy is written
\* over it (tx_key), and no migration, rewrite or crash loses it.
NothingLost == [][\A r \in rows : \E s \in rows' : SameTx(r, s)]_vars

\* Paging through a feed shows no row twice, and at its end every row that was
\* stored when it began, whatever is committed meanwhile; equal times and two
\* zones' copies of one transaction included.  A zone whose feed has an entry at
\* a time its row no longer has (migrate_raw_timestamps) is left out: the cursor
\* then takes a time the entry does not have, and pages repeat.
ZoneTimesAgree == chanTime = {ChanTimeEntry(r) : r \in rows}
PagesOnce ==
  Stable /\ (walk.zone = 0 \/ ZoneTimesAgree) =>
    ~walk.again /\ (walk.done => walk.want \subseteq walk.got)

\* relearn_tokens is to "backfill the token-activity index (idempotent; mirrors the
\* live path in commit())" (db.rs 1428): every token transaction it read is then
\* listed, with its row, under the definitions of its holdings.
TokenPageComplete ==
  [][RelearnWrite =>
       \A r \in relearn.rows :
         AcctEntries(r, {Definition[a] : a \in r.accts \cap relearn.links}, TxKey(r))
           \subseteq acctIdx']_vars
================================================================================
