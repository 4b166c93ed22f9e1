----------------------------- MODULE TxStoreProofs -----------------------------
(* Theorems about TxStore, for every value of its constants. *)
EXTENDS TxStore, FiniteSetTheorems, WellFoundedInduction, TLAPS

\* The assumptions on the constants, as the proofs use them.
LEMMA Constants ==
  /\ \A a \in Holdings : Definition[a] \in Accounts
  /\ Holdings \subseteq Accounts
  /\ Decoded \subseteq Record
  /\ \A R \in LegacyStores : R \subseteq Record /\ Keyed(R)
  /\ Times \subseteq Nat
  /\ \A r \in Decoded : r.kind = "raw" => r.prog = NoProgram /\ ~r.full
  BY StoreAssumption, RawAssumption

\* Two rows under one key are copies of one transaction in one zone, and the key
\* of a row, unlike a bare one, names a zone.
LEMMA Keys ==
  ASSUME NEW r \in Record, NEW s \in Record
  PROVE  /\ TxKey(r) = TxKey(s) <=> SameTx(r, s)
         /\ TxKey(r) \in Row /\ TxKey(r)[2] = r.chan /\ r.chan # 0
         /\ BareKey(r) \in Row /\ BareKey(r)[2] = 0
  BY DEF Record, TxKey, BareKey, SameTx, Row

\* The entries a record makes have the types of their indexes, under any key.
LEMMA EntryTypes ==
  ASSUME NEW r \in Record, NEW k \in Row, NEW known \in SUBSET Holdings
  PROVE  /\ FeedEntry(r) \in FeedRow /\ ChanEntry(r) \in ChanRow /\ ChanTimeEntry(r) \in TimeRow
         /\ ProgEntries(r, k) \subseteq ProgRow
         /\ Definitions(r, known) \subseteq Accounts
         /\ \A A \in SUBSET Accounts : AcctEntries(r, A, k) \subseteq AcctRow
         /\ Opens(r) \subseteq Holdings
<1>1. TxKey(r) \in Row
  BY Keys
<1>2. FeedEntry(r) \in FeedRow /\ ChanEntry(r) \in ChanRow /\ ChanTimeEntry(r) \in TimeRow
  BY <1>1 DEF FeedEntry, ChanEntry, ChanTimeEntry, FeedRow, ChanRow, TimeRow, Record
<1>3. ProgEntries(r, k) \subseteq ProgRow
  BY DEF ProgEntries, ProgRow, Record
<1>4. Definitions(r, known) \subseteq Accounts
  BY Constants DEF Definitions
<1>5. \A A \in SUBSET Accounts : AcctEntries(r, A, k) \subseteq AcctRow
  BY DEF AcctEntries, AcctRow, Record
<1>6. Opens(r) \subseteq Holdings
  BY DEF Opens, Record
<1>7. QED BY <1>2, <1>3, <1>4, <1>5, <1>6

\* What the learner finds in a set of rows has its types, and names no zone.
LEMMA LearnedTypes ==
  ASSUME NEW R \in SUBSET Record
  PROVE  /\ Learned(R) \subseteq Holdings
         /\ TokenEntries(R) \subseteq AcctRow
         /\ \A e \in TokenEntries(R) : e.row[2] = 0
<1>1. Learned(R) \subseteq Holdings
  BY DEF Learned, Opens, Record
<1>2. ASSUME NEW e \in TokenEntries(R) PROVE e \in AcctRow /\ e.row[2] = 0
  <2>1. PICK r \in R : e \in AcctEntries(r, Definitions(r, Learned(R)), BareKey(r))
    BY <1>2 DEF TokenEntries
  <2>2. BareKey(r) \in Row /\ BareKey(r)[2] = 0
    BY Keys
  <2>3. Definitions(r, Learned(R)) \in SUBSET Accounts
    BY <1>1, <2>2, EntryTypes
  <2>4. e \in AcctRow
    BY <2>1, <2>2, <2>3, EntryTypes
  <2>5. e.row = BareKey(r)
    BY <2>1 DEF AcctEntries
  <2>6. QED BY <2>2, <2>4, <2>5
<1>3. QED BY <1>1, <1>2

--------------------------------------------------------------------------------
(* Types: the store holds records, one under each key *)

\* Stamping raw inscriptions keeps records records, and the key of each.
LEMMA Stamping ==
  ASSUME rows \subseteq Record, Keyed(rows),
         NEW at \in [{r \in rows : Stale(r)} -> Times]
  PROVE  /\ DOMAIN at \subseteq rows
         /\ \A r \in DOMAIN at :
              LET t == [r EXCEPT !.time = at[r]] IN
              /\ t \in Record /\ SameTx(t, r) /\ TxKey(t) = TxKey(r)
              /\ t.kind = "raw" /\ r.kind = "raw" /\ t.block = r.block /\ t.prog = r.prog
              /\ t.accts = r.accts
         /\ Keyed((rows \ DOMAIN at) \cup {[r EXCEPT !.time = at[r]] : r \in DOMAIN at})
<1>1. DOMAIN at \subseteq rows
  OBVIOUS
<1>2. ASSUME NEW r \in DOMAIN at
      PROVE  LET t == [r EXCEPT !.time = at[r]] IN
             /\ t \in Record /\ SameTx(t, r) /\ TxKey(t) = TxKey(r)
             /\ t.kind = "raw" /\ r.kind = "raw" /\ t.block = r.block /\ t.prog = r.prog
             /\ t.accts = r.accts
  <2>1. r \in Record /\ r.kind = "raw" /\ at[r] \in Nat
    BY Constants DEF Stale
  <2>2. QED BY <2>1 DEF Record, SameTx, TxKey
<1>3. Keyed((rows \ DOMAIN at) \cup {[r EXCEPT !.time = at[r]] : r \in DOMAIN at})
  <2> DEFINE stamp(r) == [r EXCEPT !.time = at[r]]
             new      == (rows \ DOMAIN at) \cup {stamp(r) : r \in DOMAIN at}
  <2>1. \A r \in DOMAIN at : SameTx(stamp(r), r)
    BY <1>2
  <2> HIDE DEF stamp
  <2>2. ASSUME NEW t \in new, NEW u \in new, SameTx(t, u) PROVE t = u
    <3>1. PICK r \in rows : SameTx(t, r) /\ (r \in DOMAIN at => t = stamp(r)) /\ (r \notin DOMAIN at => t = r)
      BY <2>1 DEF SameTx
    <3>2. PICK s \in rows : SameTx(u, s) /\ (s \in DOMAIN at => u = stamp(s)) /\ (s \notin DOMAIN at => u = s)
      BY <2>1 DEF SameTx
    <3>3. r = s
      BY <2>2, <3>1, <3>2 DEF Keyed, SameTx
    <3>4. QED BY <3>1, <3>2, <3>3
  <2>3. Keyed(new)
    BY <2>2 DEF Keyed
  <2> USE DEF stamp
  <2>4. QED BY <2>3
<1>4. QED BY <1>1, <1>2, <1>3

LEMMA OpeningType ==
  ASSUME TypeOK, NEW step, NEW next \in OpenSteps \cup {"serving"}, Opening(step, next)
  PROVE  /\ pc' \in OpenSteps \cup {"serving"} /\ guessed' \subseteq Foreign
         /\ relearn' = relearn
  BY DEF Opening, TypeOK

\* A migration keeps every type.
LEMMA MigrationType ==
  ASSUME TypeOK,
         \/ MigrateTxKeys
         \/ \E at \in [{r \in rows : Stale(r)} -> Times] : MigrateRawTimestamps(at)
         \/ BackfillTokenMappings \/ TokenMappingsDone \/ BackfillProgramIndex
  PROVE  TypeOK'
<1> USE DEF TypeOK, OpenSteps, Versions, indexes
<1>1. CASE MigrateTxKeys
  <2>1. CASE meta["keys"]
    BY <1>1, <2>1 DEF MigrateTxKeys, Opening
  <2>2. CASE ~meta["keys"]
    <3>1. feed' \subseteq FeedRow /\ chanIdx' \subseteq ChanRow /\ chanTime' \subseteq TimeRow
      <4>1. ASSUME NEW r \in rows
            PROVE  FeedEntry(r) \in FeedRow /\ ChanEntry(r) \in ChanRow /\ ChanTimeEntry(r) \in TimeRow
        BY Keys DEF FeedEntry, ChanEntry, ChanTimeEntry, FeedRow, ChanRow, TimeRow, Record
      <4>2. QED BY <1>1, <2>2, <4>1 DEF MigrateTxKeys
    <3>2. progIdx' \subseteq ProgRow
      <4>1. \A r \in rows : ProgEntries(r, TxKey(r)) \subseteq ProgRow
        BY EntryTypes, Keys
      <4>2. QED BY <1>1, <2>2, <4>1 DEF MigrateTxKeys
    <3>3. acctIdx' \subseteq AcctRow
      <4>1. ASSUME NEW r \in rows
            PROVE  AcctEntries(r, r.accts \cup Definitions(r, holds), TxKey(r)) \subseteq AcctRow
        <5>1. r.accts \cup Definitions(r, holds) \in SUBSET Accounts
          BY EntryTypes, Keys DEF Record
        <5>2. QED BY <5>1, EntryTypes, Keys
      <4>2. acctIdx' = UNION {AcctEntries(r, r.accts \cup Definitions(r, holds), TxKey(r)) : r \in rows}
        BY <1>1, <2>2 DEF MigrateTxKeys
      <4>3. QED BY <4>1, <4>2
    <3>4. QED BY <1>1, <2>2, <3>1, <3>2, <3>3 DEF MigrateTxKeys, Opening
  <2>3. QED BY <2>1, <2>2
<1>2. ASSUME NEW at \in [{r \in rows : Stale(r)} -> Times], MigrateRawTimestamps(at) PROVE TypeOK'
  <2>1. CASE meta["raw"]
    BY <1>2, <2>1 DEF MigrateRawTimestamps, Opening
  <2>2. CASE ~meta["raw"]
    <3>1. rows' \subseteq Record /\ Keyed(rows')
      <4>1. rows' = (rows \ DOMAIN at) \cup {[r EXCEPT !.time = at[r]] : r \in DOMAIN at}
        BY <1>2, <2>2 DEF MigrateRawTimestamps
      <4>2. \A r \in DOMAIN at : [r EXCEPT !.time = at[r]] \in Record
        BY Stamping
      <4>3. rows' \subseteq Record
        BY <4>1, <4>2
      <4>4. QED BY <4>1, <4>3, Stamping
    <3>2. feed' \subseteq FeedRow
      <4>1. \A r \in DOMAIN at : [r EXCEPT !.time = at[r]] \in Record
        BY Stamping
      <4>2. \A r \in Record : FeedEntry(r) \in FeedRow
        BY Keys DEF FeedEntry, FeedRow, Record
      <4>3. feed' = (feed \ {FeedEntry(r) : r \in DOMAIN at})
                      \cup {FeedEntry(r) : r \in {[r EXCEPT !.time = at[r]] : r \in DOMAIN at}}
        BY <1>2, <2>2 DEF MigrateRawTimestamps
      <4>4. QED BY <4>1, <4>2, <4>3
    <3>3. QED BY <1>2, <2>2, <3>1, <3>2 DEF MigrateRawTimestamps, Opening
  <2>3. QED BY <2>1, <2>2
<1>3. CASE BackfillTokenMappings
  BY <1>3, LearnedTypes DEF BackfillTokenMappings, Opening
<1>4. CASE TokenMappingsDone
  BY <1>4 DEF TokenMappingsDone, Opening
<1>5. CASE BackfillProgramIndex
  <2>1. \A r \in rows : ProgEntries(r, BareKey(r)) \subseteq ProgRow
    BY EntryTypes, Keys
  <2>2. progIdx' \subseteq ProgRow
    BY <1>5, <2>1 DEF BackfillProgramIndex
  <2>3. QED BY <1>5, <2>2 DEF BackfillProgramIndex, Opening
<1>6. QED BY <1>1, <1>2, <1>3, <1>4, <1>5

\* A commit keeps every type; above all, no key gets a second row.
LEMMA CommitType ==
  ASSUME TypeOK, NEW r \in Decoded, Commit(r)
  PROVE  TypeOK'
<1>1. r \in Record /\ TxKey(r) \in Row
  BY Constants, Keys
<1>2. Opens(r) \subseteq Holdings
  BY <1>1 DEF Opens, Record
<1>3. ProgEntries(r, TxKey(r)) \subseteq ProgRow
  BY <1>1 DEF ProgEntries, ProgRow, Record
<1>4. CASE CommitNew(r)
  <2>1. (holds \cup Opens(r)) \in SUBSET Holdings
    BY <1>2 DEF TypeOK
  <2>2. r.accts \cup Definitions(r, holds \cup Opens(r)) \in SUBSET Accounts
    BY <1>1, <2>1, EntryTypes DEF Record
  <2>3. AcctEntries(r, r.accts \cup Definitions(r, holds \cup Opens(r)), TxKey(r)) \subseteq AcctRow
    BY <1>1, <2>1, <2>2, EntryTypes
  <2>4. FeedEntry(r) \in FeedRow /\ ChanEntry(r) \in ChanRow /\ ChanTimeEntry(r) \in TimeRow
    BY <1>1 DEF FeedEntry, ChanEntry, ChanTimeEntry, FeedRow, ChanRow, TimeRow, Record
  <2>5. Keyed(rows')
    BY <1>1, <1>4, Keys DEF CommitNew, Stored, Keyed, TypeOK, SameTx
  <2>6. QED BY <1>1, <1>3, <1>4, <2>1, <2>3, <2>4, <2>5
            DEF CommitNew, Serving, TypeOK
<1>5. CASE CommitAgain(r)
  <2>1. PICK s \in Stored(r) :
          /\ rows' = IF NeedsRewrite(s, r) THEN (rows \ {s}) \cup {r} ELSE rows
          /\ progIdx' = IF NeedsRewrite(s, r) /\ r.prog # s.prog
                        THEN Relabelled(progIdx, s, r) ELSE progIdx
          /\ Serving /\ holds' = holds \cup Opens(r)
          /\ UNCHANGED <<feed, chanIdx, chanTime, acctIdx, guessed, relearn, walk>>
    BY <1>5 DEF CommitAgain
  <2>2. s \in rows /\ SameTx(s, r)
    BY <1>1, Keys DEF Stored, TypeOK
  <2>3. rows' \subseteq Record /\ Keyed(rows')
    BY <1>1, <2>1, <2>2 DEF Keyed, TypeOK, SameTx
  <2>4. progIdx' \subseteq ProgRow
    BY <1>3, <2>1 DEF Relabelled, TypeOK
  <2>5. QED BY <1>2, <2>1, <2>3, <2>4 DEF Serving, TypeOK
<1>6. QED BY <1>4, <1>5 DEF Commit

\* The learner, the clients and a crash keep every type.
LEMMA OtherType ==
  ASSUME TypeOK,
         \/ \E P \in SUBSET Foreign : SetProgramKinds(P)
         \/ RelearnRead \/ RelearnWrite
         \/ \E h \in Holdings : LearnToken(h)
         \/ \E w \in Walks : StartWalk(w[1], w[2])
         \/ NextPage \/ Crash \/ UNCHANGED vars
  PROVE  TypeOK'
<1> USE DEF TypeOK, indexes, Serving
<1>1. CASE \E P \in SUBSET Foreign : SetProgramKinds(P)
  BY <1>1 DEF SetProgramKinds
<1>2. CASE RelearnRead
  BY <1>2, LearnedTypes DEF RelearnRead
<1>3. CASE RelearnWrite
  BY <1>3 DEF RelearnWrite, NoRelearn
<1>4. CASE \E h \in Holdings : LearnToken(h)
  BY <1>4 DEF LearnToken
<1>5. CASE \E w \in Walks : StartWalk(w[1], w[2])
  BY <1>5 DEF StartWalk
<1>6. CASE NextPage
  BY <1>6 DEF NextPage
<1>7. CASE Crash
  BY <1>7 DEF Crash, durable, NoRelearn, OpenSteps
<1>8. CASE UNCHANGED vars
  BY <1>8 DEF vars, durable
<1>9. QED BY <1>1, <1>2, <1>3, <1>4, <1>5, <1>6, <1>7, <1>8

LEMMA InitType == Init => TypeOK
<1> SUFFICES ASSUME Init PROVE TypeOK
  OBVIOUS
<1>1. rows \subseteq Record /\ Keyed(rows)
  BY Constants DEF Init, Keyed
<1>2. UNION {Opens(r) : r \in rows} \subseteq Holdings
  BY <1>1 DEF Opens, Record
<1>3. QED BY <1>1, <1>2 DEF Init, TypeOK, NoRelearn, OpenSteps

\* The store holds records, one under each key, and the indexes entries of their
\* own; whatever opening, committing, learning and crashing does to them.
THEOREM StoreTypes == Spec => []TypeOK
<1>1. TypeOK /\ [Next]_vars => TypeOK'
  BY MigrationType, CommitType, OtherType DEF Next, Commit
<1>2. QED BY <1>1, InitType, PTL DEF Spec

--------------------------------------------------------------------------------
(* Rows: what a hash stands for in a zone *)

\* Every row agrees with every record that a scan may still decode for it.  This
\* is what keeps the keys of index entries right when only the body is rewritten.
RowsKnown ==
  Stable => \A r \in rows, q \in Decoded : SameTx(r, q) =>
    /\ r.block = q.block /\ r.kind = q.kind /\ r.accts = q.accts
    /\ r.kind # "raw" => r.time = q.time

\* A rewrite keeps key, block, accounts and, for raw inscriptions are never
\* rewritten, time.
LEMMA Rewriting ==
  ASSUME TypeOK, RowsKnown, Stable, NEW r \in Decoded, NEW s \in Stored(r)
  PROVE  /\ r \in Record /\ s \in Record /\ s \in rows /\ SameTx(s, r) /\ TxKey(s) = TxKey(r)
         /\ s.chan = r.chan /\ s.block = r.block /\ s.accts = r.accts
         /\ NeedsRewrite(s, r) => s.time = r.time
<1>1. r \in Record /\ s \in Record /\ s \in rows /\ TxKey(s) = TxKey(r) /\ SameTx(s, r)
  BY Constants, Keys DEF Stored, TypeOK
<1>2. s.chan = r.chan /\ s.block = r.block /\ s.accts = r.accts /\ s.kind = r.kind
  BY <1>1 DEF RowsKnown, SameTx
<1>3. NeedsRewrite(s, r) => s.time = r.time
  BY <1>1, <1>2, Constants DEF RowsKnown, NeedsRewrite
<1>4. QED BY <1>1, <1>2, <1>3

\* The steps that change rows are the stamping of raw inscriptions and commits.
LEMMA RowSteps ==
  ASSUME [Next]_vars
  PROVE  \/ UNCHANGED rows
         \/ /\ ~meta["raw"]
            /\ \E at \in [{r \in rows : Stale(r)} -> Times] : MigrateRawTimestamps(at)
         \/ \E r \in Decoded : CommitNew(r)
         \/ \E r \in Decoded : CommitAgain(r)
<1>1. ASSUME NEW at \in [{r \in rows : Stale(r)} -> Times], MigrateRawTimestamps(at), meta["raw"]
      PROVE  UNCHANGED rows
  BY <1>1 DEF MigrateRawTimestamps
<1>2. QED BY <1>1 DEF Next, vars, durable, indexes, MigrateTxKeys, BackfillTokenMappings,
        TokenMappingsDone, BackfillProgramIndex, SetProgramKinds, RelearnRead, RelearnWrite,
        LearnToken, StartWalk, NextPage, Crash

THEOREM RowsAreKnown == Spec => []RowsKnown
<1>1. Init => RowsKnown
  BY DEF Init, RowsKnown, Stable, SameTx
<1>2. ASSUME TypeOK, RowsKnown, [Next]_vars PROVE RowsKnown'
  <2>1. CASE UNCHANGED rows
    BY <1>2, <2>1 DEF RowsKnown
  <2>2. ASSUME NEW at \in [{r \in rows : Stale(r)} -> Times], ~meta["raw"], MigrateRawTimestamps(at)
        PROVE  RowsKnown'
    <3>1. rows' = (rows \ DOMAIN at) \cup {[r EXCEPT !.time = at[r]] : r \in DOMAIN at}
      BY <2>2 DEF MigrateRawTimestamps
    <3>2. \A r \in rows' : \E s \in rows :
            /\ SameTx(r, s) /\ r.block = s.block /\ r.kind = s.kind /\ r.accts = s.accts
            /\ r.kind # "raw" => r.time = s.time
      <4>1. ASSUME NEW r \in DOMAIN at
            PROVE  /\ SameTx([r EXCEPT !.time = at[r]], r)
                   /\ [r EXCEPT !.time = at[r]].block = r.block
                   /\ [r EXCEPT !.time = at[r]].kind = "raw" /\ r.kind = "raw"
                   /\ [r EXCEPT !.time = at[r]].accts = r.accts
        BY <1>2, Stamping DEF TypeOK
      <4>2. DOMAIN at \subseteq rows
        OBVIOUS
      <4>3. \A r \in rows : SameTx(r, r)
        BY DEF SameTx
      <4>4. ASSUME NEW t \in rows', t \notin rows
            PROVE  \E r \in DOMAIN at : t = [r EXCEPT !.time = at[r]]
        BY <3>1, <4>4
      <4>5. ASSUME NEW t \in rows', t \notin rows
            PROVE  \E s \in rows :
                     /\ SameTx(t, s) /\ t.block = s.block /\ t.kind = s.kind /\ t.accts = s.accts
                     /\ t.kind # "raw" => t.time = s.time
        <5>1. PICK r \in DOMAIN at : t = [r EXCEPT !.time = at[r]]
          BY <4>4, <4>5
        <5>2. /\ SameTx(t, r) /\ t.block = r.block /\ t.kind = r.kind /\ t.accts = r.accts
              /\ t.kind = "raw"
          BY <4>1, <5>1
        <5>3. QED BY <4>2, <5>2
      <4>6. QED BY <4>3, <4>5
    <3>3. QED BY <1>2, <3>2 DEF RowsKnown, SameTx
  <2>3. ASSUME NEW r \in Decoded, CommitNew(r) \/ CommitAgain(r) PROVE RowsKnown'
    <3>1. rows' \subseteq rows \cup {r}
      BY <2>3 DEF CommitNew, CommitAgain
    <3>2. Stable => \A q \in Decoded : SameTx(r, q) =>
            /\ r.block = q.block /\ r.kind = q.kind /\ r.accts = q.accts
            /\ r.kind # "raw" => r.time = q.time
      BY DEF Stable
    <3>3. QED BY <1>2, <3>1, <3>2 DEF RowsKnown
  <2>4. QED BY <1>2, <2>1, <2>2, <2>3, RowSteps
<1>3. QED BY <1>1, <1>2, StoreTypes, PTL DEF Spec

--------------------------------------------------------------------------------
(* Feeds: the global one and the zones' block index *)


\* The steps that change the feeds or the rows, or mark the store as migrated.
LEMMA FeedSteps ==
  ASSUME TypeOK, [Next]_vars
  PROVE  \/ UNCHANGED <<rows, feed, chanIdx, chanTime>> /\ Migrated' = Migrated
         \/ ~meta["keys"] /\ MigrateTxKeys
         \/ /\ ~meta["raw"]
            /\ \E at \in [{r \in rows : Stale(r)} -> Times] : MigrateRawTimestamps(at)
         \/ \E r \in Decoded : CommitNew(r)
         \/ \E r \in Decoded : CommitAgain(r)
<1> USE DEF indexes, Migrated, Serving
<1>1. ASSUME NEW at \in [{r \in rows : Stale(r)} -> Times], MigrateRawTimestamps(at), meta["raw"]
      PROVE  UNCHANGED <<rows, feed, chanIdx, chanTime>> /\ Migrated' = Migrated
  BY <1>1 DEF MigrateRawTimestamps
<1>2. ASSUME MigrateTxKeys, meta["keys"]
      PROVE  UNCHANGED <<rows, feed, chanIdx, chanTime>> /\ Migrated' = Migrated
  BY <1>2 DEF MigrateTxKeys
<1>3. ASSUME TokenMappingsDone \/ BackfillProgramIndex
      PROVE  UNCHANGED <<rows, feed, chanIdx, chanTime>> /\ Migrated' = Migrated
  BY <1>3 DEF TokenMappingsDone, BackfillProgramIndex, TypeOK, Versions
<1>4. QED BY <1>1, <1>2, <1>3 DEF Next, vars, durable, BackfillTokenMappings,
        SetProgramKinds, RelearnRead, RelearnWrite, LearnToken, StartWalk, NextPage, Crash

\* A stamped row keeps its entry of the zone's block index and moves its entry of
\* the feed, which no other row shares.
LEMMA StampedFeed ==
  ASSUME TypeOK, FeedAgrees, Migrated, Stable,
         NEW at \in [{r \in rows : Stale(r)} -> Times], ~meta["raw"], MigrateRawTimestamps(at)
  PROVE  feed' = {FeedEntry(r) : r \in rows'} /\ chanIdx' = {ChanEntry(r) : r \in rows'}
<1> DEFINE stamp(r) == [r EXCEPT !.time = at[r]]
<1>1. /\ rows' = (rows \ DOMAIN at) \cup {stamp(r) : r \in DOMAIN at}
      /\ feed' = (feed \ {FeedEntry(r) : r \in DOMAIN at})
                   \cup {FeedEntry(r) : r \in {stamp(r) : r \in DOMAIN at}}
      /\ chanIdx' = chanIdx
  BY DEF MigrateRawTimestamps
<1>2. feed = {FeedEntry(r) : r \in rows} /\ chanIdx = {ChanEntry(r) : r \in rows}
  BY DEF FeedAgrees
<1>3. DOMAIN at \subseteq rows
  OBVIOUS
<1>4. \A r, s \in rows : FeedEntry(r) = FeedEntry(s) => r = s
  BY Keys DEF FeedEntry, TypeOK, Keyed
<1>5. \A r \in DOMAIN at : ChanEntry(stamp(r)) = ChanEntry(r)
  <2>1. ASSUME NEW r \in DOMAIN at
        PROVE  stamp(r).chan = r.chan /\ stamp(r).block = r.block /\ TxKey(stamp(r)) = TxKey(r)
    BY Stamping DEF TypeOK, SameTx
  <2>2. QED BY <2>1 DEF ChanEntry
<1> HIDE DEF stamp
<1>6. feed' = {FeedEntry(r) : r \in rows'}
  BY <1>1, <1>2, <1>3, <1>4
<1>7. chanIdx' = {ChanEntry(r) : r \in rows'}
  BY <1>1, <1>2, <1>3, <1>5
<1>8. QED BY <1>6, <1>7

\* The global feed and the zones' block index list each row once, at the time and
\* block of its stored body.
THEOREM FeedsAgree == Spec => []FeedAgrees
<1>1. Init => FeedAgrees
  BY DEF Init, FeedAgrees, Migrated
<1>2. ASSUME TypeOK, RowsKnown, FeedAgrees, [Next]_vars PROVE FeedAgrees'
  <2> SUFFICES ASSUME Migrated', Stable
               PROVE  feed' = {FeedEntry(r) : r \in rows'} /\ chanIdx' = {ChanEntry(r) : r \in rows'}
    BY DEF FeedAgrees
  <2>1. CASE UNCHANGED <<rows, feed, chanIdx, chanTime>> /\ Migrated' = Migrated
    BY <1>2, <2>1 DEF FeedAgrees
  <2>2. CASE ~meta["keys"] /\ MigrateTxKeys
    BY <2>2 DEF MigrateTxKeys
  <2>3. ASSUME NEW at \in [{r \in rows : Stale(r)} -> Times], ~meta["raw"], MigrateRawTimestamps(at)
        PROVE  feed' = {FeedEntry(r) : r \in rows'} /\ chanIdx' = {ChanEntry(r) : r \in rows'}
    <3>1. Migrated
      BY <1>2, <2>3 DEF Migrated, MigrateRawTimestamps, TypeOK, Versions
    <3>2. QED BY <1>2, <2>3, <3>1, StampedFeed
  <2>4. ASSUME NEW r \in Decoded, CommitNew(r)
        PROVE  feed' = {FeedEntry(t) : t \in rows'} /\ chanIdx' = {ChanEntry(t) : t \in rows'}
    <3>1. feed = {FeedEntry(t) : t \in rows} /\ chanIdx = {ChanEntry(t) : t \in rows}
      BY <1>2, <2>4 DEF FeedAgrees, Migrated, CommitNew, Serving
    <3>2. QED BY <2>4, <3>1 DEF CommitNew
  <2>5. ASSUME NEW r \in Decoded, CommitAgain(r)
        PROVE  feed' = {FeedEntry(t) : t \in rows'} /\ chanIdx' = {ChanEntry(t) : t \in rows'}
    <3>1. feed = {FeedEntry(t) : t \in rows} /\ chanIdx = {ChanEntry(t) : t \in rows}
      BY <1>2, <2>5 DEF FeedAgrees, Migrated, CommitAgain, Serving
    <3>2. PICK s \in Stored(r) : rows' = IF NeedsRewrite(s, r) THEN (rows \ {s}) \cup {r} ELSE rows
      BY <2>5 DEF CommitAgain
    <3>3. NeedsRewrite(s, r) => FeedEntry(s) = FeedEntry(r) /\ ChanEntry(s) = ChanEntry(r)
      BY <1>2, Rewriting DEF FeedEntry, ChanEntry
    <3>4. s \in rows /\ feed' = feed /\ chanIdx' = chanIdx
      BY <2>5 DEF CommitAgain, Stored
    <3>5. QED BY <3>1, <3>2, <3>3, <3>4
  <2>6. QED BY <1>2, <2>1, <2>2, <2>3, <2>4, <2>5, FeedSteps
<1>3. QED BY <1>1, <1>2, StoreTypes, RowsAreKnown, PTL DEF Spec

\* The keys of the rows after each step that changes rows.
LEMMA RowKeys ==
  ASSUME TypeOK, [Next]_vars
  PROVE  \/ {TxKey(r) : r \in rows'} = {TxKey(r) : r \in rows}
         \/ \E r \in Decoded : CommitNew(r)
<1>1. ASSUME NEW at \in [{r \in rows : Stale(r)} -> Times], ~meta["raw"], MigrateRawTimestamps(at)
      PROVE  {TxKey(r) : r \in rows'} = {TxKey(r) : r \in rows}
  <2> DEFINE stamp(r) == [r EXCEPT !.time = at[r]]
  <2>1. rows' = (rows \ DOMAIN at) \cup {stamp(r) : r \in DOMAIN at}
    BY <1>1 DEF MigrateRawTimestamps
  <2>2. \A r \in DOMAIN at : TxKey(stamp(r)) = TxKey(r)
    BY Stamping DEF TypeOK
  <2> HIDE DEF stamp
  <2>3. DOMAIN at \subseteq rows
    OBVIOUS
  <2>4. QED BY <2>1, <2>2, <2>3
<1>2. ASSUME NEW r \in Decoded, CommitAgain(r)
      PROVE  {TxKey(t) : t \in rows'} = {TxKey(t) : t \in rows}
  BY <1>2 DEF CommitAgain, Stored
<1>3. QED BY <1>1, <1>2, RowSteps

\* A zone's feed has one entry for each of its rows and none for another's.
THEOREM ZoneFeedsAgree == Spec => []ZoneFeedAgrees
<1> DEFINE Good(idx, R) == /\ {e.row : e \in idx} = {TxKey(r) : r \in R}
                           /\ \A e, f \in idx : e.row = f.row => e = f
                           /\ \A e \in idx : e.chan = e.row[2]
<1>1. Init => ZoneFeedAgrees
  BY DEF Init, ZoneFeedAgrees, Migrated
<1>2. ASSUME TypeOK, ZoneFeedAgrees, [Next]_vars PROVE ZoneFeedAgrees'
  <2> SUFFICES ASSUME Migrated' PROVE Good(chanTime', rows')
    BY DEF ZoneFeedAgrees
  <2>1. CASE UNCHANGED <<rows, feed, chanIdx, chanTime>> /\ Migrated' = Migrated
    BY <1>2, <2>1 DEF ZoneFeedAgrees
  <2>2. CASE ~meta["keys"] /\ MigrateTxKeys
    <3>1. rows' = rows /\ chanTime' = {ChanTimeEntry(r) : r \in rows}
      BY <2>2 DEF MigrateTxKeys
    <3>2. \A r \in rows : ChanTimeEntry(r).row = TxKey(r) /\ ChanTimeEntry(r).chan = TxKey(r)[2]
      BY DEF ChanTimeEntry, TxKey
    <3>3. \A r, s \in rows : TxKey(r) = TxKey(s) => r = s
      BY <1>2, Keys DEF TypeOK, Keyed
    <3>4. QED BY <3>1, <3>2, <3>3
  <2>3. ASSUME NEW at \in [{r \in rows : Stale(r)} -> Times], ~meta["raw"], MigrateRawTimestamps(at)
        PROVE  Good(chanTime', rows')
    <3>1. Migrated /\ chanTime' = chanTime /\ ~\E r \in Decoded : CommitNew(r)
      BY <1>2, <2>3 DEF Migrated, MigrateRawTimestamps, TypeOK, Versions, Opening, CommitNew, Serving
    <3>2. QED BY <1>2, <3>1, RowKeys DEF ZoneFeedAgrees
  <2>4. ASSUME NEW r \in Decoded, CommitNew(r) PROVE Good(chanTime', rows')
    <3>1. Good(chanTime, rows)
      BY <1>2, <2>4 DEF ZoneFeedAgrees, Migrated, CommitNew, Serving
    <3>2. \A t \in rows : TxKey(t) # TxKey(r)
      BY <2>4 DEF CommitNew, Stored
    <3>3. ChanTimeEntry(r).row = TxKey(r) /\ ChanTimeEntry(r).chan = TxKey(r)[2]
      BY DEF ChanTimeEntry, TxKey
    <3>4. chanTime' = chanTime \cup {ChanTimeEntry(r)} /\ rows' = rows \cup {r}
      BY <2>4 DEF CommitNew
    <3>5. \A e \in chanTime : e.row # TxKey(r)
      BY <3>1, <3>2
    <3>6. \A e, f \in chanTime' : e.row = f.row => e = f
      BY <3>1, <3>3, <3>4, <3>5
    <3>7. \A e \in chanTime' : e.chan = e.row[2]
      BY <3>1, <3>3, <3>4
    <3>8. {e.row : e \in chanTime'} = {TxKey(t) : t \in rows'}
      BY <3>1, <3>3, <3>4
    <3>9. QED BY <3>6, <3>7, <3>8
  <2>5. ASSUME NEW r \in Decoded, CommitAgain(r) PROVE Good(chanTime', rows')
    <3>1. Good(chanTime, rows) /\ chanTime' = chanTime
      BY <1>2, <2>5 DEF ZoneFeedAgrees, Migrated, CommitAgain, Serving
    <3>2. {TxKey(t) : t \in rows'} = {TxKey(t) : t \in rows}
      BY <2>5 DEF CommitAgain, Stored
    <3>3. QED BY <3>1, <3>2
  <2>6. QED BY <1>2, <2>1, <2>2, <2>3, <2>4, <2>5, FeedSteps
<1>3. QED BY <1>1, <1>2, StoreTypes, PTL DEF Spec

\* A row stays under its key: no other zone's copy replaces it, and no migration,
\* rewrite or crash drops it.
THEOREM NothingIsLost == Spec => NothingLost
<1>1. ASSUME TypeOK, TypeOK', [Next]_vars PROVE \A r \in rows : \E s \in rows' : SameTx(r, s)
  <2> SUFFICES ASSUME NEW r \in rows PROVE \E s \in rows' : SameTx(r, s)
    OBVIOUS
  <2>1. \E s \in rows' : TxKey(s) = TxKey(r)
    <3>1. CASE {TxKey(t) : t \in rows'} = {TxKey(t) : t \in rows}
      BY <3>1
    <3>2. CASE \E q \in Decoded : CommitNew(q)
      BY <3>2 DEF CommitNew
    <3>3. QED BY <1>1, <3>1, <3>2, RowKeys
  <2>2. QED BY <1>1, <2>1, Keys DEF TypeOK
<1>2. QED BY <1>1, StoreTypes, PTL DEF Spec, NothingLost

--------------------------------------------------------------------------------
(* The program index *)

\* The entry of a row, as the program index should hold it.
Own(r) == ProgEntries(r, TxKey(r))

\* The entry of a row names the row.
LEMMA OwnEntry ==
  ASSUME NEW r \in Record, NEW e \in Own(r)
  PROVE  e.row = TxKey(r) /\ e.row[2] # 0
<1>1. e.row = TxKey(r)
  BY DEF Own, ProgEntries
<1>2. QED BY <1>1, Keys

\* Rows of one key, zone, block and label have one entry.
LEMMA OwnDepends ==
  ASSUME NEW r, NEW s, TxKey(r) = TxKey(s), r.chan = s.chan, r.block = s.block, r.prog = s.prog
  PROVE  Own(r) = Own(s)
  BY DEF Own, ProgEntries

\* Replacing a row and its entry keeps the index that of the rows.
LEMMA Replacing ==
  ASSUME rows \subseteq Record, Keyed(rows), NEW r \in Record, NEW s \in rows, TxKey(r) = TxKey(s),
         {e \in progIdx : e.row[2] # 0} = UNION {Own(t) : t \in rows},
         rows' = (rows \ {s}) \cup {r}, progIdx' = (progIdx \ Own(s)) \cup Own(r)
  PROVE  {e \in progIdx' : e.row[2] # 0} = UNION {Own(t) : t \in rows'}
<1>1. ASSUME NEW e \in progIdx', e.row[2] # 0 PROVE \E t \in rows' : e \in Own(t)
  <2>1. CASE e \in Own(r)
    BY <2>1
  <2>2. CASE e \notin Own(r)
    <3>1. e \in progIdx /\ e \notin Own(s)
      BY <2>2
    <3>2. QED BY <1>1, <3>1
  <2>3. QED BY <2>1, <2>2
<1>2. ASSUME NEW t \in rows', NEW e \in Own(t) PROVE e \in progIdx' /\ e.row[2] # 0
  <2>1. t \in Record /\ e.row = TxKey(t) /\ e.row[2] # 0
    BY OwnEntry
  <2>2. CASE t = r
    BY <2>1, <2>2
  <2>3. CASE t \in rows /\ t # s
    <3>1. e \in progIdx
      BY <2>1, <2>3
    <3>2. TxKey(t) # TxKey(s)
      BY <2>3, Keys DEF Keyed
    <3>3. e \notin Own(s)
      BY <2>1, <3>2, OwnEntry
    <3>4. QED BY <2>1, <3>1, <3>3
  <2>4. QED BY <2>2, <2>3
<1>3. QED BY <1>1, <1>2

\* The steps that change the program index or the rows.
LEMMA ProgramSteps ==
  ASSUME TypeOK, [Next]_vars
  PROVE  \/ UNCHANGED <<rows, progIdx>> /\ Migrated' = Migrated
         \/ ~meta["keys"] /\ MigrateTxKeys
         \/ ~meta["progs"] /\ BackfillProgramIndex
         \/ /\ ~meta["raw"]
            /\ \E at \in [{r \in rows : Stale(r)} -> Times] : MigrateRawTimestamps(at)
         \/ \E r \in Decoded : CommitNew(r)
         \/ \E r \in Decoded : CommitAgain(r)
<1> USE DEF indexes, Migrated, Serving
<1>1. ASSUME NEW at \in [{r \in rows : Stale(r)} -> Times], MigrateRawTimestamps(at), meta["raw"]
      PROVE  UNCHANGED <<rows, progIdx>> /\ Migrated' = Migrated
  BY <1>1 DEF MigrateRawTimestamps
<1>2. ASSUME MigrateTxKeys, meta["keys"]
      PROVE  UNCHANGED <<rows, progIdx>> /\ Migrated' = Migrated
  BY <1>2 DEF MigrateTxKeys
<1>3. ASSUME TokenMappingsDone \/ (BackfillProgramIndex /\ meta["progs"])
      PROVE  UNCHANGED <<rows, progIdx>> /\ Migrated' = Migrated
  BY <1>3 DEF TokenMappingsDone, BackfillProgramIndex, TypeOK, Versions
<1>4. QED BY <1>1, <1>2, <1>3 DEF Next, vars, durable, BackfillTokenMappings,
        SetProgramKinds, RelearnRead, RelearnWrite, LearnToken, StartWalk, NextPage, Crash

\* The program index lists each row under its present program and no other, apart
\* from the entries that name no row.
THEOREM ProgramIndexAgrees == Spec => []ProgramsAgree
<1> DEFINE Good(idx, R) == {e \in idx : e.row[2] # 0} = UNION {Own(r) : r \in R}
<1>1. Init => ProgramsAgree
  BY DEF Init, ProgramsAgree, Migrated
<1>2. ASSUME TypeOK, RowsKnown, ProgramsAgree, [Next]_vars PROVE ProgramsAgree'
  <2> SUFFICES ASSUME Migrated', Stable PROVE Good(progIdx', rows')
    BY DEF ProgramsAgree, Own
  <2>0. Migrated => Good(progIdx, rows)
    BY <1>2 DEF ProgramsAgree, Own
  <2>1. CASE UNCHANGED <<rows, progIdx>> /\ Migrated' = Migrated
    BY <2>0, <2>1
  <2>2. CASE ~meta["keys"] /\ MigrateTxKeys
    <3>1. rows' = rows /\ progIdx' = UNION {Own(r) : r \in rows}
      BY <2>2 DEF MigrateTxKeys, Own
    <3>2. \A r \in rows : \A e \in Own(r) : e.row[2] # 0
      BY <1>2, OwnEntry DEF TypeOK
    <3>3. QED BY <3>1, <3>2
  <2>3. CASE ~meta["progs"] /\ BackfillProgramIndex
    <3>1. Good(progIdx, rows)
      BY <1>2, <2>0, <2>3 DEF Migrated, BackfillProgramIndex, TypeOK, Versions
    <3>2. ASSUME NEW r \in rows, NEW e \in ProgEntries(r, BareKey(r)) PROVE e.row[2] = 0
      <4>1. e.row = BareKey(r)
        BY <3>2 DEF ProgEntries
      <4>2. QED BY <1>2, <4>1, Keys DEF TypeOK
    <3>3. rows' = rows /\ progIdx' = progIdx \cup UNION {ProgEntries(r, BareKey(r)) : r \in rows}
      BY <2>3 DEF BackfillProgramIndex
    <3>4. {e \in progIdx' : e.row[2] # 0} = {e \in progIdx : e.row[2] # 0}
      BY <3>2, <3>3
    <3>5. QED BY <3>1, <3>3, <3>4
  <2>4. ASSUME NEW at \in [{r \in rows : Stale(r)} -> Times], ~meta["raw"], MigrateRawTimestamps(at)
        PROVE  Good(progIdx', rows')
    <3> DEFINE stamp(r) == [r EXCEPT !.time = at[r]]
    <3>1. Good(progIdx, rows) /\ progIdx' = progIdx
      BY <1>2, <2>0, <2>4 DEF Migrated, MigrateRawTimestamps, TypeOK, Versions
    <3>2. rows' = (rows \ DOMAIN at) \cup {stamp(r) : r \in DOMAIN at} /\ DOMAIN at \subseteq rows
      BY <2>4 DEF MigrateRawTimestamps
    <3>3. ASSUME NEW r \in DOMAIN at PROVE Own(stamp(r)) = Own(r)
      <4>1. /\ TxKey(stamp(r)) = TxKey(r) /\ stamp(r).chan = r.chan
            /\ stamp(r).block = r.block /\ stamp(r).prog = r.prog
        BY <1>2, Stamping DEF TypeOK, SameTx
      <4>2. QED BY <4>1, OwnDepends
    <3> HIDE DEF stamp
    <3>4. UNION {Own(r) : r \in rows'} = UNION {Own(r) : r \in rows}
      BY <3>2, <3>3
    <3>5. QED BY <3>1, <3>4
  <2>5. ASSUME NEW r \in Decoded, CommitNew(r) PROVE Good(progIdx', rows')
    <3>1. Good(progIdx, rows)
      BY <2>0, <2>5 DEF Migrated, CommitNew, Serving
    <3>2. progIdx' = progIdx \cup Own(r) /\ rows' = rows \cup {r}
      BY <2>5 DEF CommitNew, Own
    <3>3. \A e \in Own(r) : e.row[2] # 0
      BY Constants, OwnEntry
    <3>4. QED BY <3>1, <3>2, <3>3
  <2>6. ASSUME NEW r \in Decoded, CommitAgain(r) PROVE Good(progIdx', rows')
    <3>1. Good(progIdx, rows)
      BY <2>0, <2>6 DEF Migrated, CommitAgain, Serving
    <3>2. PICK s \in Stored(r) :
            /\ rows' = IF NeedsRewrite(s, r) THEN (rows \ {s}) \cup {r} ELSE rows
            /\ progIdx' = IF NeedsRewrite(s, r) /\ r.prog # s.prog
                          THEN Relabelled(progIdx, s, r) ELSE progIdx
      BY <2>6 DEF CommitAgain
    <3>3. r \in Record /\ s \in Record /\ s \in rows /\ TxKey(s) = TxKey(r) /\ s.chan = r.chan /\ s.block = r.block
      BY <1>2, Rewriting
    <3>4. CASE ~NeedsRewrite(s, r)
      BY <3>1, <3>2, <3>4
    <3>5. CASE NeedsRewrite(s, r)
      <4>1. progIdx' = (progIdx \ Own(s)) \cup Own(r)
        <5>1. CASE r.prog = s.prog
          <6>1. Own(r) = Own(s)
            BY <3>3, <5>1, OwnDepends
          <6>2. Own(s) \subseteq progIdx
            BY <3>1, <3>3
          <6>3. QED BY <3>2, <5>1, <6>1, <6>2
        <5>2. CASE r.prog # s.prog
          <6>1. /\ [r EXCEPT !.prog = s.prog].prog = s.prog
                /\ [r EXCEPT !.prog = s.prog].chan = s.chan
                /\ [r EXCEPT !.prog = s.prog].block = s.block
            BY <3>3 DEF Record
          <6>2. ProgEntries([r EXCEPT !.prog = s.prog], TxKey(r)) = Own(s)
            BY <3>3, <6>1 DEF Own, ProgEntries
          <6>3. QED BY <3>2, <3>5, <5>2, <6>2 DEF Relabelled, Own
        <5>3. QED BY <5>1, <5>2
      <4>2. QED BY <1>2, <3>1, <3>2, <3>3, <3>5, <4>1, Replacing DEF TypeOK
    <3>6. QED BY <3>4, <3>5
  <2>7. QED BY <1>2, <2>1, <2>2, <2>3, <2>4, <2>5, <2>6, ProgramSteps
<1>3. QED BY <1>1, <1>2, StoreTypes, RowsAreKnown, PTL DEF Spec

--------------------------------------------------------------------------------
(* The account index *)

\* What the learner is about to write names no row.
RelearnBare == \A e \in relearn.entries : e.row[2] = 0

LEMMA RelearnsBare == Spec => []RelearnBare
<1>1. Init => RelearnBare
  BY DEF Init, NoRelearn, RelearnBare
<1>2. ASSUME TypeOK, RelearnBare, [Next]_vars PROVE RelearnBare'
  <2>1. CASE RelearnRead
    BY <1>2, <2>1, LearnedTypes DEF RelearnRead, RelearnBare, TypeOK
  <2>2. CASE RelearnWrite \/ Crash
    BY <2>2 DEF RelearnWrite, Crash, NoRelearn, RelearnBare
  <2>3. CASE UNCHANGED relearn
    BY <1>2, <2>3 DEF RelearnBare
  <2>4. QED BY <1>2, <2>1, <2>2, <2>3 DEF Next, vars, MigrateTxKeys, MigrateRawTimestamps,
          BackfillTokenMappings, TokenMappingsDone, BackfillProgramIndex, Opening, CommitNew,
          CommitAgain, SetProgramKinds, LearnToken, StartWalk, NextPage
<1>3. QED BY <1>1, <1>2, StoreTypes, PTL DEF Spec

\* The accounts under which a row may be listed, when the holdings are known.
Related(r, known) == r.accts \cup {Definition[a] : a \in r.accts \cap known}

\* Every row is listed under its accounts, and an entry with a zone is a row's.
Listed(idx, R, known) ==
  /\ \A r \in R : AcctEntries(r, r.accts, TxKey(r)) \subseteq idx
  /\ \A e \in idx : e.row[2] # 0 => \E r \in R : e.row = TxKey(r) /\ e.acct \in Related(r, known)

\* The steps that change rows or the account index; the others leave both, and
\* forget no holding.
LEMMA AccountSteps ==
  ASSUME TypeOK, RelearnBare, [Next]_vars
  PROVE  \/ /\ rows' = rows /\ acctIdx \subseteq acctIdx' /\ holds \subseteq holds' /\ Migrated' = Migrated
            /\ \A e \in acctIdx' \ acctIdx : e.row[2] = 0
         \/ ~meta["keys"] /\ MigrateTxKeys
         \/ /\ ~meta["raw"]
            /\ \E at \in [{r \in rows : Stale(r)} -> Times] : MigrateRawTimestamps(at)
         \/ \E r \in Decoded : CommitNew(r)
         \/ \E r \in Decoded : CommitAgain(r)
<1> DEFINE Quiet == /\ rows' = rows /\ acctIdx \subseteq acctIdx' /\ holds \subseteq holds' /\ Migrated' = Migrated
                    /\ \A e \in acctIdx' \ acctIdx : e.row[2] = 0
<1> USE DEF indexes, Migrated, Serving
<1>1. ASSUME NEW at \in [{r \in rows : Stale(r)} -> Times], MigrateRawTimestamps(at), meta["raw"]
      PROVE  Quiet
  BY <1>1 DEF MigrateRawTimestamps
<1>2. ASSUME MigrateTxKeys, meta["keys"] PROVE Quiet
  BY <1>2 DEF MigrateTxKeys
<1>3. ASSUME BackfillTokenMappings PROVE Quiet
  BY <1>3, LearnedTypes DEF BackfillTokenMappings, TypeOK
<1>4. ASSUME TokenMappingsDone \/ BackfillProgramIndex PROVE Quiet
  BY <1>4 DEF TokenMappingsDone, BackfillProgramIndex, TypeOK, Versions
<1>5. ASSUME RelearnWrite PROVE Quiet
  BY <1>5, RelearnBare DEF RelearnWrite, RelearnBare
<1>6. ASSUME \/ \E P \in SUBSET Foreign : SetProgramKinds(P)
             \/ RelearnRead
             \/ \E h \in Holdings : LearnToken(h)
             \/ \E w \in Walks : StartWalk(w[1], w[2])
             \/ NextPage \/ Crash \/ UNCHANGED vars
      PROVE  Quiet
  BY <1>6 DEF SetProgramKinds, RelearnRead, LearnToken, StartWalk, NextPage, Crash, vars, durable
<1>7. QED BY <1>1, <1>2, <1>3, <1>4, <1>5, <1>6 DEF Next

\* The entries of a row under its accounts and its definitions are its own.
LEMMA RowEntries ==
  ASSUME NEW r, NEW known
  PROVE  /\ AcctEntries(r, r.accts, TxKey(r))
              \subseteq AcctEntries(r, r.accts \cup Definitions(r, known), TxKey(r))
         /\ \A e \in AcctEntries(r, r.accts \cup Definitions(r, known), TxKey(r)) :
              e.row = TxKey(r) /\ e.acct \in Related(r, known)
  BY DEF AcctEntries, Definitions, Related

\* A page of an account lists all its own transactions, and besides them only the
\* token transactions of holdings that belong to it.
THEOREM AccountIndexAgrees == Spec => []AccountsAgree
<1>1. Init => AccountsAgree
  BY DEF Init, AccountsAgree, Migrated
<1>2. ASSUME TypeOK, RowsKnown, RelearnBare, AccountsAgree, [Next]_vars PROVE AccountsAgree'
  <2> SUFFICES ASSUME Migrated', Stable PROVE Listed(acctIdx', rows', holds')
    BY DEF AccountsAgree, Listed, Related
  <2>0. Migrated => Listed(acctIdx, rows, holds)
    BY <1>2 DEF AccountsAgree, Listed, Related
  <2>1. CASE /\ rows' = rows /\ acctIdx \subseteq acctIdx' /\ holds \subseteq holds' /\ Migrated' = Migrated
             /\ \A e \in acctIdx' \ acctIdx : e.row[2] = 0
    <3>1. \A r \in rows : Related(r, holds) \subseteq Related(r, holds')
      BY <2>1 DEF Related
    <3>2. QED BY <2>0, <2>1, <3>1 DEF Listed
  <2>2. CASE ~meta["keys"] /\ MigrateTxKeys
    <3>1. /\ rows' = rows /\ holds' = holds
          /\ acctIdx' = UNION {AcctEntries(r, r.accts \cup Definitions(r, holds), TxKey(r)) : r \in rows}
      BY <2>2 DEF MigrateTxKeys
    <3> DEFINE E(r) == AcctEntries(r, r.accts \cup Definitions(r, holds), TxKey(r))
    <3>2. \A r \in rows : /\ AcctEntries(r, r.accts, TxKey(r)) \subseteq E(r)
                          /\ \A e \in E(r) : e.row = TxKey(r) /\ e.acct \in Related(r, holds)
      BY RowEntries
    <3>3. acctIdx' = UNION {E(r) : r \in rows}
      BY <3>1
    <3> HIDE DEF E
    <3>4. \A r \in rows : AcctEntries(r, r.accts, TxKey(r)) \subseteq acctIdx'
      BY <3>2, <3>3
    <3>5. \A e \in acctIdx' : \E r \in rows : e.row = TxKey(r) /\ e.acct \in Related(r, holds)
      BY <3>2, <3>3
    <3>6. rows' = rows /\ holds' = holds
      BY <3>1
    <3>7. QED BY <3>4, <3>5, <3>6 DEF Listed
  <2>3. ASSUME NEW at \in [{r \in rows : Stale(r)} -> Times], ~meta["raw"], MigrateRawTimestamps(at)
        PROVE  Listed(acctIdx', rows', holds')
    <3> DEFINE stamp(r) == [r EXCEPT !.time = at[r]]
    <3>1. Listed(acctIdx, rows, holds) /\ acctIdx' = acctIdx /\ holds' = holds
      BY <1>2, <2>0, <2>3 DEF Migrated, MigrateRawTimestamps, TypeOK, Versions
    <3>2. rows' = (rows \ DOMAIN at) \cup {stamp(r) : r \in DOMAIN at} /\ DOMAIN at \subseteq rows
      BY <2>3 DEF MigrateRawTimestamps
    <3>3. ASSUME NEW r \in DOMAIN at
          PROVE  /\ TxKey(stamp(r)) = TxKey(r) /\ Related(stamp(r), holds) = Related(r, holds)
                 /\ AcctEntries(stamp(r), stamp(r).accts, TxKey(stamp(r))) = AcctEntries(r, r.accts, TxKey(r))
      <4>1. TxKey(stamp(r)) = TxKey(r) /\ stamp(r).accts = r.accts /\ stamp(r).block = r.block
        BY <1>2, Stamping DEF TypeOK
      <4>2. QED BY <4>1 DEF Related, AcctEntries
    <3> HIDE DEF stamp
    <3>4. \A r \in rows' : AcctEntries(r, r.accts, TxKey(r)) \subseteq acctIdx
      BY <3>1, <3>2, <3>3 DEF Listed
    <3>5. \A s \in rows : \E r \in rows' : TxKey(r) = TxKey(s) /\ Related(r, holds) = Related(s, holds)
      BY <3>2, <3>3
    <3>6. QED BY <3>1, <3>4, <3>5 DEF Listed
  <2>4. ASSUME NEW r \in Decoded, CommitNew(r) PROVE Listed(acctIdx', rows', holds')
    <3>1. Listed(acctIdx, rows, holds)
      BY <2>0, <2>4 DEF Migrated, CommitNew, Serving
    <3>2. /\ holds' = holds \cup Opens(r) /\ rows' = rows \cup {r}
          /\ acctIdx' = acctIdx \cup AcctEntries(r, r.accts \cup Definitions(r, holds'), TxKey(r))
      BY <2>4 DEF CommitNew
    <3>3. \A t \in rows : Related(t, holds) \subseteq Related(t, holds')
      BY <3>2 DEF Related
    <3>4. QED BY <3>1, <3>2, <3>3, RowEntries DEF Listed
  <2>5. ASSUME NEW r \in Decoded, CommitAgain(r) PROVE Listed(acctIdx', rows', holds')
    <3>1. Listed(acctIdx, rows, holds)
      BY <2>0, <2>5 DEF Migrated, CommitAgain, Serving
    <3>2. PICK s \in Stored(r) : rows' = IF NeedsRewrite(s, r) THEN (rows \ {s}) \cup {r} ELSE rows
      BY <2>5 DEF CommitAgain
    <3>3. holds \subseteq holds' /\ acctIdx' = acctIdx
      BY <2>5 DEF CommitAgain
    <3>4. s \in rows /\ TxKey(s) = TxKey(r) /\ s.block = r.block /\ s.accts = r.accts
      BY <1>2, Rewriting
    <3>5. /\ AcctEntries(r, r.accts, TxKey(r)) = AcctEntries(s, s.accts, TxKey(s))
          /\ \A k : Related(r, k) = Related(s, k)
      BY <3>4 DEF AcctEntries, Related
    <3>6. \A t \in rows : Related(t, holds) \subseteq Related(t, holds')
      BY <3>3 DEF Related
    <3>7. \A t \in rows' : AcctEntries(t, t.accts, TxKey(t)) \subseteq acctIdx
      BY <3>1, <3>2, <3>4, <3>5 DEF Listed
    <3>8. \A t \in rows : \E u \in rows' : TxKey(u) = TxKey(t) /\ Related(t, holds) \subseteq Related(u, holds')
      <4>1. ASSUME NEW t \in rows PROVE \E u \in rows' : TxKey(u) = TxKey(t) /\ Related(t, holds) \subseteq Related(u, holds')
        <5>1. CASE t \in rows'
          BY <3>6, <5>1
        <5>2. CASE t \notin rows'
          BY <3>2, <3>4, <3>5, <3>6, <5>2
        <5>3. QED BY <5>1, <5>2
      <4>2. QED BY <4>1
    <3>9. QED BY <3>1, <3>3, <3>7, <3>8 DEF Listed
  <2>6. QED BY <1>2, <2>1, <2>2, <2>3, <2>4, <2>5, AccountSteps
<1>3. QED BY <1>1, <1>2, StoreTypes, RowsAreKnown, RelearnsBare, PTL DEF Spec

--------------------------------------------------------------------------------
(* Pages *)

\* The store is finite, for it grows a row at a time.
Finite == IsFiniteSet(rows)

LEMMA RowsFinite == Spec => []Finite
<1>1. Init => Finite
  BY StoreAssumption, FS_EmptySet DEF Init, Finite
<1>2. ASSUME TypeOK, Finite, [Next]_vars PROVE Finite'
  <2> USE DEF Finite
  <2>1. ASSUME NEW at \in [{r \in rows : Stale(r)} -> Times], ~meta["raw"], MigrateRawTimestamps(at)
        PROVE  IsFiniteSet(rows')
    <3> DEFINE stamp(r) == [r EXCEPT !.time = at[r]]
               stamped == {stamp(r) : r \in DOMAIN at}
               f == [r \in DOMAIN at |-> stamp(r)]
    <3>1. rows' = (rows \ DOMAIN at) \cup stamped
      BY <2>1 DEF MigrateRawTimestamps
    <3>2. IsFiniteSet(DOMAIN at) /\ IsFiniteSet(rows \ DOMAIN at)
      BY <1>2, FS_Subset
    <3> HIDE DEF stamp
    <3>3. f \in Surjection(DOMAIN at, stamped)
      BY DEF Surjection
    <3>4. IsFiniteSet(stamped)
      BY <3>2, <3>3, FS_Surjection
    <3>5. QED BY <3>1, <3>2, <3>4, FS_Union
  <2>2. ASSUME NEW r \in Decoded, CommitNew(r) PROVE IsFiniteSet(rows')
    BY <1>2, <2>2, FS_AddElement DEF CommitNew
  <2>3. ASSUME NEW r \in Decoded, CommitAgain(r) PROVE IsFiniteSet(rows')
    <3>1. PICK s \in Stored(r) : rows' = IF NeedsRewrite(s, r) THEN (rows \ {s}) \cup {r} ELSE rows
      BY <2>3 DEF CommitAgain
    <3>2. IsFiniteSet((rows \ {s}) \cup {r})
      BY <1>2, FS_RemoveElement, FS_AddElement
    <3>3. QED BY <1>2, <3>1, <3>2
  <2>4. QED BY <1>2, <2>1, <2>2, <2>3, RowSteps
<1>3. QED BY <1>1, <1>2, StoreTypes, PTL DEF Spec

\* The order of a walk: one direction or the other of the order of the time indexes.
Before(oldest, e, f) == IF oldest THEN Precedes(f, e) ELSE Precedes(e, f)

\* The entries that precede e, in the direction of the walk.
Sooner(oldest, S, e) == {f \in S : Before(oldest, f, e)}

\* It is a strict total order.
LEMMA FeedOrder ==
  ASSUME NEW b \in BOOLEAN
  PROVE  /\ \A e \in FeedRow : ~Before(b, e, e)
         /\ \A e, f \in FeedRow : e = f \/ Before(b, e, f) \/ Before(b, f, e)
         /\ \A e, f, g \in FeedRow : Before(b, e, f) /\ Before(b, f, g) => Before(b, e, g)
         /\ \A e, f \in FeedRow : Before(~b, e, f) <=> Before(b, f, e)
<1>1. \A e \in FeedRow : e.time \in Nat /\ e.block \in Nat /\ e.row[1] \in Nat /\ e.row[2] \in Nat
  BY DEF FeedRow, Row
<1>2. ASSUME NEW e \in FeedRow, NEW f \in FeedRow, e.time = f.time, e.block = f.block,
             e.row[1] = f.row[1], e.row[2] = f.row[2]
      PROVE  e = f
  BY <1>2 DEF FeedRow, Row
<1>3. \A e \in FeedRow : ~Precedes(e, e)
  BY <1>1 DEF Precedes
<1>4. \A e, f \in FeedRow : e = f \/ Precedes(e, f) \/ Precedes(f, e)
  <2> SUFFICES ASSUME NEW e \in FeedRow, NEW f \in FeedRow, ~Precedes(e, f), ~Precedes(f, e)
               PROVE  e = f
    OBVIOUS
  <2>1. e.time = f.time
    BY <1>1 DEF Precedes
  <2>2. e.block = f.block
    BY <1>1, <2>1 DEF Precedes
  <2>3. e.row[1] = f.row[1]
    BY <1>1, <2>1, <2>2 DEF Precedes
  <2>4. e.row[2] = f.row[2]
    BY <1>1, <2>1, <2>2, <2>3 DEF Precedes
  <2>5. QED BY <1>2, <2>1, <2>2, <2>3, <2>4
<1>5. ASSUME NEW e \in FeedRow, NEW f \in FeedRow, NEW g \in FeedRow, Precedes(e, f), Precedes(f, g)
      PROVE  Precedes(e, g)
  BY <1>1, <1>5 DEF Precedes
<1>6. QED BY <1>3, <1>4, <1>5 DEF Before

\* Finitely many entries have a first one.
LEMMA FirstEntry ==
  ASSUME NEW b \in BOOLEAN, NEW S \in SUBSET FeedRow, IsFiniteSet(S), S # {}
  PROVE  \E e \in S : \A f \in S : f = e \/ Before(b, e, f)
<1> DEFINE n(e) == Cardinality(Sooner(b, S, e))
           D == {n(e) : e \in S}
           R == OpToRel(<, Nat)
<1>1. \A e \in S : IsFiniteSet(Sooner(b, S, e)) /\ n(e) \in Nat
  <2>1. \A e \in S : IsFiniteSet(Sooner(b, S, e))
    BY FS_Subset DEF Sooner
  <2>2. QED BY <2>1, FS_CardinalityType
<1>2. D \subseteq Nat /\ D # {}
  BY <1>1
<1>3. IsWellFoundedOn(R, Nat)
  BY NatLessThanWellFounded
<1>4. PICK d \in D : \A e \in D : <<e, d>> \notin R
  <2> HIDE DEF D, R
  <2> QED BY <1>2, <1>3, WFMin
<1>5. \A e \in D : d <= e
  <2>1. \A e \in D : ~(e < d)
    BY <1>2, <1>4, Zenon DEF OpToRel
  <2>2. QED BY <1>2, <2>1
<1>6. PICK e \in S : d = n(e)
  OBVIOUS
<1>7. ASSUME NEW f \in S PROVE f = e \/ Before(b, e, f)
  <2> SUFFICES ASSUME Before(b, f, e) PROVE FALSE
    BY FeedOrder
  <2>1. Sooner(b, S, f) \subseteq Sooner(b, S, e)
    BY FeedOrder DEF Sooner
  <2>2. f \in Sooner(b, S, e) /\ f \notin Sooner(b, S, f)
    BY FeedOrder DEF Sooner
  <2>3. n(f) <= n(e) /\ (n(e) = n(f) => Sooner(b, S, e) = Sooner(b, S, f))
    BY <1>1, <2>1, FS_Subset
  <2>4. n(f) \in Nat /\ n(e) \in Nat /\ n(e) <= n(f)
    BY <1>1, <1>5, <1>6
  <2> HIDE DEF n
  <2>5. n(e) = n(f)
    BY <2>3, <2>4
  <2>6. QED BY <2>2, <2>3, <2>5
<1>8. QED BY <1>7

\* What is still to come of a feed with the entries S, and the next page of it.
Left(w, S)   == {e \in S : Past(e, w)}
PageOf(w, S) == {e \in Left(w, S) : Cardinality(Sooner(w.oldest, Left(w, S), e)) < Limit}

Cursors == {<<>>} \cup {<<e>> : e \in FeedRow}

\* Where a walk through S stands: nothing past its cursor was shown, and what it
\* wants was shown or is past its cursor.
Paged(w, S) ==
  /\ w.cursor \in Cursors
  /\ w.want \cup w.got \subseteq {e.row : e \in S}
  /\ \A e \in S : Past(e, w) => e.row \notin w.got
  /\ \A e \in S : e.row \in w.want => e.row \in w.got \/ Past(e, w)
  /\ ~w.again
  /\ w.done => w.want \subseteq w.got

\* A page takes the first entries of what is left, and all of them if it is not full.
LEMMA PageIsFirst ==
  ASSUME NEW w, w.oldest \in BOOLEAN, NEW S \in SUBSET FeedRow, IsFiniteSet(S)
  PROVE  /\ IsFiniteSet(PageOf(w, S)) /\ IsFiniteSet(Left(w, S))
         /\ \A c \in PageOf(w, S), e \in Left(w, S) \ PageOf(w, S) : Before(w.oldest, c, e)
         /\ Cardinality(PageOf(w, S)) < Limit => PageOf(w, S) = Left(w, S)
<1> DEFINE left == Left(w, S)
           page == PageOf(w, S)
           n(e) == Cardinality(Sooner(w.oldest, left, e))
<1>1. left \subseteq S /\ page \subseteq left /\ IsFiniteSet(left) /\ IsFiniteSet(page)
  <2>1. left \subseteq S /\ page \subseteq left
    BY DEF Left, PageOf
  <2>2. IsFiniteSet(left)
    BY <2>1, FS_Subset
  <2>3. QED BY <2>1, <2>2, FS_Subset
<1>2. \A e \in left : e \in FeedRow /\ IsFiniteSet(Sooner(w.oldest, left, e)) /\ n(e) \in Nat
  <2>1. \A e \in left : Sooner(w.oldest, left, e) \subseteq left
    BY DEF Sooner
  <2>2. \A e \in left : IsFiniteSet(Sooner(w.oldest, left, e))
    BY <1>1, <2>1, FS_Subset
  <2>3. \A e \in left : n(e) \in Nat
    BY <2>2, FS_CardinalityType
  <2>4. QED BY <1>1, <2>2, <2>3
<1>3. Limit \in Nat
  BY StoreAssumption
<1>4. \A e \in left : e \in page <=> n(e) < Limit
  BY DEF PageOf
<1> HIDE DEF n, left, page
<1>5. ASSUME NEW c \in page, NEW e \in left, e \notin page PROVE Before(w.oldest, c, e)
  <2> SUFFICES ASSUME Before(w.oldest, e, c) PROVE FALSE
    BY <1>1, <1>2, <1>5, FeedOrder
  <2>1. Sooner(w.oldest, left, e) \subseteq Sooner(w.oldest, left, c)
    BY <1>1, <1>2, FeedOrder DEF Sooner
  <2>2. n(e) <= n(c)
    BY <1>1, <1>2, <2>1, FS_Subset DEF n
  <2>3. n(c) < Limit /\ ~(n(e) < Limit) /\ n(c) \in Nat /\ n(e) \in Nat
    BY <1>1, <1>2, <1>4, <1>5
  <2>4. QED BY <1>3, <2>2, <2>3
<1>6. ASSUME Cardinality(page) < Limit, page # left PROVE FALSE
  <2>1. left \ page \in SUBSET FeedRow /\ IsFiniteSet(left \ page) /\ left \ page # {}
    BY <1>1, <1>2, <1>6, FS_Subset
  <2>2. PICK d \in left \ page : \A f \in left \ page : f = d \/ Before(w.oldest, d, f)
    BY <2>1, FirstEntry
  <2>3. Sooner(w.oldest, left, d) \subseteq page
    <3>1. ASSUME NEW f \in left, Before(w.oldest, f, d), f \notin page PROVE FALSE
      <4>1. f = d \/ Before(w.oldest, d, f)
        BY <2>2, <3>1
      <4>2. f \in FeedRow /\ d \in FeedRow
        BY <1>2
      <4>3. QED BY <3>1, <4>1, <4>2, FeedOrder
    <3>2. QED BY <3>1 DEF Sooner
  <2>4. n(d) <= Cardinality(page)
    BY <1>1, <2>3, FS_Subset DEF n
  <2>5. ~(n(d) < Limit) /\ n(d) \in Nat /\ Cardinality(page) \in Nat
    BY <1>1, <1>2, <1>4, <2>2, FS_CardinalityType
  <2>6. QED BY <1>3, <1>6, <2>4, <2>5
<1>7. QED BY <1>1, <1>5, <1>6 DEF left, page

\* The page after that continues where it ends, and repeats none of it.
LEMMA PageTurns ==
  ASSUME NEW w, w.oldest \in BOOLEAN, NEW S \in SUBSET FeedRow, IsFiniteSet(S), Paged(w, S),
         \A e, f \in S : e.row = f.row => e = f,
         NEW w2, w2.oldest = w.oldest, w2.want = w.want, ~w2.again,
         w2.got = w.got \cup {e.row : e \in PageOf(w, S)},
         w2.done <=> Cardinality(PageOf(w, S)) < Limit,
         PageOf(w, S) = {} => w2.cursor = w.cursor,
         PageOf(w, S) # {} => \E c \in PageOf(w, S) :
           /\ \A f \in PageOf(w, S) : f = c \/ Before(w.oldest, f, c)
           /\ w2.cursor = <<c>>
  PROVE  Paged(w2, S)
<1> DEFINE left == Left(w, S)
           page == PageOf(w, S)
<1>1. /\ page \subseteq left /\ left \subseteq S /\ page \subseteq FeedRow
      /\ \A e \in S : e \in left <=> Past(e, w)
  BY DEF Left, PageOf
<1>2. Cardinality(page) < Limit => page = left
  BY PageIsFirst
<1>3. w2.want \cup w2.got \subseteq {e.row : e \in S}
  BY <1>1 DEF Paged
<1>4. CASE page = {}
  <2>1. Cardinality(page) < Limit
    BY <1>4, FS_EmptySet, StoreAssumption
  <2>2. w2.got = w.got /\ w2.cursor = w.cursor /\ left = {}
    BY <1>2, <1>4, <2>1
  <2>3. \A e \in S : ~Past(e, w)
    BY <1>1, <2>2
  <2>4. \A e \in S : Past(e, w2) <=> Past(e, w)
    BY <2>2 DEF Past
  <2>5. QED BY <1>3, <2>2, <2>3, <2>4 DEF Paged
<1>5. CASE page # {}
  <2>1. PICK c \in page : (\A f \in page : f = c \/ Before(w.oldest, f, c)) /\ w2.cursor = <<c>>
    BY <1>5
  <2>2. c \in FeedRow /\ w2.cursor \in Cursors
    BY <1>1, <2>1 DEF Cursors
  <2>3. \A e \in S : Past(e, w2) <=> Before(w.oldest, c, e)
    BY <2>1 DEF Past, Before
  <2>4. \A e \in S : Before(w.oldest, c, e) => Past(e, w)
    <3>1. CASE w.cursor = <<>>
      BY <3>1 DEF Past
    <3>2. CASE w.cursor # <<>>
      <4>1. PICK d \in FeedRow : w.cursor = <<d>>
        BY <3>2 DEF Paged, Cursors
      <4>2. \A e \in S : Past(e, w) <=> Before(w.oldest, d, e)
        BY <4>1 DEF Past, Before
      <4>3. Before(w.oldest, d, c)
        BY <1>1, <2>1, <4>2
      <4>4. QED BY <2>2, <4>1, <4>2, <4>3, FeedOrder
    <3>3. QED BY <3>1, <3>2
  <2>5. ASSUME NEW e \in S, Past(e, w2) PROVE e.row \notin w2.got
    <3>1. Before(w.oldest, c, e) /\ Past(e, w)
      BY <2>3, <2>4, <2>5
    <3>2. e \notin page
      BY <1>1, <2>1, <2>2, <3>1, FeedOrder
    <3>3. e.row \notin {f.row : f \in page}
      BY <1>1, <3>2
    <3>4. e.row \notin w.got
      BY <3>1 DEF Paged
    <3>5. QED BY <3>3, <3>4
  <2>6. ASSUME NEW e \in S, e.row \in w2.want PROVE e.row \in w2.got \/ Past(e, w2)
    <3>1. CASE e.row \in w.got
      BY <3>1
    <3>2. CASE e \in page
      BY <3>2
    <3>3. CASE e.row \notin w.got /\ e \notin page
      <4>1. e \in left \ page
        BY <1>1, <2>6, <3>3 DEF Paged
      <4>2. QED BY <2>3, <4>1, PageIsFirst
    <3>4. QED BY <3>1, <3>2, <3>3
  <2>7. ASSUME w2.done PROVE w2.want \subseteq w2.got
    <3>1. page = left
      BY <1>2, <2>7
    <3>2. ASSUME NEW k \in w.want PROVE k \in w2.got
      <4>1. PICK e \in S : e.row = k
        BY <3>2 DEF Paged
      <4>2. k \in w.got \/ e \in page
        BY <1>1, <3>1, <3>2, <4>1 DEF Paged
      <4>3. QED BY <4>1, <4>2
    <3>3. QED BY <3>2
  <2>8. QED BY <1>3, <2>2, <2>5, <2>6, <2>7 DEF Paged
<1>6. QED BY <1>4, <1>5

\* The entries of a feed: one for each row of the zone.
Entries(zone) == {FeedEntry(r) : r \in InZone(zone)}

\* A zone's entries as long as no time of them is stale.
Paging(zone) == Stable /\ (zone = 0 \/ ZoneTimesAgree)

WalkInv ==
  /\ pc # "keys" => Migrated
  /\ DOMAIN walk = DOMAIN NoWalk /\ walk.zone \in Nat /\ walk.oldest \in BOOLEAN
  /\ ~walk.on => walk = NoWalk
  /\ walk.on => pc = "serving" /\ (Paging(walk.zone) => Paged(walk, Entries(walk.zone)))

\* The entries of a feed are finitely many, one under each key.
LEMMA EntriesKeyed ==
  ASSUME TypeOK, Finite, NEW zone
  PROVE  /\ Entries(zone) \subseteq FeedRow /\ IsFiniteSet(Entries(zone))
         /\ \A e, f \in Entries(zone) : e.row = f.row => e = f
         /\ \A e \in Entries(zone), r \in rows : e.row = TxKey(r) => e = FeedEntry(r)
<1>1. InZone(zone) \subseteq rows /\ \A r \in rows : r \in Record /\ FeedEntry(r).row = TxKey(r)
  BY DEF InZone, TypeOK, FeedEntry
<1>2. \A r \in rows : FeedEntry(r) \in FeedRow
  BY <1>1, Keys DEF FeedEntry, FeedRow, Record
<1>3. \A r, t \in rows : TxKey(r) = TxKey(t) => r = t
  BY <1>1, Keys DEF TypeOK, Keyed
<1>4. IsFiniteSet(Entries(zone))
  <2> DEFINE f == [r \in InZone(zone) |-> FeedEntry(r)]
  <2>1. IsFiniteSet(InZone(zone))
    BY <1>1, FS_Subset DEF Finite
  <2>2. f \in Surjection(InZone(zone), Entries(zone))
    BY DEF Surjection, Entries
  <2>3. QED BY <2>1, <2>2, FS_Surjection
<1>5. \A e \in Entries(zone) : \E r \in rows : e = FeedEntry(r)
  BY <1>1 DEF Entries
<1>6. QED BY <1>1, <1>2, <1>3, <1>4, <1>5

\* The feed that is read has these entries.
LEMMA FeedIsEntries ==
  ASSUME FeedAgrees, Migrated, NEW zone \in Nat, Paging(zone)
  PROVE  FeedOf(zone) = Entries(zone)
<1>1. CASE zone = 0
  BY <1>1 DEF FeedAgrees, Paging, FeedOf, Entries, InZone
<1>2. CASE zone # 0
  <2>1. chanTime = {ChanTimeEntry(r) : r \in rows}
    BY <1>2 DEF Paging, ZoneTimesAgree
  <2>2. \A r \in rows : /\ ChanTimeEntry(r).chan = r.chan
                        /\ [time |-> ChanTimeEntry(r).time, block |-> ChanTimeEntry(r).block,
                            row |-> ChanTimeEntry(r).row] = FeedEntry(r)
    BY DEF ChanTimeEntry, FeedEntry
  <2>3. {x \in chanTime : x.chan = zone} = {ChanTimeEntry(r) : r \in InZone(zone)}
    BY <1>2, <2>1, <2>2 DEF InZone
  <2> DEFINE X == {x \in chanTime : x.chan = zone}
  <2>4. FeedOf(zone) = {[time |-> e.time, block |-> e.block, row |-> e.row] : e \in X}
    BY <1>2 DEF FeedOf
  <2> HIDE DEF X
  <2>5. InZone(zone) \subseteq rows
    BY DEF InZone
  <2>6. ASSUME NEW e \in FeedOf(zone) PROVE e \in Entries(zone)
    <3>1. PICK x \in X : e = [time |-> x.time, block |-> x.block, row |-> x.row]
      BY <2>4
    <3>2. PICK r \in InZone(zone) : x = ChanTimeEntry(r)
      BY <2>3 DEF X
    <3>3. QED BY <2>2, <2>5, <3>1, <3>2 DEF Entries
  <2>7. ASSUME NEW e \in Entries(zone) PROVE e \in FeedOf(zone)
    <3>1. PICK r \in InZone(zone) : e = FeedEntry(r)
      BY DEF Entries
    <3>2. ChanTimeEntry(r) \in X
      BY <2>3 DEF X
    <3>3. QED BY <2>2, <2>4, <2>5, <3>1, <3>2
  <2>8. QED BY <2>6, <2>7
<1>3. QED BY <1>1, <1>2

\* A new row is past no key that a walk has shown or wants; if it leaves the times of
\* the zones in order, they were.
LEMMA NewRowPages ==
  ASSUME TypeOK, WalkInv, ZoneFeedAgrees, NEW r \in Decoded, CommitNew(r)
  PROVE  WalkInv'
<1>1. /\ pc' = pc /\ meta' = meta /\ walk' = walk /\ rows' = rows \cup {r}
      /\ chanTime' = chanTime \cup {ChanTimeEntry(r)}
      /\ \A t \in rows : TxKey(t) # TxKey(r)
  BY DEF CommitNew, Serving, Stored
<1> SUFFICES ASSUME walk.on, Paging(walk.zone)', pc = "serving", Migrated
             PROVE  Paged(walk, Entries(walk.zone)')
  BY <1>1 DEF WalkInv, Migrated, Entries, InZone, FeedEntry, Paged, Past
<1>2. Paging(walk.zone)
  <2>1. CASE walk.zone = 0
    BY <1>1, <2>1 DEF Paging, Stable
  <2>2. CASE walk.zone # 0
    <3>1. chanTime' = {ChanTimeEntry(t) : t \in rows'} /\ Stable
      BY <1>1, <2>2 DEF Paging, ZoneTimesAgree, Stable, ChanTimeEntry
    <3>2. \A t \in rows \cup {r} : ChanTimeEntry(t).row = TxKey(t)
      BY DEF ChanTimeEntry
    <3>3. \A e \in chanTime : e.row # TxKey(r)
      BY <1>1 DEF ZoneFeedAgrees
    <3>4. chanTime = {ChanTimeEntry(t) : t \in rows}
      BY <1>1, <3>1, <3>2, <3>3
    <3>5. QED BY <3>1, <3>4 DEF Paging, ZoneTimesAgree
  <2>3. QED BY <2>1, <2>2
<1> DEFINE S == Entries(walk.zone)
<1>3. Paged(walk, S)
  BY <1>2 DEF WalkInv
<1>4. Entries(walk.zone)' = S \/ Entries(walk.zone)' = S \cup {FeedEntry(r)}
  BY <1>1 DEF Entries, InZone, FeedEntry, TxKey
<1>5. FeedEntry(r).row \notin {e.row : e \in S}
  <2>1. \A t \in rows \cup {r} : FeedEntry(t).row = TxKey(t)
    BY DEF FeedEntry
  <2>2. \A e \in S : \E t \in rows : e = FeedEntry(t)
    BY DEF Entries, InZone
  <2>3. QED BY <1>1, <2>1, <2>2
<1>6. QED BY <1>3, <1>4, <1>5 DEF Paged

\* A rewritten row keeps its entry.
LEMMA RewrittenRowPages ==
  ASSUME TypeOK, WalkInv, RowsKnown, NEW r \in Decoded, CommitAgain(r)
  PROVE  WalkInv'
<1>1. PICK s \in Stored(r) : rows' = IF NeedsRewrite(s, r) THEN (rows \ {s}) \cup {r} ELSE rows
  BY DEF CommitAgain
<1>2. pc' = pc /\ meta' = meta /\ walk' = walk /\ chanTime' = chanTime
  BY DEF CommitAgain, Serving
<1> SUFFICES ASSUME walk.on, Paging(walk.zone)', pc = "serving", Migrated
             PROVE  Paged(walk, Entries(walk.zone)')
  BY <1>2 DEF WalkInv, Migrated, Entries, InZone, FeedEntry, Paged, Past
<1>3. Stable
  BY DEF Paging, Stable
<1>4. /\ s \in rows
      /\ NeedsRewrite(s, r) => s.chan = r.chan /\ FeedEntry(s) = FeedEntry(r) /\ ChanTimeEntry(s) = ChanTimeEntry(r)
  BY <1>3, Rewriting DEF FeedEntry, ChanTimeEntry
<1>5. {ChanTimeEntry(t) : t \in rows'} = {ChanTimeEntry(t) : t \in rows}
  BY <1>1, <1>4
<1>6. Paging(walk.zone)
  BY <1>2, <1>3, <1>5 DEF Paging, ZoneTimesAgree, ChanTimeEntry
<1>7. Entries(walk.zone)' = Entries(walk.zone)
  <2>1. Entries(walk.zone)' = {FeedEntry(t) : t \in {u \in rows' : walk.zone \in {0, u.chan}}}
    BY <1>2 DEF Entries, InZone, FeedEntry, TxKey
  <2>2. Entries(walk.zone) = {FeedEntry(t) : t \in {u \in rows : walk.zone \in {0, u.chan}}}
    BY DEF Entries, InZone
  <2>3. QED BY <1>1, <1>4, <2>1, <2>2
<1>8. QED BY <1>6, <1>7 DEF WalkInv

\* A walk begins with everything before it.
LEMMA StartPages ==
  ASSUME TypeOK, WalkInv, NEW w \in Walks, StartWalk(w[1], w[2])
  PROVE  WalkInv'
<1>1. w[1] \in Nat /\ w[2] \in BOOLEAN
  BY StoreAssumption
<1>2. /\ walk' = [NoWalk EXCEPT !.on = TRUE, !.zone = w[1], !.oldest = w[2],
                                !.want = {TxKey(r) : r \in InZone(w[1])}]
      /\ pc = "serving" /\ pc' = pc /\ UNCHANGED <<rows, meta, chanTime>>
  BY DEF StartWalk, Serving, indexes
<1>3. /\ DOMAIN walk' = DOMAIN NoWalk /\ walk'.zone = w[1] /\ walk'.oldest = w[2] /\ walk'.on
      /\ walk'.cursor = <<>> /\ walk'.got = {} /\ walk'.again = FALSE /\ walk'.done = FALSE
      /\ walk'.want = {TxKey(r) : r \in InZone(w[1])}
  BY <1>2 DEF NoWalk
<1>4. Entries(w[1])' = Entries(w[1])
  BY <1>2 DEF Entries, InZone, FeedEntry, TxKey
<1>5. Paged(walk', Entries(w[1]))
  <2>0. \A r \in InZone(w[1]) : FeedEntry(r) \in Entries(w[1]) /\ FeedEntry(r).row = TxKey(r)
    BY DEF Entries, FeedEntry
  <2>1. {TxKey(r) : r \in InZone(w[1])} \subseteq {e.row : e \in Entries(w[1])}
    BY <2>0
  <2>2. \A e \in Entries(w[1]) : Past(e, walk')
    BY <1>3 DEF Past
  <2>3. QED BY <1>3, <2>1, <2>2 DEF Paged, Cursors
<1>6. QED BY <1>1, <1>2, <1>3, <1>4, <1>5 DEF WalkInv, Migrated

\* A page reads the entries past the cursor, and moves the cursor to its last row.
LEMMA NextPagePages ==
  ASSUME TypeOK, Finite, WalkInv, FeedAgrees, NextPage
  PROVE  WalkInv'
<1> DEFINE S == Entries(walk.zone)
           page == Page(walk)
           shown == {r \in rows : \E e \in page : e.row = TxKey(r)}
           last  == {e \in page : \A f \in page : f = e \/ Ahead(f, e, walk)}
           cursor == IF page = {} THEN walk.cursor
                     ELSE Cursor(CHOOSE r \in rows : \E e \in last : e.row = TxKey(r))
<1>1. /\ walk' = [walk EXCEPT !.got = walk.got \cup {TxKey(r) : r \in shown},
                              !.again = walk.again \/ \E r \in shown : TxKey(r) \in walk.got,
                              !.done = Cardinality(page) < Limit,
                              !.cursor = cursor]
      /\ walk.on /\ pc = "serving" /\ pc' = pc /\ UNCHANGED <<rows, meta, chanTime>>
  BY Zenon DEF NextPage, Serving, indexes
<1>2. DOMAIN walk = {"on", "done", "zone", "oldest", "cursor", "got", "want", "again"}
  BY DEF WalkInv, NoWalk
<1> HIDE DEF S, page, shown, last, cursor
<1>3. /\ DOMAIN walk' = DOMAIN walk /\ walk'.zone = walk.zone /\ walk'.oldest = walk.oldest
      /\ walk'.on = walk.on /\ walk'.want = walk.want
      /\ walk'.got = walk.got \cup {TxKey(r) : r \in shown}
      /\ walk'.again = (walk.again \/ \E r \in shown : TxKey(r) \in walk.got)
      /\ walk'.done = (Cardinality(page) < Limit)
      /\ walk'.cursor = cursor
  BY <1>1, <1>2
<1>4. Entries(walk.zone)' = S /\ (Paging(walk.zone)' <=> Paging(walk.zone))
  BY <1>1, <1>3 DEF S, Entries, InZone, FeedEntry, TxKey, Paging, Stable, ZoneTimesAgree, ChanTimeEntry
<1>5. ASSUME Paging(walk.zone) PROVE Paged(walk', S)
  <2>1. walk.zone \in Nat /\ walk.oldest \in BOOLEAN /\ Paged(walk, S) /\ Migrated
    BY <1>1, <1>5 DEF WalkInv, S
  <2>2. FeedOf(walk.zone) = S
    BY <1>5, <2>1, FeedIsEntries DEF S
  <2>3. page = PageOf(walk, S)
    BY <2>2 DEF page, Page, PageOf, Left, Sooner, Ahead, Before
  <2>4. /\ S \in SUBSET FeedRow /\ IsFiniteSet(S) /\ \A e, f \in S : e.row = f.row => e = f
        /\ \A e \in S, r \in rows : e.row = TxKey(r) => e = FeedEntry(r)
    BY EntriesKeyed DEF S
  <2>5. page \subseteq S /\ \A e \in page : Past(e, walk)
    BY <2>3 DEF PageOf, Left
  <2>6. \A e \in S : \E r \in rows : e = FeedEntry(r) /\ e.row = TxKey(r)
    BY DEF S, Entries, InZone, FeedEntry
  <2>7. {TxKey(r) : r \in shown} = {e.row : e \in page}
    BY <2>5, <2>6 DEF shown
  <2>8. ~walk'.again
    <3>1. \A e \in page : e.row \notin walk.got
      BY <2>1, <2>5 DEF Paged
    <3>2. \A r \in shown : TxKey(r) \notin walk.got
      BY <3>1 DEF shown
    <3>3. QED BY <1>3, <2>1, <3>2 DEF Paged
  <2>9. ASSUME page # {}
        PROVE  \E c \in page : /\ \A f \in page : f = c \/ Before(walk.oldest, f, c)
                               /\ cursor = <<c>>
    <3>1. page \in SUBSET FeedRow /\ IsFiniteSet(page)
      BY <2>4, <2>5, FS_Subset
    <3>2. (~walk.oldest) \in BOOLEAN
      BY <2>1
    <3>3. PICK c \in page : \A f \in page : f = c \/ Before(~walk.oldest, c, f)
      BY <2>9, <3>1, <3>2, FirstEntry
    <3>4. \A f \in page : f = c \/ Before(walk.oldest, f, c)
      BY <2>1, <3>1, <3>3, FeedOrder
    <3>5. \A e \in last : e = c
      <4>1. ASSUME NEW e \in last PROVE e = c
        <5>1. e \in page /\ (c = e \/ Before(walk.oldest, c, e))
          BY DEF last, Ahead, Before
        <5>2. QED BY <2>1, <3>1, <3>4, <5>1, FeedOrder
      <4>2. QED BY <4>1
    <3>6. c \in last
      BY <3>4 DEF last, Ahead, Before
    <3>7. \E r \in rows : \E e \in last : e.row = TxKey(r)
      BY <2>5, <2>6, <3>6
    <3> DEFINE r0 == CHOOSE r \in rows : \E e \in last : e.row = TxKey(r)
    <3>8. r0 \in rows /\ c.row = TxKey(r0)
      BY <3>5, <3>7
    <3>9. cursor = <<FeedEntry(r0)>>
      BY <2>9, Zenon DEF cursor, Cursor
    <3> HIDE DEF r0
    <3>10. FeedEntry(r0) = c
      BY <2>4, <2>5, <3>8
    <3>11. QED BY <3>4, <3>9, <3>10
  <2>10. page = {} => cursor = walk.cursor
    BY DEF cursor
  <2>11. /\ walk'.oldest = walk.oldest /\ walk'.want = walk.want
         /\ walk'.got = walk.got \cup {e.row : e \in PageOf(walk, S)}
         /\ walk'.done <=> Cardinality(PageOf(walk, S)) < Limit
         /\ PageOf(walk, S) = {} => walk'.cursor = walk.cursor
         /\ PageOf(walk, S) # {} => \E c \in PageOf(walk, S) :
              /\ \A f \in PageOf(walk, S) : f = c \/ Before(walk.oldest, f, c)
              /\ walk'.cursor = <<c>>
    BY <1>3, <2>3, <2>7, <2>9, <2>10
  <2>12. QED BY <2>1, <2>4, <2>8, <2>11, PageTurns
<1>6. QED BY <1>1, <1>3, <1>4, <1>5 DEF WalkInv, Migrated

\* Opening and crashing find no walk, or leave none.
LEMMA OtherPages ==
  ASSUME TypeOK, WalkInv,
         \/ MigrateTxKeys
         \/ \E at \in [{r \in rows : Stale(r)} -> Times] : MigrateRawTimestamps(at)
         \/ BackfillTokenMappings \/ TokenMappingsDone \/ BackfillProgramIndex
         \/ Crash
  PROVE  WalkInv'
<1>1. CASE Crash
  BY <1>1 DEF Crash, WalkInv, NoWalk
<1>2. CASE ~Crash
  <2>1. /\ walk' = walk /\ pc # "serving" /\ pc' # "keys"
        /\ (Migrated \/ MigrateTxKeys) => Migrated'
        /\ pc = "keys" => MigrateTxKeys
    BY <1>2 DEF MigrateTxKeys, MigrateRawTimestamps, BackfillTokenMappings, TokenMappingsDone,
         BackfillProgramIndex, Opening, Migrated, TypeOK, Versions
  <2>2. QED BY <2>1 DEF WalkInv
<1>3. QED BY <1>1, <1>2

\* What the learner writes is not what a walk reads.
LEMMA UnmovedPages ==
  ASSUME WalkInv, UNCHANGED <<pc, meta, rows, chanTime, walk>>
  PROVE  WalkInv'
<1>1. /\ Entries(walk.zone)' = Entries(walk.zone) /\ (Paging(walk.zone)' <=> Paging(walk.zone))
      /\ Migrated' = Migrated
  BY DEF Entries, InZone, FeedEntry, TxKey, Paging, Stable, ZoneTimesAgree, ChanTimeEntry, Migrated
<1>2. QED BY <1>1 DEF WalkInv, Paged, Past

\* Whatever is committed, learned and rewritten while a client pages through a feed, in
\* either direction, and however many rows share a time: no page repeats a row, and
\* the last leaves none of those out that were stored when it began.
THEOREM PagesShowOnce == Spec => []PagesOnce
<1>1. Init => WalkInv
  BY DEF Init, WalkInv, NoWalk
<1>2. ASSUME TypeOK, Finite, RowsKnown, FeedAgrees, ZoneFeedAgrees, WalkInv, [Next]_vars
      PROVE  WalkInv'
  <2>1. ASSUME \/ \E P \in SUBSET Foreign : SetProgramKinds(P)
               \/ RelearnRead \/ RelearnWrite
               \/ \E h \in Holdings : LearnToken(h)
               \/ UNCHANGED vars
        PROVE  WalkInv'
    <3>1. UNCHANGED <<pc, meta, rows, chanTime, walk>>
      BY <2>1 DEF SetProgramKinds, RelearnRead, RelearnWrite, LearnToken, vars, durable, indexes, Serving
    <3>2. QED BY <1>2, <3>1, UnmovedPages
  <2>2. QED BY <1>2, <2>1, NewRowPages, RewrittenRowPages, StartPages, NextPagePages, OtherPages
            DEF Next
<1>3. WalkInv => PagesOnce
  BY DEF WalkInv, PagesOnce, Paging, Paged, NoWalk
<1>4. QED BY <1>1, <1>2, <1>3, StoreTypes, RowsFinite, RowsAreKnown, FeedsAgree, ZoneFeedsAgree, PTL DEF Spec
================================================================================
