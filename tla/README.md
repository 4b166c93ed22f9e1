# zonescan: a TLA+ specification

This directory specifies and checks the part of zonescan that can go wrong
without any test noticing: what the explorer claims about the blocks of a zone
("on L1", "final", "whole history stored", "chain consistent", "not settling"), while several tasks read the same
zone from different sources, write one shared state, commit it to the store in
any order, and are cut short by restarts and new configurations.

Line numbers below are those of `src/src/serve.rs` unless another file is
named.

## 1. The system

zonescan is one Rust process (tokio, several worker threads). It reads an L1
node over HTTP, and optionally the JSON-RPC of the sequencers whose zones it
follows, keeps its state behind one mutex (`ServerState`) and its history in a
redb file (`serve/db.rs`).

| part | state | operations |
|---|---|---|
| **Finality tracking** | per channel a `SeqTrack` (727) with five thresholds: latest, finalized, safe, l1_safe, l1_final; `L1Track.lib_slot`, `ingested_slot` | `handle_event` (3437), `discover_seed` (2213), `backfill_walk` (2396), `ingest_seq_chunk` (3098), `refresh_info` (2778), the reconciler in `cmd_serve` (1720), `build_snapshot` (1408) |
| **Full-history backfill** | durable cursors `backfill:top`, `:floor`, `:done`; `WalkAcc` | `backfill_seed` (2632), `backfill_walk` (2396) |
| **Sequencer RPC reader** | `have`, `backfilled`, per reader | `sequencer_loop` (3191) |
| **Scan generations** | `AppState.generation`, `ServerState.discovering` | `apply_config` (1847); every task checks the generation |
| **Chain consistency** | `Consistency`, `verify_cursor`, the walk's `verif` buffer | `verify_chain` (677), `SeqTrack::verify` (861), `merge_consistency` (2376) |
| **Channel discovery** | the configuration file | `discover_compatible` (2062), every 30 minutes and on demand |
| **Transaction store** | redb tables: rows, five indexes, token tables, summaries, meta | `commit` (db.rs 483), migrations (711, 825, 1367, 1478), `relabel_privacy` (1639), reads |
| **Live feed** | `txs`, `seen` | `push_tx` (1063), `broadcast_txs` (1574) |
| **Health** | slot series, tips, timestamps | `settling_verdict` (541), `activity_state` (1211), `measured_slot_secs` (632) |
| **Classification** | reference profiles | `refresh_guesses` (3953), `serve/classify.rs` |
| **Local reader** (in the page) | `LOCAL`, the session's storage, the runs of `localConnect` | `localConnect` (6815), `localMore`, `localDisconnect` (6932), `localSave` / `localRestore` (6728, 6737), `api_decode` (4640) |
| **CLI** | none; `cmd_watch` keeps the last answers | `scan_channels`, `cmd_watch` (main.rs) |
| **HTTP, launcher** | - | handlers (3595-5565), `bin/zone-scan.js`, `scripts/install.js` |

### How the parts interact

* Tasks share `ServerState` under one mutex that is never held across an await;
  every task therefore works in lock sections, and what it read in one may be
  stale in the next.
* Persisting is always: clone the summary under the lock, hand rows and clone to
  `spawn_blocking`, await the commit. The lock is free in between, so the store
  can see the clones of two tasks in the other order. `Db::commit` (db.rs 483)
  is one transaction; it never changes a row that is stored already, and
  overwrites the summary.
* `apply_config` bumps the generation, replaces the in-memory state by what the
  store holds and starts new tasks; old ones stop when they next look at the
  generation. A job on the blocking pool is not stopped by anything.
* The reconciler is the one task that outlives generations.
* The page reads the server's state and store over HTTP, takes new transactions
  over an event stream, and may read a visitor's own sequencer over a socket of
  its own, with the server as a decoder.

### What is hard, and what makes each part correct

* *Finality*: a block must not be reported final unless the L1 shows it, whatever
  the sequencer says; a threshold must not go back; a settled block must
  eventually be reported. Hazards: two marks raised in different places, two
  number spaces in one column, overwritten summaries, a `lib` that moves backwards.
* *Backfill*: whatever interrupts a walk, the range between the cursors must be
  in the store, and a walk must end. Hazards: failed requests and commits, a
  crash between records and cursor, an old walk's job next to a new walk.
* *RPC reader*: no block of the range it claims is skipped; it follows a chain
  that resets. Hazards: partial fetches, a reset between two polls, the shared
  `latest_block_id`.
* *Generations*: what is scanned is the configuration there is. Hazards: check and
  write are two steps; two callers of `apply_config`.
* *Chain consistency*: an honest zone is never accused. Hazards: zone resets,
  partial coverage, two verifiers and a merge.
* *Discovery*: a channel is adopted once and within the cap, and every sequencer
  in the end. Hazard: a scan of minutes between reading the configuration and
  changing it.
* *Store*: every row is reachable through every index it belongs to, at the place its
  body says. Hazards: rewrites, migrations, the learner, two zones with one hash,
  paging while commits go on, relabelling next to re-scans.
* *Live feed*: a client shows every transaction of its feed, once, in order.
  Hazards: a push before or after the page that has the same row, a slow client.
* *Health*: a zone is accused of not settling only on evidence. Hazards: marks
  raised and lowered by readers that saw different slots.
* *Classification*: a program is not given another one's name by the order in which
  its calls came in. Hazards: ties, profiles learned meanwhile.
* *Local reader*: what is shown is a window of the chain, without holes or doubles.
  Hazards: runs that nothing stops, a batch counted before it is decoded.

The same list, line by line, is under `hazards` in `PROJECT.json`.

## 2. Modules

| module | models | source |
|---|---|---|
| `L1Chain` | the L1 node: a growing chain of slots, lib, events that carry the lib of their emission (external) | as used by serve.rs |
| `Finality` | the thresholds of one channel under all tasks, the store's copy, the report | 727-848, 1077-1183, 1445-1477, 1708-1785, 2213-2329, 2396-2618, 2778-2826, 3098-3187, 3373-3581, db.rs 483-667, 975-1019 |
| `MCFinality` | the module TLC runs | |
| `FinalityProofs` | theorems about `Finality` | |
| `Coverage` | what the full-history store promises (abstract) | |
| `Backfill` | one scope's walk, cursors, store jobs; implements `Coverage` | 2343-2776, db.rs 1935-1946 |
| `BackfillProofs` | theorems about `Backfill`, the refinement among them | |
| `SeqReader` | the RPC reader's cursor, passes and finality re-read, on a sequencer that grows, finalizes, prunes and resets | 1847-1963, 2971-3303 |
| `MCSeqReader` | the configurations TLC runs it in | |
| `SeqReaderProofs` | theorems about `SeqReader` | |
| `TxStore` | the rows of the store and its five indexes: migrations, commits, the token learner, a client that pages | db.rs 91-199, 365-429, 442-880, 1344-1632; 940-983, 3953-4036, 6462-6488 |
| `MCTxStore` | the transactions TLC runs it on | |
| `TxStoreProofs` | theorems about `TxStore` | |
| `Adoption` | the configuration and what a discovery may add to it: budget, cap, adopted once | 117-189, 2062-2182 |
| `Scans` | who changes the configuration, `apply_config`, and every kind of task with its looks at the generation; extends `Adoption` | 1580-1672, 1872-2003, 2062-2329, 2640-2776, 3373-3420, 3735-3751, 7819-7850 |
| `MCScans` | the node, the starts and the forms TLC runs it with | |
| `ScansProofs` | theorems about `Scans` | |
| `ReadWindow` | what a reader from the tip down promises (abstract) | |
| `LocalZone` | the local reader, implements `ReadWindow` | 4640-4676, 6710-7068 |
| `LocalZoneProofs` | theorems about `LocalZone`, the refinement among them | |
| `ChainVerify` | the verdict on a zone's chain and its three writers | 646-724, 857-888, 1889-1900, 2246-2296, 2359-2412, 2516-2618, 3411-3422 |
| `Settling` | the evidence behind "settling", "not settling" and the activity state | 524-619, 726-848, 1103-1228, 1427-1433, 2256-2287, 2413-2496, 2778-2968, 3486-3529 |
| `SettlingProofs` | theorems about `Settling` | |
| `LiveFeed` | a transaction from the readers to a client's table | 1061-1083, 1572-1581, 3531-3581, 4504-4545, 6463-6526 |
| `PrivacyLabels` | shield or deshield: the replay next to commits | db.rs 531-560, 1639-1718, main.rs 840-880 |
| `Classify` | the guess of a program's name | classify.rs 34-945, 3892-4013, db.rs 1876-1920 |
| `CliScan` | the scan of a window, its aggregate, the track seeded from it, the watch | 2240-2264, main.rs 300-556, 1027-1059 |
| `MCViews` | the last six, each checked for itself | |
| `ViewsProofs` | theorems about five of them, for every value of the constants of `MCViews` | |

### Finality

`track` is the in-memory `SeqTrack`; `summary` the stored one; `rows` the slot
column of the stored transactions (one transaction per block). `job[t]` is what
task `t` is doing between its lock sections: *head* after the first lock of
`handle_event`, *read* with rows gathered and the summary not cloned, *cloned*
once handed to the store. `CloneSummary` and `Commit` are separate steps because
the code releases the lock between them; `backfill_walk` clones in the section
that folds the chunk (2451), so its step goes straight to *cloned*. `sweep` is
the reconciler between its three phases. `view` is `ingested_slot > 0`.

A crash restores `track` from `summary`, as `apply_config` does (1876-1900).
A configuration applied without a restart has the same effect on the state; the
tasks of the old generation that still write afterwards are not in this module.

Abstractions, each chosen so that no threshold can tell the difference: one
transaction per block, with a body that does not change between sources (a
re-scan that finds a changed field rewrites the row; that belongs to the store);
a chunk of the walk is one slot and a chunk of the RPC reader one block;
inscriptions that cannot be decoded touch no threshold and are blocks without
one; block ids are below `MAX_PLAUSIBLE_BLOCK_ID`; the sequencer leaves inscribed
blocks at status Pending (comment at 1129), so only the RPC carries Finalized;
the process has a store. The L1 does not reorganise here.

### Backfill and Coverage

`Coverage` is an abstract store: a range of settled slots between two cursors. Blocks
are added and never taken out, settled ones only (`Gather`); a cursor moves, up or
down, only where every block between the two is there (`MoveTop`, `MoveFloor`); the
walk ends once there is a range, and for good (`End`). It knows no passes, chunks or
jobs, and a restart is no step of it. Its variables are those of `Backfill`.

`pass` is the running `backfill_seed` with the locals that survive an await,
`job` the store job it awaits, `left` the job of a superseded pass that nobody
awaits any more. A job with a mark runs in two steps, records then floor, as the
two transactions at 2551 and 2554 do. `Reconfigure` replaces the pass and may
leave its job; with `MayStartLate`, it may also leave the old pass itself at the
await of lib or of the cursors (2645, 2670), from which the code goes on to write
`top` without looking at the generation. `Crash` loses all of it.

Fetching and folding are one step: the fold is one lock section and no other
task reads what a walk gathers. `lib` and the cursors are read in one step: they
are read in this order, and nothing but an old pass's job writes a cursor in
between, with a mark the new lib is not below.

### SeqReader

A block is a generation of the zone's chain and an id, since blocks of two chains
hold different transactions. `pc` is where the reader is in its loop: *poll*,
*walk* (the chunk loop), *reread* (the finality re-read). `job` is the commit it
awaits, `left` that of a superseded reader. `mode` is the configuration: with an
L1 or without, full or windowed; it is fixed for a behaviour. `L1Raises` stands
for the L1 tasks, which raise the shared track, possibly to ids of another
producer.

Fetching, ingesting and cloning a chunk are one step: the answer does not change
in flight, and the L1 tasks only raise what the reader raises too. A superseded
reader that still ingests an answer it was waiting for is not in this module.

### TxStore

`rows` are the stored transactions, `feed`, `chanIdx`, `chanTime`, `acctIdx` and
`progIdx` the indexes; an entry is a record of the fields it is ordered by and
the key of its row, which the code keeps both at the end of the entry's key and as
its value. `pc` is the step of `Db::open` (442), which every start goes
through; `meta` says which migrations are done. A store begins empty or as an
older build left it (`LegacyStores`). `holds` is HOLDING_DEF; `guessed` the
programs the classifier recognises at present (`refresh_guesses`, 3953);
`relearn` what `relearn_tokens` has read in one transaction and not yet written in
the next. `walk` is a client of `feedMore` (6469) with its cursor; `want` and
`got` are there for `PagesOnce` alone.

Abstractions: the records of a batch are committed one by one (a batch is one
transaction, so the store shows fewer states than the module); `full` stands for
every field a later decode can fill in; token names, owners and definitions other
than the link of a holding are left out, as no index depends on them; the feed has
no filter and is shorter than `SCAN_CAP`; one learner runs at a time, and no
migration fails. The privacy label is in `PrivacyLabels`.

`Stable` is a premise on the constants: a hash stands for one block and one time in
a zone. A zone that starts over with the same genesis breaks it, and with it
`FeedAgrees`: the rewrite changes the row's time and no index.

### Scans and Adoption

`caller[p]` is a thread that may change the configuration: the form
(`api_config_post`), the standing discovery (every 30 minutes) and a discovery on
demand. Its program counter has a value for every lock section and await: a discovery has
*looked* at the configuration, is *walking* the chain with a look at the generation
before each chunk, and has *found* channels; then, as for a form, the configuration
is cloned (*snap*), saved (*save*), and `apply_config` goes through *bump* (the
generation), *reset* (the state) and *spawn*. `tasks` are what earlier scans left running and what the present one
started, by kind: *live* (stream, info poll, sequencer readers, whose looks at the
generation are alike), *discover* (`discover_seed`), *backfill*. A task's `late`
says that it has written when superseded. `state.cfg` is the configuration the
state was reset for.

`clash` and `mixed` are history: two callers were changing the configuration at
once; a discovery adopted into another configuration than it had looked at. The
code guards against neither, and the properties are stated for behaviours without
them. A live task is spawned in its first await, and its write and its next look are one step;
`save_config` and the clone that `apply_config` begins with are one step (`Apply`):
nothing another caller does in between reads the one or writes the other.

### LocalZone and ReadWindow

`ReadWindow` is an abstract reader: a window (lowest block, how often each
transaction is shown, what is missing) that is closed, opened at the tip, extended
downward by some blocks each of whose transactions it shows once, or by blocks it
gives up; and a kept window that may be restored. It knows no batches, runs or
counters. `Exact` says what the promise amounts to.

In `LocalZone`, `runs` are calls of `localConnect`; nothing stops one but its own
end, and the panel offers a disconnect and "load older" as soon as one batch is
published, so runs overlap. `pc` is what a run awaits: *open*, *ask* (channel and
tip), *fetch*, *decode*. `local` is LOCAL, `saved` the session's storage. A block
holds a clock tick, a tick and a transaction, a transaction alone, or nothing that
decodes. The refinement maps `window` to what LOCAL shows: of a batch being
decoded LOCAL's cursor has already moved, so the window ends above it
(`Lower`); an error shows nothing; and once a run has begun next to another one
(`met`) nothing is promised.

Not in the module: a range answered in part, a tip of 0, a storage that is full.
`FairSample` is a premise of the code (6785-6802): when each block of the newest
batch has a tick, every older block is taken to have one.

### ChainVerify, Settling, LiveFeed, PrivacyLabels, Classify, CliScan

Each derives what is shown from what was read. They share no state, so `MCViews`
picks one at the start of a behaviour, lends it its variables (`v1` to `v9`), and
one run checks them all. Their bounds are constants of `MCViews`, given in
`Views.cfg`; those of `Classify` alone are fixed, as nothing is proved of it.

* `ChainVerify`: `minted` is the inscribed chain over all generations of a zone;
  `heard` how far stream and RPC reader have read it; `cursor` is `verify_cursor`;
  `walk` the buffer of a backward walk, one block per height, merged every few
  chunks. `ear` is history: the one reader that has verified everything since the
  last restart. `NotAccused` states who may be accused of what: with one reader that
  missed nothing, or a walk within one generation, only a bad link is reported.
* `Settling`: `readSlots` is history: what was really read. `SaidOfZone` compares
  the verdicts with it.
* `LiveFeed`: `jobs` holds a transaction between `push_tx`, the commit and the
  push; `pushes` is the client's queue; `feed` its table and cursor; `PageRows` is
  the page that the store answers with, row by row from the cursor down. `owed` is what
  the client ought to show, `late` what was pushed below what it had paged.
* `PrivacyLabels`: `updates` is what a relabeller has read and not yet written.
  `known` is history: rows whose label was derived from a complete prefix.
* `Classify`: words of an instruction are classes, `Batches` bounds how many calls of
  a named program come at once. `RightName` says that an unnamed program is
  guessed to be what it is, or nothing, or an interface it cannot be told from.
* `CliScan`: one channel, a chunked window from lib down, `Agg`, the seed of a
  track from it, and the watch's comparison of two polls.

## 3. Runs

Bounds are named in the modules (`MaxBlock`, `MaxSlot`, `MaxCrashes`,
`MaxRestarts`) or are the code's own constants made small (`Chunk` for
`CHUNK_SLOTS`, `Recent` for `RECENT_VERIFY_SLOTS`, `IdleLimit` for
`BACKFILL_IDLE_CHUNKS`). The backfill and reader runs do not check deadlock: a pass
ends, and with the chain at its bound nothing is left to do; neither do `LocalZone`
(a visitor may stop clicking) and `Views` (each part stops at its bounds).

| run | question | bounds, and why they suffice |
|---|---|---|
| `FinalitySafety` | Is every mark of every copy of the track backed by the chain, and does no task lower a threshold? | two blocks and two slots: an order of ids and of slots, a block above and one at or below lib; both seeds; one crash: a state after a restart, and a second seed of the other kind |
| `FinalityPromotion` | Is what is reported backed, with the sequencer free to claim anything; and is a stored block promoted by the sweep its lib triggers? | one block, two slots, so that lib can move past a swept value; one crash |
| `FinalityStuck` | *violated*: does a live block ever become reported final? | |
| `BackfillCrash` | Is the range between the cursors stored, and a finished walk complete, whatever cuts passes short; does the store implement `Coverage`? | five slots, chunks of two: gap walks, resumed walks and top above floor; two restarts: the job of one old pass next to a pass that is itself cut short |
| `BackfillEnds` | Does every pass end, with anything failing? | four slots, one restart |
| `SeqSafety` | Is what lies below every cursor of the reader stored? | three blocks, chunks of two (a short last chunk, a pass of two chunks), a window of one; two restarts: an old commit next to a reader that is itself cut short; all four modes; pruning |
| `SeqFollows` | Does the reader follow a chain that resets, and pick up what becomes Finalized? | three blocks in chunks of one, one reset; the other producer's id above the tip |
| `StoreIndexes` | Do rows and indexes agree from every kind of store on, and does paging show every row once? | a genesis that two zones share; the creation of a holding and a transfer from it that an older build knew by its program's id; a raw inscription; a legacy store of four rows; pages of one row, so that every row is a cursor; the global feed from its oldest row on, a zone's from its newest |
| `StoreTokenPage` | *violated*: does a token's page list the transfers committed before its creation? | the same |
| `Scans` | Is what is scanned the configuration there is; what may superseded tasks still write; is a sequencer adopted once, and in the end? | one channel on one node, all three callers at once; two starts (full with nothing configured, windowed with the channel) and three forms (windowed or full, with and without the channel, and without an L1); one form or discovery on demand next to the standing one; tasks of one old scan next to the present one; one retry and one further chunk |
| `LocalZone` | Does the local reader implement `ReadWindow`; do its counters agree with what it shows; does it come to rest? | four blocks of any contents, a first batch of one and batches of two, so that walks end at a limit, at enough transactions and at the first block; two runs at a time and three clicks: a run next to an old one, a restored page that goes on |
| `Views` | Six questions, one for each part (the properties above) | four blocks, one reset, one bad link: two generations of two blocks or one of four, chunks of three and one; three slots and a window of two; three transactions, two of which share a hash in two zones, a feed of two and pages of one; three private or public transactions of two accounts and two relabellers; four calls of an unnamed program of seven interfaces and two forms of the named ones; four slots with ids from 0, two scans in chunks of one or two, three polls |

### What the violated runs show

1. **A live block stays "finalizing" for ever** (`FinalityStuck`). The reconciler
   raises `finalized_block_id`; the report is its minimum with `l1_final_block_id`
   (1446), which rises only when a block is *observed* at a slot at or below lib
   (1173). Live blocks are observed above lib. `FinalityPromotion` shows that the
   sweep itself does its work; the clamp hides it.
2. **Token pages miss what was stored first** (`StoreTokenPage`). `relearn_tokens`
   writes entries under the bare hash (db.rs 1444), which is no row's key since
   rows are kept per zone; the look-up skips them. A walk goes from new to old, so
   transfers are normally stored before the creation of the holding.
   `backfill_program_index` (db.rs 1511) does the same; its entries count in totals.

### What other constants show, and where the properties are bounded

A property that holds names its premises; this is what lies outside them.

* *Backfill*. With `FetchMayFail`, `RangeStored` and `Covers` fail: a failed request is an empty
  chunk, and floor and top move over it (2420). With `CommitMayFail` the next
  chunk's floor passes the lost chunk; with `MayStartLate` top is overwritten by a
  newer lib.
* *RPC reader*. With `FetchMayFail`, `NoHole` fails: a failed chunk is skipped once
  the next one raises the stored latest id. With `MayPrune`, `FinalFollows` fails:
  the finality re-read always asks for the ids just above the finalized one (3297);
  when none of them is served any more it never moves.
* *Finality*. Nothing bounds the report while `view` is false, that is after every
  (re)configuration until a block is read; and the sweep compares block ids with
  lib where the RPC reader stored them as slots (3146), which only the clamp keeps
  from the report.
* *Store*. `migrate_raw_timestamps` moves a raw row's entry in the global feed only;
  the zone's feed keeps it at time 0 while the page's cursor takes the row's new
  time, so that a zone feed starts over (db.rs 862). `PagesOnce` therefore speaks of
  zone feeds without such rows.
* *Scans*. Two overlapping `apply_config` (the form while a discovery adopts) leave
  the state and the tasks of the older configuration (`clash`). Channels of
  `ZONE_SCAN_IGNORE_CHANNELS` are found by each standing pass, saved, applied and
  counted against the budget. `discover_seed` clears `discovering` (2241) before it
  looks at its generation. The form replaces the whole configuration by the copy the
  page had loaded. A client that cannot be built after the reset leaves
  `discovering` set with no task to clear it.
* *Local reader*. A refused decode (rate limit, cap) comes after the cursor was
  lowered (6867 and 6884): the batch is left out for ever (`missing`). An old run
  goes on writing into the new LOCAL after a disconnect or Enter; "load older" can
  be clicked twice during a run, and rows are shown twice (`met`).
* *Chain verdict*. The walk's buffer keeps one block per height, so the boundary of
  two generations is a broken link there, though the comment at 688-697 says a
  re-genesis is none; a stream that misses the first blocks of a new generation, or
  two readers that interleave after a reset, take a link to the old cursor
  (876-882); a window cut into an older generation does the same. A walk's verdict
  with an equal count replaces a break the stream found. Blocks read by two readers
  count twice in `checked`.
* *Settling*. `first_ingested_slot` may be a slot of the deep walk, and the stream
  may reconnect over a gap, so "watched a full window" (555) is a distance between
  two marks, not what was read: "not settling" holds of the slots that were read.
  The first poll of a channel counts as a change of its tip.
* *Live feed*. The RPC reader pushes old blocks as new, which show again when they
  are paged in; a push during the first load is overwritten by the answer, and its
  hash kept as seen; of two zones with one hash the second is never pushed; the walk
  puts old history at the front of the rolling feed and evicts the newest.
* *Privacy labels*. For an account the replay has not met the first operation is
  labelled a deshield, though the comment at db.rs 1636 calls it a shield; accounts
  funded at genesis are mislabelled. The stream never relabels, though the comment
  at 3301 names it; and a re-read for finality writes the label of decoding again
  and relabels only when it had new blocks.
* *Classification*. A pinata with mostly small solutions is taken for
  authenticated_transfer; the rc5 enum for a token unless every form of it is known
  from a named one; `content_prefers` only breaks exact ties (493).
* *CLI scan*. A chunk that is not answered is left out without a word. A first block
  id of 0 means "none yet", so a genesis 0 is forgotten by the next seed (2259),
  and a window with raw inscriptions only sets it to 0.

## 4. Fairness

`Finality.FairSpec`: the info poll (every 8 s), the reconciler (every 20 s) and
the stream's processing of an event it has received are loops of the runtime that
do not end while the generation stands; a job on the blocking pool ends. Nothing
is assumed of the seeds, the RPC reader, commits succeeding, or the chain
growing. `Backfill.FairSpec`: the pass is polled and its requests end, in an
answer or an error (the client has a timeout of 60 s), and its job ends.
`SeqReader.FairSpec`: the reader polls every 5 s, and its requests and jobs end;
nothing is assumed of the sequencer, which may stop, and nothing of the L1 tasks.
`Scans.FairSpec`: the tasks and the callers are polled by the runtime and their
requests end (a timeout of 60 s), and the standing discovery wakes up again (1672);
a walk of it that is not superseded, again and again, has every chunk answered for
once (strong fairness of that end of a walk: failed requests are transient). Forms
and discoveries on demand need not come. `LocalZone.FairSpec`: what a run awaits is
answered or times out (`localRpc`, 6753); no click need come.

## 5. What is proved

All theorems hold for every value of the constants that the modules' ASSUMEs admit;
what more one needs (of `Settling`, which is instantiated and has no ASSUME, or of
failures that are excluded) is a hypothesis in its statement.

* `FinalityProofs`: `TypeCorrect` (types, and no cursor beyond what it reads),
  `Evidence` (the inductive invariant `EvidenceInv`, given `TypeInv`), and from it
  `FinalIsEvidenced` and `SafeIsEvidenced` (both: `ReportHasEvidence`). The report is bounded by the L1 marks
  of the track in memory; after a restart that track is a stored summary, which
  was a clone in a job: the invariant must therefore speak of every copy. A step
  that writes marks does so with a block read off the chain at a slot that the
  chain has (`SeenIsEvidenced`); every other step copies. `ThresholdsNeverLowered`
  is the action property `NeverLowered`: each operation on a track keeps every
  threshold at least as high (`OperationsRaise`, `ReadsRaise`), and the sweep moves
  `finalized` alone, down only from above `latest` (`SweepRaises`).
* `BackfillProofs`: `BackfillTypes`, and `RangeIsStored`: if no request and no
  commit fails and no pass is superseded while it starts, the range between the
  cursors is stored. `RangeStored` is not inductive: `top` and `floor` are written
  by jobs that may be late. `RangeInv` says for every value that top has, had when
  the pass began, or may still get (`Tops`) that the range from the floor, the
  pass's floor and every floor still to be written up to it is stored
  (`FloorsCovered`), that what the walk has behind it is stored (`WalkCovered`),
  that no top is above lib (`TopsSettled`) and no floor precedes the first top
  (`TopFirst`). `DoneLeavesNothing` (`DoneIsComplete`) adds `DoneInv`: what a
  walk says it has seen of a channel, its genesis or so many silent chunks, is so
  (`WalkAccount`), and where done is set or about to be, every settled block of the
  channels that gate the walk is stored or lies below a silence, up to every top to
  come (`EndedComplete`). Its premise fixes which channels these are
  (`SameTargets`): done belongs to a scope, and a changed scope starts over.
  `BackfillCovers` (`Covers`) is the refinement of `Coverage`, under the premises of
  `RangeIsStored`. That a cursor moves only where nothing is missing is `RangeInv`;
  `SettledInv` adds that a job writes settled blocks and settled slots alone and ends a
  walk only after the first top. `EffectCovers` says of each kind of job which step
  of `Coverage` it is; the steps of a pass, the starts and the restarts are none.
  `PassesEndInTime` (`Descends`) has no premise: any request or write may fail. A pass
  has a number of steps left (`StepsLeft`: what its chunks still need, three times, and
  what its job needs), and every step of the pass or its job lowers it until the pass
  is superseded. It needs an invariant (`BoundInv`): a walk that is about to fetch has a
  slot before it, whatever floor and top have become meanwhile.
* `SeqReaderProofs`: `SeqTypes`; and, if no request and no commit fails,
  `NothingSkipped` (`NoHole`: what a reader without an L1 resumes after is stored)
  and `PassesAreComplete` (`PassComplete`). The inductive invariant is `HoleInv`:
  on a chain that was never reset no cursor passes the tip, and below each of
  them every block is stored or in the commit the reader awaits
  (`CursorsCovered`); without an L1 the same holds of each copy of the latest id,
  in memory, stored, and in the two commits that may be under way
  (`LatestCovered`).

* `TxStoreProofs`: `StoreTypes`; for a `Stable` set of records `FeedsAgree`,
  `ProgramIndexAgrees` and `AccountIndexAgrees`; and `ZoneFeedsAgree` and
  `NothingIsLost` without that premise. The lemma they turn on is `RowsKnown`: a
  stored row and whatever is still decoded for it agree on block, accounts and,
  raw inscriptions aside, time; raw ones are never rewritten (`RawAssumption`), so
  a rewrite moves no entry but that of the program index (`Rewriting`). Stamping
  raw rows moves entries that no other row shares, since no key has two rows
  (`Stamping`, from `Keyed` in `TypeOK`). The account index also needs
  `RelearnBare`: what the learner has read and will write names no row.
  `PagesShowOnce` (`PagesOnce`) needs what a client that pages has behind it: nothing
  past its cursor was shown, nothing was shown twice, and what it wants was shown or
  lies past the cursor (`Paged`). Every step that writes entries keeps that, as they
  go where their rows were or belong to rows the client did not want; a page turns by
  the first entries past the cursor, which exist because the order of the entries is
  strict and total (`FeedOrder`), the store is finite (`StoreAssumption`), and a set
  of naturals has a least element (`FirstEntry`, `PageIsFirst`).

* `ScansProofs`: `ScanTypes`, `ScansTheCurrent` (`AgainstCurrent`) and
  `LateAtMostOnce` (`LateOnce`). Neither is inductive. The first needs what a caller
  in the middle of its change has done already, unless two have met (`Scanning`,
  `Progress`): one caller at most is busy; from *bump* on the file and its copy are
  the configuration; from *reset* on the generation is its own and has no task yet;
  at *spawn* the state is of the configuration. The second (`LateInv`) adds that a
  task which has written late is of an old generation, so that its next look ends it.
  `AdoptsOnce` (`AdoptedOnce`) has a premise on where the server starts: a
  configuration file that this program saved (`Proper`), for it trusts the file.
  What a discovery found suits the configuration that it looked at (`AdoptInv`), so
  that pushing it there is proper (`PushProper`). `ScanningIsSeeded` (`ScanningHasSeed`):
  while the page says scanning, a caller is changing the configuration or a seed of
  the present scan has yet to clear that, unless two callers have met. It is inductive
  next to the others: a spawn that leaves it set starts a seed, and every way in which
  a present seed leaves its loop clears it (`WorkPends`, `CallersPend`).
  `TasksEndInTime` (`TasksRunDown`): each step of a seed, superseded or not, leaves it
  with less to do (`StepLessens`), and only a spawn makes new tasks.
* `LocalZoneProofs`: `LocalTypes`, `ReadsAWindow` (`Spec => Refines`) and
  `WindowIsExact`. The refinement needs an invariant of a run that is alone
  (`RunInv`): before it walks it starts where LOCAL ends; while it awaits a batch
  nothing is shown or given up below LOCAL's cursor (`Clean`); while a batch is
  decoded, what it sent is every block of the batch with something to show. That
  needs `NoBare`: when blocks with one transaction are skipped, that one is a tick,
  which `FairSample` gives for the first batch and the invariant carries on. Every
  action is then a step of `ReadWindow` or leaves the window alone (`Moves`), one
  lemma an action. `WindowIsExact` follows from the steps of `ReadWindow` alone
  (`TidyStep`). `CountersAgree` (`Counts`) is about the counters while no two runs
  have met: `CountInv` says that they are those of what is shown (`Right`), in LOCAL
  and in the session, and that a run which walks has counters of its own that LOCAL's
  follow (`Abreast`), one lemma an action. `ReadingHasRun` (`ReadingRuns`): while the
  page says that it connects or reads, a run is going, whichever of two runs ends last;
  it needs that a kept page never says so (`ReadInv`). `RunsEndInTime` (`RunsRunDown`):
  each step of a run, next to whatever others have made of the LOCAL from which it takes
  its place, leaves it with less to do (`Carries`, `Lessens`).
* `SettlingProofs`: `RestsOnEvidence` (`SaidOfZone`). The newest slot of the track is
  one that the zone has inscribed, none that was read is above it, and what was read
  is noted (`EvidenceInv`, given `SlotsInv`). That a set of slots has a largest one is
  a minimal counterexample in the well-founded order of the naturals
  (`SomeLargest`). This is the form of induction within the provers' reach: the
  theorem that it is well-founded takes a relation, not an operator.
* `ViewsProofs` states of `MCViews` what its run checks of five parts.
  - `OnlyTheGuilty` (`NotAccused`). Ids and positions of a generation go up together
    (`InOrder`, `IdsDiffer`), so blocks of one generation never share a height and a
    fair buffer holds exactly what was read (`OnePut`, `PutAllIs`); the breaks of
    that buffer are in bijection with its bad blocks (`BreaksAreBad`). For the
    readers, the one that alone has verified is at its cursor, or the cursor is in
    an older generation and above, where no link is judged (`Abreast`).
  - `LabelsAreRight` (`LabelsRight`). The balances after each block are a recursive
    function of the chain; that there is one, and that any two agree, is a minimal
    counterexample (`ReplayExists`, `ReplaysAgree`). A replay over a stored prefix is
    that function (`TrackedReplay`), so what it derives is right (`DerivedRight`); a
    relabeller keeps that in hand while commits go on.
  - `HealthRestsOnEvidence` (`SaidOfZone`), `RestsOnEvidence` with its variables
    replaced.
  - `ScansReport` (`Reported`). An aggregate is made from a set of slots (`MadeFrom`):
    its count is that set's, its extremes are members that bound the rest. Each slot
    keeps that (`SeenIs`), so do a chunk (`SeenAll`, again a minimal counterexample)
    and the seed of a track from several scans.
  - `PageShowsTheStore` (`FeedShows`). A page has the rows below the cursor, newest
    first: all, or `Page` of them with what lacks below the last (`PageIs`). Between
    the steps of a client (`FeedInv`): nothing that was paged in lies below the
    cursor, so a row that comes again with a page was pushed late; and what is owed is
    shown, or in the answer on its way, or below the cursor or that answer with more
    to come (`OwedInv`). The rolling feed has different hashes and they are `seen`
    (`PushStep`). It needs of transactions that each has its own place in the order of
    the feed.

Only model-checked: the liveness properties (`Promoted`, `Ends`, `Unstuck`,
`Follows`, `FinalFollows`, `AllAdopted`, `StopsDiscovering`, `OldTasksEnd`,
`Settles`), as fairness and ENABLED are out of the prover's reach, and `RightName`: it
compares sums over the set of calls of a program, for which a proof by induction over
data would be needed. Every other property of a passing run is the statement of a
theorem. Of four liveness properties what safety contributes is proved for every value
of the constants: a count of the steps left that every step lowers for `Ends`
(`PassesEndInTime`), `OldTasksEnd` (`TasksEndInTime`) and `Settles` (`RunsEndInTime`),
and that somebody is left whose end will show for `StopsDiscovering` (`ScanningIsSeeded`)
and `Settles` (`ReadingHasRun`). What TLC adds is that fairness makes those steps
happen. These five are theorems only and properties of no run, since the runs of
the liveness properties fail on the same mistakes.

## 6. Plan

What is left, in this order:

1. `ReadWindow` as the promise of `feedMore` over the store as well.
2. A zone that starts over in the store (two times for one hash, db.rs 554), and a
   change between L1 and RPC-only configurations in `SeqReader` (3214).
3. The filters, `SCAN_CAP` and the offset-paged pages of accounts and programs.

## 7. Not modelled

Codecs (borsh, hex, base64, JSON): their results are inputs here. The printing of the
CLI and its commands of one request. The admin token and the request gate:
comparisons without state. HTML, CSS and rendering in the page's script. The launcher
and the installer: operating system calls. In the store: deployed ELFs, rolling
statistics, the tables of token names and owners. In the classifier: amm swaps,
private and other kinds of invocation, the table of known programs. Statistics of a
track that no property is about (counts, timestamps, versions, balances), and
`measured_slot_secs`. An L1 that reorganises above lib.
