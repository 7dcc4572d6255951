# FinPulse in TLA+

TLA+ specifications of FinPulse, a synthetic fintech-data platform: what its
parts promise, checked with TLC on small instances and, for most of them, proved
with TLAPS for every value of the constants.

The repository holds two systems that share contracts, quality rules and a
loader: a *web sandbox* (`src/finpulse/demo`, `web/`), where each visitor owns a small
warehouse in SQLite, and a *reference platform* (Kafka producer, Spark streaming
job, lakehouse with backfills, PostgreSQL warehouse, dbt marts, an Airflow DAG), with a
portable pipeline that does the platform's work in one process.  The sandbox is what
runs in public and where requests of many users meet the same state, so it came first.

Paths below are relative to the repository root.

## 1. The system

### Parts, state, operations

| Part | State | Operations | Modules |
|---|---|---|---|
| Pipeline engine, `src/finpulse/demo/engine.py` | one SQLite file per visitor: deliveries (bronze), `event_fact` and typed tables, runs, audit, generator cursor, revision | `simulate`, `process`, `replay`, `initialize` (new visitor and reset), `export_csv` | `Workspace`, `EventLedger`, `WorkspaceLedger`, `WorkspaceTx`, `WorkspaceProofs` |
| Sessions, `demo/store.py` | index of visitors with expiry, lock dictionary, slots, files | `session` (sweep, admit, create), `workspace` (slot, lock, transaction) | `WorkspaceStore`, `StoreProofs` |
| Request rates, `demo/store.py` | fixed windows per visitor and per address | part of `session` | `RateWindows`, `RatesProofs` |
| HTTP layer, `demo/main.py` | cookie of each browser | guard middleware, the requests, reset | in the modules above |
| Web client, `web/src` | data on screen, requests in flight | load, change, filter, reset | `WebClient`, `WebProofs` |
| Quality rules and contracts, `quality/rules.py`, `contracts.py` | none | `from_json`, `validate_business_rules` | outcomes in `Workspace`, `StreamPipeline`, `LocalPipeline` |
| Generator, `generator.py` | customers, applications, approvals drawn so far | `next_event` | `Generator`, `GeneratorProofs` |
| Producer, `producer.py` | generator, send queue | send, poll, stop | `Producer`, `GeneratorProofs` |
| Streaming job, `streaming/spark_job.py` | offsets, deduplication state, bronze, silver, warehouse tables, DLQ, quarantine | three streaming queries, `upsert_partition` | `StreamPipeline`, `StreamProofs` |
| Backfill, `batch/backfill.py` | silver partitions | one overwrite | `Lakehouse`, `LakehouseProofs` |
| Portable pipeline, `local_pipeline.py` | one run's database, its views and files | `run_local_demo`, `run` | `LocalPipeline`, `GeneratorProofs` |
| Daily DAG, `airflow/dags` | marts, audit rows | seven tasks with retries | `DailyPortfolio`, `PortfolioProofs` |
| dbt models, `dbt/`, `sql/` | tables and views | declarative | in part: see *Not modelled* |
| Serving API, dashboard, infrastructure | none of their own | stateless reads, configuration | not modelled |

### How they interact

A browser's request enters the guard middleware (`main.py:76`), which calls
`WorkspaceStore.session()` on a thread of the pool: under one lock it sweeps
expired visitors, then admits the presented session or creates one.  The handler
then opens `WorkspaceStore.workspace()`, which is *not* under that lock: it takes a
slot, waits up to two seconds for the visitor's own lock, opens the SQLite file
and a transaction, runs one or two operations of the engine, and commits or rolls
back.  The response carries the cookie.

The engine's operations call each other inside a transaction: `replay` stages the
correction and calls `process` for it alone; `initialize` calls `simulate` and
`process`; reset empties every table and calls `initialize`.

The browser loads the workspace once, and again for each country chosen; a change is a
POST whose answer is the whole snapshot, followed by a second read if a country is
selected; the event listing is read by an effect of its own whenever its filters or the
revision change (`web/src/App.jsx:402-422`, `1330-1385`).  Nothing orders these answers.

A producer draws events from a generator seeded by configuration and hands them to
librdkafka, which delivers in the background; the key is the customer.  A restarted producer,
or a second replica, draws the same events again.

The streaming job reads the producer's topic with three independent queries in one
process.  Each has a checkpoint of its own; they share nothing else, but the
first to fail ends them all (`awaitAnyTermination`, `spark_job.py:346`).  A backfill reads what the
bronze query wrote and replaces partitions of what the silver query is appending to.  The
warehouse tables are what dbt, the DAG and the serving API read, while the stream goes on
filling them.

### What is hard

* A defective delivery, its correction and re-deliveries of the same event meet
  in any order of batches, runs and approvals; event ids must be loaded once, and
  room kept for corrections (`engine.py:246`, `332`, `490-507`).
* Four tables tell the same story (deliveries, facts, runs, audit), and each
  operation updates several of them (`engine.py:372-459`).
* Sweeps, creations and transactions run side by side, with two kinds of locks
  and a dictionary of locks that shrinks (`store.py:44-50`, `107-115`).
* The index commits late: files go at once, rows with the next commit; a crash
  or refusal can fall between (`store.py:35-39`, `86-103`).

* A micro-batch writes to silver, `event_fact` and three typed tables one after
  the other and commits its offsets last; a crash anywhere in between repeats it
  (`spark_job.py:138-246`).  What was refused, dropped or deduplicated must not stand in the way of a
  later valid message with the same event id (`322-327`).

* Fixed windows let through twice their limit around a boundary, forget at a restart, and
  a refused request renews nothing (`store.py:60-101`).
* An event is drawn before it is known to fit into the send queue, and a restarted source
  repeats its predecessor's event ids (`producer.py:61`, `94`).
* The portable pipeline marks an event as seen before the rules judge it, and clears and fills its
  directory file by file (`local_pipeline.py:197`, `465`).
* A backfill selects by day of arrival and overwrites by day of event, beside a stream that
  does not wait for it and does not bring again what it has brought (`backfill.py:27-51`).
* Marts are replaced before they are tested, by tasks that may be repeated after their
  work was done, over a warehouse that changes between tasks (`finpulse_daily_portfolio.py:52-94`).
* Answers come back in any order, to a page whose country, filters and workspace may have
  changed since (`App.jsx:410-422`, `1332`, `1371`).

`PROJECT.json` lists each hazard with its line and the properties that cover it, or why none does.

### What makes each part correct

* *Engine*: facts are exactly the accepted envelopes and no event is accepted
  twice; bronze is never rewritten; counters and tables agree; a known
  correction can be approved; every request happens completely or not at all.
* *Sessions*: confirmed changes survive until expiry; an admitted visitor's files
  are not swept away; one transaction per visitor; slots, locks and the guard
  come back on every path; files and index rows agree after a crash; no admitted
  request waits for ever.
* *Rates*: no minute sees more than the windows can let through; nobody is refused for what
  lies further back; who keeps asking keeps the session.
* *Web client*: what is shown is what was asked for; at rest it is the last state of its
  workspace; it does not wait for ever.
* *Producer*: runs tell one coherent story, each in every customer's order.
* *Streaming job*: committed offsets never pass a message that reached no
  destination; silver covers the warehouse, the typed tables follow `event_fact`;
  the deduplication state is exactly what was loaded; every message settles.
* *Backfill*: what is lost from silver is lost by a backfill, what is doubled by one or by a micro-batch
  tried again, and a complete backfill repairs both.
* *Portable pipeline*: the first delivery the contract accepts decides; marts follow from the
  story; documents belong to the data they lie beside.
* *Daily DAG*: an audit record vouches for marts that passed the tests of its run; every run ends.

## 2. The modules

### `Workspace`: one visitor's warehouse

`db` is the committed contents of the SQLite file as a record:

| Field | In the code |
|---|---|
| `deliveries` | rows of `demo_deliveries` in `seq` order (`engine.py:113-127`): event number, raw envelope, the correction kept beside a defect, status, late warning, run, replacement |
| `facts` | `event_fact` (event id and envelope); the typed tables follow it row by row |
| `runs` | `demo_runs`/`pipeline_runs` with trigger and counters |
| `cursor`, `revision` | `demo_state`: events drawn so far, changes so far |
| `audit` | `demo_audit`, oldest first, trimmed to `MaxAudit` |

An envelope is one of five values: `good`, `late` (loads with the freshness
warning), and the three defects `inject_invalid` writes: `schema` (the
contract refuses it), `ingested` and `future` (the business rules do).  `FailsContract`,
`FailsRules` and `IsLate` say what the contract and the rules make of each.

Every operation is a function from a warehouse to a warehouse with a separate
predicate for its guards:

| Code | Operators |
|---|---|
| `simulate` (`engine.py:229-287`) | `SimulateAllowed`, `Required`, `Simulated`, `AfterSimulate` |
| `process` (`290-459`) | `ProcessAllowed`, `AlreadyLoaded`, `Outcome`, `Settled`, `RunRecord`, `AfterProcess` |
| `replay` (`482-524`) | `Replayable`, `ReplayAllowed`, `WithCorrection`, `AfterReplay` |
| `initialize` (`462-479`) | `FirstRun`, `Rehearsal`, `Seeded` |
| `audit` (`153-165`) | `Logged` |

The actions `Simulate`, `RunPipeline`, `Replay`, `Reset` and `Export` are the
requests of `main.py:199-252`.  A request is one step because it is one SQLite
transaction; `WorkspaceTx` justifies that.

Abstracted: envelope contents, identifiers, wording, durations, and the read
models (`snapshot`, `analytics`, `event_page`), which change nothing.

### `EventLedger` and `WorkspaceLedger`: what it promises

`EventLedger` is the abstract specification: each event is *unseen*, *waiting*,
*held* or *loaded*; batches offer, a run settles everything that waits, an
approval releases one held event and touches nothing else, a reset starts over.
Re-deliveries are invisible.  `WorkspaceLedger` maps a warehouse to the phases and
states `ImplementsLedger`.

### `WorkspaceTx`: a request statement by statement

Adds a working copy (`work`) and the position in the transaction (`tx`), and takes
every request apart: rows are staged one at a time, the contract is checked for all
selected rows before the first is deduplicated, a row is suppressed, held back or
loaded one at a time, counters are accumulated, run and audit recorded, reset empties
the tables and then fills them operation by operation of the engine (`Fill`: six steps, each of them whole,
since their insides are what the other requests take apart).  `Fault` may strike after any statement and rolls back.
`ImplementsWorkspace` (that is, `Workspace!Spec` of `db`) says that requests are
atomic and that the loop over rows computes what `Outcome` says of a whole
selection.  Deduplication by *looking up what this very transaction has inserted*
against `AlreadyLoaded`'s declarative form is the part worth checking.

### `WorkspaceStore`: sessions

Threads run `session()` and `workspace()` step by step, each step ending where
another thread may observe or change shared state.

| Variable | In the code |
|---|---|
| `rows`, `saved` | table `visitors` as the index connection reads it, and as last committed |
| `file` | the SQLite file of a visitor: absent, without tables, or with a number of committed changes |
| `locks`, `popped`, `held` | the dictionary of lock objects; objects are told apart by a generation, since one dropped from the dictionary may still be held |
| `slots` | the bounded semaphore |
| `guard` | the thread that holds the store's `RLock` |
| `req` | each thread's position and local variables |
| `cookie`, `acked` | what a browser presents next; changes confirmed to it |

`Enter`, `Spare`/`Doom`/`Remove` (the sweep; looking and removing are two
steps), `Renew`, `Refuse`, `Create`, `Initialize`, `Register` and their failures are
`session()`; `TakeSlot` to `Leave` are `workspace()`; `Crash` kills the process,
and what is not committed or not in a file or a browser is lost.

Abstracted: request rates (`Refuse` may happen to any request; `RateWindows` says when), the contents of a
warehouse (a count of changes), SQLite's own locks (the visitor lock makes them
uncontended except against the sweep, which unlinks files without SQLite).
A transaction reads the warehouse when it opens it and writes back what it read plus
its change: if two could overlap, a confirmed change would be lost, and that
is how the model sees it.

### `StreamPipeline`: the streaming job

| Variable | In the code |
|---|---|
| `topic` | the messages of a run in the order in which they are read; all are there from the start, and one becomes visible when a batch is planned that reaches it |
| `bronze` | offsets of the bronze query, whose file sink publishes a batch once |
| `done`, `plan` | the commit log and the offset log of the checkpoints `silver` and `quarantine` |
| `seen`, `newest`, `late` | the committed state of `dropDuplicates(["event_id"])` and of `withWatermark` |
| `silver`, `facts`, `rows` | copies in silver, `event_fact`, the typed tables |
| `dlq`, `quarantine` | copies in the dead-letter topic and in the quarantine files |
| `run` | where each query is in its batch; lost with the process |

`Retain` is a batch of the bronze query.  `StartGood`, `AppendSilver`, `LoadFact`,
`LoadRow` and `CommitGood` are `process_good_batch` in the order of its writes,
`StartBad`, `SendDlq`, `AppendQuarantine` and `CommitBad` are `process_bad_batch`.
Within a step messages are taken in any order, since Spark runs partitions in
parallel and each upserts in a transaction of its own.  `Halt` is a sink that
refuses a message; `Crash` is any other end of the process.

A message has an event, an ingestion time, and possibly a flaw, each standing for
a class: `wrong_version` is what `parse_stream` gives a `quality_reason`;
`no_version` is what it overlooks and `event_fact` refuses (a null compares with nothing,
`spark_job.py:60`); `no_payment` is what it overlooks and a typed table refuses
(`sql/00_init.sql:109`).

External, and modelled from how the job uses it: that Spark writes the end of a
batch to its offset log before it runs it (`Plan`), repeats the batch after a restart from
the same deduplication state, and tells late messages by the watermark of the
batch before (Spark 3.5).  Six partitions are one log, because no property depends on the
partition; copies are counted to 2, which stands for more.  Metrics, schemas and payloads are left out.

### `RateWindows`: what the limits let through

One call of `session()` is one step, since it runs under the guard.  `visitors` are rows of the
index with the start, counts and expiry of their window; `windows` is `ip_windows`, which a
restart forgets.  `Present` is a request of a known visitor, served or refused with 429;
`Begin`, `BeginFails` and `TurnAway` are requests that need a new workspace, in the order of
the code's checks: prune the windows, judge the address, judge the capacity, count, initialize,
insert.  A clock in ticks of a fraction of a minute, and history variables that hold a
mark for everything let in during the last minute, make the *sliding* minute visible against the
code's fixed windows.

### `Generator` and `Producer`

`Generator` says which event `next_event()` may draw after which: registrations, activity,
applications, decisions on any earlier application (again and again, also contradictory),
repayments of any application once approved.  Which of these it draws is the seed's choice:
the model leaves it open the first time any run draws event *n* and repeats it for every other
run (`NextEvents`).  `Coherent` is the reference: what a possible story is, said without the
generator's memory.

`Producer` takes the loop of `produce_forever` apart where the client library can act: an iteration draws an
event and hands it over, together with the malformed message that may be due; a full queue
raises `BufferError` at either (`HandOver`).  `Deliver` and `GiveUp` are the library, in the
order of each key; `Stop` and `End` the signal and the end of the process, by flush or crash.

### `LocalPipeline`: the portable pipeline

`Begin`, `Clear`, `Open`, `ReadNext`/`ReadAgain`, `Finish` are `run_local_demo()` and `run()`, with
`Judge` the order in which a record is deduplicated and judged.  `disk` says of each file of
the output directory which run it is of and whether it is complete; `Crash` may end the process between any
two steps, and a rerun finds what is left.  The views are operators over the loaded events:
`Decision` (latest), `RepaymentsOf`, `Funnel`.

### `Lakehouse`: stream and backfill over bronze and silver

`topic` holds messages with the day of arrival (bronze's partitions) and of their event
(silver's).  `Retain` is the bronze query.  The silver query goes at its own pace: a micro-batch is appended as a
whole (`AppendAll`), or in part or whole but followed by a failure (`BreakOff`), and then tried again over the same
messages until `Commit`.  A backfill reads a window of bronze at one moment (`StartBackfill`), keeps one row per event, and
its commit removes and places partition after partition (`RemovePartition`, `PlacePartition`), while the
stream goes on; `Fail` leaves it half done.  `marks` is a history variable: which events were missing from
the rows that replaced a partition, which a backfill wrote ahead of the stream's commit or beside another copy, and which were in a
micro-batch tried again.

### `DailyPortfolio`: the DAG

Seven tasks with state and tries.  `StartTask`, `GiveUp`, `FailTask` are the scheduler; `Check`,
`BuildFacts`/`BuildDerived`, `Test`, `Publish`, `Quietly` the work; `Report` lets an attempt die after its
work was done, so that the work is repeated.  `Stream` changes the warehouse at any moment;
which versions pass the dbt tests is chosen at the start.

### `WebClient`: the page

`workspaces` are those the visitor has got, each with its resets and its revision, `expired` those whose
session has run out, `cookie` the one that requests are sent for; `ui` is the state of `App` and `Events`, `calls` the
requests in flight.  A request is served in the workspace of its session, or in a new one if that is unknown or has run
out (`Place`, `Opened`), and its answer sets the cookie (`Hear`).  `Render` is what React does after every
handler: unmount the listing when the page changes, run its effect when a dependency changed.
The `Arrives` and `Fails` actions are the continuations of each `await`.  `crossing`, `crossed`, `unheard`
and `unread` are history variables: the user went on while something was under way, and what is on screen may have come
from there; an error was announced.

### The `Slip...` operators

Beside some operators stands a plausible mistake in it (`SlipNoLock`,
`SlipReplayRunsAll`...).  Nothing uses them; substituting one for its operator has to
make the named run fail, which shows that the property can tell.  `PROJECT.json`
pairs each property with one.

## 3. The runs

| Run | Config | What it asks | States |
|---|---|---|---|
| `workspace` | `MCWorkspace.cfg` | the invariants and action properties of the engine; the ledger | 91 thousand |
| `workspace_tx` | `MCWorkspaceTx.cfg` | atomicity and agreement with `Workspace`; why a request is refused; that it commits what was asked | 964 thousand |
| `store` | `MCWorkspaceStore.cfg` | sessions with a crash or a failed index write; requests shorter than a session's life | 2.2 million |
| `store_live` | `MCWorkspaceStoreLive.cfg` | three threads, requests that may outlive their session: every admitted request is answered, open transactions are spared | 423 thousand |
| `rates` | `MCRateWindows.cfg` | what any minute can see, who is refused, who is swept away | 670 thousand |
| `web` | `MCWebClient.cfg` | data and rows are those asked for, up to date at rest, also where a session ran out, and the page stops waiting | 101 thousand |
| `producer` | `MCProducer.cfg` | the story, and the order in which each run delivers it, whatever is lost and in whichever run | 4.3 million |
| `stream` | `MCStreamPipeline.cfg` | checkpoints, deduplication, silver, warehouse and dead letters agree wherever a crash or a refusal strikes | 10.7 million |
| `stream_flaws` | `MCStreamPipelineFlaws.cfg` | every message settles (section 6) | violated |
| `lakehouse` | `MCLakehouse.cfg` | what is lost and doubled in silver, by what, and what a complete backfill repairs | 1.6 million |
| `local` | `MCLocalPipeline.cfg` | what is loaded and counted, what the marts say, what lies in the directory | 3.9 million |
| `daily` | `MCDailyPortfolio.cfg` | what an audit record vouches for; that every run ends | 336 thousand |

### Bounds

*Workspace.*  The bounds are those of the code, scaled down: 13 deliveries, 5
runs, batches of 3, an audit of 2, samples of 2+1+3+1.  They are small enough that
every limit is reached (a full warehouse, the last run, a trimmed audit, a duplicate
batch that wraps around its sources), and the sample holds one delivery of each
defect.  Three runs beyond the sample suffice for batch, run and approval of the same event in every
order.  No state constraint is used: the code's limits, and the reset, make the
space finite.  The transaction run uses a smaller sample, because each committed
state is expanded into every prefix of every request.

*Store.*  `MaxTime`, `MaxChanges` and `MaxMishaps` bound exploration;
the rest are the code's constants.  Two threads suffice for a sweep beside a
transaction and two requests of one visitor; `store_live` has a third, because the
lock dictionary needs an owner, a sweeper and a newcomer before two lock objects of
one visitor exist.  `MaxTime = 4` with `Ttl = 2` lets a session be created, renewed once
and expire.  Threads, browsers and identifiers are symmetric in the safety run.

`Stall` bounds the time a request spends after it took the guard.  `store`
has `Stall < Ttl`: seconds against two hours.  `store_live` has `Stall = Ttl`, so that requests
may outlive their session, and checks what stays.  What goes is `OneTransactionPerVisitor` and
`InUseIsNeverRemoved`: a request that stalls for two hours between `session()` and `workspace()` may have its
visitor removed, lock included; a later request then gets a new lock object beside the one
still in use.

*Rates.*  Two ticks to the minute are what it takes to spend a limit at the end of a window and again
at the start of the next; a lifetime of two minutes and seven ticks let a session expire while its
visitor keeps asking.  One restart a minute.

*Web.*  One market beside "all", one filter beside none, a first visit or a return, three requests,
the first load among them, and those that follow from them; one session that runs out.  A change and a
country chosen during it, a reset beneath an open listing, two requests of a visitor without
a session, each answered in every order, fit into three.

*Producer.*  Two runs one after the other, two customers, four events, a queue of two and a
malformed message at every second: registration, application, approval and repayment of one customer
fit, any of them lost, in either run.  The proofs cover the rest, two replicas at a time included.

*Stream.*  Two events (one with a typed table) and three messages give a
message, its redelivery and a third that is late, defective or of another event, in every
order and cut into batches in every way.  Three messages are also what it takes to see a late
one dropped: one that moves the watermark, one to pass it on, and the late one.  One crash is enough for
every repeated step; a message the warehouse refuses restarts the process without limit.  `stream_flaws`
has two messages, a flaw more, and fairness.

*Lakehouse.*  Two events, two days, two messages, three appends and two backfills: a redelivery, an
event of the first day that arrives on the second or is used again there, a micro-batch tried again, and a backfill that
dies before one that repairs.

*Local.*  Five records of a story of up to five events with one customer: registration,
application, a decision and another, a repayment; or fewer events and redeliveries.  Two runs in one
directory, since a third finds what a second may find.

*Daily.*  One retry instead of two, two runs, two versions of the warehouse and one lost
report: a task repeated once after its work was done, in the first run or the second.

The runs that do not look for deadlock are of systems that stop: a finite topic has been read, a
user has clicked for the last time, the days have been processed.

### Fairness

*Store*: weak fairness of each thread's step: a thread
that can continue does.  That is what the operating system's scheduler gives.
Nothing is assumed about who gets the guard or a lock, since Python's locks
promise no order; hence `AdmittedIsAnswered` starts once a request holds the guard and says
nothing about waiting for it.  The visitor lock's wait is bounded by its
timeout, which is what the property rests on (`TimeOut` is the step whose removal
breaks it).  `Arrive`, `Tick` and `Crash` carry no fairness.

*Stream*: weak fairness of each query: triggers fire every ten
seconds (`spark_job.py:331`, `338`), a failed container is restarted
(`docker-compose.yml:114`), and crashes end at some time (`MaxCrashes`).

*Daily*: weak fairness of the scheduler and the tasks together: what can be started is, and an attempt ends, by its
`execution_timeout` (`finpulse_daily_portfolio.py:18`) if by nothing else.  `Stream` and `Trigger` carry none.

*Web*: weak fairness of each request: the browser ends it, with an answer or an error.  The user's
actions carry none.

### The `Slip...` operators

Beside some operators stands a plausible mistake in it (`SlipNoLock`,
`SlipReplayRunsAll`...).  Nothing uses them; substituting one for its operator has to
make the named run fail, which shows that the property can tell.  `PROJECT.json`
pairs each property with one.

## 4. What the properties say

`Workspace`: `Inv` (the inductive invariant, checked so that
TLC and TLAPS agree on it; the type invariant is part of it); `RoomForEveryCorrection`; `FactsMatchAccepted`;
`OnlyRunsCanBlockReplay`; `EveryReplayHasItsRun`; `CountersAgree` (what a run reported, and what
`snapshot` adds up, also after later approvals changed a status under
a finished run); `SuppressedBehindOriginal`; `HistoryIsKept` (deliveries, facts, and an audit of the newest
entries, neither fewer nor older); `ImplementsLedger`.

`WorkspaceTx`: `ImplementsWorkspace`; `RefusedForAReason` (a request is refused
only if its guard in `Workspace` fails for the committed state it began in, although
parts of it were already written); `CommitsWhatWasAsked`.

`WorkspaceStore`: `ResourcesHeld` (slots, locks, places in the index); `OneTransactionPerVisitor`;
`ConfirmedChangesStay`; `VisitorsHaveWarehouses`; `OrphansComeFromMishaps`; `InUseIsNeverRemoved`;
`OpenTransactionsAreSpared`; `AdmittedIsAnswered`.

`RateWindows`: `WithinTwiceTheLimit` (and, for an address, one limit more for each restart);
`RefusalsAreEarned`; `ActiveVisitorsStay` (for the lifetime less one window after the last
request, refused or not).

`WebClient`: `ShownAsAsked`; `CurrentAtRest`; `WaitingEnds`.  Of data, the first two say nothing while `crossed`
holds: the user chose a country, or began a change, while a change or a repeated load was under way, and since then
no answer was shown that nothing crossed.  The code does not keep them in that case, and that they hold without it says that
there is no other (section 6).  `CurrentAtRest` is about the workspace that the data were read from: whether it is still
the visitor's is a different question, to which the page has no answer (section 6).

`Producer`: `StoryIsCoherent`; `NeededComesFirst` (of each run: an event comes before what it needs only if that
never comes from this run).

`StreamPipeline`: `NothingSkipped`, `WarehouseFollowsSilver`, `SeenIsLoaded`,
`DeadLettersComplete`, `CopiesNeedARepetition`, `EveryMessageSettles`.

`Lakehouse`: `DamageHasACause` (every loss in silver is a backfill's; every copy a backfill's or that of a
micro-batch tried again; each of a known kind); `RebuildRestores` (if it has read all that is committed and the stream
appends nothing from its start to its end).

`LocalPipeline`: `FirstDeliveryDecides`; `MartsTellTheStory`; `ArtifactsAgree`.

`DailyPortfolio`: `AuditedMartsWereTested`; `RunsEnd`.

Each is stated in words above its definition.

## 5. What is proved

Eight modules hold proofs.  Every theorem is for every value of the constants that the named
assumptions of the module allow, so for 2,500 deliveries, 40 visitors, 8 slots and topics of
any length.

| Module | Theorem | States |
|---|---|---|
| `WorkspaceProofs` | `Soundness` | `Spec => []Inv` |
| `WorkspaceProofs` | `TypeCorrect` | `Spec => []TypeOK` |
| `WorkspaceProofs` | `RoomKept` | `Spec => []RoomForEveryCorrection` |
| `WorkspaceProofs` | `FactsOnce` | `Spec => []FactsMatchAccepted` |
| `WorkspaceProofs` | `ApprovalsBlockedByRunsOnly` | `Spec => []OnlyRunsCanBlockReplay` |
| `WorkspaceProofs` | `SuppressionJustified` | `Spec => []SuppressedBehindOriginal` |
| `WorkspaceProofs` | `ApprovalsTraceable` | `Spec => []EveryReplayHasItsRun` |
| `WorkspaceProofs` | `ReportsAgree` | `Spec => []CountersAgree` |
| `WorkspaceProofs` | `HistoryKept` | `Spec => HistoryIsKept` |
| `WorkspaceProofs` | `WarehouseImplementsLedger` | `Spec => ImplementsLedger` |
| `WorkspaceProofs` | `WorkFollowsRequest` | `TxSpec => []TxInv` |
| `WorkspaceProofs` | `TransactionsImplementWorkspace` | `TxSpec => ImplementsWorkspace` |
| `WorkspaceProofs` | `RefusalsHaveTheirCause` | `TxSpec => RefusedForAReason` |
| `WorkspaceProofs` | `CommitsAreAsAsked` | `TxSpec => CommitsWhatWasAsked` |
| `StoreProofs` | `ResourcesAreHeld` | `Spec => []ResourcesHeld` |
| `StoreProofs` | `OpenSpared` | `Spec => OpenTransactionsAreSpared` |
| `StoreProofs` | `TransactionsTakeTurns` | `ASSUME Stall < Ttl PROVE Spec => []OneTransactionPerVisitor` |
| `StoreProofs` | `WarehousesInUseStay` | `ASSUME Stall < Ttl PROVE Spec => InUseIsNeverRemoved` |
| `StoreProofs` | `WarehousesAreThere` | `ASSUME Stall < Ttl PROVE Spec => []VisitorsHaveWarehouses` |
| `StoreProofs` | `ConfirmedChangesAreKept` | `ASSUME Stall < Ttl PROVE Spec => []ConfirmedChangesStay` |
| `StoreProofs` | `OrphansAreCounted` | `ASSUME Stall < Ttl PROVE Spec => []OrphansComeFromMishaps` |
| `StoreProofs` | `StoreTypes` | `Spec => []StoreTypeOK` |
| `RatesProofs` | `CountersTally` | `Spec => []RatesInv` |
| `RatesProofs` | `TwiceTheLimitAtMost` | `Spec => []WithinTwiceTheLimit` |
| `RatesProofs` | `RefusalsRestOnTheLastMinute` | `Spec => []RefusalsAreEarned` |
| `RatesProofs` | `VisitorsStayWhileTheyAsk` | `Spec => []ActiveVisitorsStay` |
| `WebProofs` | `RequestsAreAccountedFor` | `Spec => []WebInv` |
| `WebProofs` | `PageShowsWhatWasAsked` | `Spec => []ShownAsAsked` |
| `WebProofs` | `PageIsCurrentAtRest` | `Spec => []CurrentAtRest` |
| `GeneratorProofs` | `StoryHolds` | `ProducerSpec => []StoryIsCoherent` |
| `GeneratorProofs` | `NeededHolds` | `ProducerSpec => []NeededComesFirst` |
| `GeneratorProofs` | `ProducerTypes` | `ProducerSpec => []ProducerTypeOK` |
| `GeneratorProofs` | `FirstDecides` | `Spec => []FirstDeliveryDecides` |
| `GeneratorProofs` | `MartsAreRight` | `Spec => []MartsTellTheStory` |
| `GeneratorProofs` | `ArtifactsBelongTogether` | `Spec => []ArtifactsAgree` |
| `GeneratorProofs` | `LocalTypes` | `Spec => []LocalTypeOK` |
| `StreamProofs` | `NoneSkipped` | `Spec => []NothingSkipped` |
| `StreamProofs` | `SeenAgrees` | `Spec => []SeenIsLoaded` |
| `StreamProofs` | `SilverLeads` | `Spec => []WarehouseFollowsSilver` |
| `StreamProofs` | `DeadLettersKept` | `Spec => []DeadLettersComplete` |
| `StreamProofs` | `CopiesExplained` | `Spec => []CopiesNeedARepetition` |
| `StreamProofs` | `StreamTypes` | `Spec => []StreamTypeOK` |
| `LakehouseProofs` | `DamageIsExplained` | `Spec => []DamageHasACause` |
| `LakehouseProofs` | `RebuildsRestore` | `Spec => RebuildRestores` |
| `LakehouseProofs` | `LakehouseTypes` | `Spec => []LakehouseTypeOK` |
| `PortfolioProofs` | `AuditsAreTrue` | `Spec => []AuditedMartsWereTested` |
| `PortfolioProofs` | `PortfolioTypes` | `Spec => []PortfolioTypeOK` |

`GeneratorProofs` holds the theorems about the producer and the portable pipeline, which both rest on the
lemmas about the generator.  Every invariant, action property and refinement of a run is proved; of the type invariants,
some are proved only.

*Workspace.*  `FactsMatchAccepted` is not inductive: an approval would load an
event a second time if a re-delivery of it could have been loaded meanwhile.  It cannot,
because nothing but the correction can load an event whose defective delivery is
waiting (`AwaitsAlone`), because duplicate batches copy accepted deliveries only,
because the generator never draws a number twice (`DrawnFromGenerator`).
Likewise the room for corrections depends on which rows carry one
(`StatusFollowsRaw`).  `Sound` collects these parts; it is a predicate on warehouse
*values*, so that it is proved once for each operator (`AfterSimulate`,
`AfterProcess`, `AfterReplay`, `Logged`) and then serves both the requests and
`initialize`, which chains five of them: `SeededSound` follows by applying the
operator lemmas in turn.
What ties the tables to the runs is a second invariant, `Linked`, proved with `Sound` in hand: a row has
a run exactly once it is settled, and never a later one than exists (`Claims`); each run's counters are
the numbers of the rows that name it (`Counted`); a duplicate, or a pending copy of a loaded event, has its original
before it (`Originals`), which is what lets the next run suppress it; each approval has a run of its own (`Approved`).
Stated for finished runs alone, `SuppressedBehindOriginal` would not be inductive: a batch of duplicates is
pending when it is written and suppressed by a later request.  The ledger is then a case distinction on
the phase of one event: a run takes the first of its clean pending rows (`FirstClean`, by
well-foundedness of the row numbers), an approval moves one event, and nothing else moves any.

*Transactions.*  `initialize()` of a reset is six steps (`Fill`), from the first batch staged to the second run.
`TxInv` says at each statement how the working copy follows from the committed warehouse:
a batch of which the first rows are staged, a run of which some of its rows are settled, with the counters
of just these, or the outcome.  A loop over rows is thus compared with the outcome of the whole selection, row
by row: taking one more row out of what is left to do adds exactly its outcome.  Which rows of a
run are taken first matters in the quality loop alone, where the first of several clean deliveries is accepted and the
others are duplicates of it: all rows done lie before those left (`FirstIsLeast`).

*Rates.*  `RatesInv` ties each count to the history it counts (`Tally`): the window's own requests are at most
its count, exactly it while the window lasts, and what the last minute holds of earlier windows is at most one limit
more.  The history of an address loses its count at a restart, at most once per restart in any stretch of the minute
(`Spread`).  A request that is counted is a mark of its own (`Now`), so that counts are cardinalities
and no induction over sums is needed.  The lifetime must exceed a window (`RateAssumption`).

*Store.*  Everything rests on where the threads are.  `Resources` says which position holds what:
names of sessions being set up are nobody else's (`Names`), the dictionary holds the lock a request goes by
unless its visitor was removed (`Keyed`), a lock is held by the transaction that goes by it (`Holding`),
slots are counted (`Counting`), a place in the index is free while a visitor is set up (`Indexed`).
That a sweep cannot hit a visitor in use needs time: what is on a sweep's list had run out when it
began and nobody renews it (`Sweeping`); requests get the guard in the order of their times
(`Prompt`); hence, *if* `Stall < Ttl`, the session of an admitted request outlives it (`Extended`).  The five
theorems that need this condition state it as `ASSUME Stall < Ttl`; `OpenSpared`, `ResourcesAreHeld` and
`StoreTypes` do without.

*Stream.*  What a query has written to each sink is a function of its position in the batch (`InSilver`,
`InFacts`, `InRows`, `InDlq`, `InQuarantine`); the invariant relates these sets to the sinks (`Good`,
`Bad`), warehouse and deduplication state (`Warehouse`), and says where a watermark comes from (`Marked`).
That copies need a repetition is inductive only together with what is in silver so far, once (`Once`).

*Producer and portable pipeline.*  A generator remembers exactly what the events it has drawn tell
(`Remembers`); so whatever it may draw fits behind them, in whichever run, as the runs draw beginnings of
one sequence.  The order of a key follows from each queue being ordered by number, and all that a run has
delivered of a key lying before all it has still queued or will draw (`Orderly`).  In the portable pipeline
every event of the story has been read, and what is loaded is a function of the records (`Reading`); a
document is written only behind data of its own run, into a directory it had cleared (`Stored`).

*Web client.*  `WebInv` says of every request in flight what its answer will do.  `AppInv`: the load whose
answer counts is for the country chosen, at most one change is under way and the page is busy meanwhile, and data on
screen is the last version of its workspace unless an answer that brings that is still to come.  `EventsInv`: the listing
whose answer counts is for the filters chosen and, within a workspace, no older than the data on screen.  `NothingAhead` excludes
a version from the future, without which a later change could pass for one already shown.

*Lakehouse.*  A row of silver is of an event that the stream has loaded, is about to append or tried before, or that a
backfill put there ahead of it (`Known`).  While the
stream stands still, a partition being replaced is empty or holds the backfill's rows (`Rebuilding`), which
contain every event the stream had taken (`Taken`), if the window is complete.

*Daily.*  The audit's claim follows from what each finished task left behind (`Gates`), the order
of the tasks (`Order`), and that nothing touches it in between, lost reports and repeated tasks included (`Fresh`).

Only model-checked, and why:

* `AdmittedIsAnswered`, `RunsEnd`, `WaitingEnds`, and the violated `EveryMessageSettles`: liveness.  The
  installed provers do not reason about `ENABLED`, on which fairness rests.

## 6. Findings

*Bad data can stop the stream* (`stream_flaws`).  `docs/ARCHITECTURE.md:10` says "Bad data
goes to DLQ, not job failure".  A message without a schema version, or a repayment whose amount
is not positive, passes `parse_stream` and is refused by the warehouse; the query
fails, the process ends, and after the restart the same batch fails again.
Valid messages behind it wait for ever.  The `stream` run includes such messages and shows the other
side: nothing is skipped or forgotten because of them, so that mending the
warehouse or the rule lets the stream go on.

Other differences between documents and code that the models account for; the properties are
stated so that they hold, and say how far:

* *Corrections and runs.*  `docs/WEB_DEMO.md:49` says capacity is reserved for known
  corrections.  Room for their *deliveries* is (`RoomForEveryCorrection`), but every approval also
  consumes one of 40 runs (`engine.py:292`), and none is reserved.  `OnlyRunsCanBlockReplay` shows
  that this is the only obstacle.
* *Limits per minute.*  `docs/WEB_DEMO.md:50` gives limits per minute; windows begin with the first request and are replaced
  whole, so a minute around a boundary can see twice the limit, and never more (`WithinTwiceTheLimit`).
* *Event ids.*  `README.md:191` and `docs/adr/002-effectively-once-processing.md:7` rest on globally stable
  event ids.  A restarted producer, or a second replica, sends other events (other times) under the
  ids of its predecessor's (`producer.py:61`); they are taken for redeliveries.  Nor is there an order across
  runs: if one run delivers event 1, loses 2 and delivers 3, and the next delivers 1, 2 and 3, a reader that keeps the first copy of
  each id sees 1, 3, 2, although each run kept its order (`NeededComesFirst`).
* *Backpressure.*  `docs/adr/002-effectively-once-processing.md:7` says "at-least-once transport"; an event drawn
  while the queue is full is neither sent again nor reported (`producer.py:94`).
* *Bronze before silver.*  `README.md:191` says that bronze is retained before curation; the two
  queries are independent, and silver may be ahead.
* *Silver.*  `docs/ARCHITECTURE.md:28` calls it validated and deduplicated.  A repeated batch appends its events
  again (`spark_job.py:139`; within the stream nothing else does, `CopiesNeedARepetition`), and a backfill keeps
  every parsed message with an event id, valid or not (`backfill.py:27`), so that events may be there
  before the stream brings them once more (`DamageHasACause`).
* *Backfills.*  `README.md:194` says they replace only selected dates.  The selection is by day of arrival, the
  partitions are by day of the event (`backfill.py:27`): an event that arrived a day late makes the backfill replace
  its partition with nothing but the late arrivals.
* *Publication.*  `README.md:195` and `docs/DATA_PRODUCT.md:19` say that nothing is published when a gate fails.  dbt replaces the
  tables in service before it tests them; a failed test withholds the audit record only.  The record of an
  attempt that died after its commit is inserted again (`finpulse_daily_portfolio.py:70`).
* *Country.*  `docs/WEB_DEMO.md:42` says the selection filters what is shown.  The select stays enabled
  during a change, whose answer then replaces the newer country's data (`App.jsx:1371-1378`), until the next load.
  "Try again" (`App.jsx:1570`) does the same.  `ShownAsAsked` holds except there.
* *Rows after a reset.*  `App.jsx:1778` says a reset replaces the events.  The listing is read again when the
  revision changes, and a reset brings it back to the value of every new workspace (`engine.py:462-480`), so that a listing at that
  revision keeps the old rows.  No property excludes that; `CurrentAtRest` is stated around it.
* *Sessions that run out.*  Every request, a read too, of a session unknown or two hours old gets a new workspace
  (`store.py:51-89`).  A page left open thus goes on without any notice: its data are of the old workspace, the rows it
  reads next of a new one.  And the requests a page sends side by side then, or on a first visit, each get a workspace
  of their own; the cookie is that of whichever answer comes last, which need not be the one on screen.

Worth knowing: a crash between the two commits of
`session()`, or a failed index write, leaves a file no sweep will find; there is
at most one per mishap (`OrphansComeFromMishaps`).

## 7. Plan

Done: the modules above, their runs and theorems.

Left, in order of what it would add:

1. `WorkspaceStore` with the windows of `RateWindows` in place of chance: both are
   written so that `Refuse` and `Present` are the same call; what is missing is a bound on their product that TLC can bear.
2. The inspection dialogues and the search field of the web client.
3. The columns of the remaining dbt models against a reference.

### Not modelled

* *Serving API and dashboard* (`api/`, `dashboard/`): each request is one read of the warehouse; nothing is kept
  from one to the next.
* *Deployment, metrics, CI*: configuration.  Restart policies and replicas that matter are actions of
  `Producer` and `StreamPipeline`.
* *Quality rules and contracts*, in part: which outcome each class of envelope has is modelled; single comparisons of
  fields are not.
* *dbt models*, in part: keys and constraints, the order of replacement, the latest decision and the repayments are
  modelled; the other columns are projections and averages.
* *HTTP layer*, in part: origin checks, body limits, headers and static files filter requests and keep no state.
* *Unique customers and applications* (`00_init.sql:31`, `76`): `ON CONFLICT DO NOTHING` would leave out the typed row of a
  second event of the same customer or application (`spark_job.py:88`).  `StreamPipeline` takes distinct events of a type to be of distinct ones,
  as the generator draws them.
* *A failing commit of the index* after its `INSERT` succeeded: the row would wait on the connection and go in
  with the next commit.  `WorkspaceStore` has the failing `INSERT`.
* *SQLite's own locks*: inside a visitor's lock nobody else asks for the file.
* *Locked visitors in `RateWindows`*: the sweep spares them (`store.py:47-49`); that is in `WorkspaceStore`.
* *Web client*, in part: dialogues, inspection, search, and what the pages draw.
* *Read models of the engine* (`snapshot`, `analytics`, `event_page`): they change nothing.

## 8. Running

    tlc -workers 2 -config MCWorkspace.cfg MCWorkspace
    tlc -workers 2 -config MCWorkspaceStoreLive.cfg MCWorkspaceStore
    tlapm StoreProofs.tla

and likewise for the other configurations and proof modules.  `MCStreamPipelineFlaws.cfg` (of
`MCStreamPipeline`) is expected to end in a counterexample.  Every run takes less than five minutes.
