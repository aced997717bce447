# Northstar Quant: TLA+ models, model checking and proofs

Northstar Quant is three applications over one Python package
(`src/backend/src/northstar_quant`, below `N/`), built for Chinese futures:

- **Data Hub** acquires, checks, versions and publishes market data
  (PostgreSQL plus directories of source and publication files);
- **Research** calculates back-tests and paper sessions over published
  snapshots (SQLite plus content-addressed files);
- **Live** runs one kernel process per account, which receives the market and
  the account through a CTP child process, keeps a position book and takes
  shadow decisions (one SQLite database per instance). It never sends an order.

Applications share no database. Data Hub publishes files, Research and Live read
them; every other interaction goes over HTTP or a command line. Inside an
application, processes and threads meet in database transactions, advisory or
file locks and pipes; every operator's page (`src/frontend`, below `F/`) talks to
its application through a binary protocol generated from one schema, and keeps
state of its own while it waits. That is where this project looks: what two
actors, a crash or a lost reply can do between two transactions, two answers or
two versions of a message.

The sections are: the inventory, the modules and how they correspond to the
code, the runs, fairness, the proofs, findings and remarks, what is left out, and the plan.

## 1. Inventory

Each component with the state it keeps, its operations, what is hard about it
and what makes it correct. The table at the end of section 7 names the remaining ones.

### Data Hub

| Component | State | Operations | Hard part | Correct when |
| --- | --- | --- | --- | --- |
| Tushare synchronization (`N/data_management/tushare`, `N/apps/data_hub/worker.py`) | `data_sync_settings`, `_jobs`, `_attempts`, `_receipts`, `_coverage`, `_calendar`; a worker's position in its pass | `configure`, `process_next` (recover, refresh, plan, claim, fetch, judge, split, commit, fail), `reprocessing.enqueue` | the advisory lock belongs to one connection and the rows are written through others; reprocessing of retained responses; splitting of truncated answers | a running job has an open attempt of its own, a claim and an attempt come to an end, coverage never goes back to an older response, a split loses no day, work keeps its kind |
| Source library and processing queue (`N/data_management/library.py`, `processing.py`) | `data_sources`, `data_processing_attempts`, snapshots; source bytes | `admit_source`, `submit_reprocessing`, `process_attempt` (interrupt, repair, pick, begin, reuse or import, publish, confirm, fail) | claim held by one connection, import of minutes after a look-up, publication outside the transaction | equal work has one product, admitted work is answered |
| Publications (`publications.py`, `publication_client.py`) | directories named by snapshot | export after confirmation, repair, read by other applications | hidden until confirmed; a death between confirmation and linking | what can be read was confirmed |
| Backup and restore (`N/apps/maintenance.py`) | gate lock, exported snapshot, archive | `backup`, `restore` | the snapshot is older than the moment the gate closes | every file the dumped rows name is in the archive |
| Imports, corrections, quality, snapshots (`ingestion`, `observations`, `quality`, `snapshots`) | `source_receipt`, `import_run`, `import_record`, `canonical_bar` with its revisions, quality evaluations, manifests | `import_file`, `supersede`, `evaluate` (import, range), `publish` | look-up and parsing before the transaction; locks in opposite orders; an evaluation is used after imports and corrections went on | a run and its rows and bars tell one story, revisions are evidenced, a snapshot is what its evaluation saw |
| Exploration (`exploration`, `catalog`) | receipts, series, calendars | register, read a page of pinned receipts | reads go on while versions are published | pages and files are of one view (with the explorer, below) |

### Research

| Component | State | Operations | Hard part | Correct when |
| --- | --- | --- | --- | --- |
| Task queue (`N/research/tasks`, `N/apps/research/worker.py`) | `research_jobs`, `research_job_attempts`, `research_runs`; the supervisor's table of processes; an flock inherited by the children | submit, claim, progress, finalize, save, succeed, fail, cancel, acknowledge, retry, reap, recover, shut down | a process knows only its task and reads the attempt when it starts; cancellation races completion; orphans of a crashed supervisor | one verdict per attempt, success means a stored run, one process saves, recovery never meets a live process |
| Runs and configurations (`runs.py`, `artifacts.py`, `configurations.py`) | content-addressed rows and files | `RunStore.save` | idempotent under repetition | in ResearchTasks as one idempotent step |
| Back-tests and paper sessions (`backtesting`, `paper.py`) | a step's checkpoint | step, roll back, resume | a failing step must leave nothing | planned |
| Factors and strategies | immutable versions | pure calculation | none | left to tests |

### Live

| Component | State | Operations | Hard part | Correct when |
| --- | --- | --- | --- | --- |
| Commands (`N/live/commands.py`, `client.py`, `apps/live/kernel/commands.py`) | `live_commands`; the runtime identity of the owner | inquire, post, admit, run, settle | lost replies, repeated identities, deadlines on two clocks, restarts under another owner | an effect at most once, receipts and answers that are true and stay |
| Streams (`N/live/streams.py`, `N/broker/ctp.py`) | `broker_streams`, `broker_stream_events`, receiver threads, two file locks | start, receive, control, catch up, stop, fail, shut down | `accept()` commits three times per callback; control, queries and manual booking interleave; crash between two commits | one receiver, shadow only on a clean stream, locks given back |
| Stream account and book (`N/accounting/stream_progress.py`, `ledger.py`, `baselines.py`) | `broker_stream_accounts`, `broker_position_entries`, baseline | bind, advance, book a prefix, ingest a query | two clocks, several sources of one fill, late binding | each fill counted once, entries in order of time, checkpoint and book agree |
| CTP child (`N/broker/_ctp_worker.py`, `ctp.py`) | queue, counters and failure code under one lock, SDK objects, pipe, reader thread, stop signal | callback, request, drain, wait, release, complete; read, check, get, join, kill | SDK threads call in at any time, also during release; bounded queue and pipe; a child that hangs, dies or outlives its parent | a session told as clean lost nothing, and the reception ends whatever hangs |
| Trading kernel, message bus (`N/trading`, `N/messaging`) | READY, RUNNING, FAULTED, CLOSED; topics | run, publish, close | re-entry, faults after commit | a receiver's kernel takes nothing after a failure (with the CTP child); the rest is planned |
| Ownership, budgets, window (`account_ownership.py`, `opening_budgets.py`, `market_data/window.py`) | host-wide flock, budget rows, bars in memory | acquire, create, append | reads of different moments, late bars | planned |

### Front ends and their protocol

| Component | State | Operations | Hard part | Correct when |
| --- | --- | --- | --- | --- |
| Commands of a tab (`F/shared/api.ts`, `pending_command.tsx`, the forms of `F/apps`) | the stored command (session storage), the cached session, the form's identity, calls of `mutate()` | mount, submit, open a session, send, confirm, refuse, give up, acknowledge, switch the instance, reload | waits between the two looks at the lock; lost answers; a session the backend forgot; the page is loaded again while a command is under way | an unknown command stays locked, what is told is true, the lock has an owner, the contents of a form take effect once |
| Pages of a kernel (`F/shared/data.ts`, `F/apps/live/runtime.tsx`, `instances.tsx`) | effect generations and their polls, the shown and the bound kernel | poll, arrive, fail, refresh, bind, select | answers of replaced effects, kernels replaced between poll, click and arrival | the status does not go back, a command takes effect in the kernel that was shown |
| Explorer (`F/apps/data_hub/exploration/workspace.tsx`) | filter, mode, shown result, generation of loads, export | change, search, turn pages, save a range | loads overtake each other, versions are published between two pages or chunks | what is shown answers the question on the screen, a file is one view |
| Protocol (`F/apps/*/api/codec.js`, `F/shared/protobuf.ts`, `N/web/protobuf.py`) | none; three schemas with their messages | encode, decode, adapt values | absent, null, empty, zero; 64-bit integers as doubles; peers deployed apart | what arrives is what was meant, nothing allowed is refused |

`PROJECT.json` lists all components with their files, and the hazards, each at the line where it bites.

## 2. Modules

```
TaskContract <--implements-- ResearchTasks     MCResearchTasks   ResearchTasksProofs
CommandContract <--implements-- LiveCommands   MCLiveCommands    LiveCommandsProofs
StreamAccount <--extends-- LiveStreams         MCLiveStreams     LiveStreamsProofs
PositionBook <--implements-- StreamAccount
ReceptionContract <--implements-- LiveStreams
                  <--implements-- NativeStream                   NativeStreamProofs
TushareSync                                    MCTushareSync     TushareSyncProofs
DataProcessing                                                   DataProcessingProofs
BarSeries <--implements-- Observations         MCObservations    ObservationsProofs

BrowserTab <-- BrowserCommands
           <-- PageQueries        all three <-- Workbench (WorkbenchProofs)
           <-- Explorer
MessageShapes <-- ResearchMessages, LiveMessages, DataHubMessages
Protobuf <-- ProtocolExchange, an INSTANCE of each of the three
```

One action is one durable step: a database transaction, or the change of a lock
or of a process between two transactions. Everything a handler does inside the
transaction is part of the action. A `pc`, `stage` or `worker[s].pc` says how far
a process or thread is between its transactions, and any other actor may act
there. Names are the source's where they can be; where a comment calls a
definition a *faulty variant* it is no part of the specification: it is the
mutated form of the definition that follows it, and shows that a property can
notice a plausible bug there. `PROJECT.json` maps each definition to its lines.

### Research: TaskContract, ResearchTasks

`TaskContract` is what a reader of the API may rely on: the status of a task and
whether its immutable result exists, with no attempt, process or supervisor.

`ResearchTasks` is the queue. `status`, `current`, `completed`, `linked`, `created`
are `research_jobs`; `attempt`, `taskOf` are `research_job_attempts`; `runs` is
`research_runs`. A calculation process is named by the attempt whose claim spawned
it, although the program hands it only the task: `ReadTask` is the moment it reads
the job's *current* attempt into `held`. Its life is `SPAWNED` (Popen returned),
`CHECKING`, `COMPUTING` (`Progress`, `Finalize`), `SAVING`, `SAVED`, and the ways
out (`Wish`, `Report`, `Raise`, `Exit`, `Die`). The supervisor loop is `Poll`,
`Reap`, `Polled`, `Claim`, `Spawn`, `NotAdmitted`, `Loop`, with `Start`,
`Recovered`, `Shutdown`, `Drained` and `Crash`; `LockFree` is the flock, which
children inherit. `Owns(t, a)` is the fencing check that every report makes,
`Outcome` the rule of `_finish` that turns a report into a verdict when a
cancellation came first.

### Live commands: CommandContract, LiveCommands

`CommandContract` is what a command identity promises: it is admitted once, its
effect is entered once, and the receipt says what became of it.

`LiveCommands` follows calls of `LiveClient.mutate`: `Inquire`, `Send` (one post, with
the runtime observed and a deadline from the caller's own clock, which is off by a
member of `Skews`), `Hear`, `Lose`, `Unavailable`. The kernel's side of a request is
`Lookup`, `Admit`, `Enter`, `Apply`, `Return` or `Raise`, `Finish`, each a
transaction or the effect between two of them; `StorageError` is the failure of any
of these transactions. `Crash` and `Restart` change the runtime identity: `Shown`
reads a `RUNNING` receipt of an earlier runtime as `UNKNOWN`, as the code does.
`begun` and `applied` are ghosts: that the effect was entered, and committed.

### Live streams: PositionBook, StreamAccount, LiveStreams

`PositionBook` is what the positions of an account promise their readers, without callbacks,
query batches or checkpoints: a fill is counted once and only after a source reported it, a
reader (a stream) stands for counted fills it reported itself, and it never takes back that the positions
are unknown. `StreamAccount` implements it (`positions`, with `Told`, `TimesCounted` and `View` as the mapping).

`StreamAccount` is the data side: retained callbacks (`events`), the checkpoint of
a stream (`account`), saved account queries (`queries`), the baseline and the
append-only position book. `Advance`, `IngestPrefix`, `IngestQuery`, `Bind` and
`Establish` are the write transactions of `stream_progress.py`, `ledger.py` and
`baselines.py`. Facts are dated by two clocks as in the code: `clock` orders
commits, and the receipt time of a callback may fall behind it (`ClockFaults`).

`LiveStreams` adds the processes. `accept()` is three actions, because it is three
commits: `Receive` (the callback is retained), `BookCallback` (the account book),
`Project` (the shadow step). `Create`, `Launch`, `Connect`, `Poll`, `Deadline`,
`Finish`, `Fault`, `Ended` are the receiver thread from start to its terminal row;
`Control`, `Resume`, `CatchupBind`, `CatchupAdvance`, `Beside` (booking by
hand, a baseline, a fill at the broker) are other requests and outside facts; `StartQuery` and `EndQuery` are account queries,
which take the same account lock; `Close`, `Restarted` and `Restart` are shutdown,
crash and the new process. An order or a price is not modelled; a callback is of one of six
kinds and may carry a fill.

### Live reception: ReceptionContract, NativeStream

`ReceptionContract` is what a reader may rely on for the reception of a stream: it starts once or
never, its callbacks are recorded one by one between start and end, it is `COMPLETE` only after it was
stopped, it may break at any time, and its verdict, if one is written, is the one that was reached.
It is what the two models of a reception have in common. LiveStreams has many of them among requests,
queries and crashes, and takes the child as given; NativeStream has one, down to the messages of the child.
Both implement it, with `Phase` and `Said` as the mapping: in LiveStreams they are read off the
receiver's `pc` and the row, in NativeStream off the loop of the parent and its verdict.

`NativeStream` is one run of `_run` and `stream_account`, with the child process under it.
`Callback` and `Undecodable` are the SDK's threads in `_Receiver.event` and `callback`, which
hold the child's lock; `Ask`, `Look`, `GiveUp`, `Confirm` and `Break` are its main thread in
`_capture`, `Pop`, `Send` and `Drained` its `drain`, whose send blocks while the pipe is full;
`Announce`, `Release`, `Complete` and `Leave` are its `finally`, and `Die` is a native crash. The
authentication, the logins, the seven queries, the connections and the subscription are `Setup` exchanges
of one form. `Read` is the reader thread, at most one message ahead. `Check` and `Empty` or `Get`
or `Reject` are one turn of the parent's loop, `Accept` is `kernel.advance` with `accept()` in it
(three commits, of which LiveStreams keeps the books; here it records the callback or fails before or
after that), `Join` and `Close` the end: the child is killed, the kernel closed,
the verdict written. `lost` is a ghost: the SDK made a callback that was not taken.
A callback is its number; the codes are `LIMIT`, after which nothing is taken, and any other.

### Data Hub: TushareSync, DataProcessing, BarSeries, Observations

`TushareSync` is `process_next()` as a pass of a worker: `Begin` (advisory lock),
`Interrupt` and `Recover`, `Refresh`, `Plan`, `Claim`, the fetch (`FetchFails`, `Keep`, `Breakdown`,
`Pause`), the judgement (`JudgeEmpty`, `JudgeBad`, `Truncated`, `Commit`) and `Return`,
plus `Configure`, `Reprocess`, `Crash` and `LoseLock`: when the connection that holds
the lock is lost, the worker goes on and only the generation of the claimed job
fences it off (`Owns`). A transaction is one step where the rows it decides by are
locked or its own. Recovery is not: its two UPDATE statements (`tushare/jobs.py:31-39`) have a snapshot
each (READ COMMITTED), the attempts come first, and a worker that was robbed of the lock
may commit a claim in between. `Interrupt` marks the attempts that are open then, `Recover`
takes the jobs that are running by now and commits. An attempt claimed in between stays open
without a job, and its own worker does not end it, until the next recovery does. That one
statement waits for another's rows is not a state: a recovery that would wait for another may overtake it
in the model, so that the model has more behaviours here than the code, not fewer. One contract, one dataset in shards `<<first, last>>` of days,
the catalog and the calendar stand for all; the target day is fixed. Where the
code reads the clock (retry times, ages) the model chooses.

`DataProcessing` is the path of a source file: `Store` and `Admit` are the two steps
of an admission (bytes, then rows, under the shared gate; one admission is under way at a time), `Resubmit` asks for
reprocessing; a processor is `Claim`, `Interrupt`, `Repair`, `Pick`, `Begin`, `Refuse`,
`Reuse`, `Import`, `PublishSnapshot`, `Confirm`, `Export`, `Fail`, `Leave`; `Fenced` is
the trigger that refuses to change a decided attempt. `BeginBackup`, `CloseGate`,
`CopyBackup`, `AbandonBackup`, `Restore` are the joint backup. `Key` is what a snapshot
is named by, `Meaning` what makes two attempts equal work.

`BarSeries` is what a series of daily bars promises its readers, without runs, records, sessions or
locks: a file adds all its new days or none and rewrites nothing, what it contradicts is kept as refused, a bar is
followed only by a refused row that contradicted this very bar and came later, and a
release holds what was known of its days at a time that is over.

`Observations` is what the import of `DataProcessing` writes: the canonical bars of one
series. `import_file()` is `Ask` (look-up and parsing), `Begin`, `InsertReceipt`,
`LockSeries`, `Refer` (the foreign keys of its records share the bars, one after the other), `Write`
(one transaction with its locks), or `Replay` and `RecordError`;
`supersede()` is `Hold` (the bar's lock), then `Correct` or `Refuse`, which take the
series' lock and give it back in one step. `fresh`, `series` and `held` are the locks PostgreSQL
keeps for a transaction: an uncommitted receipt, the row of the series, the row of
a bar, for itself or for the records of an import; `BreakDeadlock` is the database's own, `Abort` a session that dies.
`chains[s]` lists the runs of a bar's revisions, so that a revision's value is the row of
its run. `Seen` is `select_point_in_time_revisions`; `EvaluateImport`, `EvaluateRange` and
`Publish` read one REPEATABLE READ view and only add rows, so each is one action. It implements
`BarSeries` (`bars`): the rows of a chain are the `History` of a day, conflicting records are
`Refused`, and a snapshot with the cutoff of its evaluation is a release (`Holdings`).

### Front ends: BrowserTab, BrowserCommands, PageQueries, Explorer, Workbench

`BrowserTab` has the two constants the parts share. JavaScript runs a callback to
its end: one action is the code between two waits.

`BrowserCommands` is `mutate()`: `Submit` up to the wait for the browser session
(`OpenSession`, `SessionFails`), then `Send` if the lock is `StillFree`, else `NotSent`.
The proxy and the backend `Lose`, `Execute`, `Refuse` or `Deny` a request (`ForgetSessions`
makes a token one that no backend knows); the page may `GiveUp` at any time, and an
answer then finds nobody. `Confirm` and `BeRefused` give the lock back, `Acknowledge` is the operator who
has checked the records. `Reload` keeps the session storage (`lock`, `status`, `saved`)
and the requests under way, nothing else; `Mount` makes the stored command one that
can be acknowledged. `ChooseInstance` and `SwitchInstance` are the selection of a Live instance, `Edit` the
contents of the experiment's form, whose `Identity` outlives a submission. The
backend's side of an identity is what `LiveCommands` and the unique request of
`research_jobs` give: one effect.

`PageQueries` is `useData()` and the provider of the runtime. A generation is one run of the effect;
`Ask`, `Observe` (the kernel answers), `Arrive` and `Fail` are its poll, `Refresh` starts
the next generation, `BindFirst` and `BindCurrent` bind the page to a kernel,
`Lapse` is the clock that makes an observation too old, `Replace` a kernel that is started again.

`Explorer` is `change()`, `load()` and `exportRange()`: `Change`, `Search` and `TurnPage` start
a generation (`Begin`), `Serve` is the read of the backend, `LoadArrives`
and `LoadFails` end a load that may have been overtaken; `Export`, `AskChunk`, `ChunkArrives`,
`Download` and `ExportFails` are the loop of the export; `Publish` is a new version. A view
is a filter with one version of its receipts.

`Workbench` composes them: `LiveSubmit` needs the controls that `CanControl` enables and notes the kernel the page
was bound to (`meant`); `LiveExecute` finds the kernel of the instance or is refused
(`Reached`). One tab shows one of the three applications.

### Protocol: MessageShapes, the three message modules, Protobuf, ProtocolExchange

`MessageShapes` is the vocabulary of a schema: a field has a number, a type, a rule
(`one`, `many`, `map`), and is required, nullable or neither. `ResearchMessages`, `LiveMessages` and
`DataHubMessages` list every message of an API with the numbers and types its generated codec
writes and reads, and `Calls`, the messages of each request and response.

`Protobuf` is the code above the bytes: `EncodeMessage` and `DecodeMessage` are the generated
codec (the order of numbers, repeated fields, merged messages, a `oneof` that clears its other members,
skipped unknown fields); `Accepts` and `Adapted` are the adapters that
write (`convert(.., true)`, `pack()`), `Understands` and `Read` those that read, for
`page` and `backend`, which differ in what they refuse. `ToValue` and `FromValue` are JSON inside a message;
`Rounded` is what a double makes of an integer, here with `Bits` bits.

`ProtocolExchange` sends one message of one API: `Write`, then `ReadWire`; in between `Evolve` makes it the
message of a newer peer (an unknown field in it, in its parts, or named null)
or of an encoder with another order. `Conforms` and `Meant` say, without the wire, what the schema
allows and what the reader should have.

## 3. Runs

Deadlock is checked except in the native stream, command, synchronization, processing,
observation, protocol and workbench runs, whose bounded systems really come to
rest (the reception over, all calls answered, nothing queued, the last run written, the message
read, all clicks made).
Between them the passing runs fire every action.

| Run | Instance | Shows |
| --- | --- | --- |
| `research_queue` | 1 task, 3 attempts drawn in order, 2 processors, 1 bar, 1 supervisor crash, fair | tables agree, processes keep apart (recovery finds none, one saves, no more than the processors), `KeepsContract`, an active task ends and a queued one leaves the queue |
| `research_fencing` | 1 task, 2 attempts, 2 processors | *violation*, see section 6 |
| `live_book` | 1 stream, 1 fill, logins and trades, 3 callbacks, 2 queries, a falling receipt clock | applied callbacks are booked exactly once, fills counted once, a stream shown running is booked (`BookIsTrue`); the account implements `PositionBook` |
| `live_shadow` | 1 stream, logins, quotes and foreign trades, 2 callbacks, an account query beside them, 1 crash, fair | shadow runs on clean attached streams only, each stream has one session (`ReceptionContract`, and nothing is taken up again), no thread is without a next step, the account is released |
| `live_two` | 2 symmetric streams, trades, 2 callbacks each, an account query beside them | one user of the account, the book in order of time |
| `native_stream` | 2 exchanges, a queue of 2, a session of 5 callbacks, a pipe of 1 message, fair | a session told as clean recorded every callback, what is lost is reported, nothing is left behind, the parent is never without a next step, the reception is one of `ReceptionContract` and ends |
| `commands_receipts` | 1 identity, 2 inputs, 2 calls, skews 0 and 2 against a window of 2 and a life of 1, 2 runtimes, failing storage, fair | at most once, true receipts, real success, `Contract`, no retargeting, no request waits for another, receipts settle |
| `sync_generations` | 2 workers, a month of 2 days and the daily shard inside it, 4 claims, 2 tries, 1 change of settings or refresh time, 1 request, 1 fault, fair | a running job has its open attempt and without a lost lock nothing else is open, splits lose nothing, coverage and source are kept, no worker is without a next step, nothing stays running |
| `data_processing` | a worker and a one-shot command, 2 requests, 1 content, 2 revisions, 1 fault (death or lost claim), 1 backup, fair | only confirmed products are readable, one product per meaning, a whole backup, admissions are answered |
| `observations` | 2 days, 4 files (2 of the same bytes, a conflicting one, an impossible one), 2 sessions, 3 runs asked for, 2 moments, 1 evaluation and 1 snapshot, fair | evidence never contradicts itself and corrections rest on it, snapshots are as evaluated, the tables implement `BarSeries`, calls end |
| `protocol` | every message of the three APIs: full, bare, zero, one field missing or null, integers around the limit, further keys; doubles of 2 bits | what arrives is what was meant, nothing allowed is refused |
| `workbench` | 3 clicks (1 in Live), 2 instances, 1 kernel replaced, 1 reload, 1 forgotten session, 2 contents, 2 filters, 2 pages, 2 chunks, 3 loads, 2 versions | the tab's lock, what is told and shown, commands in the kernel that was shown, files of one view |

Why the bounds are enough for the questions asked:

- *Three attempts of one task* are what a late process needs: its own, the one it
  reads by mistake, and one more that is claimed meanwhile. Identities are drawn in
  order (`InOrder` in MCResearchTasks), which unlike a symmetry set is sound for liveness. Two tasks add only
  competition for a processor, which no run has: with two the fair system is too
  large, and the safety proofs are for any number. One bar keeps a progress report before
  and the last bar; the proofs are for any number.
- *Three callbacks* make a prefix, a gap and a rest, so that manual prefixes,
  catch-up and live booking can overlap. Of two queries the first is the one the
  service starts after, the second competes with receivers for the account; a receiver of
  `live_book` and `live_two` dies by a fault instead of a crash, which leaves the same facts behind (the crash is in `live_shadow`,
  the proofs are for any number of them). Two callbacks are an
  error and what comes after it (`live_shadow`). One fill is enough to be reported by a query and a stream.
- *Two calls* of one identity are a retry or a competitor; with skew 2 a deadline is
  out of the window, with 0 it can pass between admission and effect. Two
  runtimes are one restart.
- *A queue of two, a pipe of one and five callbacks* are the least in which the queue overflows while
  the parent is behind, and in which callbacks still come during the release; two exchanges
  are one that may be answered wrongly after another was right. Both deadlines of the session are one event, and the three seconds after it another.
- *A month and a day inside it* is the least overlap where a split meets a shard
  that already exists. Four claims let a download, its reprocessing and a late
  worker meet. `sync_generations` starts in `InitCatalogued`, the state after the
  first passes (catalog and calendar downloaded, contract planned); with `Init`
  these passes use up the claims before the interesting case. One fault is a lost lock or a crash: a
  lock lost at `CLAIMING` is enough for a claim between the two statements of the other worker's recovery.
- *Two requests for one content* under two revisions reach reuse, conflict and
  reprocessing; one fault is a death or a lost claim at any step.
- *Four files*: the second contradicts one of two rows of the first and can correct
  it, but not when it came first, and both lose against each other in either order; the
  third has the bytes of the first, so that receipts collide; the fourth is
  refused. Three runs are an import, its contradiction and the correction, and a
  call under way then adds a fourth. An evaluation between any two of them is
  enough for a snapshot to be late. Two sessions are one deadlock; a smaller instance with three
  (3 files, no evaluation) was checked for `CallsEnd` as well. It needs that an import takes the bars one
  by one and keeps them: one that waited for all of them at once could be overtaken by ever new corrections.
- *Every message, one deviation at a time*: a message is written from its full form
  with one field missing, null or at a limit, so that a field treated differently
  from its neighbours shows in the message where it is. Parts are messages of their
  own, so that a deviation inside a part is covered there. Doubles of 2 bits have the
  same three cases as doubles of 53: the last exact integer, the first that shares
  its double with another, and the first that is read as its neighbour.
- *Three clicks* let two calls wait for one session and a third come after the lock is
  free again; one reload with one forgotten session loses any of them. Three loads and
  two versions are a load, one that overtakes it and a page after it, before and after a
  publication. Two chunks are a first that fixes the view and one that must follow it.
  The bounds of Live are one click because the polls multiply; the proofs are for any number.
- One run shows an invariant with the types it rests on: `TasksAreSound`, `AnswersAreTrue`, `BookIsTrue`, `ShadowIsClean`,
  `ReceptionIsHonest`, `QueueIsSound`, `LibraryIsSound`, `EvidenceIsSound` and `PagesAreTrue` are conjunctions of the named parts in their modules,
  so are `ProcessesKeepApart`, `LockIsTrue` and `ExchangeIsFaithful`, `ResponsesAreKept`,
  `TasksGoOn`, `OneSessionEach` and `PageIsFollowed` conjunctions of liveness or action properties.

## 4. Fairness

Only what the code, the operating system or Compose does on its own is fair;
users, crashes, faults, shutdowns and lost replies never are.

- *Processes and threads that run are scheduled*: weak fairness of the steps of a
  calculation process and of the supervisor, of a worker's pass, of a kernel's
  request thread, of a receiver's straight-line steps, of the end of an account query.
- *A receiver's loop and time go on* (NativeStream): the parent waits at most 100 ms for a message, and what it
  calls returns (`accept()` runs with statement and lock timeouts, `join` with its own). Nothing is assumed of the
  child, the SDK or the reader, which may hang anywhere.
- *A service that is down is started again*: weak fairness of `Start` and `Restart` for
  the research supervisor, the data workers and the Live kernel
  (`restart: unless-stopped` in `src/deploy/*/compose.yaml`). The one-shot
  commands of DataProcessing are not restarted.
- *A supervisor that drains kills what does not stop* (`KillDraining`), as
  `worker.py` does after its grace period.
- *Strong fairness* is used where an action is disabled and enabled again by the
  loop around it: `Claim` of the research queue (the supervisor sleeps between
  attempts, and resources are found sufficient again and again), and `Poll`,
  `Deadline` and `Finish` of a receiver, whose loop alternates with callbacks.
- *A session that was asked goes on* and *PostgreSQL finds deadlocks*: strong fairness of
  the steps of an import or correction, which wait for locks that are taken and given
  back, and weak fairness of `BreakDeadlock`.
- *A backup has a bounded window*: it copies or gives up (`CopyBackup \/ AbandonBackup`).

The browser modules state no fairness: a user closes the tab, a network loses what it
likes. What must not get stuck is stated as invariants instead: a stored command is waited
for or can be released (`LockHasAnOwner`), the current generation has its poll
(`PollingGoesOn`), a sign of loading has its load (`BusyIsTrue`).

`TasksGoOn` excepts the state in which the attempts of the model are used
up. `ReceiptsSettle` excepts a receipt whose settling transaction failed: the
code has no path that settles it under the same kernel (a hazard of its own).
`NothingStaysRunning` is claimed only while the synchronization is not paused, for
a paused worker recovers nothing; `AttemptsEnd`, the same about attempts, is a theorem and in no run. `AdmissionIsAnswered` holds also where a
restored database is older than the attempt, by excepting attempts that are gone.

## 5. Proofs

The proofs hold for every value of the constants that satisfies the named
assumptions: finite sets of tasks and attempts, natural bounds, and `None` outside
the sets it is added to (`ResearchAssumption`); the same for commands with any
integer clock skews, any window and life, and any number of runtimes
(`NoneAssumption`, `ClockAssumption`, `BoundAssumption`). The code justifies
them: these sets and numbers are identifiers, counts and seconds. TLC evaluates each
assumption in the runs of its module.

### ResearchTasksProofs

The safety properties are not inductive: whether an attempt row agrees with its
job depends on which attempt a process holds, and whether one process saves
depends on what the stored progress was when it asked. `IInv` adds what is needed:

- `Existence`: which attempts and processes exist, and that a job's current
  attempt belongs to it;
- `Holding`: what a process read is an attempt of its own task, the only thing
  fencing may rely on, since a process may hold another process's attempt;
- `RunningAttemptIsCurrent`, the agreement of the two tables;
- `Saving`: a process allowed to save whose attempt still owns the task finds it
  `FINALIZING`, so that a second one is refused: from this `SingleSaver`;
- `Counting`: the stored progress is not behind a computing owner, so that
  finalizing is complete;
- `SucceededHasItsRun`;
- `Locking`: every live process is in the table of the supervisor that spawned it,
  and nobody is past the flock while one lives: from this `RecoveryFindsNoChild`.

`Locking` is preserved alone and gives `LockIsEnough`, with `Cardinality` facts from
FiniteSetTheorems for `WithinCpus`; with `OneSaver` this is `NeverTwoAtWork`. `QueueKeepsContract` maps every action to a step
or a stutter of `TaskContract` from `IInv`. `CancellationIsKept` and `HistoryIsFinal`
are action properties from the same invariant.

### LiveCommandsProofs

`IInv` adds to `TypeOK` and `AtMostOnce`: `Posting` (what a caller sent is what it
asked, under the runtime it observed), `Ownership` (the row of an identity was
inserted by the one request that went on, and names its input, runtime and
deadline), `Effects` (the stage of a request against the ghosts), `Settlement` (a
settled receipt tells the truth about *the input in its row*) and `Answers` (a
reply in flight, and what a caller was told, is what the receipt still says).
`Ownership` is the heart: two requests may both see no receipt, but only the one
whose insert succeeded is past admission, whatever crash follows. From these:
`EffectsAtMostOnce`, `ReceiptsTellTheTruth`, `SuccessMeansApplied`,
`RejectedNeverBegins`, `RestartsNeverRetarget`, `SettledReceiptsStay` and, mapping each
action to `CommandContract`, `KeepsCommandContract`.

`TasksSound` and `AnswersTellTheTruth` put the parts together that the runs check as one
invariant. `CancellationHolds`, `ClosedAttemptsStay`, `AtMostOnce` and `SettledStays`
are proved, without a run of their own.

### WorkbenchProofs (BrowserCommands, Workbench)

For any clicks, instances, reloads, forgotten sessions and contents. `IInv` of the
command lock is `TypeOK`, the properties themselves and

- `Stages`: what the stage of a call says of its request, the lock and the page. A
  call that is `sent` is the stored one, so that two of them are one;
- `Truths`: an answer is evidence (*ok* means that the identity has its effect, *refused* that
  this request has none), and a request acts at most when it arrives, which is what makes
  `ToldIsTrue` stay true after the answer;
- `Captured`: the instance a waiting call captured is still on the page, or the page is being left;
- `Identified` and `OncePerIdentity`: equal contents of the form carry one identity, and
  an identity has one effect; from these `OneEffectPerContents`.

In the tab, `Parts` shows that each step of `NextWorkbench` is a step or a stutter
of each of the three parts, hence `TabHasTheCommands` (`SpecWorkbench => Spec`), by which the
theorems of the lock hold there as well. `Observed` adds to the types of the polls that a
future generation has none, that an answer is not of a kernel from the future, and that an answer under
way is not older than what is shown: from this `NeverGoesBack`. `Screened` adds that
the load the page waits for (`UnderWay`) asks the question on the screen (`Asking`), `Exported`
that the rows so far are the first chunks of the fixed view. The assumptions are
that `None` is no click, instance, filter or view, and that the bounds are natural numbers.

### LiveStreamsProofs (StreamAccount, LiveStreams)

For any streams, fills, number of callbacks, queries and deaths, and any receipt
clock. The assumption is `StreamAssumption` (finite sets, natural bounds, at least the
opening query, `NoStream` and `NoFill` outside the sets they are added to).
That an entry is the only one of a callback says nothing of the entries themselves, so
`BookInv` adds what a writer of the book keeps:

- `Proper`: an entry covers retained callbacks, and a later entry of the stream begins
  where the earlier ones end, or behind;
- `Counted`: no fill is in two entries, and the fills of a booked segment are in the book;
- `Covered`: every material callback up to `BookedThrough` lies in an entry; an
  entry of `advance` may begin behind the last one, over callbacks that are not material;
- `Passed`: a checkpoint has passed no material callback that is not booked.

One lemma per way to write: `PrefixKeeps`, `AdvanceKeeps`, `QueryKeeps`, and
`FactsKeep` for everything that only adds facts (callbacks, queries, fills, bindings); from these
`AppliedIsBookedOnce` and `FillsAreCountedOnce`. `Max` and `Min` are `CHOOSE`
operators; that they return the extreme of a bounded set is proved first, from the
well-foundedness of the order of the naturals.

`LiveInv` adds the processes: `Uses` (one user of the account; the query in flight holds its lock)
and `Shadowed` (a stream with a receiver is active; behind a projected error nothing is
decided and nothing resumes). From `LiveInv`: `BookIsTrue` (with `BookedOnce` and `ShownRunningIsBooked`),
`AccountHasOneUser`, `ShadowIsClean` and `NeverReconnects`.

`KeepsReceptionContract` needs one fact more, that a receiver has failed only where it is on its way
out (`FailedEnds`). `Turning`, `Ending`, `Creates`, `Controls`, `Receives` and `Asides` say what each step
does to what the contract sees of its stream, and that it leaves the others alone (`Apart`); `ContractStep` then
maps every step to one of the contract. That the death of the process is one `Abort`, and not one of
several streams at once, follows from `AccountHasOneUser`. `OneSession` joins it with `NeverReconnects`.

`KeepsPositions` is the refinement of `PositionBook`. `PositionInv` adds to `BookInv` that a query without an answer
has no fills (`Unanswered`) and that a stream is bound to a baseline or waits (`Bindings`). First, every step of
processes and requests is one operation of the account or leaves it alone (`AccountStep`): a fact, a
callback, a binding, an advance, a booking. Then each operation is one step of `PositionBook`:

- `CountIs` turns the number of entries that add a fill into a state of the book, one or none, so that an
  entry counts what it adds and nothing else (`EntryCounts`);
- what a source was told only grows (`Tells`, with `OutsideTells`, `AnswerTells`, `RetainTells`), and a
  segment of a stream is part of it (`ToldBy`);
- `BindBinds`, and `IngestBooks` for a prefix or a query booked by hand;
- `AdvanceApplies`: one transaction books the segment or finds it booked, and moves the checkpoint, which then stands
  for counted fills only. That doubt is for good and reaches every bound reader in the same step is
  `DoubtGrows`.

`BookIsChronological` needs one assumption more, `~ClockFaults`: the receipt clock of a stream
does not fall back (as in `live_two`). `ChronicleInv` says that a callback is dated by its commit and
commits rise (`OnTime`), that a query ends after it begins (`QueriesOnTime`), and that each entry has a
source and begins after all earlier ones ended (`InOrder`). `ledger.py` compares a new source with the
last entry alone; since no period is empty, what follows the last follows all
(`FollowerIsLater`), and what is retained or ended later changes no period already booked
(`PeriodsAre`, `OrderStays`).

### NativeStreamProofs

For any number of exchanges and any limits (`StreamAssumption`). What the child counts
as taken and what the kernel stored are related through everything in between, so `StreamInv` has

- `Numbered`: what waits in the child, in its queue and in hand, are the last numbers up to `taken`;
- `Ordered`: nothing under way is beyond what was sent, and the last event in pipe, reader or loop is the last that
  was sent, so that the parent's check of consecutive numbers loses nothing;
- `Finishing`: `COMPLETE` is the last message, sent when everything else was, and carries the code of a child
  that takes nothing more; a parent that joins has read it, hence everything before it;
- `Recorded`: what was handed to the kernel is stored, the one in hand excepted, while the kernel runs; and what
  a verdict without a code needs;
- `GapsAreNoted`, which needs nothing else: each way to lose a callback leaves a code, and no step takes a code away.

`Ordered` and `Finishing` hold while the parent is at work (`Active`); `Close` kills the child
and empties the pipe.

`KeepsReceptionContract` maps every step of child, pipe and parent to a step of the contract or a stutter. A
session without a code must have been stopped, although the parent may not have asked: the child announces its end
with `RELEASING`, which stops the parent too. `StopInv` therefore adds that `COMPLETE` never arrives
before it (`Announced`): a child that is past the announcement has it under way, unless the reception stops already, and
the order of the pipe does the rest (`SendingAdds`, `ReadingKeeps`).

### TushareSyncProofs

For any workers, any life of the contract and any plan of shards, and any number of
claims, tries, edits and faults, under `SyncAssumption` (the two jobs that are not shards
are distinct, planned shards lie within the life, `None` is no number and no worker). `SyncInv` is
what the generation check of `_finish` and `_commit` rests on:

- `Claims`: a running job names an open attempt that was made for it, of the same kind. Other
  attempts may be open, so `Recover` keeps it because it resets every running job, whatever
  was marked; with its statements in the other order it would not (`RecoverJobsFirst`);
- `Passes`: no two workers hold one attempt, and a worker between claim and end that
  still owns its job finds it running (`Owns` is the fence; a worker that was robbed of its
  job fails it, whatever happened to the job since);
- `Sources`: only queued work has a source, sources and covering receipts are kept
  downloads of the job, and nothing that is queued or running is older than what is covered;
- `Splits`: a split shard has several days, and both its halves are in the queue.

The actions fall into three groups with one lemma each: those that end an attempt (`Ends`,
`EndKeeps`), those that claim and end nothing (`Idles`, `IdleKeeps`), and recovery, retention, claim and
reprocessing on their own. `SplitLosesNothing` needs the least shard around a day:
a split shard has a shorter one there (`HalvesCover`), so by the well-foundedness of the order of
the naturals one that is not split exists (`DayIsKept`). `ResponsesAlwaysKept` joins the two action
properties about what a job already has, that coverage never regresses and that a source stays.
`QueueAlwaysSound` says more where no lock was lost. `Alone`: one worker is in a pass then, so that what a
recovery has marked is what is still open, and every open attempt is named by its running job.

### DataProcessingProofs

For any processors, requests, contents, parameters and revisions and any number of commands
and faults, under `ProcessingAssumption` (the requests are finitely many). `QueueInv`:

- `Stored`: `Library`, the shape of a database (a request has one row, a row names a source,
  a published row its snapshot), and the bytes of every source are there;
- `Admitting`: what was stored and is about to be admitted is still unknown, and its bytes stay;
- `Processing`: who is busy names a row, who is down holds nothing;
- `Exporting`: what is or will be linked is published, what is confirmed is a snapshot;
- `Dumped`: the dump is a library of its own whose bytes stay, and a finished backup has them;
- `Alone`: while no claim was lost, only its holder is at work, so what a look
  found about equal work (`Equivalent`) still holds when it is used.

`RowsFit` bounds the table by an injection of its rows into the requests; `Grows`, `PublishesNone`
and `AddsNone` say what a step does to the rows, and most actions need no more than that.
The proof shows what `OneProductPerMeaning` rests on: the claim, not the look. After a
lost claim two holders may look, and the property says so.
`AdmissionIsAnswered` is liveness and stays with the run (see below).

### ObservationsProofs

For any inputs, rows, callers, keys and days and any number of runs and revisions, under
`ObservationsAssumption` (days are times, an input brings rows, `None` is no caller and
no request). `SeriesInv`:

- `Filed`: the types of the tables an import and a correction write, and that a run with
  records came from an input that is `Normal`: with the next, why every bar is
  complete (`BarsAreComplete`);
- `ImportsTellOneStory` and `CorrectionsAreEvidenced` themselves;
- `Assessed`: a day that passed stays visible at its cutoff, and a snapshot names an evaluation that exists;
- `SnapshotsAreAsEvaluated` itself;
- `Sessions`: what each session was asked and holds. One that holds a bar has evidence against
  the head of its chain, which stays the head (`Served`, `Backed`).

Every step that writes tables adds one run (`Adds`): `RowsGrow` and `SameBars` say that nothing that
was there changes, `OldStories` and `NewStory` that old runs and the new one tell one story,
`CorrectionsGoOn` that the new bars rest on evidence, and `ImportIsWritten`,
`CorrectionIsWritten` and `ErrorIsRecorded` that imports, corrections and errors are such steps.
A publication compares what its evaluation saw with what is visible now (`Applies`); since
visible bars only increase, an unchanged input is enough (`PublicationHolds`).

`KeepsSeries` is the refinement of `BarSeries`. `HistoryInv` adds to `SeriesInv` that no evaluation looks ahead
(`Past`), without which a release could hold what was not known yet. `HistoryGrows`, `RefusedGrows` and `HoldingsStay` say what
a new run does to what the contract sees: its rows follow the bars of their days, its conflicts are refused, and what was published
stays. An import then takes its file or is turned away as a whole (`ImportTakes`), the run of an error shows nothing
(`ErrorIsNoFile`), a correction follows the head that its session holds (`CorrectionFollows`, which rests on `Backed`: the evidence
was checked transactions ago), and a publication, whose members were selected when it was made and whose input was fixed
when it was evaluated, holds for each day the last bar available at the cutoff (`AvailableIs`, `PublicationReleases`).
`CallsEnd` is liveness and stays with the run (see below).

### Liveness

Five liveness properties are theorems of the same modules. The prover treats `ENABLED` as a
formula it cannot open, so each theorem has one premise, a state formula that says where
a next step is open: `NothingBlocks` (NativeStream, TushareSync), `NothingWaits` (LiveCommands)
and `NothingSticks` (LiveStreams). The premises are invariants of the runs and not theorems; what follows from
them and from the fairness of section 4 holds for every value of the constants.

| Theorem | Premise besides `FairSpec` | Argument |
| --- | --- | --- |
| `ReceptionsEnd` | `[]NothingBlocks` | a reception that began expires, an expired one is being stopped, one that is stopped becomes overdue; the thread's next step after that ends it, whatever the child does |
| `EveryReceiptSettles` | `[]NothingWaits` | a receipt that reads `RUNNING` has the one request that inserted it (`Ownership`); that request moves on, place by place, or its kernel dies and a successor reads the receipt as `UNKNOWN` |
| `AccountComesFree` | `[]NothingSticks` | who holds the account is a receiver or a query (`Uses`); a receiver's deadline passes, a stop is noticed, the child ends; between the commits of one callback the thread goes on or fails |
| `ClaimsComeBack` | `[]NothingBlocks`, faults cease, there is a worker | a pass ends; a pass that begins recovers what earlier ones left; the lock comes free when its holder's pass ends, and some idle worker takes it |
| `AttemptsComeToAnEnd` | as `ClaimsComeBack` | every attempt is claimed at most once (`ClaimsCease`), so from some time on it is either closed or open before each first statement of a recovery, which marks it |

Each step of an argument is a lemma of the form `P ~> Q` from one fair action: the invariant, `P` and any
step of `Next` give `P'` or `Q'`, the fair step gives `Q'`, and the premise says that it is enabled. Where the helpful
action depends on who holds something, the lemma is stated for that one (`NEW`), and the quantifier is put
before the leads-to at the end. The last two have the premise that
faults cease (`<>[][faults' = faults]_vars`) in the place of `MaxFaults`: that a counter with a bound comes to rest
is an induction inside a temporal formula, which the prover does not do. A worker that dies in every pass recovers nothing.

### What is model-checked only

- `AdmissionIsAnswered`, `TasksGoOn` and `CallsEnd`, the liveness of DataProcessing, ResearchTasks and
  Observations. Each needs an induction inside a temporal formula, over a finite set (the queue before a request and the outbox of `Repair`; the bars still to
  report and the processes a poll passes over; the bars an import has yet to lock and the sessions that hold
  them), which the prover's library gives only as theorems with an operator parameter.
- That a step is enabled where the premises above say so.
- `Protobuf` and `ProtocolExchange`: messages are nested, so their operators are
  RECURSIVE, and the prover does not take modules with such operators.

## 6. Findings and remarks

A finding is a run in which TLC shows the program doing something its own
text excludes. The shortest trace, in words:

- `research_fencing` (`N/apps/research/worker.py:45`). A process commits `FAILED` and
  has not exited; the user retries and the retry is claimed; the supervisor now sees
  the old process gone and closes the job's *current* attempt, the retry's,
  although its process is healthy. `store.py:1` says attempts are fenced by
  explicit execution identities.

Met while modelling, with no run of their own:

- a receiver dies between retaining a fill and booking it, a second stream of the
  account starts and books, and the first fill can never be booked
  (`N/live/streams.py:328`, `N/accounting/ledger.py:473`), where `docs/ARCHITECTURE.md:245`
  says facts are kept and can be booked later;
- a callback whose receipt clock fell behind an entry of its own stream should block
  the account as `UNKNOWN`; booking it is refused first, the transaction rolls back, and
  the checkpoint keeps reading `READY` (`N/accounting/stream_progress.py:166`);
- segments of *different* streams are compared by receipt and commit time like
  those of one stream (`ledger.py:473`); `BookIsChronological` holds, and is proved, for a
  receipt clock that does not fall back;
- a caller that timed out and posts a command again with a new deadline is denied at
  admission while the effect of its first post runs, because the deadline is part of
  the comparison (`live/commands.py:93`); the comment at line 134 says only failures
  of admission and expiry prove that the effect never began;
- the receiver of the child stops at its first overflow, as `ctp.py:266` asks, but a wrong identity in a later answer overwrites the
  code without looking (`_ctp_worker.py:285`), and callbacks are taken again, behind a gap. The session still ends as failed
  (`GapsAreNoted`), and `CleanEndIsWhole` is about sessions that end without a code;
- "Keep draining callbacks produced during Release" (`_ctp_worker.py:571`): nothing drains until Release has
  returned, so that more than 256 callbacks in it make a clean stop a `STREAM_LIMIT_EXCEEDED`;
- two imports of the same bytes under different declarations collide on the receipt's
  index, and the loser is stored as `QUARANTINED` with the advice to retry the same
  input safely (`ingestion/service.py:172`); every retry is answered by that stored run;
- research imports take the runs of all bars of a day, superseded ones included
  (`research.py:434`), while publication wants exactly the runs of the visible ones: after a
  correction of every bar of a run, that day could not be published again;
- an import and a correction take the series and a bar in opposite orders
  (`observations/service.py:107`); one of them ends with PostgreSQL's deadlock error;
- a worker that lost the advisory lock may claim between the two statements of another's
  recovery (`tushare/jobs.py:31-39`): its job goes back to the queue, its attempt stays `RUNNING` in
  the history until the next recovery. Ending an attempt locks its job and then the attempt (`tushare/jobs.py:216-229`),
  recovery the other way round: PostgreSQL ends one of the two with an error, which is `Crash`;
- pausing the synchronization during planning still lets the pass claim one shard
  (`tushare/jobs.py:28`; `docs/CLI.md:86` says claims stop once the current shard is committed);
- `checked_at` is set by downloads only, so a shard validated by a reprocessing
  alone is never rechecked after 90 days (`planning.py:70`);
- splitting a weekly-detail shard rewrites `start_date` and `end_date` although its
  request is bounded by `start_week` and `end_week` (`planning.py:249`);
- restoration checks that the database and the source directory are new, not the
  directory of publications, where `deploy/README.md:251` asks for entirely new
  directories (`apps/maintenance.py:231`);
- a published attempt with a damaged source and no publication stops the queue
  (`processing.py:76`);
- the backend's `pack()` drops an evidence key named `evidence_fields` or `null_fields`
  without a word (`N/web/protobuf.py:43`);
- an integer beyond 2^53 is refused where the schema says int64, and rounded silently
  inside `Struct` and `Value`; a `null` for a field of type `Value` that is not nullable reads as absent;
- `explore()` reads with the session of the tab and never resets it after a 403, as
  `mutate()` does; a comparison of versions is a read that goes through
  `mutate()` and takes the command lock;
- page details of the synchronization page may arrive out of order, since they are not
  loaded by `useData()` (`F/apps/data_hub/sync.tsx`);
- the identity the experiment's form keeps is React state (`F/apps/research/experiments/tasks.tsx:97`):
  two submissions within one render would each make an identity of their own and keep the
  later one. The model takes the identity as kept at once, as it is after a render, and the
  button is busy by then;
- page and proxy give up after the same thirty seconds, so a request may be executed after
  the operator was told that its outcome is unknown: the records, not the page, decide;
- `OneProductPerMeaning` needs that no claim was lost: when a claim is lost between
  `Pick` and `Begin`, two processors both look for equal work before either confirms.

## 7. Abstractions and what is left out

Common to all modules: prices, quantities, hashes, texts, logs and layouts are
left out; identifiers are model values; a calculation or a parser is a choice of
success or failure where a failure changes state; databases commit or roll back as
a whole, and SQLite and PostgreSQL keep what they committed.

- ResearchTasks: processors are counted, memory and disk are the choice that
  `Claim` is taken at all; progress is throttled by time in the code, so any later
  bar may be the next one written. Fixed configurations are data.
- LiveCommands: the effect is one commit; what it does belongs to the component it
  addresses. Clocks are integers that do not fall back; skew is between clocks.
- NativeStream: the child, its pipe and the reader belong to one reception. That the kernel's own process is killed is left
  out: the orphaned child is read-only and ends at its next send or its deadline. The limits in
  bytes are one with those in number, the versions message and damaged ones are a choice (`Reject`). The bounded
  account query and the SDK's self check are left out.
- StreamAccount and LiveStreams: entries carry the sets of fills they add, not
  positions; comparisons with a query are whether its fills are known; funds,
  minute sampling, strategy evaluation and archives are left out, and a decision
  is its event number. One account and one database.
- TushareSync: see section 2; rows of a response, its normalization and the
  publication of receipts are left out, as is the revision check of settings.
- Observations: a row is its value and availability, a day has one bar, and the only
  series is active; sessions, prices and the order of rows (which only warns) are
  checked before or apart from the state. Idempotency keys name the input. Only runs
  that own bars are evaluated, as `research.py` does. Provider retrievals,
  which wrap an import, are left out.
- DataProcessing: files are not damaged, code revisions are clean ones, capacity
  limits and rejections at admission change nothing and are left out. One backup.
- BrowserCommands: the operator's check of the records is taken to be right; tabs share
  nothing but the backend, so there is one. The confirmation of a task leaves the form, other
  forms have no contents.
- PageQueries: of time there is whether the observation is recent; the status has no
  content but the kernel that gave it. Other polled pages use the same `useData()`.
- Explorer: rows are their view and the number of their chunk; the chart, the columns
  and the comparison of versions are left out, and one range is exported at a time.
- Protobuf: bytes, lengths, varints and the depth limit are left out, text is one of
  two strings, a double has `Bits` bits. Evidence has one further key, a repeated field two items.

Components with no module yet, and why:

| Component | Why |
| --- | --- |
| Paper sessions; back-test session; market window; FIFO and positions; sizing, budgets and fills; ownership | planned, see section 8 |
| Account queries and reports; funds ledger; order observations | one immutable reply parsed and compared; the concurrent part is in the stream modules |
| Catalog | registration before the data, and read-only queries |
| Runs, artifacts, configurations; factors and strategies | content-addressed records and pure decimal calculation |
| Live materials and diagnostics; logging; command line and provisioning; deployment | no state whose interleaving matters; the restart policy of the deployment is used as fairness |

External behaviour is modelled from its use only: the CTP SDK and the broker
(`Execute`, the kinds of callbacks), the supplier's answers, the operating
system's locks, Compose.

## 8. Plan

1. TradingKernel and MessageBus beyond a receiver's: re-entry, rollback in back tests,
   completion after commit; the bounded account query over the same pipe.
2. Pure algorithms over bounded inputs against reference definitions: FIFO cost and
   positions, the market window, minute sampling, sizing and opening budgets.
3. Host-wide ownership of an account by several instances; opening budgets, whose
   inputs are read at different moments; paper sessions and back-test rollback; provider
   retrievals around an import, with their recovery.

The runs stay few. `live_two` and `live_shadow` were tried as one run and are not: two streams with
market callbacks and fairness are too many states. So is `research_queue` with two tasks.
