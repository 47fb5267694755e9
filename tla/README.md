# A verification project for LeanEvolve

LeanEvolve runs research agents against Lean projects. A command launches a
campaign; its runner proposes candidates; evaluator processes have Lean judge
them; agents try out drafts with a scratch checker and with warm worker services;
and what becomes known is written to a ledger, an event-sourced SQLite database
that all of these processes share. These modules model the parts of the program
where processes race, crash and retry, and the algorithms that decide what counts
as proved.

Read a module beside the source file that its header names. `PROJECT.json` maps
every definition to the lines it stands for, lists what is hard to test and names
the properties that are about it.

## 1. The system

| Component | State it keeps | Operations | What is hard about it | What makes it correct |
|---|---|---|---|---|
| Durable check queue, `ledger/queue.py` | check objects and their events in the ledger; no stored status, the state of a check is derived from its events | `submit`, `pending`, `start`, `complete`, `cancel`, `time_out`, `interrupt`, `supersede`, `invalidate`, `reconcile` | each operation reads outside the transaction it then writes; callers are separate processes | one submission, one execution and one answer per digest; bounded queue; order by priority and age; no return to the queue |
| Worker service, `ledger/worker_service.py` | a `flock` per checkpoint key, the socket file, `active_id`, the `stopping` flag | lock, reconcile, loop, exception handler, request threads, exit | a child may meet the lock of a service that is exiting; the handler interrupts what it read before | no check stays running beside a service that takes new work; every queued check that is asked for is served |
| Warm worker, `ledger/worker.py` | a Lean server process and its message queue | `process_next`, `check`, `_request`, `close` | a reader thread, deferred messages, timeouts | diagnostics of a check are those of its document and complete |
| Client, `ledger/client.py` | the job it waits for, a deadline | `check`, `start_worker`, `_request_worker` | gives up while the worker goes on; respawns | the answer is the answer of its digest |
| Store, `ledger/store.py`, `events.py`, `schema.py` | events (a hash chain), objects, connections, aliases, locations | `write`, `record`, `create_object`, `connect`, `retract`, artifact operations, `migrate` | concurrent writers, rollback, first open | tables are what the events say; the chain has no gap; idempotency keys |
| Derived state, `ledger/derive.py` | none | `state_of`, `truth_of`, `encoding_of` | replay to a past event | deterministic, and the past does not change |
| Artifacts, `ledger/artifacts.py` | blobs by digest, rows of locations | `put_bytes`, `put_artifact`, `reverify`, lost locations | a crash between blob and reference; files that change from outside | a report tells what is there; bytes are refused only when somebody touched them |
| Campaign scopes, `ledger/campaign.py` | campaign, epoch and turn objects | start, finish | resumption under idempotency keys | state follows the last run |
| Evaluation, `ledger/evaluation.py` | certifications, promotions, relevance edges | `record_authoritative_evaluation`, `record_promotion`, `record_research_delta` | order against `invalidate` | a promoted claim keeps its relevance |
| Integrity, `ledger/integrity.py` | none | `verify` | reads rows that are older than files | finds what is broken, and nothing in a reachable ledger |
| Kernel scoring, `kernel.py`, `evaluate.py`, `config.py` | receipts, accepted goals, result files | `run_kernel`, `evaluate` | one budget for the candidate and every goal; prerequisites; inputs that change meanwhile | what is credited is proved with its prerequisites, on the project that the receipt names |
| Run audit, `run.py`, `audit.py`, `lineage.py`, `replay.py` | manifest, events, input snapshot, lineage, inventory of a run directory | create, append, finalise, verify | failures in the final blocks, kills, an evaluator that outlives the run | a completed run verifies and replays |
| Shinka adapter, `shinka_runtime.py` | the `best` directory | refresh by staging and renaming | failures between renames | there is always a best directory |
| Launch, `workflow/launch.py`, `schedule.py`, `campaign.py`, `receipt.py` | plan, receipt files, campaigns found on disk | plan, run, inherit | defaults, ceilings and consent in order; two invocations side by side | what is spent was authorised; "ok" means a result |
| Settings and machine, `workflow/settings.py`, `environment.py`, `doctor.py`, `cli.py` | `leanevolve.toml`, `leanevolve.local.toml` | load, configure, check the machine | the machine changes after it was checked | "ready" means that the command runs |
| Scratch checker, `formal/shinka/shinka_lean_check.py` | parent and checkpoint sources, the Lean process, its pipes | build, police, assemble, elaborate, report | processes left behind by Lean, timeouts, interrupts; the header is rewritten | no false success; every announced invocation is reported |
| Event log, `formal/shinka/observability.py` | a hash-chained file under `flock` | `emit`, `head`, `verify` | torn records, power loss, edits | a receipt stands; the log verifies; an anchor tells |
| The rest: views, exports, paper intake, fixtures, retrieval packets, dead routes, scripts | none of their own | readers and renderers | - | - |

How they interact. `leanevolve run` (`Launch`) starts a runner; the runner
(`SearchRun`) starts one evaluator per generation (`KernelScoring`), keeps the
best directory and leaves a run directory behind, which `replay` reads and which
the next launch may inherit from. During a turn an agent calls the scratch checker
(`ScratchCheck`), and relay, runner and tools append to one event log
(`EventLog`). Independently of that, a client submits checks through the ledger's
queue, either itself or by a request to a worker service's socket, spawns a
service when none answers, and polls the ledger. The service of a checkpoint key is
the one process that holds the `flock` of that key; it reads the queue, writes
`check_started`, has the Lean server elaborate the source, and writes the closing
event with the claims that the source establishes. Evaluators certify and promote
claims, and operators withdraw checks and, with them, claims. Almost everything a
process decides it decides from a read that may be stale when it writes.

## 2. The modules

| Module | Models | Composes |
|---|---|---|
| `CheckLifecycle` | what the queue promises about one check, whoever calls it | abstract specification |
| `CheckQueue` | the queue's operations, each read and each transaction a step | implements `CheckLifecycle` (`ImplementsLifecycle`) |
| `WorkerService` | service processes and clients without a socket | EXTENDS `CheckQueue`; each step is a step of the queue together with what it means to the process (`ImplementsQueue`) |
| `WorkerSocket` | the request socket: listener, handler threads, clients that connect and respawn | separate: what a check does in the queue is `WorkerService`'s |
| `LeanServer` | the conversation of one backend with its Lean server | separate: gives the verdicts that `WorkerService!Processed`, `TimeOut` and `Failed` stand for |
| `Journal` | what the ledger promises to readers of its events: an append-only history | abstract specification |
| `LedgerStore` | sessions, event chain, idempotency keys, objects, connections | implements `Journal` (`ImplementsJournal`); justifies the atomic transactions of the other modules |
| `CheckClaims` | claims and edges that checks create, their withdrawal, certification and promotion | separate: uses `LedgerStore`'s sessions as single steps |
| `ArtifactStore` | the content-addressed files and the rows about them | separate: its session is one of `LedgerStore`'s |
| `KernelScoring` | what the evaluator accepts of a candidate, and what a largest closed set of proved goals is | functions only |
| `SearchRun` | a search campaign, its evaluators, the best directory, the run directory and replay | EXTENDS `KernelScoring` |
| `ScratchSource` | evolve blocks, appends, unified diffs, the source policy, imports | functions only |
| `ScratchCheck` | the calls of one agent, assembly of modules, the Lean process and its threads | EXTENDS `ScratchSource` |
| `EventLog` | schema and validation of events, `emit` under the lock, verification, anchors | - |
| `LaunchPlan` | settings, schedules, ceilings, consents, the checks of the machine | functions only |
| `Launch` | invocations of the command side by side, their runners, campaigns and receipts | EXTENDS `LaunchPlan`; a runner is a `SearchRun` seen from outside |
| `MC*` | the instances that TLC checks | |
| `DurableChecks_proofs`, `WarmWorker_proofs`, `Ledger_proofs` | the theorems about `CheckQueue` and `WorkerService`, about `WorkerSocket` and `LeanServer`, and about `LedgerStore` and `CheckClaims` | |
| `ArtifactStore_proofs`, `SearchRun_proofs`, `ScratchCheck_proofs`, `EventLog_proofs`, `Launch_proofs` | the theorems about the module of that name and the functions below it | |

### How state and actions correspond to the code

**CheckQueue.** No status is stored in the ledger. `op[c]` is what
`derive._operational` returns for the events so far; since the latest event wins,
every action that writes an event sets it. `created`, `priority` and `scope` are
the columns of the check object and its first event. `submitted`, `starts` and
`results` count events and exist for the properties. `phase`, `wanted`, `asked`
and `seen` are the locals of a `submit` call; `step` and `job` those of a worker
in `process_next` or `reconcile`. An operation that reads and then writes is two
actions: `SubmitList`/`SubmitAdmit`/`SubmitCommit`, `Pick`/`StartRead`/
`StartCommit`, `CompleteRead`/`CompleteCommit`, `ReconcileRead`/`ReconcileCommit`.
`cancel`, `interrupt`, `supersede` and `time_out` have no guard on the state, as
in the code. `SubmitterLost` and `WorkerLost` are exceptions and deaths between
two steps.

**WorkerService.** `service[k]` is where `main()` is: `booting` after the lock,
`serving` at the head of the loop, `active` in `process_next`, `raising` in the
exception handler, `closing` until the process is gone and the lock with it.
`children` are spawned processes that have not tried the lock. A client's
`awaits` and `polling` are the locals of `check()`.

**WorkerSocket.** `path` is the socket whose file is at the path; `proc[s]` adds
to the service's states the steps of binding and unlinking, which matter here;
`backlog` holds connections nobody accepted, `handling` those that a handler
thread serves.

**LeanServer.** `messages` is the backend's queue, `deferred` the list of that
name, `saw` and `error` what `_wait_for_diagnostics` has collected. The server is
external: it may send whatever the protocol allows. The pipes and the reader
thread are not modelled as queues of their own: their delay is a server that
sends later, and the end of the file is part of `Die`.

**LedgerStore.** `db` is the committed database, `work` what the open session
sees, `next` and `prev` the head the session carries in memory. `Insert` is
`_insert_event` with the rows of the same call. `Abort` is an exception in the
`with` block or the death of the process. `past` is a history variable. What the
store promises is `Journal`, whose one variable is the committed events: a session
is one step of it, however many steps it takes here.

**CheckClaims.** The edges are sets of pairs; `listed[w]` is what a call of
`invalidate` read before its transaction.

**ArtifactStore.** `files[d][l]` is what lies at a path: nothing, part of the
bytes, the bytes, or others. `db` and `work` are the rows, committed and as the
session sees them. Writing a blob is a step of its own (`WriteInPlace`,
`WriteAtomic`), so that a crash may come before, in and after it; files stay when
the session rolls back. `reverify` reads one location per step (`ReadLocation`).
`Touch` is everybody else.

**KernelScoring and SearchRun.** Lean is two tables: which candidates compile on
which version of the project and which goals' `example` does. `reach` is how many
invocations the shared budget lets finish. `pc` is where `run.main` is, with a
value for each statement that writes to the run directory or may raise; `eval` is
the evaluator process, which goes on when the run has ended. `Files` is the
directory as `result_inventory` sees it. A content is a version number: equal
versions have equal hashes. The four steps of a refresh are `StageBest`,
`MoveAway`, `PlaceBest` and `DiscardPrevious`, and `RefreshFails` is an exception
at any of them with the repair that the code then tries. What replay finds are
the operators `LineageProblems`, `FreshProblems` and `InventoryHolds`.

**ScratchSource and ScratchCheck.** A source is a sequence of lines and a line is
a token, one of the set `Lines`; positions of markers decide everything that the code
decides with offsets. `Picked` is a loop that keeps some of the elements. `stack`,
`ordered` and `external` are the recursive `visit` of the assembly, unrolled. `held` is a process that Lean left behind with its pipes:
inside its process group, where the kill reaches it, or outside. `io` is the
reader and writer threads; `Close` and `JoinExpires` are the two ends of their
join. `emitted` is what the sink has seen.

**EventLog.** `EventSpecs` and the validators are the schema as data. `emit` is
four steps under the lock: verify, write, sync, return. `synced` is how much of
the file a loss of power cannot take; `torn` is part of a record at its end. A
hash is the tuple of what it is computed from, so equal hashes mean equal
contents.

**LaunchPlan and Launch.** An argument is a flag and a value. `pc[i]` follows
one invocation from the settings over the plan, the consent, the check of the
machine and the runner to the receipt. `runner[i]` is the process it started,
`run.main` seen from the launcher: it ends before there is a campaign, with an error or,
asked for its usage or to check the configuration, with success (`RunnerEndsEarly`); it
makes the campaign's directory, and fails where that exists (`RunnerStarts`); it writes
the lineage or fails to (`RunnerTraces`); it finalizes the manifest (`RunnerEnds`). The
status in the manifest and the exit status are two things: a search that completed
without a lineage, or whose lineage could not be written, is finalized as completed.
An amount goes into the command as `f"{x:g}"` prints it, with six significant digits
(`Printed`), while the ceiling is multiplied from the amount itself; and doctor rounds
the free space to hundredths of a gigabyte (`Rounded`, `StorageReported`) where a
launch does not (`StorageRefused`). Amounts and space are whole numbers of a unit that
the instance chooses. An instance is one workflow, of any shape; the receipt file of
`run` serves all of them.
`staged`, `filed` and `inodes` are the temporary file, the receipt file and what
is in them: two invocations of one task share both names.

## 3. The runs

Bounds are constants of the modules and given in the `.cfg` files.

| Run | Instance | What it shows |
|---|---|---|
| `queue` | three checks, two submitters, two priorities, one worker, capacity 1 | one submission, execution and answer per check (`SubmittedOnce`, `RunsAtMostOnce`); the capacity is exceeded by less than the number of submitters (`PendingOverrun`); `CheckLifecycle` is implemented (`ImplementsLifecycle`); no started check overtakes an older one of at least its priority (`NoOvertaking`) |
| `service` | two checks of different environments, one client, one key, two faults | a running check has an owner (`RunningIsOwned`); the processes use the queue as it allows (`ImplementsQueue`); a check that is asked for again and again leaves the queue (`RetriedEnds`) |
| `sockets` | two clients, one launcher, hence three services of a key, two faults | the path leads to the live listener (`LiveListenerReachable`); no request reaches two services (`DeliveredOnce`); no client waits for ever (`RequestsEnd`); a respawn recovers (`RespawnRecovers`) |
| `conversation` | two documents, two diagnostics notifications each, one request of the server's | verdicts are whole (`VerdictIsWhole`); a death is no timeout (`DeathIsNoTimeout`) |
| `ledger_sessions` | two objects, two connections between them, one key, six events | readers see an append-only history, to which a commit adds one run of the hash chain with keys that are new (`ImplementsJournal`); tables are what events explain (`TablesFollowLog`), a replay invents nothing (`NoFalsePast`) |
| `withdrawals` | three checks that share claims, two callers of `invalidate` | a withdrawal costs no standing check anything (`ActiveChecksStand`); no edge without a foundation (`EdgesAreFounded`); promoted claims keep their relevance (`PromotedKeepRelevance`) |
| `artifacts` | one artifact of two types, the store and a replica, four touches from outside | the reports are right about artifacts whose locations were read since they changed (`ReportsTellTheTruth`); a put is refused only where somebody touched the file (`RefusedOnlyIfTouched`) |
| `search` | two generations, two candidates, a ladder of a goal and one that needs it, one edit of the project or the configuration, every budget | the credit is the largest set that the proofs allow (`AcceptedIsLargestClosed`); a receipt tells its project (`ReceiptsTellTheirProject`); a completed run verifies (`CompletedRunVerifies`) and, undisturbed, replays (`UndisturbedRunReplays`); there is always a best directory (`BestSurvives`); a run is finalised (`RunsAreFinalized`) |
| `independently_audited` | two goals on one declaration | expected violation, see below |
| `scratch` | three checks over module graphs with a diamond, a cycle and a missing module, seven proposals, timeouts, interrupts, processes left behind | the assembly is a topological order of what is needed (`AssemblyIsTopological`); flattening makes no success of a refused file, be it the candidate or the checkpoint below it (`NoFalseSuccess`); accepted text stands (`ParentStands`, `CheckpointsGrow`); an announced invocation is reported (`AnnouncedIsReported`) |
| `log` | three writers of two campaigns, two events, one edit with any number of recomputed hashes | receipts stand (`ReceiptsStand`); no call shuts the log (`LogStaysOpen`); against an anchor no change passes (`AnchorTells`) |
| `launch` | two invocations, eight requests, four machines, one fault | no running runner gets more to spend than was agreed to, but for the last printed digit (`SpendIsAuthorized`); "ok" means a finished campaign with goals, where a campaign was asked for (`OkMeansResult`); what is inherited is finished and traced (`InheritedStands`); "READY" means that the machine stops nothing, but for what doctor rounds away (`ReadyMeansRunnable`) |

Why these bounds are enough for what they are meant to show.

* Every race in the queue is between two calls; a third check is needed for the
  capacity, where two submitters must overrun a capacity of one.
* The three services of `sockets` are a predecessor that is late to clean up, its
  successor and a child that finds the lock taken. Two faults are a crash and a
  failure of what recovers from it.
* In `conversation` the second document meets the late messages of the first, and
  a second piece is what makes incremental and replacing diagnostics differ.
  `MaxUnread` bounds how far the server runs ahead of the client, since a message
  that is sent earlier and read at the same point is no different.
* Six events are enough to create two objects, assert, retract and assert again,
  with an event to spare.
* Four touches of an artifact's files can remove or damage both copies and restore
  both; artifacts have nothing in common but the session.
* In `search` a second generation is what makes a best directory be replaced, a
  lineage have an ancestor and an evaluator outlive the run beside finished ones.
  One edit suffices to come before, between and after the two hashes of an
  evaluation, and between a snapshot and its use.
* In `scratch` a third check builds on one that was built on another, as does a
  second checkpoint.
* In `log` the second record is the one that is bound to a predecessor; the third
  writer is refused because of its campaign.
* In `launch` every race is between two invocations. The one fault is a change of
  the machine, an interrupt, or the death of a launcher; a runner may fail at any time.
  The eight requests have schedules of two styles, each kind of consent, a directory of
  the user's own, a check of the configuration and settings that are right, wrong and
  dangling. The limit of 12.34567 dollars is printed as 12.3457; a
  local one of a single unit is printed as it is. `PowersOfTen` need only reach what the
  largest limit loses. One machine has 0.996 GB free where 1 GB is reserved, which
  doctor shows as 1.

The theorems below do not depend on any of these bounds. They state every property of
the passing runs but the five that need fairness.

Symmetry is used in `queue` only, over submitters and over checks of one key: no
definition chooses among them, and the properties are invariants and properties of
steps.

Deadlock is not checked in `sockets`, `conversation` and `launch`: there the system
really stops, when every client's call has ended and every service is gone, when
the backend is closed, and when the last invocation has reported. `SearchRun` and
`ScratchCheck` have an explicit `Rest` at their end. Everywhere else a state without
a successor would be an error.

Each property of a passing run has a mutant in `PROJECT.json`: a plausible bug in
one definition under which the same run fails. The mutated forms are the
definitions that the modules mark as mutants; no other definition uses them.

### A claim that the code refutes

`independently_audited`: `config.Goal` calls a goal "one independently audited
declaration", and the README of the program says that credit comes from elaborating
`example : <target_type> := <declaration>` for each goal. `run_kernel` files its
receipts under the declaration, and `_goals` lets two goals of a ladder name the
same one: when the audit of one goal succeeds, the other is credited although its
own `example` failed. `AcceptedIsLargestClosed` holds because the ladders of
`search` give every goal its own declaration, and its theorem has that as a
hypothesis.

### What else was found while modelling

These follow from definitions of the modules and need no run of their own.

Ledger and workers:

* `start()` reads the state before its transaction and not again inside of it. A
  check that is cancelled in between is started (`StartRead`, `StartCommit`).
* `reconcile()` marks the check of a crashed worker as safe to resubmit, but
  `submit()` answers its digest with the interrupted check for ever; the
  environment or the source has to change before it is executed again.
* `max_pending` is exceeded by racing submitters; `PendingOverrun` is the bound that
  holds. A twin with another priority ends in a conflict (`SubmitConflict`) although
  identical requests are said to deduplicate.
* `state_of(until=n)` looks at today's connections. One that was active at event n
  and has been retracted since, or retracted and asserted again, is missing;
  re-asserting a connection overwrites the row that told which event had retracted
  it (`Connect`).
* `invalidate()` keeps all relevance edges of a claim that another active check
  produced, also the edge to a goal that only the withdrawn check was aimed at.
* `_request()` raises `queue.Empty` when its time is over with an empty queue;
  `close()` does not expect that, and the server is not killed.
* The type of an artifact's first registration stays, whatever a later one says; the
  locations that a caller adds are recorded as present without being read.

Search and scratch checks:

* The pipes of a scratch check are closed by hand when the joins of its threads run
  out, and that may wait for a process that Lean left behind outside its process
  group: the time limit bounds Lean, not the check (`CloseReturns`).
* The hashes of the project are taken before and after Lean reads it. An edit that is
  undone in between leaves no trace; in the model a content that was edited never
  comes back.

Launch:

* A cost flag that is given twice is read by its first occurrence in the plan and by
  its last in the runner, which is why `SpendIsAuthorized` excludes repeated flags.
* The receipt of every run guarantees that "the per-chunk ceiling passed to the runner
  cannot exceed configuration" (`launch.py:599`). It is printed with six significant
  digits (`launch.py:418`): a configured 12.34567 goes out as 12.3457, and is multiplied
  by the chunks. `SpendIsAuthorized` has the bound that holds, a two hundred thousandth
  of the ceiling, and the exact one where the user gave the amount or its printed form
  is exact. Without that distinction the run `launch` is violated.
* `run shinka --yes -- --check-config`, and `--help`, exit with 0 before there is a
  campaign (`run.py:227`), and the receipt says ok (`launch.py:579`). So does that of
  a workflow without a results flag, as `replay`, which writes the same `run.json`.
  `OkMeansResult` excludes them by name, and its theorem does not assume that a
  workflow has such a flag.
* `--results-dir` makes the runner write where the receipt does not look;
  `OkMeansResult` excludes it.
* Doctor compares the free space after rounding it to hundredths (`doctor.py:82`,
  `:246`), a launch compares it as it is (`launch.py:117`): with 1.996 GB free and 2 GB
  reserved doctor says READY and every run is refused. `ReadyMeansRunnable` lets a
  reserve be missed by half a hundredth, and no more.
* `configure --max-api-costs -1` is accepted and written, and every later command
  then fails to load its settings.
* Two invocations of one task share a temporary receipt file; the rename of the one
  may publish the other's bytes. `OkMeansResult` says what still holds.
* A failing `lake` on the path counts as available; an absent Shinka is READY in the
  doctor, which is why `ReadyMeansRunnable` excludes it.

### Fairness

Every process has weak fairness on its own, and nothing else has any.

* `WorkerService` and `WorkerSocket`: a client's loop sleeps between polls and has a
  deadline; a child that was spawned reaches the lock; the service's loop goes on,
  since the backend answers or the check's budget runs out; a handler thread's loop
  has the deadline of its check; a process that is leaving finishes its `finally`
  block. There is none on submitting, on faults, on idle exits, or on a check coming
  to an end in `WorkerSocket`. One comparison of durations enters as a guard: an idle
  service leaves after 7200 seconds and a refused client polls for 30, so no service
  leaves for being idle while a client polls, and a child that was spawned binds its
  socket before the client gives up. `RetriedEnds` assumes a client that asks again
  and again, and `RespawnRecovers` that nothing fails once more; both say so.
* `SearchRun`: `run.main` goes on when it can; an evaluator ends, since the runner
  gives its job a time limit; the executor's thread finishes a refresh. The runner is
  taken to return in the end, its generations being counted. There is none on edits,
  on kills, or on proposals.
* `ScratchCheck`: `run_check` goes on, its wait for Lean being bounded by the time
  limit; the reader and writer threads end once nobody holds the pipes. None on Lean
  ending by itself, nor on a process that it left behind, which is why
  `AnnouncedIsReported` lets such a process be the reason for a missing report.

## 4. The proofs

All theorems hold for every value of the constants that satisfies the modules'
assumptions. These say what kind of thing each constant is and that the sets of
checks and submitters are finite (`QueueAssumption`, `ServiceAssumption`,
`StoreAssumption`, `ClaimsAssumption`, `SocketAssumption`, `ServerAssumption`,
`ArtifactAssumption`, `RunAssumption`, `LogAssumption`, `WritersAssumption`,
`CallsAssumption`, `SortedAssumption`, `LaunchAssumption`). Those that say more:

* `ConfigAssumption` and `LeanAssumption` (`KernelScoring`) are what the configuration's
  parser guarantees: a ladder is not empty, its goals are unique, and prerequisites come
  earlier.
* `PlanAssumption` and `ToolsAssumption` (`LaunchPlan`) are two facts about the shipped
  `leanevolve.toml`, of which `settings.py` checks a part: each flag has one purpose and
  no default sets an amount to spend or a directory, and no workflow requires a tool that
  doctor does not look for. With a default that spent, or a tool that nobody looks for,
  `SpendIsAuthorized` and `ReadyMeansRunnable` would be false. `PowersOfTen` and
  `Hundredth` are positive numbers; the bound on what is printed needs no more than that.
* `LaunchAssumption` also says that free space is a natural number and that a directory
  that a user names is one of `Directories`.
* `SourceAssumption` and `ScratchAssumption`: the markers are lines, an import names a
  module, the snapshot and the checkpoint are part of the library, no import is called
  `<candidate>`, and the parent is not empty. An import is no `Wrong` line, since whether
  it resolves is the assembly's question, and Lean refuses it anywhere but in the header.

The type invariants are parts of the inductive invariants and are proved, not run.

* `DurableChecks_proofs`, the queue. `QueueInv` is the type invariant with what a worker may
  rely on between its read and its write (`WorkerInv`: of its check, a withdrawal
  may have come in between, nothing else) and what events and state say of each
  check (`CheckInv`). From it: `TypeCorrect`, `SubmitsOnce`, `RunsOnce`,
  `NeverQueuedAgain` and the refinement `QueueImplementsLifecycle`. The capacity
  (`PendingBound`) needs a counting argument. In the order of creation, each check
  that stands at position `MaxPending` or later was admitted by a submitter whose
  list was older than the check before it, and no submitter can have admitted two
  of these; so there are fewer of them than submitters. `PendingInv` is what makes
  that inductive. `NothingOvertakes` needs `OrderInv`: what a worker picked stays the
  first choice until it is started, since every new check is younger.
* `DurableChecks_proofs`, the service. Each step of the processes is a step of the queue or
  leaves it alone (`ServiceImplementsQueue`), so the queue's theorems carry over
  (`ServiceRunsOnce`). `RunningStaysOwned` needs `HolderInv`: a worker is in the
  middle of a check only while its service is in `process_next`.
* `Ledger_proofs`, the store. The session's view and the committed database are both
  sound, and the head that the session carries is the head of its view
  (`StoreInv`). Then `Abort` and `Commit` have nothing left to show, and each write
  is one append. `StoreChainVerifies`, `StoreSpendsKeysOnce`,
  `StoreTablesFollowLog`, `StoreReplayInventsNothing`. The refinement of `Journal`
  (`StoreImplementsJournal`) needs one thing more: the committed events stay a
  prefix of what the open session sees (`RootedInv`). A commit then publishes that view,
  whose events all follow on what comes before them because the view is sound
  (`SoundFollows`), and no other step touches the committed database.
* `Ledger_proofs`, the claims. `ClaimsInv` is that every check that stands has its edges
  and that edges are founded; what a call listed earlier needs no invariant,
  because the decision is taken inside the transaction. `ClaimsActiveChecksStand`,
  `ClaimsEdgesAreFounded`, `ClaimsPromotedKeepRelevance`.
* `WarmWorker_proofs`, the socket. At most one service holds the lock, the path leads to
  whoever has bound it, and a client that has not sent has delivered nothing.
  `SocketReachable`, `SocketDeliversOnce`.
* `WarmWorker_proofs`, the conversation. The unread messages of a document and what was collected
  from it add up to what the server has reported (`Whole`): an error is collected
  or unread, a replacing notification repeats the errors before it, the reply
  comes last. No fold over the messages is needed. `VerdictsAreWhole`,
  `DeathsAreNoTimeouts`.
* `SearchRun_proofs`. The evaluator's loop over the ladder is a recursive function.
  That it computes what the reference says (`KernelIsLargestClosed`) rests on
  `LoopAccepts`: after i goals the accepted ones lie in the first i, are closed
  under prerequisites, and include the first i of any closed set of passing goals.
  `VerdictInv` says that what is in the evaluator and in the receipts is
  `RunKernel`'s value for the inputs recorded with it, from which
  `CreditIsLargestClosed` follows. `VersionsInv` orders the version of the run's
  start, the one that Lean read and the one that the receipt records, so that equal
  ends have an equal middle (`ReceiptsTell`). `QuietInv` says that after a normal
  return neither evaluator nor refresh is left to write, so that lineage and
  inventory stay true (`CompletedVerifies`, `UndisturbedReplays`). `BestInv` follows
  the renames, `BestStays` is the action property; it needs that the best program is
  one of those recorded, hence `TopExists`: among finitely many programs one has the
  most credit.
* `EventLog_proofs`. `LogInv`: whoever holds the lock knows the log that it verified,
  a record with a receipt is within what is synced, and the log is valid unless
  edited. `Normal` only produces events that `Admitted` and the verifier agree on
  (`NormalAdmitted`), so an append to a valid log is valid (`ValidAppend`).
  `AnchorsTell` is `SameHead`: valid logs of one length and one head hash are equal,
  going back from the head, as each hash fixes its record and the hash before it.
* `ArtifactStore_proofs`. `StoreInv` adds two things to the properties. `RowsTell`: a
  row that was read since its file changed tells what is in the file, in the committed
  rows and in the session's; the one row that a put is about to write is still to come,
  and there the file holds the bytes. `Untouched`: only somebody outside leaves a wrong file
  below the root, or takes away one that a put is about to hash. `StoreReportsTellTheTruth`,
  `StoreRefusesOnlyTouched`.
* `ScratchCheck_proofs`. `StackInv` is the state of the recursion: of every visit, each
  import is settled, still to be visited, or the visit just above it on the stack
  (`Pending`). When the last visit of a module ends nothing is left to be visited and
  nothing is above, so all its imports are settled: that gives `OrderInv`, and for the
  candidate at the bottom that what was assembled is closed under imports (`FlatInv`).
  `ReachInv` is the other half: every module on the stack or in the stream, and every
  import to be visited, lies in each closed set of modules, so the stream is the least
  one. Cycles need no argument of their own: a module on the stack is not entered, and
  `AssemblyFails` is the only way on. `AcceptInv` keeps what the policy passed until the
  verdict, `ProcessInv` ties the exit code to the stream that Lean read, and the
  checkpoint is in every such stream (`CheckpointStreamed`).
  `ScratchAssemblyIsTopological`, `ScratchNoFalseSuccess`, `ScratchParentStands`,
  `ScratchCheckpointsGrow`. Below them are lemmas about the source algorithms, for
  sources of any length: that appends and patches are sources again (`AppendTyped`,
  `DiffTyped`, over the recursive loop of the hunks), that the header is a prefix
  (`HeaderIsFirst`), that a bounded source falls into what is before, in and after its
  evolve block and that such parts make a bounded source (`BlockParts`, `BlockMade`),
  that a loop over a prefix gives a prefix (`PickedPrefix`), what `Materialize` makes of
  two permitted sources (`MaterializeFacts`) and that a permitted extension starts with
  its parent's declarations (`PermittedExtends`).
* `Launch_proofs`. `LaunchInv` is the type invariant, `ReceiptInv` (what the receipt
  file says), and per invocation what its session has established so far: `SessionInv`, `ListedInv`, `PlanInv`,
  `ConsentInv`, `RunnerInv`, `ResultInv`. An invocation changes only what is its own,
  but for the two files that the invocations of a task share (`OthersKeep`). The weight
  is in the functions: which occurrence of a flag the plan reads and which the runner
  (`Gives`, `Once`, `Lacks`, `ValuesIn`; `FirstValue`, `LastValue`), that the loop over
  the defaults adds what is missing and leaves alone what was given (`DefaultsFill`,
  `DefaultsKeep`), that the chunks of a schedule add up (`ChunksCounted`), and that the
  command of a plan within its ceilings asks for no more than these (`PlanWithin`,
  `PlanCommand`). What is printed of an amount exceeds it by at most a two hundred
  thousandth (`PrintedFacts`), and multiplying by the chunks keeps that (`SpendFacts`);
  what doctor shows exceeds what is free by at most half a hundredth (`ShownSpace`).
  `RunnerInv` follows a runner from its campaign to its exit status: it succeeded only
  with a campaign that is completed, or where none was to be had. `LaunchSpendIsAuthorized`, `LaunchOkMeansResult`,
  `LaunchInheritedStands`, `LaunchReadyMeansRunnable`.

Induction over data is done through the well-founded minimum: a set of natural
numbers at which a claim fails has a least element (`Least`, `CountsUp`, from the
library's `NatLessThanWellFounded` and `WFMin`), and that one leads to a contradiction.
The induction theorems themselves, which take an operator, are beyond the provers. So is
the meaning of a recursive function: that a function with its equations exists is proved
first (`LoopExists`, `PickedStates`), for the recursive definitions are CHOOSEs. Two
definitions have the form they have for that reason. `Picked` stands where SelectSeq
could, whose definition the prover does not unfold. And what an assembly reaches is
characterised (`Closed`, and the least such set) instead of computed.

Only model-checked: the liveness properties `RetriedEnds`, `RequestsEnd`,
`RespawnRecovers`, `RunsAreFinalized` and `AnnouncedIsReported`, since fairness and
ENABLED are outside the prover's reach. Every other property of a passing run is stated
by a theorem. Not proved is what no property states, for example that an applied diff is
what `patch` would make of it: `DiffTyped` says only that it is a source, and
`ParentStands` that nothing accepted was lost. No module uses RECURSIVE operators.

## 5. Not modelled, and the plan

What could be added, most important first.

1. The migration of the schema when two processes open a new database: the version
   is read outside the transaction, and the loser's `CREATE TABLE` raises. Every
   module starts from a migrated database.
2. `DerivedState`: truth, encoding, lifecycle and verification as folds over events,
   and that replaying to the head is the current view. No other code acts on them.
3. Campaign scopes: a second `campaign_started` under a spent key is no event, so a
   resumed campaign reads as completed. No code decides anything on it, and the keys
   themselves are `LedgerStore`'s.
4. The goals' own events and research annotations of `evaluation.py`: one session
   each, as in `LedgerStore`.

Parts that are modelled in part leave out the following. Of the store: aliases. Of
the artifacts: `put_file`, which only tests call, and the event of
`archive_artifact`. Of integrity: findings about rows that the modules hold
consistent. Of the kernel: the text rules of the source policy, which stand as the
set `Legal`, and the parsing of the configuration. Of the workflow: storage, the
estimate of the running time, the gates (programs that run one after the other) and
the tasks of the command line other than plan, run, configure and doctor. Of the
formal tools: retrieval packets (`spotlight_packet.py`), dead routes and the recovery
of a session, which render or parse text and keep no state.

Left out for good: the vocabulary (a table), exports, projections and views
(read-only), paper intake and fixtures (batches over the store), the ledger's command
line, the parsing of Lean source, documentation, scripts and examples. What a module
leaves out of its own source file is said in its header and at the definition: the
wording of diagnostics, timings, and `event_range`, which no property reads.
