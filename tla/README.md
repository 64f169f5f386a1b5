# ScenarioForge: TLA+ models, model checking and proofs

ScenarioForge turns a scenario description into a network that runs on a CORE
VM. Its web process (`src/webapp`, one threaded Flask server) starts jobs on
that VM in background threads, lets several browsers poll, stop and finalise
them, shares the VM with an evaluation harness in another process, uploads its
own repository there, and keeps most of its state in memory (`RUNS` and caches of
its own) and the rest in JSON files that it rewrites as a whole. This is where
the system is hard to test, and it is what most of the modules here are about;
the others are about the planning of a topology, whose arithmetic is small and
full of edges.

`AB` below is `src/webapp/app_backend.py`; other paths are relative to `src/`.

## 1. Inventory

| Component | State | Operations | Interacts with | Hard behaviour | Module |
|---|---|---|---|---|---|
| **Background CLI runs** (`AB` 44876–46550, `webapp/routes/app_entry_routes.py` 1475) | `RUNS[run_id]`, one thread per run, its lock handle, SSH tunnel and client | `POST /run_cli_async`, the thread's steps, `_fail_run`, the `finally` that releases the lock | CORE VM over SSH, evaluation harness through `flock` | early returns, exceptions, time-outs, restart while locked | `AsyncRun`, `VmLock` |
| **Run status, history, cancel** (`webapp/routes/async_run_monitor.py`, `AB` 28018–28088) | `RUNS[run_id]`, `run_history.json` | `GET /run_status`, finalise and append, `POST /cancel_run` | background runs, evaluation packages | concurrent polls, writes in different orders, retries | `AsyncRun` |
| **Vulnerability batch tests** (`webapp/routes/vuln_catalog_batch.py`, `AB` 2235, 51371) | batch entry and child entries in `RUNS`, catalogue file | batch start, loop, stop, `_stop_vuln_test_meta`, clean-up threads | background runs (each test is one), CORE VM, catalogue file | stop races the loop, clean-ups race, rewrites of a shared file | `VulnBatch` |
| **Flag-generator batches** (`webapp/routes/flag_catalog_batch.py`, `flag_generators_test.py`) | batch entry, child entries, catalogue state | batch start, loop, test thread, stop, clean-up by loop, stop request and user | generator runner, CORE VM | entry read while its thread writes it, clean-ups remove what the loop reads | `FlagBatch` |
| **Evaluation packages** (`webapp/evaluation_artifacts.py`) | `status.json` per run, `self.active`, builder threads | `schedule()`, `status()` | called by the finalising status requests | one builder per run, failing thread start, restart | `EvalArtifacts` |
| **Repository upload** (`AB` 4982–5609, `webapp/routes/core_repo_push.py`, `core_push_progress.py`, `webapp/progress_store.py`) | files, hash and manifest on the VM; progress entry, cancel flag | upload by rsync, SFTP delta or snapshot; skip; poll, cancel | every job that needs the repository on the VM | stale records, two threads of one upload, overlapping uploads, cancel against completion | `RepoPush` |
| **Resolve and preview job caches** (`webapp/routes/flag_sequencing_prepare_preview.py`, `..._sequence_preview.py`) | jobs by request id | start or attach, stream, sweep after 600 s | browser retries | attach against sweep, thread start failure | `JobCache` |
| **Run-history writers** (`AB` 28013–28088, 54616, `webapp/routes/reports_downloads.py` 555) | `run_history.json` and its temporary file | append, delete reports, purge scenarios | status requests | partly unlocked rewrites, unreadable file taken for an empty one | `RunHistory` |
| **Flag sequencer** (`scenarioforge/sequencer/dag.py`, `AB` 26741–27485) | none | validate a chain, reorder it | chain routes | an order that is not validated, merged contracts | `ChainOrder` |
| **AI generation streams** (`webapp/routes/ai_provider.py`, `generator_builder_routes.py`) | `_ACTIVE_AI_STREAMS`, worker and reader threads | stream, relay, repair, cancel | model providers, MCP servers | cancellation against answer, providers that never answer | `AiStream` |
| **Image cache runs** (`webapp/routes/flag_catalog_cache.py`, `vuln_catalog_cache.py`) | entries of `RUNS`, catalogue records, images on the VM | pull, look for, clear; stop; pin | CORE VM, catalogue edits | partial failure, stop half way, shared and pinned images | `ImageCache` |
| **Planning** (`scenarioforge/planning`, `scenarioforge/utils/allocators.py`) | address pools | counts, links, groups of hosts, subnets, addresses | web process and command line each compute it | rounding, exhaustion, degrees no graph has | `PlanCounts`, `RouterGraph`, `HostLans` |
| **Single vulnerability tests** (`webapp/routes/vuln_catalog_test_start.py`, `..._test_control.py`) | child entries of `RUNS` | start, stop with the user's verdict | `_stop_vuln_test_meta` | double stop | stop only, in `VulnBatch` |
| **CLI and topology builder** (`scenarioforge/cli.py`, `scenarioforge/builders/topology.py`), **CORE gRPC helpers** | one CORE session | build, run | CORE gRPC | sequential | – |
| **Generators and packs**, **XML editor**, **session store**, **authentication** | files | read, validate, write | – | data transformation | – |
| **Traffic agents, CORE services, add-ons, MCP server, provisioning, templates** | – | – | – | separate programs, presentation, installation | – |

What makes them correct:

* runs: nobody works on a VM he has not locked, no path leaks the lock, waiting
  for it is bounded, what happens to a VM's session is done by its holder;
* history: one entry per run, with the code the run ended with; the file holds
  what was appended and not deleted;
* batches: the report names every item once, tests do not overlap their
  predecessors' clean-ups, verdicts are earned and kept, no session is left
  behind, a stop is effective;
* packages: one builder per run, results are final, "preparing" is true and ends;
* uploads: what is called complete is delivered, the records on the VM never make
  a later upload leave something out, a cancellation is not forgotten, the entry that
  browsers poll agrees with the threads;
* job caches: one execution per request key, one response, no endless stream;
* sequencer: a solvable chain stays solvable, and one is found where there is one;
* generations: one outcome, none after a timely cancellation, threads that end;
* images: the catalogue tells the truth, runs end; pinned images should stay, and do
  not (see `cache_pins`);
* planning: no host lost or doubled, links as asked for, distinct addresses, and
  the same plan wherever it is computed.

## 2. Modules

| Module | What it models |
|---|---|
| `VmLock` | Abstract specification: who owns a VM, and that only the owner touches its session. |
| `AsyncRun`, `MCAsyncRun`, `AsyncRun_proofs` | Runs, status requests, history, cancellation, evaluation harness, restarts; implements `VmLock`. Symmetry for the history run. Theorems. |
| `VulnBatch`, `VulnBatch_proofs` | Batches, their tests, stop requests, clean-up threads, catalogue file, evaluation harness. Theorems. |
| `RepoPush`, `RepoPush_proofs` | Uploads of the repository, their records on the VM, progress entries and cancellations. Theorems. |
| `EvalArtifacts` | Scheduling, building and reporting of evaluation packages; restarts. |
| `JobCache` | Jobs by request key, retries, streams, sweeps. |
| `RunHistory` | The history file and all its writers. |
| `ChainOrder` | Reordering of a chain of challenges. |
| `AiStream` | Generations by a model, their worker and reader threads, cancellations. |
| `WebServices`, `MCWebServices`, `WebServices_proofs` | These five side by side; small values; theorems about each of them and about all. |
| `FlagBatch`, `FlagBatch_proofs` | A batch of flag-generator tests. Theorems about it and about `ImageCache`. |
| `ImageCache`, `MCImageCache` | Runs over the images of catalogue items; a small value for the run about pinned ones. |
| `PlanCounts`, `PlanCounts_proofs` | Counts of nodes and of the hosts of challenges; the previews built from them. Theorems. |
| `RouterGraph`, `RouterGraph_proofs` | Links between routers. Theorems. |
| `HostLans` | Groups of hosts, subnets, addresses. |
| `FlagServices`, `MCFlagServices`, `FlagServices_proofs` | `FlagBatch`, `ImageCache` and the three planning modules side by side; small values; theorems about hosts and about all of them. |

The section "Faulty variants" of a module, or a comment "A bug:", marks
alternatives of its definitions with a bug the code could have. They are not part
of any specification: each documents, and lets one verify, that some property
notices that bug.

`AsyncRun` and `VulnBatch` interact through the VM and its lock: `VulnBatch`
contains `AsyncRun`'s worker, reduced to what a batch sees of it. The services
that `WebServices` and `FlagServices` put together share no variable, so that a
behaviour of all of them is an interleaving of behaviours of each; the modules
therefore let one of them act while the others rest (`service`), which leaves
every property of one of them as it is and keeps the state space a sum.

### AsyncRun

One action is one stretch of code between two points where another thread can
observe or change shared state. `worker[r]` is the position of run `r`'s thread:

| Model | Code |
|---|---|
| `Submit`, `Preflight` | the route; everything before the lock is asked for |
| `AcquireLock`, `LockTimeout` | the two ways out of `_acquire_shared_vm_lock`'s polling loop |
| `PushRepo` … `PrepareContext` | the stages on the VM, each of which may fail the run; `PrepareContext` reconnects and retries once |
| `LaunchCli`, `CliExits` | start of the remote CLI; end of the relay, with an exit status or an exception |
| `FinishRc`, `FinishCopy`, `FinishDone` | the writes of the normal end: `returncode`, then the copy of artifacts, then `done` |
| `FailDone`, `FailRc` | the writes of `_fail_run`: `done`, then `returncode` |
| `Raise` | exceptions no handler catches: the thread unwinds and `RUNS` is never updated |
| `Release` | the outer function's `finally` |
| `PollRead`, `PollCheck`, `PollAppend`, `PollAppendFails`, `PollFinish` | a status request: reads `returncode`; reads `done` and `history_added`; finalises and appends under `RUN_HISTORY_LOCK`, or fails; sets `history_added` |
| `CancelDone`, `CancelRc` | the two writes of `cancel_run` |
| `Harness…` | `scenarioforge-eval`, which is not in the repository (external): it locks, uses and frees a VM |
| `Restart` | the web process dies and comes back: threads, `RUNS` and `flock`s go; history file and VM stay |

Abstractions: the content of logs, artifacts and reports; exit codes are zero,
non-zero or the `-1` of a cancellation; `target` is the lock key a run's
configuration resolves to; a VM has at most one session that matters. On a VM a
stage "may clear the session" because its commands depend on toggles and may
fail. Left out: the SSH tunnel, which no path but a failing
connection closes; platforms without `fcntl` and configurations without a lock key,
where the code takes no lock; a remote CLI that survives the restart of the web
process, whose session the model keeps but which makes no further steps.

### VulnBatch

There is one CORE VM. A batch's thread is `loop[b]`; a test's own thread is
`AsyncRun`'s worker reduced to queued, busy, live, closing, ended. A call of
`_stop_vuln_test_meta` is a record of its own (`call[c]`), since the batch's
thread, a stop request (`FlagStop`, `StopActive`) and a user who stops that very
test through `test/stop` or `test/stop_active` (`UserStop`) may be inside it at once: `StartCleanup` starts a
clean-up thread (`cleanup_started`, `cleanup_done` reset), `LoadCatalog` and
`PersistVerdict` are the two ends of the unlocked load–change–rewrite,
`MarkDone` ends it. `cleanups[t]` counts the clean-up threads of a test that are
running; `CleanVm` is their work on the VM, `CleanupEnds` their last write.
`Admit` and `StartBatch` are the check and the insertion of `batch/start`. A
failed start of a test may happen in any of the stages before it is registered.
Exceptions that nobody catches end the batch's thread (`dead`), and the batch is never
done: `StartRaises` (the test's directory, its job) and `SnapshotRaises` (the
directory for kept logs). `WatchStopFails` is the poll whose attempt to stop the test
failed before a clean-up was started; the next polls take it for made.
`WatchDone` classifies a test nondeterministically: what decides between passed
and failed is a validation summary from the VM. `EndLoop` leaves the loop; after a
stop, `SkipItem` reports the remaining items one by one and `EndBatch` ends the
batch. `userStopped` remembers which tests users stopped and what they said of
them: `CleanedBeforeNext` and `VerdictsKept` do not hold for those, because the
batch's thread stops the test a second time, two clean-up threads run, and the
first to end lets the loop go on. Left out: a restart of the web process, which
forgets batches altogether; other jobs of the web UI; the routes that edit the
catalogue.

### EvalArtifacts

`at[s]` is where a finalising thread is in `schedule()`; `mutex` is `self.lock`
where the code holds it across two steps. `building[r]` and `leaving[r]` count
builder threads at work and on their way out. Every write of `status.json` may
fail. `ReadFile` and `ReadActive` are the two reads of `status()`, which does not
take the lock. A restart keeps the files only.

### RepoPush

`at[p]` is the thread of upload `p`. It looks for the hash an earlier upload left
(`Skip`), tries rsync (`Mirror`, which wipes the records first and may fail half
way), then an SFTP delta planned from the manifest on the VM (`Plan`, `Copy` per
file, `Tidy` for the deletions and the new manifest, `RecordHash`), then a
snapshot (`Pack`, then `Clear` and `RecordHash`, or a finalizer `fin[p]`, that clears
the directory, extracts and records). The clearing is a command on the VM,
`find … -exec rm -rf … 2>/dev/null || true`: `Sweep` removes files and records in any
order, whether its client still waits or not, and `SweepEnds` may leave any of
them, the hash included. An upload with a progress id runs its finalizer in a second thread,
and can be cancelled in three steps of another request (`CancelSeen`,
`CancelMark`, `CancelKill`), while both threads keep writing its progress entry.
Partial uploads take some paths only. `Edit` changes the local tree at any moment.
Each step may fail; writes of hash and manifest are best-effort in the code and may
be lost here. A finalizer whose connection times out raises that again and leaves its
entry as it is (`FinTimesOut`, `fin[p] = "lost"`).

Nothing in the code keeps uploads apart from each other or from edits, and nothing
in the repository promises anything about such mixtures. The history variables say
when a promise is due: `calm` — nothing has interfered with the upload under way;
`trusted` — nothing has since the VM was last cleared, no best-effort clearing, deletion
or write fell short, and no delta failed that may have copied a file the records do not know
(`Unrecorded`). An undisturbed clearing that leaves nothing sets `trusted` again. Left out: the toggles
that switch the ways off, a restart of the web process, archives left behind on the
VM, and the expiry of progress entries. The staging copy is read when a file is
copied. The deletion of stale files and the writing of the manifest are one step
(`Tidy`). A partial upload by snapshot deletes the rest of the repository on the
VM, although the docstring at `AB` 4989–4995 says there is no broad `--delete`.

### JobCache

`Create` and `Attach` are the two ways a request goes, under the cache's lock and
after the sweep of jobs that ended ten minutes ago (`Age` lets them grow old). A
job is stored before its thread is started; "lost" is a job whose thread could not
be. `Work` stores the response, `SetDone` is the `finally` that sets the event,
`Drop` a connection that breaks. The cache is one of two of the same shape.

### RunHistory

A rewrite reads the file (`Load`, which may fail and then counts as an empty
history), opens the temporary file, dumps, and renames it. `AppendEntry` holds
`RUN_HISTORY_LOCK` from the read to the rename. `Delete` reads under the lock and
writes without it, `Purge` takes no lock at all. Since all use one temporary file,
two of them can mix (`Torn`). `Crash` ends the process at any point. `alone` is
lost when an unlocked rewrite meets another one, or a read fails; `saved` is what
was appended and not deleted. `AsyncRun`'s `history` is this file when its
requests are the only writers.

### ChainOrder

`TryGreedy` builds the greedy order step by step and validates it; `Build` makes
the dependency graph, `Pop` its topological order (ties by node id), which is handed
back without validation; a graph with a cycle hands the chain back unchanged. The
contract of a generator is overwritten by its last step (`AB` 27388–27425,
`LastUse`), and a step that needs what only it produces itself gets no edge. What
is left out is listed in the module's header.

### FlagBatch

The batch's thread is `loop`, a test's own thread is `child[i].runner`; batch, stop
request and one user are `Cleaners`, each with a position of its own in `_cleanup`,
which looks at `cleanup_started` and then sets it. The entry of a test is a record
whose fields are written one by one (`over` before `code`), because the loop reads
them meanwhile. `truth` is what a validation of its session would say.
`others` (a user cleaned up) and `left` (the VM could not be reached) are history
variables. Admission of a batch and the VM lock are as in `VulnBatch` and
`AsyncRun` and not repeated.

### AiStream

A request registers itself (`Register`), starts its worker, and passes events on
until the end or until the browser has gone (`PassOn`, `Vanish`). The worker asks
(`Ask`), listens, judges the answer and repairs it up to `Attempts` times; a
scenario asked of Ollama directly goes over to the bridge when that fails. `via`
says which route asks whom: with Ollama the worker polls the flag while it listens,
with an OpenAI-compatible provider only between attempts, and each looks at the
flag at other places. The reader of an attempt is a thread of its own, told to stop by
`halted`, or by the response that a cancellation closes. A cancellation sets the
flag, then closes (`SetCancelled`, `CloseResponse`). `early` and `inLine` are
history variables. Left out: texts, status events, validation of the request, the
bridge's calls of tools (`BridgeEnds` is an outcome, which need not come: the bridge
awaits its MCP servers without a time-out). The `except URLError` before
`except HTTPError` (`ai_provider.py` 5507–5512) means that the retry in plain JSON
is never reached, since the second is a subclass of the first; so it is not in the
model.

### ImageCache

`AskCacheRun` and `InsertCacheRun` are the look for an active run and the insertion,
with nothing between them to keep two requests apart (`crowded`). The thread uploads
the repository, connects, and goes through the selected items: `Pull` and `Build`,
or `ListImages` and then `Inspect` or `RemoveImage` image by image, then
`Save`. Each command may fail, time out or be broken off by a stop, and then may have
had its effect. `doubt` are the items whose
record "cached" something has overtaken: a look that a stop broke off (the rest
counts as there), or a clearing that removed an image the item shares; `CacheTells`
makes room for them. The catalogue is rewritten in one step each time.
`RemoveImage` is `docker rmi -f`, which knows no keep set: it removes an image that a
pinned item shares, although `docs/OPERATING_MODES.md` 148–149 says that "no
ScenarioForge cleanup will remove" it (`PinnedImagesKept`, violated). Left out are
other removers of images, such as clean-ups on the VM or a person.

### PlanCounts, RouterGraph, HostLans

`PlanCounts` computes the steps of `compute_full_plan`: `PlanNodes`,
`PlanChallenge`, `Repair` (hosts for challenges are added to the Docker hosts), then
`Preview` by the web process and by the command line, and `Compare`. Weights are
exact rationals here and floating point with a tolerance of 1e-9 in the code; rows
whose count is 0 and that have no weight are left out.

`RouterGraph` draws links router by router; what the code draws with a seeded
generator is a choice. `NeverStuck` shows that, in mode "exact", the code that falls
back to smaller degrees and to a chain is never reached. That mode may leave the
backbone in pieces, as it does in the code.

`HostLans` deals hosts to routers in turn, groups them (`GroupExactly`, `Cut`,
`Targets`), draws subnets until one is free (`Draw`, `DrawInVain`, then the
fallbacks) and numbers hosts and routers (`NumberHost`, `NumberRouter`), taking
back addresses given before. `LanSize`, `Rounds` and `Tries` are 254, 8 and 1024 in the
code; the runs scale them down so that they are reached.

## 3. What is checked

All runs are exhaustive. Bounds: the sets and `Max…` constants in each `.cfg`; what
bounds nothing else is a natural number that the models keep small by themselves.

| Run | Shows |
|---|---|
| `async_lock` | `TypeOK`, `LockMatchesWorker`, `SessionNotPulled`, `ImplementsVmLock` for two runs and a harness that compete for one VM, one restart: 36,100 states. Two runs are enough for any conflict over a VM; the harness is the user that survives a restart. `WaitResolves`: a waiting run gets the lock or gives up, even if remote CLI and harness hang. `LockGivenBack`: if remote CLIs end, a VM a run took is given back. |
| `async_history` | `OneHistoryEntry`, `HistoryTruthful` for two runs, two concurrent status requests, cancellation, one restart; `ImplementsVmLock` again, with two VMs, so that runs may be on different ones: 2.7 million states. |
| `batch_report` | `ResultsComplete`, `VerdictsKept` for a batch of two items, any number of stop requests, a harness. Two items are the least for which something can go wrong between a test and its successor. `StopEndsBatch`: a stop ends the batch even if its test hangs or has died, unless its own thread died or stopped the test in vain. |
| `batch_user` | `CleanedBeforeNext`, `VerdictEarned` for a batch of two items, any number of stop requests, and a user who stops one of its tests at any moment. |
| `repo_push` | `RecordsUsable`, `CompleteIsDelivered`, `CancelRemembered`, `EntryTrue` for a tracked and a partial upload that may repeat and overlap, two files of which one is in the partial upload, one edit: 2,276,460 states. Two files are the least for which a partial upload leaves something out. |
| `services` | *Packages*: `OneBuilder`, `PreparingIsTrue`, `ResultFinal` for two runs, two finalising threads that may come back, one reader, one restart. *Job cache*: `OneExecution`, `ResponseFinal` for two keys, two browsers, three jobs. *Chains*: `KeepsSolvable`, `FindsSolvable` for every order of three steps with one generator used twice, and the contracts and assignments in `MCWebServices`. *History*: `HistoryKept` for two entries, two writers, one read error, any number of crashes. *Generations*: `OneOutcome` for one request at a time with up to three attempts; requests share nothing. `ServicesEnd`: packages, streams, given-up readers, and generations that do not wait for the bridge, end. |
| `flag_services` | *Batch*: `FlagReportComplete`, `FlagVerdictEarned`, `FlagSessionsGone` for batches of up to two generators, a stop request, and a user who cleans up the test of a batch of one. *Images*: `CacheTells` for runs, one after the other, over two items that share an image. *Planning*: `NodesAsAsked`, `TopologyAsAsked`, `AddressesDistinct` for the rows in `MCFlagServices`, up to five routers of degree up to four, up to five hosts behind up to two routers, subnets of three addresses. `ThreadsEnd`: a stop ends the batch, and runs over images end. |
| `async_cancel` | **violated**: `CancelStopsLaunch`. `docs/reference/API.md` says `cancel_run` attempts to terminate the run; for CLI runs there is no process to terminate and the thread does not look. |
| `batch_admit` | **violated**: `OneActiveBatch`. Check and insertion are far apart. |
| `batch_eval` | **violated**: `EvalNotDisturbed`. Clean-up threads restart the daemon outside the VM lock. |
| `cache_pins` | **violated**: `PinnedImagesKept`. The documentation says that marking an item persistent adds its images to a keep set that no clean-up removes; clearing another item that shares one removes it. |
| `eval_answer` | **violated**: `InterruptedIsTrue`. A status request that races the end of a build calls a complete package interrupted. |

Checked once, outside of these runs: `FlagBatch` alone with `MaxUserFlags = 2` and
the invariant of its proof (6.1 million states).

What the properties do not say, because the code does not do it:

* `HistoryKept` speaks of histories in which no unlocked rewrite meets another and
  no read fails (`alone`); `RecordsUsable` and `CompleteIsDelivered` of uploads that
  nothing interfered with.
* `ServicesEnd` excludes streams whose job's thread could not be started, requests
  for a generation whose worker could not be or waits for the bridge, and readers that
  a worker left in the middle of a line: nothing ends them. `ThreadsEnd` and
  `StopEndsBatch` exclude a batch whose thread died, `StopEndsBatch` also one that waits
  for a clean-up its own attempt did not start (`Stranded`). Such a batch blocks every
  later one.
* `EntryTrue` lets an entry say "under way" for ever if its finalizer died of a
  time-out. That an upload ends is not claimed: its remote commands have no time-out.
* `KeepsSolvable` speaks of chains whose steps of one generator list the same facts.
* `FlagVerdictEarned` in its second part, and `FlagSessionsGone`, speak of batches
  that were not stopped, of tests no user cleaned up, and of a VM that can be reached.
* `OneOutcome` lets a result follow a cancellation that comes while the preview is
  built. `CacheTells` excludes doubtful records and overlapping runs.
* `NodesAsAsked`: with no role counts at all the command line falls back to the
  repaired ones (`scenarioforge/cli.py` 3234), so its preview may differ.
  `TopologyAsAsked`: numbers of switches differ only without upper bounds; sizes are
  even only if the rounds are enough, since what remains goes to the last switch. The
  comments in `scenarioforge/planning/router_host_plan.py` (54, 97: in turn, until all
  are full) are silent about that: with more than eight rounds needed they do not hold.
  `AddressesDistinct`: a full group (254 hosts) gives its first host the router's
  address, and a router without hosts keeps its address from the pool.

Deadlock is checked except where the system really stops: `async_history`,
`batch_report`, `batch_user`, `batch_admit` (all runs or batches over, no restart left)
and `repo_push` (nobody need upload again).

**Fairness.** `ThreadFairness`: a started thread keeps being scheduled (weak
fairness of each thread's own steps), as Python threads are. Polling the lock is
part of it: a poll that finds the lock busy past the deadline is always possible
again, so a waiting thread cannot wait for ever. `CliFairness` (a
premise of `LockGivenBack`): the relay of the remote CLI ends. Nothing is assumed of
harness, browser or restarts. In `VulnBatch`: the batch's thread, the calls of
`_stop_vuln_test_meta` and clean-up threads, whose SSH commands have time-outs,
make progress; the batch's thread may fail at any step where the code may, but need not
(`LoopProceeds` is fair, `LoopFails` is not), and the test's own thread need not do
anything. In `FlagBatch` likewise: the batch's
thread and the clean-ups of batch and stop request. In `EvalArtifacts`: strong
fairness of the threads, because they compete for a `threading.Lock` that is
enabled only now and then; builds end. In `JobCache`: the worker. In `AiStream`: the
request's and the worker's threads, and a reader once it is told to stop, because its
socket has a time-out; providers may be silent for ever, and so may the bridge
(`BridgeEnds` is not fair). In `RepoPush` nothing: its commands on the VM have no
time-out, and only safety is checked. In `ImageCache`: the thread of a run, each of whose commands has a time-out.

## 4. What is proved

TLAPS proves, for every value of the constants:

| Theorem | Statement | From |
|---|---|---|
| `AsyncRun_proofs!TypeCorrect` | `Spec => []TypeOK` | |
| `AsyncRun_proofs!LockSafety` | `Spec => []LockMatchesWorker` | itself, with `TypeOK` |
| `AsyncRun_proofs!SessionSafety` | `Spec => SessionNotPulled` | `LockMatchesWorker` |
| `AsyncRun_proofs!Refinement` | `Spec => ImplementsVmLock` | `LockMatchesWorker` |
| `AsyncRun_proofs!HistoryCorrect` | `Spec => [](OneHistoryEntry /\ HistoryTruthful)` | `HistoryInv` |
| `VulnBatch_proofs!TypeCorrect` | `Spec => []TypeOK` | `TypeInv` |
| `VulnBatch_proofs!ReportsComplete` | `Spec => []ResultsComplete` | `ReportInv` |
| `VulnBatch_proofs!CleanUpsInOrder` | `Spec => []CleanedBeforeNext` | `CleanUps` |
| `VulnBatch_proofs!VerdictsEarned` | `Spec => []VerdictEarned` | `PassInv`, `CallInv` |
| `VulnBatch_proofs!VerdictsAreKept` | `OneBatch` implies `Spec => VerdictsKept` | `CallInv`, `KeptInv` |
| `WebServices_proofs!EvalTypes` | `Spec => []TypeOK` | |
| `WebServices_proofs!BuildersSafe` | `Spec => [](OneBuilder /\ PreparingIsTrue)` | `EvalInv` |
| `WebServices_proofs!FinalResults` | `Spec => ResultFinal` | `EvalInv` |
| `WebServices_proofs!JobTypes` | `JobSpec => []JobTypeOK` | |
| `WebServices_proofs!OneExecutionPerKey` | `JobSpec => []OneExecution` | `InTable` |
| `WebServices_proofs!ResponsesFinal` | `JobSpec => ResponseFinal` | `JobTypeOK` |
| `WebServices_proofs!HistTypes` | `HistSpec => []HistTypeOK` | |
| `WebServices_proofs!HistoryIsKept` | `HistSpec => []HistoryKept` | `Undisturbed` |
| `WebServices_proofs!ChainTypes` | `ChainSpec => []ChainTypeOK` | `ChainInv` |
| `WebServices_proofs!OnlyForCycles` | `ChainSpec => []CyclesOnly` | `ChainInv` |
| `WebServices_proofs!StaysSolvable` | `ChainSpec => []KeepsSolvable` | `ChainInv`, `Returned` |
| `WebServices_proofs!SolvableIsFound` | `ChainSpec => []FindsSolvable` | `ChainInv`, `Found` |
| `WebServices_proofs!AiTypes` | `AiSpec => []AiTypeOK` | `AiInv` |
| `WebServices_proofs!OneOutcomeTold` | `AiSpec => []OneOutcome` | `AiInv` |
| `WebServices_proofs!WebImplementsParts` | `WebFairSpec => Spec /\ JobSpec /\ ChainSpec /\ HistSpec /\ AiSpec` | |
| `WebServices_proofs!WebTypes` | `WebFairSpec => []ServicesTypeOK` | the theorems above |
| `RepoPush_proofs!RepoTypes` | `RepoSpec => []RepoTypeOK` | `TypeInv` |
| `RepoPush_proofs!CancelStands` | `RepoSpec => []CancelRemembered` | `ControlInv` |
| `RepoPush_proofs!RecordsCanBeUsed` | `RepoSpec => []RecordsUsable` | `PushInv` |
| `RepoPush_proofs!CompletionIsDelivery` | `RepoSpec => CompleteIsDelivered` | `PushInv` |
| `RepoPush_proofs!EntryTellsTruth` | `RepoSpec => []EntryTrue` | `PushInv` |
| `FlagBatch_proofs!FlagTypes` | `FlagSpec => []FlagTypeOK` | `TypeInv` |
| `FlagBatch_proofs!FlagReport` | `FlagSpec => []FlagReportComplete` | `ReportInv` |
| `FlagBatch_proofs!VerdictIsEarned` | `FlagSpec => []FlagVerdictEarned` | `FlagInv` |
| `FlagBatch_proofs!SessionsAreGone` | `FlagSpec => []FlagSessionsGone` | `FlagInv` |
| `FlagBatch_proofs!CacheTypes` | `CacheSpec => []CacheTypeOK` | `CacheInv` |
| `FlagBatch_proofs!CacheTellsTruth` | `CacheSpec => []CacheTells` | `CacheInv` |
| `RouterGraph_proofs!GraphTypes` | `GraphSpec => []GraphTypeOK` | `GraphInv` |
| `RouterGraph_proofs!LinksDrawnAsAsked` | `GraphSpec => []LinksAsAsked` | `GraphInv` |
| `PlanCounts_proofs!PlanTypes` | `PlanSpec => []PlanTypeOK` | `PlanInv` |
| `PlanCounts_proofs!CountsAreAsAsked` | `PlanSpec => []CountsAsAsked` | `PlanInv` |
| `PlanCounts_proofs!DemandAddedOnce` | `PlanSpec => []DemandOnce` | `DemandInv` |
| `FlagServices_proofs!LanTypes` | `LanSpec => []LanTypeOK` | `LanInv` |
| `FlagServices_proofs!HostsBehindOne` | `LanSpec => []HostsGroupedOnce` | `LanInv` |
| `FlagServices_proofs!AddressesAreDistinct` | `LanSpec => []AddressesDistinct` | `LanInv` |
| `FlagServices_proofs!HostsAreAsAsked` | `LanSpec => []HostsAsAsked` | `LanInv`, `SizesKept` |
| `FlagServices_proofs!ServicesImplementParts` | `ServicesFairSpec => FlagFairSpec /\ PlanSpec /\ GraphSpec /\ LanSpec /\ CacheSpec` | |
| `FlagServices_proofs!ServicesTypes` | `ServicesFairSpec => []FlagServicesTypeOK` | the theorems above |
| `FlagServices_proofs!NodesAreAsAsked` | `ServicesFairSpec => []NodesAsAsked` | `CountsAreAsAsked`, `DemandAddedOnce` |
| `FlagServices_proofs!TopologyIsAsAsked` | `ServicesFairSpec => []TopologyAsAsked` | `LinksDrawnAsAsked`, `HostsAreAsAsked` |

Assumptions: `RunsAreNotHarnesses`, `MaxRestartsIsNat` (`AsyncRun`);
`NumItemsIsNat`, `UserVerdictsAreVerdicts` (`VulnBatch`);
`NobodyIsNobody`, `MaxRestartsIsNat` (`EvalArtifacts`); `NoJobIsNoJob` (`JobCache`);
`UnlockedIsNoWriter`, `MaxReadErrorsIsNat`, `TornIsNoHistory`, `NoFileIsNotTorn`
(`RunHistory`); `StepsAreOrdered`, `UsesAreUses`, `DealsAreDeals` (`ChainOrder`);
`PushesAndFiles`, `MaxEditsIsNat`, `AbsentIsNoVersion`, `NoneIsNoPrint` (`RepoPush`);
`MaxFlagsIsPositive` (`FlagBatch`); `AttemptsArePositive` (`AiStream`); `ItemsAreNumbers`
(`ImageCache`); `RolesAndNames`, `Densities`, `Sections` (`PlanCounts`);
`RoutersAndDegrees` (`RouterGraph`); `HostLanBounds`, `StarIsNoRouter`
(`HostLans`). TLC evaluates them in every run that uses the module.

*The lock.* `LockMatchesWorker` relates three things: the thread's position, its
handle and the lock file. With `TypeOK` it is inductive: steps that move no
handle keep it (`QuietSteps`), and only `AcquireLock`, `Release`, the harness and
`Restart` touch a handle or the file. That a session changes only by its VM's
holder then follows step by step (`SessionSteps`, `RequestsSpareVm`), since every
stage that touches the VM lies where the thread has a handle; the same argument
maps each step to one of `VmLock` or to stuttering.

*The history.* "The entry holds the code the run ended with" is not inductive: a
status request decides on two reads made at different times. `HistoryInv` adds
what the order of the writes gives: once `done` and `returncode` have both been
written they do not change (`Outcome`), what a request has read still stands when
it appends (`ReadsStand`), and an entry was made from such a reading
(`Recorded`). `FailDone` writing `done` first is harmless because requests read
`returncode` first.

*The batches.* `TypeOK` is not inductive: that a batch does not run past its items
depends on where its loop is (`AtItem`). `ReportInv` ties the length of the report
to the current item, and to the number of items once the batch is over.
`CleanedBeforeNext` needs to know who can start a clean-up, and when. `CallInv` says
what each caller of `_stop_vuln_test_meta` stops: the loop its current test, a
request only after the stop flag is set, a user what he said he stops. `CleanInv`
then has two parts: the current test's clean-up runs once as long as nobody else
stops it (`CleanedOnce`), so that `cleanup_done` means what it says; and a test left
behind is quiet, or else the batch has been stopped and will not start another
(`LeftBehind`). For verdicts, `PassInv` adds that what is on its way into the file, be
it a caller's verdict or the copy it loaded, has been earned; that something earned
stays so (`PassedStays`) takes the report's only growing.
`VerdictsAreKept` rests on a request's call stopping the last test its batch will have
(`LastTest`: the stop flag is set before the call is made, so the loop does not go on to
another one); hence all calls that are under way in a batch stop the same test
(`SameTest`), and a copy that a call has loaded goes stale in that test's verdict only
(`KeptInv`), which it is about to write anyway.

*The builders.* `OneBuilder` alone is not inductive: that a second thread finds
the run taken depends on the status file. `EvalInv` says who owns a run (the thread
in `schedule()` that claimed it, or one builder: `OneOwner`), that the lock is
held from the claim to the first write (`ClaimLocked`), and what each owner knows
of the status file (`OwnersKnow`: still missing before the first write, still
"preparing" until the result).

*The job cache.* Two unfinished jobs of one key would have to be in the table both.
`InTable` says that a job that is not old is the one stored under its key: a job
leaves the table by a sweep, and sweeps take old ones only.

*The history file.* `Undisturbed` says, while `alone` holds, that at most one
rewrite is under way, whether it holds the lock or not, what it is going to write
in terms of `saved`, and what the temporary file may contain at each of its steps:
a torn temporary file is never renamed by a rewrite that is alone, although a crash
may leave one behind.

*The chains.* `ChainInv` has three parts: types (`Typed`), what holds while the
topological order grows (`Sorting`: what is in the order is not waited for, and
`waiting` is the predecessors outside it), and what the greedy order may be
(`Scratch`). From `Sorting`, every predecessor of a step stands before it;
`Returned` adds that with uniform assignments each fact a step requires has all its
producers among its predecessors. A chain that was solvable had one, so the order is
solvable as well. No order is validated at this point by the code; the theorem is
the reason it need not be, under its condition. `SolvableIsFound` is about the greedy
reordering before it: as long as steps are missing, the first of the missing ones in
any solvable order has all its facts (`SomeEligible`, by well-foundedness), so the greedy
order never gets stuck (`Found`) and the topological one is not needed.

*The generations.* `AiInv` says for each request what the worker has put in the queue
and what has been passed on, as a function of the worker's position (`Tells`): nothing
before the end, then one outcome, then the end of the stream. Which outcomes there are
depends on `early`: a cancellation that came before an answer was accepted is
still to be seen at the one place that all ways share, so `EarlyCounts` keeps the
worker from getting past it.

*The image runs.* `CacheInv` says what a run's findings are worth. As long as requests
have not overlapped (`crowded`), one run is active (`Alone`), and what it has looked at
and not changed since is what is on the VM (`Looks`); so what it writes is true
(`CatalogueTrue`).

*The links.* `Joined` is connectedness with the routers reached so far: a tree step
keeps it, hubs and rim are added to a tree that has reached all (`TreeJoined`). For
degrees, what a router has and what it is still owed is its goal (`Owed`), and the
degrees owed differ by at most one and have an even sum (`Level`). From a
level list, serving the neediest first never leaves one without enough partners: that
is why `"stuck"` is not reached, which the code guards with smaller degrees and a chain.

*The counts.* A plan is a handful of sums, so the theorems rest on lemmas about sums of
a function over a finite set: `Total` is a sum whatever order the elements are taken
in (`SumsAnyOrder`), it splits over two parts of the set (`SumSplits`), over the names
that numbered amounts belong to (`SumByName`), and is monotone (`SumAtMost`).
None is in the library in a form the provers can use; they are proved by induction over
the subsets of the set. For the apportionment by largest remainder, the remainders sum up
to the units left over times the sum of the shares, so there are fewer units left than
shares, and each goes to one of the first places in the order of remainders
(`FirstPlaces`, since places are a permutation: `PlaceOrder`); hence `ApportionAll`
(nothing is lost) and `ApportionFair`. `PlanInv` says that what each step has computed
is the function of the rows it should be, and `Sections` that rows have the
fields they are read from, and that there are finitely many roles and names.

*The demand.* `DemandInv` says at each step of the plan whether `counts` are the raw ones
or include the hosts of challenges, and from which of them each preview was built.

*The hosts.* `LanInv` has five parts. `GivenOK` and `PhaseOK` are types and what holds in
each phase. `HostsKept` is the main one: the groups behind the switches so far and the
groups not yet drawn together hold each host of the routers dealt with so far in one
place (`OnceEach`, `Before`). That the arithmetic of the deal gives each host to one
router is `HostsAreDealt` and `HostsApart`; that `Distribute` neither loses nor doubles
a host, whatever the bounds and the rounds, is `HostsDistributed`, by induction over the
turns of the deal; the induction is over a set of naturals, since the library's induction
theorem cannot be instantiated. `SubnetsKept` says that what is in use was handed out,
as long as no link took a fallback. `NumbersKept` says that a node either has the address
it started with, and is a router without a numbered switch (`Unnumbered`), or one of a
switch that is numbered, with a number that switch has given by then (`FromSwitch`). Two
addresses are then equal only for equal subnets and numbers; subnets of switches differ
(`SubnetsApart`), and numbers of a switch increase (`NumbersOfHosts`). `Filled` drops the
empty groups by a recursive function: nothing can be proved of `SelectSeq`.

*The sizes of groups.* `SizesKept` says that routers dealt with have a switch for each of
the groups they are to have (`GroupsFor`), and that each group has a size its router may
have (`SizeFits`). What the deal leaves follows from a count: after t turns q rounds are
over and s groups have had their turn in the next one, so the first s groups have one
host more than the others, unless no host was left or all groups were full
(`DealtEvenly`, by induction over the turns); what that means for the bounds and for
evenness is arithmetic (`FilledEvenly`). The rounds have to be enough, and how many
are enough depends on whether the lower bound could be kept: if it could not, groups
start from one host. In mode "nonuniform" `Targets` is the one function that gives each
router the least number free at its turn (`TargetsExist`, `OneTargets`); without upper
bounds the numbers a router can choose from are the first few, more for a later one
(`RangesNested`), so if the routers before it had taken all of them, there
would be an injection from one router more into theirs (`FreeToTake`).

*The services together.* They have no state in common, and a behaviour exercises one of
them, so each projection is a behaviour of its part: initial states and steps
map to themselves or to stuttering, and the fairness is that of the parts.

*The uploads.* Versions of files never repeat (`Known` bounds them by `edits`), so that
equal fingerprints mean equal contents. `PushInv` then says what the records tell:
a recorded hash is that of contents which were delivered, for all files or for the
included ones (`HashTells`), an entry of the manifest is the version on the VM unless
an upload under way has still to record it (`ManifestTells`, `Recorded`), and what
each position of an upload has already delivered and still has to (`Delivery`,
`Due`). `CalmInv` says that with `calm` only one upload is active. `ControlInv`
relates the two threads of an upload, its cancel flag, its clearing and its tar;
`CancelStands` needs nothing else: the flag beside the status is not overwritten. While
a clearing goes on, nothing is said of the records (`RecordInv`); when it ends, either it has
left nothing, so that everything is true of them again, or `trusted` is lost.
`EntryTellsTruth` follows each write of the status (`EntryStep`): an entry says "over"
only from the last step of the thread that writes it.

*The flag batch.* `ChildInv` relates the fields of a test's entry to its thread's
position, `CleanerInv` what each cleaner may be cleaning, `CurrentInv` what the loop
knows of its current test (`Started`, `Quiet`, `Settled`: whether the thread may still
write, whether nobody cleans), `PastInv` what stays true of the tests behind it,
`CatalogInv` and `SessionsInv` say where verdicts and sessions come from. The crux
of `VerdictIsEarned` is that the loop may read `done` before `returncode` is
written: what it concludes from the half-written entry is still what the test
earned (`Earned`), since a clean-up that could remove the outputs is the loop's own
and comes after the classification, unless `halt` or `others` says otherwise.

Checked by TLC only: liveness (`WaitResolves`, `LockGivenBack`, `StopEndsBatch`,
`ServicesEnd`, `ThreadsEnd`), since fairness and `ENABLED` are out of the
prover's reach. `VerdictsKept` is a theorem for one batch, as it is checked for one, and
is false of several: nothing keeps two batches (see `batch_admit`) from rewriting the
catalogue from old copies of it.

## 5. Not modelled, and plan

* *Single vulnerability tests*: their start outside a batch, with its compose-only
  mode. Their stop is in `VulnBatch`. Next in the plan.
* *Catalogue files*: `VulnBatch` and `ImageCache` each contain their own rewrites of
  them; the edit routes, which rewrite the same files from copies of their own, are
  not modelled. A module of the pattern of `RunHistory` would hold all of them.
* *Flag batches*: the artifact checks (`webapp/artifact_checks.py`) that decide a
  test's validation are an outcome here.
* *Bridge to MCP servers* (in `ai_provider.py`) and *generator builder tests*: calls
  of external tools, outcomes here.
* *Sequencer*: the choice of generators for a chain, facts of vulnerabilities and
  pivots, optional inputs.
* *Planning*: services, traffic, segmentation and vulnerability assignment of the
  preview; they choose from lists and keep no relation worth a model.
* *Command line and topology builder*: a sequential translation of a plan into CORE
  gRPC calls, with the daemon as the only partner; *gRPC helpers*: retries around
  these calls.
* *Generators, packs, builders*, *XML editor*, *session store*: sequential
  transformation and validation of files.
* *Authentication*, *templates*, *provisioning*, *reverse proxy*, *add-ons*, *MCP
  server*, the *programs inside CORE nodes*: independent of the behaviour modelled
  here, or separate programs.
