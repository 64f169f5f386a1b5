------------------------------ MODULE AsyncRun ------------------------------
(***************************************************************************)
(* Background CLI runs of the web UI: POST /run_cli_async starts a worker  *)
(* thread that queues for the shared CORE-VM lock, prepares the VM, runs   *)
(* the CLI over SSH and records the outcome in RUNS; GET /run_status polls *)
(* RUNS and, once the run is over, appends it to the run history;          *)
(* POST /cancel_run marks it done.  The scenarioforge-eval harness takes   *)
(* the same lock from another process.  The web process may be restarted.  *)
(*                                                                         *)
(* One action is one stretch of code between two points where another      *)
(* thread can observe or change the shared state (an SSH round trip, a     *)
(* lock poll, two successive writes to the RUNS entry).                    *)
(***************************************************************************)
EXTENDS Naturals, Sequences

CONSTANTS
  Runs,         \* run ids that may be submitted
  Harnesses,    \* evaluation runs of the external harness
  Targets,      \* CORE VM identities, i.e. distinct lock keys
  Pollers,      \* concurrent GET /run_status requests
  MaxRestarts,  \* bound: how often the web process is restarted
  NoOne         \* lock is free / no CORE session

ASSUME RunsAreNotHarnesses ==
  /\ Runs \cap Harnesses = {}
  /\ NoOne \notin Runs \cup Harnesses

ASSUME MaxRestartsIsNat == MaxRestarts \in Nat

Users == Runs \cup Harnesses

\* Phases before the worker asks for the lock.
Unlocked == {"idle", "preflight", "lockwait"}

\* Phases in which the worker may talk to the CORE VM.
OnVm == {"push", "tunnel", "ssh", "daemon", "services", "kill", "blockcheck",
         "prepare", "prepare_again", "launch", "running"}

\* Phases in which the worker records the outcome and unwinds.
Closing == {"fin_rc", "fin_copy", "fin_done", "fail_done", "fail_rc", "release"}

Phases == Unlocked \cup OnVm \cup Closing \cup {"ended"}

\* returncode: none yet, 0, any failure code, and -1 written by cancel_run.
ExitCodes == {"zero", "nonzero"}
ReturnCodes == ExitCodes \cup {"none", "cancelled"}

VARIABLES
  worker,        \* worker[r]: phase of r's background thread
  target,        \* target[r]: VM identity its core_cfg resolves to
  locked,        \* locked[r]: lock_holder holds a lock handle
  exit,          \* exit[r]: the thread's local exit_code
  known,         \* keys of RUNS
  done,          \* RUNS[r]['done']
  rc,            \* RUNS[r]['returncode']
  historyAdded,  \* RUNS[r]['history_added']
  cancel,        \* progress of a POST /cancel_run for r
  poller,        \* local state of each GET /run_status
  history,       \* history[r]: return codes of r's entries in run_history.json
  lock,          \* lock[v]: holder of the flock on v's lock file
  session,       \* session[v]: whose CORE session is live on v
  restarts       \* web process restarts so far

workerVars == <<target, locked, exit>>
metaVars == <<known, done, rc, historyAdded, cancel>>
pollVars == <<poller, history>>
vmVars == <<lock, session>>
vars == <<worker, workerVars, metaVars, pollVars, vmVars, restarts>>

Idle == [pc |-> "idle"]
PollerStates ==
  {Idle} \cup [pc : {"read", "finalizing", "appended"}, run : Runs, seen : ReturnCodes]

TypeOK ==
  /\ worker \in [Runs -> Phases]
  /\ target \in [Runs -> Targets]
  /\ locked \in [Runs -> BOOLEAN]
  /\ exit \in [Runs -> ExitCodes]
  /\ known \subseteq Runs
  /\ done \in [Runs -> BOOLEAN]
  /\ rc \in [Runs -> ReturnCodes]
  /\ historyAdded \in [Runs -> BOOLEAN]
  /\ cancel \in [Runs -> {"no", "marked", "yes"}]
  /\ poller \in [Pollers -> PollerStates]
  /\ history \in [Runs -> Seq(ReturnCodes)]
  /\ lock \in [Targets -> Users \cup {NoOne}]
  /\ session \in [Targets -> Users \cup {NoOne}]
  /\ restarts \in 0 .. MaxRestarts

Init ==
  /\ worker = [r \in Runs |-> "idle"]
  /\ target \in [Runs -> Targets]
  /\ locked = [r \in Runs |-> FALSE]
  /\ exit = [r \in Runs |-> "nonzero"]
  /\ known = {}
  /\ done = [r \in Runs |-> FALSE]
  /\ rc = [r \in Runs |-> "none"]
  /\ historyAdded = [r \in Runs |-> FALSE]
  /\ cancel = [r \in Runs |-> "no"]
  /\ poller = [p \in Pollers |-> Idle]
  /\ history = [r \in Runs |-> << >>]
  /\ lock = [v \in Targets |-> NoOne]
  /\ session = [v \in Targets |-> NoOne]
  /\ restarts = 0

-----------------------------------------------------------------------------
At(r, phase) == worker[r] = phase
Goto(r, phase) == worker' = [worker EXCEPT ![r] = phase]

(* Faulty variants of the actions below, each with a bug the code could have;   *)
(* they take no part in Spec.  PROJECT.json names the property each one breaks. *)

\* A channel that closes without an exit status is relayed as it is.
CliExitsUnknown(r) ==
  /\ At(r, "running")
  /\ exit' = [exit EXCEPT ![r] = "unknown"]
  /\ Goto(r, "fin_rc")
  /\ UNCHANGED <<target, locked, metaVars, pollVars, vmVars, restarts>>

\* _fail_run returns from the thread without its finally clause.
FailRcReturns(r) ==
  /\ At(r, "fail_rc")
  /\ rc' = [rc EXCEPT ![r] = "nonzero"]
  /\ Goto(r, "ended")
  /\ UNCHANGED <<workerVars, known, done, historyAdded, cancel, pollVars, vmVars, restarts>>

\* The lock is advisory: after the timeout the run goes ahead.
LockTimeoutProceeds(r) ==
  /\ At(r, "lockwait")
  /\ lock[target[r]] # NoOne
  /\ Goto(r, "push")
  /\ UNCHANGED <<workerVars, metaVars, pollVars, vmVars, restarts>>

\* The run waits until the lock is free.
LockTimeoutNever(r) ==
  /\ At(r, "lockwait")
  /\ lock[target[r]] # NoOne
  /\ UNCHANGED vars

\* The lock file is replaced instead of locked.
AcquireLockBusy(r) ==
  /\ At(r, "lockwait")
  /\ lock' = [lock EXCEPT ![target[r]] = r]
  /\ locked' = [locked EXCEPT ![r] = TRUE]
  /\ Goto(r, "push")
  /\ UNCHANGED <<target, exit, metaVars, pollVars, session, restarts>>

\* The handle is dropped but the file stays locked.
ReleaseHandleOnly(r) ==
  /\ At(r, "release")
  /\ locked' = [locked EXCEPT ![r] = FALSE]
  /\ Goto(r, "ended")
  /\ UNCHANGED <<target, exit, metaVars, pollVars, vmVars, restarts>>

\* A run is finalised once it is done, whatever its return code.
PollCheckDone(p) ==
  /\ poller[p].pc = "read"
  /\ LET r == poller[p].run
     IN poller' = [poller EXCEPT ![p] = IF done[r] /\ ~historyAdded[r]
                                        THEN [@ EXCEPT !.pc = "finalizing"] ELSE Idle]
  /\ UNCHANGED <<worker, workerVars, metaVars, history, vmVars, restarts>>

\* history_added alone is trusted to keep entries unique.
PollAppendAlways(p) ==
  /\ poller[p].pc = "finalizing"
  /\ history' = [history EXCEPT ![poller[p].run] = Append(@, poller[p].seen)]
  /\ poller' = [poller EXCEPT ![p].pc = "appended"]
  /\ UNCHANGED <<worker, workerVars, metaVars, vmVars, restarts>>

-----------------------------------------------------------------------------
(* The worker thread. *)

\* POST /run_cli_async: the RUNS entry is stored before the thread is started,
\* and stays there if the thread cannot be started.
Submit(r) ==
  /\ At(r, "idle")
  /\ known' = known \cup {r}
  /\ \E next \in {"preflight", "ended"} : Goto(r, next)
  /\ UNCHANGED <<workerVars, done, rc, historyAdded, cancel, pollVars, vmVars, restarts>>

\* Local preflight, credential resolution, opening the lock file: nothing
\* reaches the VM.  Either fails the run or leads to the first lock poll.
Preflight(r) ==
  /\ At(r, "preflight")
  /\ \E next \in {"lockwait", "fail_done"} : Goto(r, next)
  /\ UNCHANGED <<workerVars, metaVars, pollVars, vmVars, restarts>>

\* One successful poll of the flock.
AcquireLock(r) ==
  /\ At(r, "lockwait")
  /\ lock[target[r]] = NoOne
  /\ lock' = [lock EXCEPT ![target[r]] = r]
  /\ locked' = [locked EXCEPT ![r] = TRUE]
  /\ Goto(r, "push")
  /\ UNCHANGED <<target, exit, metaVars, pollVars, session, restarts>>

\* A poll that finds the lock busy past the deadline: TimeoutError.  (A poll
\* that finds it busy before the deadline changes nothing.)
LockTimeout(r) ==
  /\ At(r, "lockwait")
  /\ lock[target[r]] # NoOne
  /\ Goto(r, "fail_done")
  /\ UNCHANGED <<workerVars, metaVars, pollVars, vmVars, restarts>>

\* Venv check, repository upload, catalog check, remote preflight.
PushRepo(r) ==
  /\ At(r, "push")
  /\ \E next \in {"tunnel", "fail_done"} : Goto(r, next)
  /\ UNCHANGED <<workerVars, metaVars, pollVars, vmVars, restarts>>

OpenTunnel(r) ==
  /\ At(r, "tunnel")
  /\ \E next \in {"ssh", "fail_done"} : Goto(r, next)
  /\ UNCHANGED <<workerVars, metaVars, pollVars, vmVars, restarts>>

\* The CLI's own SSH client.
OpenSsh(r) ==
  /\ At(r, "ssh")
  /\ \E next \in {"daemon", "fail_done"} : Goto(r, next)
  /\ UNCHANGED <<workerVars, metaVars, pollVars, vmVars, restarts>>

\* A step on the VM that may or may not take down whatever CORE session is
\* live there (core-cleanup, systemctl restart core-daemon, session stop).
MayClearSession(r) ==
  \E s \in {NoOne, session[target[r]]} : session' = [session EXCEPT ![target[r]] = s]

\* Docker repair, core-cleanup, version check, daemon restart, readiness.
PrepareDaemon(r) ==
  /\ At(r, "daemon")
  /\ MayClearSession(r)
  /\ \E next \in {"services", "fail_done"} : Goto(r, next)
  /\ UNCHANGED <<workerVars, metaVars, pollVars, lock, restarts>>

\* Custom services are installed and core-daemon is restarted.
InstallServices(r) ==
  /\ At(r, "services")
  /\ MayClearSession(r)
  /\ \E next \in {"kill", "fail_done"} : Goto(r, next)
  /\ UNCHANGED <<workerVars, metaVars, pollVars, lock, restarts>>

\* Auto-kill of active sessions, when the toggle is on; errors are logged only.
KillSessions(r) ==
  /\ At(r, "kill")
  /\ MayClearSession(r)
  /\ Goto(r, "blockcheck")
  /\ UNCHANGED <<workerVars, metaVars, pollVars, lock, restarts>>

\* A session that is still there fails the run, unless it cannot be listed.
CheckBlocking(r) ==
  /\ At(r, "blockcheck")
  /\ \/ Goto(r, "prepare")
     \/ session[target[r]] # NoOne /\ Goto(r, "fail_done")
  /\ UNCHANGED <<workerVars, metaVars, pollVars, vmVars, restarts>>

\* Upload of the run's files: a transient error reconnects and retries once.
PrepareContext(r) ==
  /\ \/ /\ At(r, "prepare")
        /\ \E next \in {"launch", "prepare_again", "fail_done"} : Goto(r, next)
     \/ /\ At(r, "prepare_again")
        /\ \E next \in {"launch", "fail_done"} : Goto(r, next)
  /\ UNCHANGED <<workerVars, metaVars, pollVars, vmVars, restarts>>

\* The remote CLI starts and brings its CORE session up.
LaunchCli(r) ==
  /\ At(r, "launch")
  /\ session' = [session EXCEPT ![target[r]] = r]
  /\ Goto(r, "running")
  /\ UNCHANGED <<workerVars, metaVars, pollVars, lock, restarts>>

\* The relay ends: an exit status, or an exception on the SSH channel.  The CLI
\* leaves its session running, or took it down when it failed.
CliExits(r) ==
  /\ At(r, "running")
  /\ MayClearSession(r)
  /\ \/ /\ \E e \in ExitCodes : exit' = [exit EXCEPT ![r] = e]
        /\ Goto(r, "fin_rc")
     \/ /\ Goto(r, "fail_done")
        /\ UNCHANGED exit
  /\ UNCHANGED <<target, locked, metaVars, pollVars, lock, restarts>>

\* Finalize, first write: status and returncode.
FinishRc(r) ==
  /\ At(r, "fin_rc")
  /\ rc' = [rc EXCEPT ![r] = exit[r]]
  /\ Goto(r, "fin_copy")
  /\ UNCHANGED <<workerVars, known, done, historyAdded, cancel, pollVars, vmVars, restarts>>

\* Postrun copy of the Flow artifacts into the containers, still locked.
FinishCopy(r) ==
  /\ At(r, "fin_copy")
  /\ Goto(r, "fin_done")
  /\ UNCHANGED <<workerVars, metaVars, pollVars, vmVars, restarts>>

\* Finalize, last write.
FinishDone(r) ==
  /\ At(r, "fin_done")
  /\ done' = [done EXCEPT ![r] = TRUE]
  /\ Goto(r, "release")
  /\ UNCHANGED <<workerVars, known, rc, historyAdded, cancel, pollVars, vmVars, restarts>>

\* _fail_run writes done before returncode.
FailDone(r) ==
  /\ At(r, "fail_done")
  /\ done' = [done EXCEPT ![r] = TRUE]
  /\ Goto(r, "fail_rc")
  /\ UNCHANGED <<workerVars, known, rc, historyAdded, cancel, pollVars, vmVars, restarts>>

FailRc(r) ==
  /\ At(r, "fail_rc")
  /\ rc' = [rc EXCEPT ![r] = "nonzero"]
  /\ Goto(r, "release")
  /\ UNCHANGED <<workerVars, known, done, historyAdded, cancel, pollVars, vmVars, restarts>>

\* An exception no handler catches: merging the configuration or opening the
\* lock file; a sudo command on the VM.  The thread unwinds without updating RUNS.
Raise(r) ==
  /\ worker[r] \in {"preflight", "daemon"}
  /\ Goto(r, "release")
  /\ UNCHANGED <<workerVars, metaVars, pollVars, vmVars, restarts>>

\* The finally clause of the thread's outer function.
Release(r) ==
  /\ At(r, "release")
  /\ lock' = IF locked[r] THEN [lock EXCEPT ![target[r]] = NoOne] ELSE lock
  /\ locked' = [locked EXCEPT ![r] = FALSE]
  /\ Goto(r, "ended")
  /\ UNCHANGED <<target, exit, metaVars, pollVars, session, restarts>>

-----------------------------------------------------------------------------
(* Requests of the web UI. *)

\* GET /run_status reads returncode on entry ...
PollRead(p, r) ==
  /\ poller[p] = Idle
  /\ r \in known
  /\ poller' = [poller EXCEPT ![p] = [pc |-> "read", run |-> r, seen |-> rc[r]]]
  /\ UNCHANGED <<worker, workerVars, metaVars, history, vmVars, restarts>>

\* ... and done and history_added a little later.
PollCheck(p) ==
  /\ poller[p].pc = "read"
  /\ LET r == poller[p].run
         over == done[r] /\ poller[p].seen # "none" /\ ~historyAdded[r]
     IN poller' = [poller EXCEPT ![p] = IF over THEN [@ EXCEPT !.pc = "finalizing"] ELSE Idle]
  /\ UNCHANGED <<worker, workerVars, metaVars, history, vmVars, restarts>>

\* _append_run_history, serialised by RUN_HISTORY_LOCK: a run that has an entry
\* already does not get another.
AppendHistory(r, code) ==
  history' = IF history[r] = << >> THEN [history EXCEPT ![r] = Append(@, code)] ELSE history

\* Report detection, session export and validation, then the append.
PollAppend(p) ==
  /\ poller[p].pc = "finalizing"
  /\ AppendHistory(poller[p].run, poller[p].seen)
  /\ poller' = [poller EXCEPT ![p].pc = "appended"]
  /\ UNCHANGED <<worker, workerVars, metaVars, vmVars, restarts>>

\* Finalization raised, or the history file could not be written: a later
\* poll tries again.
PollAppendFails(p) ==
  /\ poller[p].pc = "finalizing"
  /\ poller' = [poller EXCEPT ![p] = Idle]
  /\ UNCHANGED <<worker, workerVars, metaVars, history, vmVars, restarts>>

\* The finally clause: history_added; the RUNS entry holds no ssh_tunnel, so
\* close_async_run_tunnel has nothing to close.
PollFinish(p) ==
  /\ poller[p].pc = "appended"
  /\ historyAdded' = [historyAdded EXCEPT ![poller[p].run] = TRUE]
  /\ poller' = [poller EXCEPT ![p] = Idle]
  /\ UNCHANGED <<worker, workerVars, known, done, rc, cancel, history, vmVars, restarts>>

\* POST /cancel_run.  The RUNS entry of a CLI run has no 'proc', so nothing is
\* terminated; done is written first, returncode only if it is still unset.
CancelDone(r) ==
  /\ r \in known
  /\ cancel[r] = "no"
  /\ done' = [done EXCEPT ![r] = TRUE]
  /\ cancel' = [cancel EXCEPT ![r] = "marked"]
  /\ UNCHANGED <<worker, workerVars, known, rc, historyAdded, pollVars, vmVars, restarts>>

CancelRc(r) ==
  /\ cancel[r] = "marked"
  /\ r \in known
  /\ rc' = [rc EXCEPT ![r] = IF @ = "none" THEN "cancelled" ELSE @]
  /\ cancel' = [cancel EXCEPT ![r] = "yes"]
  /\ UNCHANGED <<worker, workerVars, known, done, historyAdded, pollVars, vmVars, restarts>>

-----------------------------------------------------------------------------
(* The evaluation harness, and the web process itself. *)

HarnessAcquire(h, v) ==
  /\ lock[v] = NoOne
  /\ lock' = [lock EXCEPT ![v] = h]
  /\ UNCHANGED <<worker, workerVars, metaVars, pollVars, session, restarts>>

\* The harness clears the VM's sessions or brings its own up.
HarnessUse(h, v) ==
  /\ lock[v] = h
  /\ \E s \in {NoOne, h} : session' = [session EXCEPT ![v] = s]
  /\ UNCHANGED <<worker, workerVars, metaVars, pollVars, lock, restarts>>

\* The harness finishes or dies; either way its flock goes.
HarnessRelease(h, v) ==
  /\ lock[v] = h
  /\ lock' = [lock EXCEPT ![v] = NoOne]
  /\ UNCHANGED <<worker, workerVars, metaVars, pollVars, session, restarts>>

\* The web process is killed and started again: its daemon threads are gone,
\* RUNS is empty, the OS drops its flocks.  The history file
\* and the CORE VM stay as they are.
Restart ==
  /\ restarts < MaxRestarts
  /\ restarts' = restarts + 1
  /\ worker' = [r \in Runs |-> IF worker[r] = "idle" THEN "idle" ELSE "ended"]
  /\ locked' = [r \in Runs |-> FALSE]
  /\ known' = {}
  /\ poller' = [p \in Pollers |-> Idle]
  /\ lock' = [v \in Targets |-> IF lock[v] \in Runs THEN NoOne ELSE lock[v]]
  /\ UNCHANGED <<target, exit, done, rc, historyAdded, cancel, history, session>>

-----------------------------------------------------------------------------
\* What r's thread does by itself once scheduled.
LocalStep(r) ==
  \/ Preflight(r) \/ AcquireLock(r) \/ LockTimeout(r)
  \/ PushRepo(r) \/ OpenTunnel(r) \/ OpenSsh(r)
  \/ PrepareDaemon(r) \/ InstallServices(r) \/ KillSessions(r) \/ CheckBlocking(r)
  \/ PrepareContext(r) \/ LaunchCli(r)
  \/ FinishRc(r) \/ FinishCopy(r) \/ FinishDone(r)
  \/ FailDone(r) \/ FailRc(r) \/ Raise(r) \/ Release(r)

RequestStep ==
  \/ \E r \in Runs : Submit(r) \/ CancelDone(r) \/ CancelRc(r)
  \/ \E p \in Pollers, r \in Runs : PollRead(p, r)
  \/ \E p \in Pollers : PollCheck(p) \/ PollAppend(p) \/ PollAppendFails(p) \/ PollFinish(p)

HarnessStep ==
  \E h \in Harnesses, v \in Targets :
    HarnessAcquire(h, v) \/ HarnessUse(h, v) \/ HarnessRelease(h, v)

Next ==
  \/ \E r \in Runs : LocalStep(r) \/ CliExits(r)
  \/ RequestStep
  \/ HarnessStep
  \/ Restart

Spec == Init /\ [][Next]_vars

\* A started thread keeps being scheduled; nothing is assumed of the remote
\* CLI, of the harness or of the browser.
ThreadFairness == \A r \in Runs : WF_vars(LocalStep(r))

\* The remote CLI does not hang.
CliFairness == \A r \in Runs : WF_vars(CliExits(r))

ThreadSpec == Spec /\ ThreadFairness

-----------------------------------------------------------------------------
(* Properties. *)

\* The thread holds a lock handle whenever it works on the VM, and no longer
\* than until its finally clause.
HandleWhileOnVm ==
  \A r \in Runs : /\ worker[r] \in OnVm => locked[r]
                  /\ locked[r] => worker[r] \in OnVm \cup Closing

\* The lock file of a VM is held by exactly the run that has a handle on it.
HolderHasHandle ==
  \A r \in Runs, v \in Targets : lock[v] = r <=> target[r] = v /\ locked[r]

\* No thread works on a VM it has not locked, although the lock is taken deep
\* inside the worker, and none of its early returns or exceptions leaks the
\* lock, although it is released in the outer function only.
LockMatchesWorker == HandleWhileOnVm /\ HolderHasHandle

\* Whenever the CORE session of a VM goes away or is replaced, it is by a step
\* of the one who holds the VM at that moment: no job pulls the daemon out from
\* under another job or an evaluation run that is mid-way through its own work
\* (the purpose stated in the comment on the shared-VM lock).
SessionNotPulled ==
  [][\A v \in Targets :
       session'[v] # session[v] =>
         /\ lock[v] # NoOne
         /\ session'[v] \in {NoOne, lock[v]}
         /\ lock[v] \in Runs => worker'[lock[v]] # worker[lock[v]]
         /\ lock[v] \in Harnesses => UNCHANGED worker]_vars

\* A run has at most one entry in run_history.json, however many status
\* requests finalise it concurrently and however often the append is retried.
OneHistoryEntry == \A r \in Runs : Len(history[r]) <= 1

\* The entry of a run nobody cancelled was made after the run was over and
\* holds the code the run ended with (status requests read returncode and
\* done separately, and the worker writes them in either order).
HistoryTruthful ==
  \A r \in Runs :
    history[r] # << >> /\ cancel[r] = "no" => done[r] /\ history[r] = <<rc[r]>>

\* Queueing for the VM is bounded: a thread that waits for the lock gets it or
\* gives up, even if the run that holds it hangs forever.
WaitResolves == \A r \in Runs : At(r, "lockwait") ~> ~At(r, "lockwait")

\* If remote CLIs end, a VM taken by a run is always given back, whichever way
\* the run goes.
LockGivenBack == CliFairness => \A r \in Runs, v \in Targets : lock[v] = r ~> lock[v] # r

\* The lock is the mutual-exclusion service VmLock specifies.
Vm == INSTANCE VmLock WITH owner <- lock, live <- session
ImplementsVmLock == Vm!LockSpec

\* API.md says of POST /cancel_run "Attempts to terminate a running async
\* job": a run whose cancellation has completed does not start its CLI.
CancelStopsLaunch ==
  [][\A r \in Runs : cancel[r] = "yes" /\ At(r, "launch") => worker'[r] # "running"]_vars
=============================================================================
