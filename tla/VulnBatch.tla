----------------------------- MODULE VulnBatch -----------------------------
(***************************************************************************)
(* Batch tests of the vulnerability catalogue.  A batch is a thread that   *)
(* runs the selected items one after the other as web-UI jobs: it starts a *)
(* test, waits until it is done, classifies it, has it cleaned up and goes *)
(* on to the next.  POST batch/stop does its own part of the stopping from *)
(* a request thread.  Whoever stops a test (_stop_vuln_test_meta) starts a *)
(* clean-up thread that clears the CORE VM, and records a verdict in the   *)
(* catalogue file by loading and rewriting it.                             *)
(*                                                                         *)
(* There is one CORE VM.  A test's own thread is the worker of AsyncRun,   *)
(* reduced to what matters here: waiting for the VM lock, working on the   *)
(* VM, its CORE session being up, and unwinding.                           *)
(***************************************************************************)
EXTENDS Naturals, Sequences, FiniteSets

CONSTANTS
  Batches,   \* batches that may be started
  NumItems,  \* catalogue items each of them selects
  Evals,     \* evaluation runs of the external harness
  MaxUserStops,  \* bound: how many tests of batches users stop themselves
  UserVerdicts,  \* what they may say of it: of "ok", "bad", "incomplete"
  NoOne      \* the lock is free / no CORE session

Items == 1 .. NumItems
Tests == Batches \X Items    \* <<b, i>>: the child run of batch b for item i

ASSUME NumItemsIsNat == NumItems \in Nat
ASSUME UserVerdictsAreVerdicts == UserVerdicts \subseteq {"ok", "bad", "incomplete"}
ASSUME TestsAreNotEvals ==
  /\ Tests \cap Evals = {}
  /\ NoOne \notin Tests \cup Evals

\* Those who may stop a test of a batch: its thread, a POST batch/stop, and a
\* user who stops that very test.
Callers == Batches \X {"loop", "request", "user"}

Outcomes == {"passed", "failed", "incomplete"}
Verdicts == {"untested", "ok", "bad", "incomplete"}
VerdictFor == [passed |-> "ok", failed |-> "bad", incomplete |-> "incomplete"]

VARIABLES
  loop,      \* loop[b]: where the thread of batch b is
  item,      \* item[b]: index of its current item
  outcome,   \* outcome[b]: its classification of the current test
  results,   \* results[b]: batch_meta['results'], as [item, status]
  stopReq,   \* batch_meta['stop_requested']
  userStopped,  \* stops of single tests by users so far, as [test, to]
  request,   \* request[b]: where POST batch/stop for b is
  call,      \* call[c]: _stop_vuln_test_meta called by c
  done,      \* child_meta['done']
  cleanupStarted, cleanupDone,  \* child_meta['cleanup_started'], ['cleanup_done']
  cleanups,  \* cleanups[t]: clean-up threads of t that are running
  worker,    \* worker[t]: phase of the test's own thread
  verdict,   \* verdict[i]: what the catalogue file says of item i
  lock,      \* holder of the CORE-VM lock
  session    \* whose CORE session is live on the VM

batchVars == <<loop, item, outcome, results>>
stopVars == <<stopReq, request, userStopped>>
childVars == <<done, cleanupStarted, cleanupDone, cleanups>>
vmVars == <<lock, session>>
vars == <<batchVars, stopVars, call, childVars, worker, verdict, vmVars>>

LoopPhases == {"unborn", "admitted", "next", "starting", "listing", "preparing",
               "watching", "stopping", "skipping", "over", "dead"}
WorkerPhases == {"none", "queued", "busy", "live", "closing", "ended"}

\* The steps of _stop_vuln_test_meta; "persist" is between the load and the
\* rewrite of the catalogue file and holds the copy that was loaded.
Idle == [step |-> "none"]
Calls ==
  {Idle}
  \cup [step : {"cleanup", "load", "mark"}, test : Tests, to : Verdicts]
  \cup [step : {"persist"}, test : Tests, to : Verdicts, copy : [Items -> Verdicts]]

TypeOK ==
  /\ loop \in [Batches -> LoopPhases]
  /\ item \in [Batches -> 1 .. NumItems + 1]
  /\ outcome \in [Batches -> Outcomes]
  /\ results \in [Batches -> Seq([item : Items, status : Outcomes \cup {"skipped"}])]
  /\ stopReq \in [Batches -> BOOLEAN]
  /\ request \in [Batches -> {"idle", "flagged"}]
  /\ userStopped \subseteq [test : Tests, to : Verdicts]
  /\ call \in [Callers -> Calls]
  /\ done \in [Tests -> BOOLEAN]
  /\ cleanupStarted \in [Tests -> BOOLEAN]
  /\ cleanupDone \in [Tests -> BOOLEAN]
  /\ cleanups \in [Tests -> Nat]
  /\ worker \in [Tests -> WorkerPhases]
  /\ verdict \in [Items -> Verdicts]
  /\ lock \in Tests \cup Evals \cup {NoOne}
  /\ session \in Tests \cup Evals \cup {NoOne}

Init ==
  /\ loop = [b \in Batches |-> "unborn"]
  /\ item = [b \in Batches |-> 1]
  /\ outcome = [b \in Batches |-> "incomplete"]
  /\ results = [b \in Batches |-> << >>]
  /\ stopReq = [b \in Batches |-> FALSE]
  /\ request = [b \in Batches |-> "idle"]
  /\ userStopped = {}
  /\ call = [c \in Callers |-> Idle]
  /\ done = [t \in Tests |-> FALSE]
  /\ cleanupStarted = [t \in Tests |-> FALSE]
  /\ cleanupDone = [t \in Tests |-> FALSE]
  /\ cleanups = [t \in Tests |-> 0]
  /\ worker = [t \in Tests |-> "none"]
  /\ verdict = [i \in Items |-> "untested"]
  /\ lock = NoOne
  /\ session = NoOne

Goto(b, phase) == loop' = [loop EXCEPT ![b] = phase]
Current(b) == <<b, item[b]>>

\* Entries of RUNS that are neither done nor gone.
ActiveBatches == {b \in Batches : loop[b] \notin {"unborn", "admitted", "over"}}
ActiveTests == {t \in Tests : worker[t] # "none" /\ ~done[t]}

\* A result of the current item is appended and the loop moves on.
Record(b, status) ==
  /\ results' = [results EXCEPT ![b] = Append(@, [item |-> item[b], status |-> status])]
  /\ item' = [item EXCEPT ![b] = @ + 1]
  /\ Goto(b, "next")

-----------------------------------------------------------------------------
(* Faulty variants of the actions below, each with a bug the code could have;   *)
(* they take no part in Spec.  PROJECT.json names the property each one breaks. *)

\* A clean-up is reported as over although no thread is running it.
CleanupEndsTwice(t) ==
  /\ cleanupStarted[t]
  /\ cleanups' = [cleanups EXCEPT ![t] = @ - 1]
  /\ cleanupDone' = [cleanupDone EXCEPT ![t] = TRUE]
  /\ UNCHANGED <<batchVars, stopVars, call, done, cleanupStarted, worker, verdict, vmVars>>

\* Only the items that were skipped before count as reported.
SkipItemAgain(b) ==
  /\ loop[b] = "skipping"
  /\ \E i \in Items :
       /\ [item |-> i, status |-> "skipped"] \notin {results[b][k] : k \in DOMAIN results[b]}
       /\ results' = [results EXCEPT ![b] = Append(@, [item |-> i, status |-> "skipped"])]
  /\ UNCHANGED <<loop, item, outcome, stopVars, call, childVars, worker, verdict, vmVars>>

\* The loop goes on as soon as the clean-up has started.
WatchEndEarly(b) ==
  /\ loop[b] = "stopping"
  /\ call[<<b, "loop">>] = Idle
  /\ cleanupStarted[Current(b)]
  /\ Record(b, outcome[b])
  /\ UNCHANGED <<outcome, stopVars, call, childVars, worker, verdict, vmVars>>

\* The stop request stops the active test only.
FlagStopTestOnly(b) ==
  /\ loop[b] \notin {"unborn", "admitted"}
  /\ request[b] = "idle" /\ call[<<b, "request">>] = Idle
  /\ request' = [request EXCEPT ![b] = "flagged"]
  /\ UNCHANGED <<batchVars, stopReq, userStopped, call, childVars, worker, verdict, vmVars>>

\* A test that ended is recorded as validated.
WatchDoneValidates(b) ==
  /\ loop[b] = "watching"
  /\ done[Current(b)]
  /\ \E o \in Outcomes :
       /\ outcome' = [outcome EXCEPT ![b] = o]
       /\ call' = [call EXCEPT ![<<b, "loop">>] =
                     [step |-> "cleanup", test |-> Current(b), to |-> "ok"]]
  /\ Goto(b, "stopping")
  /\ UNCHANGED <<item, results, stopVars, childVars, worker, verdict, vmVars>>

\* A stop request is looked at when the test is done.
WatchStopWhenDone(b) ==
  /\ loop[b] = "watching"
  /\ stopReq[b] /\ done[Current(b)]
  /\ outcome' = [outcome EXCEPT ![b] = "incomplete"]
  /\ call' = [call EXCEPT ![<<b, "loop">>] =
                [step |-> "cleanup", test |-> Current(b), to |-> "incomplete"]]
  /\ Goto(b, "stopping")
  /\ UNCHANGED <<item, results, stopVars, childVars, worker, verdict, vmVars>>

-----------------------------------------------------------------------------
(* POST batch/start, and the batch's thread. *)

\* No test or batch is active ...
Admit(b) ==
  /\ loop[b] = "unborn"
  /\ ActiveBatches = {} /\ ActiveTests = {}
  /\ Goto(b, "admitted")
  /\ UNCHANGED <<item, outcome, results, stopVars, call, childVars, worker, verdict, vmVars>>

\* ... and, after reading the catalogue and the configuration, the batch is
\* stored and its thread started, or the request is refused.
StartBatch(b) ==
  /\ loop[b] = "admitted"
  /\ \E next \in {"next", "unborn"} : Goto(b, next)
  /\ UNCHANGED <<item, outcome, results, stopVars, call, childVars, worker, verdict, vmVars>>

\* The head of the loop over the items.
NextItem(b) ==
  /\ loop[b] = "next"
  /\ item[b] <= NumItems /\ ~stopReq[b]
  /\ Goto(b, "starting")
  /\ UNCHANGED <<item, outcome, results, stopVars, call, childVars, worker, verdict, vmVars>>

\* Any precondition of _start_execute_like_real_vuln_test may fail: the item,
\* another test that is running, the SSH settings, sessions on the VM, the
\* compose file, the job, the thread.
StartFails(b) ==
  /\ loop[b] \in {"starting", "listing", "preparing"}
  /\ Record(b, "failed")
  /\ UNCHANGED <<outcome, stopVars, call, childVars, worker, verdict, vmVars>>

\* An exception that nobody catches ends the batch's thread: the directory of the
\* test, or its job, cannot be made, or its log cannot be kept ("vuln-batch-logs"
\* cannot be made) when it is done or to be stopped.  The batch is not done.
StartRaises(b) ==
  /\ loop[b] = "preparing"
  /\ Goto(b, "dead")
  /\ UNCHANGED <<item, outcome, results, stopVars, call, childVars, worker, verdict, vmVars>>

SnapshotRaises(b) ==
  /\ loop[b] = "watching"
  /\ stopReq[b] \/ done[Current(b)]
  /\ Goto(b, "dead")
  /\ UNCHANGED <<item, outcome, results, stopVars, call, childVars, worker, verdict, vmVars>>

SeeNoTest(b) ==
  /\ loop[b] = "starting"
  /\ ActiveTests = {}
  /\ Goto(b, "listing")
  /\ UNCHANGED <<item, outcome, results, stopVars, call, childVars, worker, verdict, vmVars>>

SeeNoSession(b) ==
  /\ loop[b] = "listing"
  /\ session = NoOne
  /\ Goto(b, "preparing")
  /\ UNCHANGED <<item, outcome, results, stopVars, call, childVars, worker, verdict, vmVars>>

StartTest(b) ==
  /\ loop[b] = "preparing"
  /\ worker' = [worker EXCEPT ![Current(b)] = "queued"]
  /\ Goto(b, "watching")
  /\ UNCHANGED <<item, outcome, results, stopVars, call, childVars, verdict, vmVars>>

\* A poll that finds a stop request: the test is stopped unless its clean-up
\* has started already.
WatchStop(b) ==
  /\ loop[b] = "watching"
  /\ stopReq[b]
  /\ outcome' = [outcome EXCEPT ![b] = "incomplete"]
  /\ call' = IF cleanupStarted[Current(b)] THEN call
             ELSE [call EXCEPT ![<<b, "loop">>] =
                     [step |-> "cleanup", test |-> Current(b), to |-> "incomplete"]]
  /\ Goto(b, "stopping")
  /\ UNCHANGED <<item, results, stopVars, childVars, worker, verdict, vmVars>>

\* Such a poll fails to keep the log and catches that, before it has stopped the
\* test: the next polls take it for stopped.
WatchStopFails(b) ==
  /\ loop[b] = "watching"
  /\ stopReq[b] /\ ~cleanupStarted[Current(b)]
  /\ outcome' = [outcome EXCEPT ![b] = "incomplete"]
  /\ Goto(b, "stopping")
  /\ UNCHANGED <<item, results, stopVars, call, childVars, worker, verdict, vmVars>>

\* A poll that finds the test done: it is classified and stopped.  The stop
\* flag was read a moment earlier in the same iteration, so it may be set.
WatchDone(b) ==
  /\ loop[b] = "watching"
  /\ done[Current(b)]
  /\ \E o \in Outcomes :
       /\ outcome' = [outcome EXCEPT ![b] = o]
       /\ call' = [call EXCEPT ![<<b, "loop">>] =
                     [step |-> "cleanup", test |-> Current(b), to |-> VerdictFor[o]]]
  /\ Goto(b, "stopping")
  /\ UNCHANGED <<item, results, stopVars, childVars, worker, verdict, vmVars>>

\* The test is cleaned up: its result is recorded.
WatchEnd(b) ==
  /\ loop[b] = "stopping"
  /\ call[<<b, "loop">>] = Idle
  /\ cleanupDone[Current(b)]
  /\ Record(b, outcome[b])
  /\ UNCHANGED <<outcome, stopVars, call, childVars, worker, verdict, vmVars>>

\* The loop is over ...
EndLoop(b) ==
  /\ loop[b] = "next"
  /\ item[b] > NumItems \/ stopReq[b]
  /\ Goto(b, IF stopReq[b] THEN "skipping" ELSE "over")
  /\ UNCHANGED <<item, outcome, results, stopVars, call, childVars, worker, verdict, vmVars>>

\* ... and after a stop the items without a result are skipped, one by one.
Unreported(b) == Items \ {results[b][k].item : k \in DOMAIN results[b]}

SkipItem(b) ==
  /\ loop[b] = "skipping"
  /\ \E i \in Unreported(b) :
       /\ \A j \in Unreported(b) : i <= j
       /\ results' = [results EXCEPT ![b] = Append(@, [item |-> i, status |-> "skipped"])]
  /\ UNCHANGED <<loop, item, outcome, stopVars, call, childVars, worker, verdict, vmVars>>

EndBatch(b) ==
  /\ loop[b] = "skipping"
  /\ Unreported(b) = {}
  /\ Goto(b, "over")
  /\ UNCHANGED <<item, outcome, results, stopVars, call, childVars, worker, verdict, vmVars>>

-----------------------------------------------------------------------------
(* POST batch/stop. *)

\* The test the batch is waiting for, or was when its thread died: active_child_run_id.
HasActiveTest(b) ==
  \/ loop[b] \in {"watching", "stopping"}
  \/ loop[b] = "dead" /\ worker[Current(b)] # "none"

FlagStop(b) ==
  /\ loop[b] \notin {"unborn", "admitted"}
  /\ request[b] = "idle" /\ call[<<b, "request">>] = Idle
  /\ stopReq' = [stopReq EXCEPT ![b] = TRUE]
  /\ request' = [request EXCEPT ![b] = "flagged"]
  /\ UNCHANGED <<batchVars, userStopped, call, childVars, worker, verdict, vmVars>>

\* Then the active test is stopped, unless there is none or its clean-up has
\* started.
StopActive(b) ==
  /\ request[b] = "flagged"
  /\ call' = IF HasActiveTest(b) /\ ~cleanupStarted[Current(b)]
             THEN [call EXCEPT ![<<b, "request">>] =
                     [step |-> "cleanup", test |-> Current(b), to |-> "incomplete"]]
             ELSE call
  /\ request' = [request EXCEPT ![b] = "idle"]
  /\ UNCHANGED <<batchVars, stopReq, userStopped, childVars, worker, verdict, vmVars>>

\* POST test/stop or test/stop_active: a user stops a test of the batch, running
\* or over, and says how it went (bound: once for each test).
UserStop(b, i, to) ==
  /\ Cardinality(userStopped) < MaxUserStops
  /\ \A u \in userStopped : u.test # <<b, i>>
  /\ worker[<<b, i>>] # "none"
  /\ call[<<b, "user">>] = Idle
  /\ userStopped' = userStopped \cup {[test |-> <<b, i>>, to |-> to]}
  /\ call' = [call EXCEPT ![<<b, "user">>] = [step |-> "cleanup", test |-> <<b, i>>, to |-> to]]
  /\ UNCHANGED <<batchVars, stopReq, request, childVars, worker, verdict, vmVars>>

-----------------------------------------------------------------------------
(* _stop_vuln_test_meta, called by c, and its clean-up threads. *)

InStep(c, step) == call[c].step = step

StartCleanup(c) ==
  /\ InStep(c, "cleanup")
  /\ LET t == call[c].test
     IN /\ cleanupStarted' = [cleanupStarted EXCEPT ![t] = TRUE]
        /\ cleanupDone' = [cleanupDone EXCEPT ![t] = FALSE]
        /\ cleanups' = [cleanups EXCEPT ![t] = @ + 1]
  /\ call' = [call EXCEPT ![c] = [step |-> "load", test |-> @.test, to |-> @.to]]
  /\ UNCHANGED <<batchVars, stopVars, done, worker, verdict, vmVars>>

LoadCatalog(c) ==
  /\ InStep(c, "load")
  /\ call' = [call EXCEPT ![c] =
                [step |-> "persist", test |-> @.test, to |-> @.to, copy |-> verdict]]
  /\ UNCHANGED <<batchVars, stopVars, childVars, worker, verdict, vmVars>>

\* The loaded copy is written back with the item's verdict in it; an error is
\* swallowed.
PersistVerdict(c) ==
  /\ InStep(c, "persist")
  /\ \E written \in {verdict, [call[c].copy EXCEPT ![call[c].test[2]] = call[c].to]} :
       verdict' = written
  /\ call' = [call EXCEPT ![c] = [step |-> "mark", test |-> @.test, to |-> @.to]]
  /\ UNCHANGED <<batchVars, stopVars, childVars, worker, vmVars>>

MarkDone(c) ==
  /\ InStep(c, "mark")
  /\ done' = [done EXCEPT ![call[c].test] = TRUE]
  /\ call' = [call EXCEPT ![c] = Idle]
  /\ UNCHANGED <<batchVars, stopVars, cleanupStarted, cleanupDone, cleanups,
                 worker, verdict, vmVars>>

\* A clean-up thread: core-cleanup, every session deleted, core-daemon
\* restarted, without the VM lock.
CleanVm(t) ==
  /\ cleanups[t] > 0
  /\ session' = NoOne
  /\ UNCHANGED <<batchVars, stopVars, call, childVars, worker, verdict, lock>>

\* It ends, having reached the VM or not.
CleanupEnds(t) ==
  /\ cleanups[t] > 0
  /\ cleanups' = [cleanups EXCEPT ![t] = @ - 1]
  /\ cleanupDone' = [cleanupDone EXCEPT ![t] = TRUE]
  /\ UNCHANGED <<batchVars, stopVars, call, done, cleanupStarted, worker, verdict, vmVars>>

-----------------------------------------------------------------------------
(* The test's own thread, and the evaluation harness. *)

Work(t, from, to) == worker[t] = from /\ worker' = [worker EXCEPT ![t] = to]

TakeVm(t) ==
  /\ Work(t, "queued", "busy")
  /\ lock = NoOne
  /\ lock' = t
  /\ UNCHANGED <<batchVars, stopVars, call, childVars, verdict, session>>

\* core-cleanup, services, daemon restart, session kill.
ClearVm(t) ==
  /\ worker[t] = "busy"
  /\ session' = NoOne
  /\ UNCHANGED <<batchVars, stopVars, call, childVars, worker, verdict, lock>>

\* The CLI brings the CORE session up; nothing checks whether the test was
\* stopped meanwhile.
Launch(t) ==
  /\ Work(t, "busy", "live")
  /\ session' = t
  /\ UNCHANGED <<batchVars, stopVars, call, childVars, verdict, lock>>

\* The run ends or fails, and says so in RUNS.
ReportDone(t) ==
  /\ \/ Work(t, "queued", "closing")
     \/ Work(t, "busy", "closing")
     \/ Work(t, "live", "closing")
  /\ done' = [done EXCEPT ![t] = TRUE]
  /\ UNCHANGED <<batchVars, stopVars, call, cleanupStarted, cleanupDone, cleanups,
                 verdict, vmVars>>

\* An exception nobody catches.
Die(t) ==
  /\ Work(t, "queued", "closing") \/ Work(t, "busy", "closing")
  /\ UNCHANGED <<batchVars, stopVars, call, childVars, verdict, vmVars>>

GiveBack(t) ==
  /\ Work(t, "closing", "ended")
  /\ lock' = IF lock = t THEN NoOne ELSE lock
  /\ UNCHANGED <<batchVars, stopVars, call, childVars, verdict, session>>

EvalTakes(e) ==
  /\ lock = NoOne
  /\ lock' = e
  /\ UNCHANGED <<batchVars, stopVars, call, childVars, worker, verdict, session>>

EvalLaunches(e) ==
  /\ lock = e
  /\ session' = e
  /\ UNCHANGED <<batchVars, stopVars, call, childVars, worker, verdict, lock>>

\* The evaluation run ends, leaving its session or not.
EvalGivesBack(e) ==
  /\ lock = e
  /\ lock' = NoOne
  /\ \E s \in {NoOne, session} : session' = s
  /\ UNCHANGED <<batchVars, stopVars, call, childVars, worker, verdict>>

-----------------------------------------------------------------------------
LoopProceeds(b) ==
  \/ NextItem(b) \/ StartFails(b) \/ SeeNoTest(b) \/ SeeNoSession(b) \/ StartTest(b)
  \/ WatchStop(b) \/ WatchDone(b) \/ WatchEnd(b)
  \/ EndLoop(b) \/ SkipItem(b) \/ EndBatch(b)

LoopFails(b) == StartRaises(b) \/ WatchStopFails(b) \/ SnapshotRaises(b)

LoopStep(b) == LoopProceeds(b) \/ LoopFails(b)

StopStep(c) == StartCleanup(c) \/ LoadCatalog(c) \/ PersistVerdict(c) \/ MarkDone(c)

WorkerStep(t) ==
  TakeVm(t) \/ ClearVm(t) \/ Launch(t) \/ ReportDone(t) \/ Die(t) \/ GiveBack(t)

Next ==
  \/ \E b \in Batches :
       Admit(b) \/ StartBatch(b) \/ LoopStep(b) \/ FlagStop(b) \/ StopActive(b)
  \/ \E b \in Batches, i \in Items, to \in UserVerdicts : UserStop(b, i, to)
  \/ \E c \in Callers : StopStep(c)
  \/ \E t \in Tests : CleanVm(t) \/ CleanupEnds(t) \/ WorkerStep(t)
  \/ \E e \in Evals : EvalTakes(e) \/ EvalLaunches(e) \/ EvalGivesBack(e)

Spec == Init /\ [][Next]_vars

\* The batch's thread, which may fail but need not, and the calls it makes are
\* scheduled, and clean-up threads end (their SSH commands have time-outs).
\* Nothing is assumed of the test's own thread.
Fairness ==
  /\ \A b \in Batches : WF_vars(LoopProceeds(b))
  /\ \A c \in Callers : WF_vars(StopStep(c))
  /\ \A t \in Tests : WF_vars(CleanupEnds(t))

FairSpec == Spec /\ Fairness

-----------------------------------------------------------------------------
(* Properties. *)

\* The report of a batch is complete: items appear in order and once each, a
\* finished batch has a result for every item, and an item is skipped only
\* because somebody asked the batch to stop.
ResultsComplete ==
  \A b \in Batches :
    /\ \A k \in DOMAIN results[b] :
         /\ results[b][k].item = k
         /\ results[b][k].status = "skipped" => stopReq[b] /\ loop[b] \in {"skipping", "over"}
    /\ loop[b] = "over" => Len(results[b]) = NumItems

\* The clean-up of a test, which deletes every session and restarts the
\* daemon, never overlaps a later test of the batch, unless a user stopped that
\* test himself: two clean-up threads of one test may run, and the first to end
\* lets the loop go on.
CleanedBeforeNext ==
  \A b \in Batches : \A i, j \in Items :
    i < j /\ worker[<<b, j>>] # "none" =>
      cleanups[<<b, i>>] = 0 \/ \E u \in userStopped : u.test = <<b, i>>

\* As long as users leave the batch's tests alone, a stop request that is still
\* being handled when its test has been left behind does not take back the
\* verdicts recorded meanwhile: rewriting the catalogue changes the verdict of
\* the test being stopped only.
VerdictsKept ==
  [][userStopped = {} =>
       \A i \in Items : verdict'[i] # verdict[i] =>
         \E c \in Callers : InStep(c, "persist") /\ call[c].test[2] = i]_vars

\* The catalogue says of an item that it is validated only if a batch
\* classified a test of that item as passed, or a user said so.
Passed(i) ==
  \/ \E b \in Batches :
       \/ \E k \in DOMAIN results[b] : results[b][k] = [item |-> i, status |-> "passed"]
       \/ loop[b] = "stopping" /\ item[b] = i /\ outcome[b] = "passed"
  \/ \E u \in userStopped : u.test[2] = i /\ u.to = "ok"

VerdictEarned == \A i \in Items : verdict[i] = "ok" => Passed(i)

\* The batch waits for a clean-up that its own attempt to stop the test did not
\* start (WatchStopFails), and nobody else has started.
Stranded(b) ==
  loop[b] = "stopping" /\ call[<<b, "loop">>] = Idle /\ ~cleanupStarted[Current(b)]

\* A batch that is asked to stop does, even if its test hangs or has died, whoever
\* stops the test first; unless its own thread has died or stopped it in vain.
StopEndsBatch == \A b \in Batches : stopReq[b] ~> loop[b] \in {"over", "dead"} \/ Stranded(b)

\* "Another vulnerability test or batch run is already active" is the answer
\* to a second batch/start: at most one batch is active.
OneActiveBatch == \A a, b \in ActiveBatches : a = b

\* Web UI jobs take the VM lock so that none of them pulls the daemon out from
\* under an eval run: an evaluation run that holds the VM keeps its session.
EvalNotDisturbed ==
  [][\A e \in Evals : lock = e /\ session = e /\ lock' = e => session' = e]_vars
=============================================================================
