-------------------------- MODULE VulnBatch_proofs --------------------------
(***************************************************************************)
(* Theorems about VulnBatch for any number of batches, items, evaluation   *)
(* runs and stops by users.                                                *)
(***************************************************************************)
EXTENDS VulnBatch, TLAPS

\* Somebody is inside _stop_vuln_test_meta.
InCall(c) == call[c].step # "none"

\* A user stopped the test himself.
UserHas(t) == \E u \in userStopped : u.test = t

\* The batch has come to this test.
Reached(t) ==
  \/ t[2] < item[t[1]]
  \/ t[2] = item[t[1]] /\ loop[t[1]] \in {"watching", "stopping", "dead"}

\* A batch that works on an item has one.
AtItem ==
  \A b \in Batches :
    loop[b] \notin {"unborn", "admitted", "next", "skipping", "over"} => item[b] \in Items

TypeInv == TypeOK /\ AtItem

\* The report names the items before the current one, and after a stop a few more.
Report(b) ==
  /\ \A k \in DOMAIN results[b] :
       /\ results[b][k].item = k
       /\ results[b][k].status = "skipped" => stopReq[b] /\ loop[b] \in {"skipping", "over"}
  /\ loop[b] \notin {"skipping", "over"} => Len(results[b]) = item[b] - 1
  /\ loop[b] = "skipping" => stopReq[b] /\ Len(results[b]) <= NumItems
  /\ loop[b] = "over" => Len(results[b]) = NumItems

ReportInv == \A b \in Batches : Report(b)

\* What each caller stops, and when it may.
CallInv ==
  /\ \A b \in Batches : request[b] = "flagged" => stopReq[b]
  /\ \A c \in Callers : InCall(c) =>
       /\ call[c].test[1] = c[1]
       /\ Reached(call[c].test)
       /\ c[2] = "loop" => loop[c[1]] = "stopping" /\ call[c].test[2] = item[c[1]]
       /\ c[2] = "request" => stopReq[c[1]]
       /\ c[2] = "user" => UserHas(call[c].test)

\* Nothing is known of a test the batch has not come to.
FreshInv ==
  \A t \in Tests : ~Reached(t) => worker[t] = "none" /\ cleanups[t] = 0 /\ ~cleanupDone[t]

\* Nobody cleans up after t, or is about to.
Quiet(t) ==
  /\ cleanups[t] = 0
  /\ \A c \in Callers : ~(InStep(c, "cleanup") /\ call[c].test = t)

\* A test left behind is cleaned up, unless it is the last one and the batch
\* will not start another; and the batch's own clean-up of the current test runs
\* at most once.
LeftBehind(t) ==
  \/ Quiet(t)
  \/ /\ stopReq[t[1]] /\ loop[t[1]] \in {"next", "skipping", "over"}
     /\ item[t[1]] = t[2] + 1

CleanedOnce(t) ==
  /\ loop[t[1]] = "watching" => cleanups[t] = 0 /\ ~cleanupDone[t]
  /\ loop[t[1]] = "stopping" =>
       IF InStep(<<t[1], "loop">>, "cleanup")
       THEN cleanups[t] = 0 /\ ~cleanupDone[t]
       ELSE cleanups[t] = (IF cleanupDone[t] THEN 0 ELSE 1)

CleanInv ==
  \A t \in Tests : ~UserHas(t) =>
    /\ t[2] < item[t[1]] => LeftBehind(t)
    /\ t[2] = item[t[1]] /\ ~stopReq[t[1]] => CleanedOnce(t)

\* A verdict on its way into the catalogue is earned as well.
PassInv ==
  /\ VerdictEarned
  /\ \A c \in Callers :
       /\ InCall(c) /\ call[c].to = "ok" => Passed(call[c].test[2])
       /\ InStep(c, "persist") => \A i \in Items : call[c].copy[i] = "ok" => Passed(i)

-----------------------------------------------------------------------------
(* Records and pairs. *)

LEMMA Pairs ==
  /\ \A b \in Batches, i \in Items : <<b, i>> \in Tests
  /\ \A t \in Tests : t[1] \in Batches /\ t[2] \in Items /\ t = <<t[1], t[2]>>
  /\ \A b \in Batches, x \in {"loop", "request", "user"} : <<b, x>> \in Callers
  /\ \A c \in Callers : c[1] \in Batches /\ c[2] \in {"loop", "request", "user"} /\ c = <<c[1], c[2]>>
BY DEF Tests, Callers

\* What a call in progress looks like, and what it may become.
LEMMA CallShape ==
  ASSUME NEW x \in Calls, x.step # "none"
  PROVE  /\ x.test \in Tests /\ x.to \in Verdicts
         /\ x.step \in {"cleanup", "load", "mark", "persist"}
         /\ x.step = "persist" => x.copy \in [Items -> Verdicts]
BY DEF Calls, Idle

LEMMA CallValues ==
  ASSUME NEW t \in Tests, NEW v \in Verdicts
  PROVE  /\ \A s \in {"cleanup", "load", "mark"} : [step |-> s, test |-> t, to |-> v] \in Calls
         /\ \A f \in [Items -> Verdicts] :
              [step |-> "persist", test |-> t, to |-> v, copy |-> f] \in Calls
BY DEF Calls

LEMMA IdleIsCall == Idle \in Calls
BY DEF Calls

-----------------------------------------------------------------------------
(* Types. *)

LEMMA TypeInit == Init => TypeInv
<1> SUFFICES ASSUME Init PROVE TypeInv
  OBVIOUS
<1> USE NumItemsIsNat, IdleIsCall DEF Init
<1>1. /\ loop \in [Batches -> LoopPhases] /\ item \in [Batches -> 1 .. NumItems + 1]
      /\ outcome \in [Batches -> Outcomes] /\ stopReq \in [Batches -> BOOLEAN]
      /\ request \in [Batches -> {"idle", "flagged"}] /\ call \in [Callers -> Calls]
  BY DEF LoopPhases, Outcomes
<1>2. results \in [Batches -> Seq([item : Items, status : Outcomes \cup {"skipped"}])]
  OBVIOUS
<1>3. /\ cleanups \in [Tests -> Nat] /\ worker \in [Tests -> WorkerPhases]
      /\ done \in [Tests -> BOOLEAN]
      /\ cleanupStarted \in [Tests -> BOOLEAN] /\ cleanupDone \in [Tests -> BOOLEAN]
  BY DEF WorkerPhases
<1>4. verdict \in [Items -> Verdicts]
  BY DEF Verdicts
<1>5. AtItem
  BY DEF AtItem
<1> QED
  BY <1>1, <1>2, <1>3, <1>4, <1>5 DEF TypeInv, TypeOK

\* A result of the current item keeps the types.
LEMMA RecordType ==
  ASSUME TypeInv, NEW b \in Batches, NEW s \in Outcomes, Record(b, s), item[b] \in Items
  PROVE  /\ loop' \in [Batches -> LoopPhases] /\ item' \in [Batches -> 1 .. NumItems + 1]
         /\ results' \in [Batches -> Seq([item : Items, status : Outcomes \cup {"skipped"}])]
         /\ AtItem'
<1> USE NumItemsIsNat DEF TypeInv, TypeOK, Record
<1>1. loop' \in [Batches -> LoopPhases] /\ item' \in [Batches -> 1 .. NumItems + 1]
  BY DEF Goto, LoopPhases, Items
<1>2. results' \in [Batches -> Seq([item : Items, status : Outcomes \cup {"skipped"}])]
  <2> DEFINE R == [item : Items, status : Outcomes \cup {"skipped"}]
  <2>1. results \in [Batches -> Seq(R)]
    OBVIOUS
  <2>2. [item |-> item[b], status |-> s] \in R
    OBVIOUS
  <2> HIDE DEF R
  <2>3. Append(results[b], [item |-> item[b], status |-> s]) \in Seq(R)
    BY <2>1, <2>2
  <2>4. results' \in [Batches -> Seq(R)]
    BY <2>1, <2>3
  <2> QED
    BY <2>4 DEF R
<1>3. AtItem'
  BY DEF AtItem, Goto
<1> QED
  BY <1>1, <1>2, <1>3

LEMMA LoopType ==
  ASSUME TypeInv, NEW b \in Batches, Admit(b) \/ StartBatch(b) \/ LoopStep(b)
  PROVE  TypeInv'
<1> USE NumItemsIsNat DEF TypeInv, TypeOK, AtItem, Goto, batchVars, stopVars, childVars, vmVars
<1>0. loop[b] \in LoopPhases /\ item[b] \in 1 .. NumItems + 1
  OBVIOUS
<1>a. ASSUME NEW t \in Tests, NEW v \in Verdicts,
             call' = [call EXCEPT ![<<b, "loop">>] = [step |-> "cleanup", test |-> t, to |-> v]]
      PROVE  call' \in [Callers -> Calls]
  BY <1>a, CallValues
<1>b. item[b] \in Items => Current(b) \in Tests
  BY Pairs DEF Current
<1>1. CASE Admit(b)
  BY <1>1 DEF Admit, LoopPhases
<1>2. CASE StartBatch(b)
  <2>1. PICK next \in {"next", "unborn"} : loop' = [loop EXCEPT ![b] = next]
    BY <1>2 DEF StartBatch
  <2>2. loop' \in [Batches -> LoopPhases] /\ item' = item
    BY <1>2, <2>1 DEF StartBatch, LoopPhases
  <2>3. AtItem'
    BY <2>1, <2>2
  <2>4. UNCHANGED <<outcome, results, stopVars, call, childVars, worker, verdict, vmVars>>
    BY <1>2 DEF StartBatch
  <2> QED
    BY <2>2, <2>3, <2>4
<1>3. CASE NextItem(b)
  <2>1. item[b] \in Items
    BY <1>3, <1>0 DEF NextItem, Items
  <2> QED
    BY <1>3, <2>1 DEF NextItem, LoopPhases
<1>4. CASE StartFails(b)
  BY <1>4, RecordType DEF StartFails, Outcomes
<1>5. CASE SeeNoTest(b)
  BY <1>5 DEF SeeNoTest, LoopPhases
<1>6. CASE SeeNoSession(b)
  BY <1>6 DEF SeeNoSession, LoopPhases
<1>7. CASE StartTest(b)
  BY <1>7 DEF StartTest, LoopPhases, WorkerPhases
<1>8. CASE WatchStop(b)
  <2>1. call' \in [Callers -> Calls]
    BY <1>8, <1>a, <1>b DEF WatchStop, Verdicts
  <2> QED
    BY <1>8, <2>1 DEF WatchStop, LoopPhases, Outcomes
<1>9. CASE WatchDone(b)
  <2>1. call' \in [Callers -> Calls]
    <3>1. PICK o \in Outcomes :
            call' = [call EXCEPT ![<<b, "loop">>] =
                       [step |-> "cleanup", test |-> Current(b), to |-> VerdictFor[o]]]
      BY <1>9 DEF WatchDone
    <3>2. VerdictFor[o] \in Verdicts
      BY DEF VerdictFor, Verdicts, Outcomes
    <3>3. Current(b) \in Tests
      BY <1>9, <1>b DEF WatchDone
    <3> QED
      BY <3>1, <3>2, <3>3, <1>a
  <2>2. outcome' \in [Batches -> Outcomes]
    BY <1>9 DEF WatchDone
  <2> QED
    BY <1>9, <2>1, <2>2 DEF WatchDone, LoopPhases
<1>10. CASE WatchEnd(b)
  BY <1>10, RecordType DEF WatchEnd
<1>11. CASE EndLoop(b)
  BY <1>11 DEF EndLoop, LoopPhases
<1>12. CASE SkipItem(b)
  <2>1. results' \in [Batches -> Seq([item : Items, status : Outcomes \cup {"skipped"}])]
    <3> DEFINE R == [item : Items, status : Outcomes \cup {"skipped"}]
    <3>1. PICK i \in Items :
            results' = [results EXCEPT ![b] = Append(results[b], [item |-> i, status |-> "skipped"])]
      BY <1>12 DEF SkipItem, Unreported
    <3>2. [item |-> i, status |-> "skipped"] \in R
      OBVIOUS
    <3>3. results \in [Batches -> Seq(R)]
      OBVIOUS
    <3> HIDE DEF R
    <3>4. results' \in [Batches -> Seq(R)]
      BY <3>1, <3>2, <3>3
    <3> QED
      BY <3>4 DEF R
  <2> QED
    BY <1>12, <2>1 DEF SkipItem
<1>13. CASE EndBatch(b)
  BY <1>13 DEF EndBatch, LoopPhases
<1>14. CASE StartRaises(b)
  BY <1>14 DEF StartRaises, LoopPhases
<1>15. CASE SnapshotRaises(b)
  BY <1>15 DEF SnapshotRaises, LoopPhases
<1>16. CASE WatchStopFails(b)
  BY <1>16 DEF WatchStopFails, LoopPhases, Outcomes
<1> QED
  BY <1>1, <1>2, <1>3, <1>4, <1>5, <1>6, <1>7, <1>8, <1>9, <1>10, <1>11, <1>12, <1>13,
     <1>14, <1>15, <1>16 DEF LoopStep, LoopProceeds, LoopFails

LEMMA StopType ==
  ASSUME TypeInv,
         \/ \E b \in Batches : FlagStop(b) \/ StopActive(b)
         \/ \E b \in Batches, i \in Items, to \in UserVerdicts : UserStop(b, i, to)
         \/ \E c \in Callers : StopStep(c)
  PROVE  TypeInv'
<1> USE DEF TypeInv, TypeOK, batchVars, stopVars, childVars, vmVars
<1>a. ASSUME NEW c, NEW x \in Calls, call' = [call EXCEPT ![c] = x]
      PROVE  call' \in [Callers -> Calls]
  BY <1>a
<1>b. UNCHANGED batchVars => AtItem'
  BY DEF AtItem
<1>1. ASSUME NEW b \in Batches, FlagStop(b) PROVE TypeInv'
  BY <1>1, <1>b DEF FlagStop
<1>2. ASSUME NEW b \in Batches, StopActive(b) PROVE TypeInv'
  <2>1. call' \in [Callers -> Calls]
    <3>1. CASE HasActiveTest(b) /\ ~cleanupStarted[Current(b)]
      <4>1. Current(b) \in Tests
        BY <3>1, Pairs DEF HasActiveTest, Current, AtItem
      <4>2. [step |-> "cleanup", test |-> Current(b), to |-> "incomplete"] \in Calls
        BY <4>1, CallValues DEF Verdicts
      <4> QED
        BY <1>2, <1>a, <3>1, <4>2 DEF StopActive
    <3>2. CASE ~(HasActiveTest(b) /\ ~cleanupStarted[Current(b)])
      BY <1>2, <3>2 DEF StopActive
    <3> QED
      BY <3>1, <3>2
  <2> QED
    BY <1>2, <1>b, <2>1 DEF StopActive
<1>3. ASSUME NEW b \in Batches, NEW i \in Items, NEW to \in UserVerdicts, UserStop(b, i, to)
      PROVE  TypeInv'
  <2>1. <<b, i>> \in Tests /\ to \in Verdicts
    BY Pairs, UserVerdictsAreVerdicts DEF Verdicts
  <2>2. [step |-> "cleanup", test |-> <<b, i>>, to |-> to] \in Calls
    BY <2>1, CallValues
  <2>3. call' \in [Callers -> Calls]
    BY <1>3, <1>a, <2>2 DEF UserStop
  <2>4. userStopped' \subseteq [test : Tests, to : Verdicts]
    <3>1. [test |-> <<b, i>>, to |-> to] \in [test : Tests, to : Verdicts]
      BY <2>1
    <3>2. userStopped' = userStopped \cup {[test |-> <<b, i>>, to |-> to]}
      BY <1>3 DEF UserStop
    <3> QED
      BY <3>1, <3>2
  <2> QED
    BY <1>3, <1>b, <2>3, <2>4 DEF UserStop
<1>4. ASSUME NEW c \in Callers, StopStep(c) PROVE TypeInv'
  <2>1. /\ call[c].test \in Tests /\ call[c].to \in Verdicts
        /\ call[c].step = "persist" => call[c].copy \in [Items -> Verdicts]
    BY <1>4, CallShape DEF StopStep, StartCleanup, LoadCatalog, PersistVerdict, MarkDone, InStep
  <2>2. /\ \A s \in {"cleanup", "load", "mark"} :
             [step |-> s, test |-> call[c].test, to |-> call[c].to] \in Calls
        /\ [step |-> "persist", test |-> call[c].test, to |-> call[c].to, copy |-> verdict] \in Calls
    BY <2>1, CallValues
  <2>3. CASE StartCleanup(c)
    <3>1. call' \in [Callers -> Calls]
      BY <2>2, <2>3, <1>a DEF StartCleanup
    <3>2. cleanups' \in [Tests -> Nat]
      BY <2>1, <2>3 DEF StartCleanup
    <3>3. cleanupStarted' \in [Tests -> BOOLEAN] /\ cleanupDone' \in [Tests -> BOOLEAN]
      BY <2>1, <2>3 DEF StartCleanup
    <3>4. UNCHANGED <<batchVars, stopVars, done, worker, verdict, vmVars>>
      BY <2>3 DEF StartCleanup
    <3> QED
      BY <3>1, <3>2, <3>3, <3>4, <1>b
  <2>4. CASE LoadCatalog(c)
    <3>1. call' \in [Callers -> Calls]
      BY <2>2, <2>4, <1>a DEF LoadCatalog
    <3> QED
      BY <2>4, <3>1, <1>b DEF LoadCatalog
  <2>5. CASE PersistVerdict(c)
    <3>1. call' \in [Callers -> Calls]
      BY <2>2, <2>5, <1>a DEF PersistVerdict
    <3>2. [call[c].copy EXCEPT ![call[c].test[2]] = call[c].to] \in [Items -> Verdicts]
      BY <2>1, <2>5 DEF PersistVerdict, InStep
    <3>3. verdict' \in [Items -> Verdicts]
      BY <2>5, <3>2 DEF PersistVerdict
    <3> QED
      BY <2>5, <3>1, <3>3, <1>b DEF PersistVerdict
  <2>6. CASE MarkDone(c)
    <3>1. call' \in [Callers -> Calls]
      BY <2>6, IdleIsCall, <1>a DEF MarkDone
    <3> QED
      BY <2>6, <3>1, <1>b DEF MarkDone
  <2> QED
    BY <1>4, <2>3, <2>4, <2>5, <2>6 DEF StopStep
<1> QED
  BY <1>1, <1>2, <1>3, <1>4

LEMMA VmType ==
  ASSUME TypeInv,
         \/ \E t \in Tests : CleanVm(t) \/ CleanupEnds(t) \/ WorkerStep(t)
         \/ \E e \in Evals : EvalTakes(e) \/ EvalLaunches(e) \/ EvalGivesBack(e)
  PROVE  TypeInv'
<1> USE DEF TypeInv, TypeOK, batchVars, stopVars, childVars, vmVars
<1>b. UNCHANGED batchVars => AtItem'
  BY DEF AtItem
<1>1. ASSUME NEW t \in Tests, CleanVm(t) \/ CleanupEnds(t) PROVE TypeInv'
  <2>1. CASE CleanVm(t)
    BY <1>1, <1>b, <2>1 DEF CleanVm
  <2>2. CASE CleanupEnds(t)
    <3>1. cleanups' \in [Tests -> Nat] /\ cleanupDone' \in [Tests -> BOOLEAN]
      BY <2>2 DEF CleanupEnds
    <3>2. UNCHANGED <<batchVars, stopVars, call, done, cleanupStarted, worker, verdict, vmVars>>
      BY <2>2 DEF CleanupEnds
    <3> QED
      BY <3>1, <3>2, <1>b
  <2> QED
    BY <1>1, <2>1, <2>2
<1>2. ASSUME NEW t \in Tests, WorkerStep(t) PROVE TypeInv'
  <2>1. ASSUME NEW from, NEW to \in WorkerPhases, Work(t, from, to)
        PROVE  worker' \in [Tests -> WorkerPhases]
    BY <2>1 DEF Work
  <2>2. worker' \in [Tests -> WorkerPhases]
    BY <1>2, <2>1 DEF WorkerStep, TakeVm, ClearVm, Launch, ReportDone, Die, GiveBack, WorkerPhases
  <2>3. done' \in [Tests -> BOOLEAN]
    BY <1>2 DEF WorkerStep, TakeVm, ClearVm, Launch, ReportDone, Die, GiveBack
  <2>4. /\ lock' \in Tests \cup Evals \cup {NoOne}
        /\ session' \in Tests \cup Evals \cup {NoOne}
    BY <1>2 DEF WorkerStep, TakeVm, ClearVm, Launch, ReportDone, Die, GiveBack
  <2>5. UNCHANGED <<batchVars, stopVars, call, cleanupStarted, cleanupDone, cleanups, verdict>>
    BY <1>2 DEF WorkerStep, TakeVm, ClearVm, Launch, ReportDone, Die, GiveBack
  <2> QED
    BY <2>2, <2>3, <2>4, <2>5, <1>b
<1>3. ASSUME NEW e \in Evals, EvalTakes(e) \/ EvalLaunches(e) \/ EvalGivesBack(e) PROVE TypeInv'
  BY <1>3, <1>b DEF EvalTakes, EvalLaunches, EvalGivesBack
<1> QED
  BY <1>1, <1>2, <1>3

LEMMA TypeStep == TypeInv /\ [Next]_vars => TypeInv'
<1> SUFFICES ASSUME TypeInv, [Next]_vars PROVE TypeInv'
  OBVIOUS
<1>1. CASE Next
  BY <1>1, LoopType, StopType, VmType DEF Next
<1>2. CASE UNCHANGED vars
  BY <1>2 DEF vars, batchVars, stopVars, childVars, vmVars, TypeInv, TypeOK, AtItem
<1> QED
  BY <1>1, <1>2

LEMMA Types == Spec => []TypeInv
BY TypeInit, TypeStep, PTL DEF Spec

\* Every variable keeps its type: for instance, no clean-up is reported as over
\* that is not running, and no batch goes past its items.
THEOREM TypeCorrect == Spec => []TypeOK
<1>1. TypeInv => TypeOK
  BY DEF TypeInv
<1> QED
  BY <1>1, Types, PTL

-----------------------------------------------------------------------------
(* The report. *)

\* The steps of a batch's thread and its stop requests are the only ones that
\* touch what the report depends on.
LEMMA ReportFrame ==
  ASSUME Next, \A b \in Batches : ~Admit(b) /\ ~StartBatch(b) /\ ~LoopStep(b) /\ ~FlagStop(b)
  PROVE  UNCHANGED <<batchVars, stopReq>>
BY DEF Next, StopActive, UserStop, StopStep, StartCleanup, LoadCatalog, PersistVerdict, MarkDone,
       CleanVm, CleanupEnds, WorkerStep, TakeVm, ClearVm, Launch, ReportDone, Die, GiveBack,
       EvalTakes, EvalLaunches, EvalGivesBack, stopVars

\* A batch's step leaves the others alone.
LEMMA OthersReport ==
  ASSUME TypeInv, NEW b \in Batches, NEW a \in Batches, a # b, Report(a),
         Admit(b) \/ StartBatch(b) \/ LoopStep(b) \/ FlagStop(b)
  PROVE  Report(a)'
<1>1. /\ loop'[a] = loop[a] /\ item'[a] = item[a] /\ results'[a] = results[a]
      /\ stopReq'[a] = stopReq[a]
  BY DEF TypeInv, TypeOK, LoopStep, LoopProceeds, LoopFails,
       Admit, StartBatch, NextItem, StartFails, StartRaises, SnapshotRaises,
     WatchStopFails, SeeNoTest, SeeNoSession,
         StartTest, WatchStop, WatchDone, WatchEnd, EndLoop, SkipItem, EndBatch, FlagStop,
         Record, Goto, batchVars, stopVars
<1> QED
  BY <1>1 DEF Report

LEMMA Appended ==
  ASSUME NEW R, NEW s \in Seq(R), NEW e \in R
  PROVE  /\ Append(s, e) \in Seq(R) /\ Len(Append(s, e)) = Len(s) + 1
         /\ DOMAIN Append(s, e) = DOMAIN s \cup {Len(s) + 1}
         /\ \A k \in DOMAIN s : Append(s, e)[k] = s[k]
         /\ Append(s, e)[Len(s) + 1] = e
         /\ DOMAIN s = 1 .. Len(s) /\ Len(s) \in Nat
OBVIOUS

Entries == [item : Items, status : Outcomes \cup {"skipped"}]

LEMMA RecordReports ==
  ASSUME TypeInv, NEW b \in Batches, Report(b), loop[b] \notin {"skipping", "over"},
         NEW s \in Outcomes, item[b] \in Items, Record(b, s)
  PROVE  Report(b)'
<1> DEFINE e == [item |-> item[b], status |-> s]
<1>1. results[b] \in Seq(Entries) /\ e \in Entries
  BY DEF TypeInv, TypeOK, Entries
<1>2. /\ results'[b] = Append(results[b], e) /\ loop'[b] = "next" /\ item'[b] = item[b] + 1
  BY DEF TypeInv, TypeOK, Record, Goto
<1>3. item[b] \in Nat
  BY NumItemsIsNat DEF Items
<1>4. e.item = item[b] /\ e.status # "skipped"
  BY DEF Outcomes
<1> HIDE DEF e
<1>5. \A k \in DOMAIN results'[b] : results'[b][k].item = k /\ results'[b][k].status # "skipped"
  BY <1>1, <1>2, <1>3, <1>4, Appended DEF Report
<1>6. Len(results'[b]) = item'[b] - 1
  BY <1>1, <1>2, <1>3, Appended DEF Report
<1> QED
  BY <1>2, <1>5, <1>6 DEF Report

LEMMA ReportStep == TypeInv /\ ReportInv /\ [Next]_vars => ReportInv'
<1> SUFFICES ASSUME TypeInv, ReportInv, [Next]_vars PROVE ReportInv'
  OBVIOUS
<1>1. ASSUME NEW b \in Batches, Admit(b) \/ StartBatch(b) \/ LoopStep(b) \/ FlagStop(b)
      PROVE  Report(b)'
  <2>0. Report(b)
    BY DEF ReportInv
  <2>t. /\ loop \in [Batches -> LoopPhases] /\ item[b] \in 1 .. NumItems + 1 /\ outcome[b] \in Outcomes
        /\ stopReq \in [Batches -> BOOLEAN] /\ results \in [Batches -> Seq(Entries)]
        /\ loop[b] \notin {"unborn", "admitted", "next", "skipping", "over"} => item[b] \in Items
    BY DEF TypeInv, TypeOK, AtItem, Entries
  <2>1. CASE Admit(b)
    BY <2>0, <2>1, <2>t DEF Admit, Goto, Report, stopVars
  <2>2. CASE StartBatch(b)
    <3>1. loop'[b] \in {"next", "unborn"}
      BY <2>2, <2>t DEF StartBatch, Goto
    <3> QED
      BY <2>0, <2>2, <3>1 DEF StartBatch, Report, stopVars
  <2>3. CASE NextItem(b)
    BY <2>0, <2>3, <2>t DEF NextItem, Goto, Report, stopVars
  <2>4. CASE StartFails(b)
    BY <2>0, <2>4, <2>t, RecordReports DEF StartFails, Outcomes
  <2>5. CASE SeeNoTest(b) \/ SeeNoSession(b) \/ StartTest(b)
    BY <2>0, <2>5, <2>t DEF SeeNoTest, SeeNoSession, StartTest, Goto, Report, stopVars
  <2>12. CASE StartRaises(b) \/ SnapshotRaises(b)
    BY <2>0, <2>12, <2>t DEF StartRaises, SnapshotRaises, Goto, Report, stopVars
  <2>6. CASE WatchStop(b) \/ WatchStopFails(b) \/ WatchDone(b)
    <3>1. loop[b] = "watching" /\ loop'[b] = "stopping"
      BY <2>6, <2>t DEF WatchStop, WatchStopFails, WatchDone, Goto
    <3>2. UNCHANGED <<item, results, stopReq>>
      BY <2>6 DEF WatchStop, WatchStopFails, WatchDone, stopVars
    <3> QED
      BY <2>0, <3>1, <3>2 DEF Report
  <2>7. CASE WatchEnd(b)
    BY <2>0, <2>7, <2>t, RecordReports DEF WatchEnd
  <2>8. CASE EndLoop(b)
    <3>1. Len(results[b]) = item[b] - 1
      BY <2>0, <2>8 DEF Report, EndLoop
    <3>2. ~stopReq[b] => Len(results[b]) = NumItems
      BY <2>8, <2>t, <3>1, NumItemsIsNat DEF EndLoop
    <3>3. Len(results[b]) <= NumItems
      BY <2>t, <3>1, NumItemsIsNat
    <3>4. loop'[b] = IF stopReq[b] THEN "skipping" ELSE "over"
      BY <2>8, <2>t DEF EndLoop, Goto
    <3>5. loop[b] = "next" /\ UNCHANGED <<item, results, stopReq>>
      BY <2>8 DEF EndLoop, stopVars
    <3> QED
      BY <2>0, <2>t, <3>2, <3>3, <3>4, <3>5 DEF Report
  <2>9. CASE SkipItem(b)
    <3>1. PICK i \in Unreported(b) :
            /\ \A j \in Unreported(b) : i <= j
            /\ results' = [results EXCEPT ![b] = Append(results[b], [item |-> i, status |-> "skipped"])]
      BY <2>9 DEF SkipItem
    <3> DEFINE e == [item |-> i, status |-> "skipped"]
               n == Len(results[b])
    <3>2. results[b] \in Seq(Entries) /\ e \in Entries /\ e.item = i /\ i \in Items
      BY <2>t DEF Unreported, Entries
    <3>3. results'[b] = Append(results[b], e) /\ n \in Nat
      BY <2>t, <3>1, <3>2
    <3>4. loop[b] = "skipping" /\ UNCHANGED <<loop, item, stopReq>>
      BY <2>9 DEF SkipItem, stopVars
    <3> HIDE DEF e
    <3>5. \A j \in Items : j \in Unreported(b) <=> j > n
      <4>1. \A k \in 1 .. n : results[b][k].item = k
        BY <2>0, <3>2 DEF Report
      <4>2. DOMAIN results[b] = 1 .. n
        BY <3>2
      <4> QED
        BY <4>1, <4>2, <3>3 DEF Unreported, Items
    <3>6. i = n + 1 /\ n + 1 <= NumItems
      <4>1. i > n /\ i <= NumItems /\ i \in Nat
        BY <3>1, <3>2, <3>5, NumItemsIsNat DEF Items
      <4>2. n + 1 \in Items
        BY <4>1, <3>3, NumItemsIsNat DEF Items
      <4>3. i <= n + 1
        BY <4>2, <3>1, <3>3, <3>5
      <4> QED
        BY <4>1, <4>3, <3>3
    <3>7. \A k \in DOMAIN results'[b] : results'[b][k].item = k
      BY <2>0, <3>2, <3>3, <3>6, Appended DEF Report
    <3>8. Len(results'[b]) = n + 1
      BY <3>2, <3>3, Appended
    <3>9. stopReq[b]
      BY <2>0, <3>4 DEF Report
    <3> QED
      BY <3>4, <3>6, <3>7, <3>8, <3>9 DEF Report
  <2>10. CASE EndBatch(b)
    <3>1. loop[b] = "skipping" /\ loop'[b] = "over" /\ UNCHANGED <<item, results, stopReq>>
      BY <2>10, <2>t DEF EndBatch, Goto, stopVars
    <3>2. /\ stopReq[b] /\ Len(results[b]) <= NumItems /\ Len(results[b]) \in Nat
          /\ DOMAIN results[b] = 1 .. Len(results[b])
      BY <2>0, <2>t, <3>1 DEF Report
    <3>3. \A k \in DOMAIN results[b] : results[b][k].item = k
      BY <2>0 DEF Report
    <3>4. \A j \in Items : j \in DOMAIN results[b]
      BY <2>10, <3>3 DEF EndBatch, Unreported
    <3>5. Len(results[b]) = NumItems
      <4>1. CASE NumItems = 0
        BY <4>1, <3>2
      <4>2. CASE NumItems # 0
        <5>1. NumItems \in Items
          BY <4>2, NumItemsIsNat DEF Items
        <5> QED
          BY <5>1, <3>2, <3>4, NumItemsIsNat
      <4> QED
        BY <4>1, <4>2
    <3> QED
      BY <2>0, <3>1, <3>2, <3>5 DEF Report
  <2>11. CASE FlagStop(b)
    BY <2>0, <2>11, <2>t DEF FlagStop, Report, batchVars
  <2> QED
    BY <1>1, <2>1, <2>2, <2>3, <2>4, <2>5, <2>6, <2>7, <2>8, <2>9, <2>10, <2>11, <2>12
       DEF LoopStep, LoopProceeds, LoopFails
<1>2. ASSUME NEW b \in Batches, Admit(b) \/ StartBatch(b) \/ LoopStep(b) \/ FlagStop(b)
      PROVE  ReportInv'
  BY <1>1, <1>2, OthersReport DEF ReportInv
<1>3. ASSUME UNCHANGED <<batchVars, stopReq>> PROVE ReportInv'
  BY <1>3 DEF ReportInv, Report, batchVars
<1> QED
  BY <1>2, <1>3, ReportFrame DEF vars, stopVars

\* The report of a batch is complete and in order, and items are skipped only
\* after a stop request (ResultsComplete).
THEOREM ReportsComplete == Spec => []ResultsComplete
<1>1. Init => ReportInv
  BY DEF Init, ReportInv, Report
<1>2. ReportInv => ResultsComplete
  BY DEF ReportInv, Report, ResultsComplete
<1> QED
  BY <1>1, <1>2, Types, ReportStep, PTL DEF Spec

-----------------------------------------------------------------------------
(* Where calls come from, and how batches move. *)

\* The call of c goes on, with the same test and verdict.
Continues(c) ==
  /\ InCall(c)
  /\ call'[c].test = call[c].test /\ call'[c].to = call[c].to
  /\ call'[c].step = "cleanup" => call[c].step = "cleanup"

LEMMA CallOrigin ==
  ASSUME TypeInv, Next, NEW c \in Callers, InCall(c)'
  PROVE  \/ Continues(c)
         \/ /\ c[2] = "loop" /\ (WatchStop(c[1]) \/ WatchDone(c[1]))
            /\ call'[c].test = Current(c[1])
         \/ /\ c[2] = "request" /\ StopActive(c[1]) /\ HasActiveTest(c[1])
            /\ call'[c].test = Current(c[1]) /\ call'[c].to = "incomplete"
         \/ /\ c[2] = "user"
            /\ \E i \in Items, to \in UserVerdicts :
                 UserStop(c[1], i, to) /\ call'[c].test = <<c[1], i>> /\ call'[c].to = to
<1>t. call \in [Callers -> Calls]
  BY DEF TypeInv, TypeOK
<1>0. call'[c] = call[c] => Continues(c)
  BY DEF Continues, InCall
<1>1. ASSUME NEW b \in Batches, WatchStop(b) \/ WatchDone(b), c # <<b, "loop">> PROVE Continues(c)
  BY <1>1, <1>0, <1>t DEF WatchStop, WatchDone
<1>2. ASSUME NEW b \in Batches, StopActive(b), c # <<b, "request">> PROVE Continues(c)
  BY <1>2, <1>0, <1>t DEF StopActive
<1>3. ASSUME NEW b \in Batches, NEW i \in Items, NEW to \in UserVerdicts, UserStop(b, i, to),
             c # <<b, "user">>
      PROVE  Continues(c)
  BY <1>3, <1>0, <1>t DEF UserStop
<1>4. ASSUME NEW d \in Callers, StopStep(d) PROVE Continues(c)
  <2>1. CASE c # d
    BY <1>4, <2>1, <1>0, <1>t DEF StopStep, StartCleanup, LoadCatalog, PersistVerdict, MarkDone
  <2>2. CASE c = d
    BY <1>4, <2>2, <1>t DEF StopStep, StartCleanup, LoadCatalog, PersistVerdict, MarkDone,
                            InStep, Continues, InCall, Idle
  <2> QED
    BY <2>1, <2>2
<1>5. ASSUME NEW b \in Batches, c = <<b, "loop">>, WatchStop(b) PROVE c[1] = b /\ c[2] = "loop"
                     /\ (Continues(c) \/ call'[c].test = Current(b))
  BY <1>5, <1>0, <1>t DEF WatchStop
<1>6. ASSUME NEW b \in Batches, c = <<b, "loop">>, WatchDone(b) PROVE c[1] = b /\ c[2] = "loop"
                     /\ call'[c].test = Current(b)
  BY <1>6, <1>t DEF WatchDone
<1>7. ASSUME NEW b \in Batches, c = <<b, "request">>, StopActive(b)
      PROVE  /\ c[1] = b /\ c[2] = "request"
             /\ \/ Continues(c)
                \/ HasActiveTest(b) /\ call'[c].test = Current(b) /\ call'[c].to = "incomplete"
  BY <1>7, <1>0, <1>t DEF StopActive
<1>8. ASSUME NEW b \in Batches, c = <<b, "user">>, NEW i \in Items, NEW to \in UserVerdicts,
             UserStop(b, i, to)
      PROVE  c[1] = b /\ c[2] = "user" /\ call'[c].test = <<b, i>> /\ call'[c].to = to
  BY <1>8, <1>t DEF UserStop
<1>9. CASE \E b \in Batches : \/ Admit(b) \/ StartBatch(b) \/ NextItem(b) \/ StartFails(b) \/ SeeNoTest(b)
                              \/ SeeNoSession(b) \/ StartTest(b) \/ WatchEnd(b) \/ EndLoop(b)
                              \/ SkipItem(b) \/ EndBatch(b) \/ FlagStop(b)
                              \/ StartRaises(b) \/ SnapshotRaises(b) \/ WatchStopFails(b)
  BY <1>9, <1>0 DEF Admit, StartBatch, NextItem, StartFails, StartRaises, SnapshotRaises,
     WatchStopFails, SeeNoTest, SeeNoSession, StartTest, WatchEnd,
                    EndLoop, SkipItem, EndBatch, FlagStop
<1>10. CASE \/ \E t \in Tests : CleanVm(t) \/ CleanupEnds(t) \/ WorkerStep(t)
            \/ \E e \in Evals : EvalTakes(e) \/ EvalLaunches(e) \/ EvalGivesBack(e)
  BY <1>10, <1>0 DEF CleanVm, CleanupEnds, WorkerStep, TakeVm, ClearVm, Launch, ReportDone, Die, GiveBack,
                     EvalTakes, EvalLaunches, EvalGivesBack
<1> QED
  BY <1>1, <1>2, <1>3, <1>4, <1>5, <1>6, <1>7, <1>8, <1>9, <1>10 DEF Next, LoopStep, LoopProceeds, LoopFails

\* A batch stays where it is, or works on its item, or has done with it.
Stays(b) == loop'[b] = loop[b] /\ item'[b] = item[b]
Works(b) ==
  /\ item'[b] = item[b]
  /\ \/ /\ loop[b] \notin {"watching", "stopping", "dead"} /\ loop'[b] \notin {"watching", "stopping"}
        /\ stopReq[b] /\ loop[b] \in {"next", "skipping", "over"} =>
             loop'[b] \in {"next", "skipping", "over"}
     \/ loop[b] = "preparing" /\ loop'[b] = "watching" /\ StartTest(b)
     \/ loop[b] = "watching" /\ loop'[b] = "stopping" /\ (stopReq[b] \/ WatchDone(b))
     \/ loop[b] = "watching" /\ loop'[b] = "dead"
Leaves(b) ==
  /\ item'[b] = item[b] + 1 /\ loop'[b] = "next"
  /\ StartFails(b) \/ WatchEnd(b)

LEMMA StopStays ==
  ASSUME TypeInv, [Next]_vars, NEW b \in Batches, stopReq[b]
  PROVE  stopReq'[b]
<1>0. stopReq \in [Batches -> BOOLEAN]
  BY DEF TypeInv, TypeOK
<1>1. ASSUME NEW a \in Batches, FlagStop(a) PROVE stopReq'[b]
  BY <1>0, <1>1 DEF FlagStop
<1>2. ASSUME \A a \in Batches : ~FlagStop(a) PROVE UNCHANGED stopReq
  BY <1>2 DEF Next, vars, stopVars, Admit, StartBatch, LoopStep, LoopProceeds, LoopFails,
       NextItem, StartFails, StartRaises, SnapshotRaises,
     WatchStopFails, SeeNoTest,
     SeeNoSession, StartTest, WatchStop, WatchDone, WatchEnd, EndLoop, SkipItem, EndBatch,
     StopActive, UserStop, StopStep, StartCleanup, LoadCatalog, PersistVerdict, MarkDone,
     CleanVm, CleanupEnds, WorkerStep, TakeVm, ClearVm, Launch, ReportDone, Die, GiveBack,
     EvalTakes, EvalLaunches, EvalGivesBack
<1> QED
  BY <1>1, <1>2

LEMMA Moves ==
  ASSUME TypeInv, [Next]_vars, NEW b \in Batches
  PROVE  Stays(b) \/ Works(b) \/ Leaves(b)
<1>t. loop \in [Batches -> LoopPhases] /\ item \in [Batches -> 1 .. NumItems + 1]
  BY DEF TypeInv, TypeOK
<1>1. ASSUME NEW a \in Batches, a # b, Admit(a) \/ StartBatch(a) \/ LoopStep(a)
      PROVE  Stays(b)
  BY <1>1, <1>t DEF Stays, LoopStep, LoopProceeds, LoopFails,
       Admit, StartBatch, NextItem, StartFails, StartRaises, SnapshotRaises,
     WatchStopFails, SeeNoTest, SeeNoSession,
         StartTest, WatchStop, WatchDone, WatchEnd, EndLoop, SkipItem, EndBatch, Record, Goto
<1>2. CASE Admit(b) \/ NextItem(b) \/ SeeNoTest(b) \/ SeeNoSession(b) \/ EndLoop(b) \/ EndBatch(b)
  <2>1. CASE Admit(b)
    BY <2>1, <1>t DEF Works, Goto, Admit
  <2>2. CASE NextItem(b)
    BY <2>2, <1>t DEF Works, Goto, NextItem
  <2>3. CASE SeeNoTest(b) \/ SeeNoSession(b)
    BY <2>3, <1>t DEF Works, Goto, SeeNoTest, SeeNoSession
  <2>4. CASE EndLoop(b)
    BY <2>4, <1>t DEF Works, Goto, EndLoop
  <2>5. CASE EndBatch(b)
    BY <2>5, <1>t DEF Works, Goto, EndBatch
  <2> QED
    BY <1>2, <2>1, <2>2, <2>3, <2>4, <2>5
<1>3. CASE StartBatch(b)
  <2>1. loop[b] = "admitted" /\ loop'[b] \in {"next", "unborn"} /\ item'[b] = item[b]
    BY <1>3, <1>t DEF StartBatch, Goto
  <2> QED
    BY <2>1 DEF Works
<1>4. CASE StartTest(b)
  BY <1>4, <1>t DEF Works, Goto, StartTest
<1>5. CASE WatchStop(b) \/ WatchStopFails(b) \/ WatchDone(b)
  <2>1. loop[b] = "watching" /\ loop'[b] = "stopping" /\ item'[b] = item[b]
    BY <1>5, <1>t DEF WatchStop, WatchStopFails, WatchDone, Goto
  <2>2. stopReq[b] \/ WatchDone(b)
    BY <1>5 DEF WatchStop, WatchStopFails
  <2> QED
    BY <2>1, <2>2 DEF Works
<1>6. CASE StartFails(b) \/ WatchEnd(b)
  BY <1>6, <1>t DEF Leaves, StartFails, WatchEnd, Record, Goto
<1>10. CASE StartRaises(b) \/ SnapshotRaises(b)
  BY <1>10, <1>t DEF Works, Goto, StartRaises, SnapshotRaises
<1>7. CASE SkipItem(b)
  BY <1>7 DEF SkipItem, Stays
<1>8. CASE \A a \in Batches : ~Admit(a) /\ ~StartBatch(a) /\ ~LoopStep(a) /\ ~FlagStop(a)
  BY <1>8, ReportFrame DEF batchVars, vars, Stays
<1>9. ASSUME NEW a \in Batches, FlagStop(a) PROVE Stays(b)
  BY <1>9 DEF FlagStop, batchVars, Stays
<1> QED
  BY <1>1, <1>2, <1>3, <1>4, <1>5, <1>6, <1>7, <1>8, <1>9, <1>10 DEF LoopStep, LoopProceeds, LoopFails

LEMMA UsersStay ==
  ASSUME [Next]_vars, NEW t, UserHas(t)
  PROVE  UserHas(t)'
<1>1. userStopped \subseteq userStopped'
  BY DEF Next, vars, stopVars, Admit, StartBatch, LoopStep, LoopProceeds, LoopFails,
       NextItem, StartFails, StartRaises, SnapshotRaises,
     WatchStopFails, SeeNoTest,
     SeeNoSession, StartTest, WatchStop, WatchDone, WatchEnd, EndLoop, SkipItem, EndBatch, FlagStop,
     StopActive, UserStop, StopStep, StartCleanup, LoadCatalog, PersistVerdict, MarkDone,
     CleanVm, CleanupEnds, WorkerStep, TakeVm, ClearVm, Launch, ReportDone, Die, GiveBack,
     EvalTakes, EvalLaunches, EvalGivesBack
<1> QED
  BY <1>1 DEF UserHas

LEMMA ReachedStays ==
  ASSUME TypeInv, [Next]_vars, NEW t \in Tests, Reached(t)
  PROVE  Reached(t)'
<1>1. t[1] \in Batches /\ t[2] \in Nat
  BY Pairs DEF Items
<1>2. item[t[1]] \in Nat
  BY <1>1, NumItemsIsNat DEF TypeInv, TypeOK
<1> QED
  BY <1>1, <1>2, Moves DEF Reached, Stays, Works, Leaves

LEMMA CallStep == TypeInv /\ CallInv /\ FreshInv /\ [Next]_vars => CallInv'
<1> SUFFICES ASSUME TypeInv, CallInv, FreshInv, [Next]_vars PROVE CallInv'
  OBVIOUS
<1>1. ASSUME NEW b \in Batches, request'[b] = "flagged" PROVE stopReq'[b]
  <2>0. request \in [Batches -> {"idle", "flagged"}] /\ stopReq \in [Batches -> BOOLEAN]
    BY DEF TypeInv, TypeOK
  <2>1. CASE request[b] = "flagged"
    BY <2>1, StopStays DEF CallInv
  <2>2. CASE request[b] # "flagged"
    <3>1. FlagStop(b)
      <4>1. ASSUME NEW a \in Batches, FlagStop(a) PROVE a = b
        BY <1>1, <2>0, <2>2, <4>1 DEF FlagStop
      <4>2. ASSUME NEW a \in Batches, StopActive(a) PROVE FALSE
        BY <1>1, <2>0, <2>2, <4>2 DEF StopActive
      <4>3. ASSUME \A a \in Batches : ~FlagStop(a) /\ ~StopActive(a) PROVE UNCHANGED request
        BY <4>3 DEF Next, vars, stopVars, Admit, StartBatch, LoopStep, LoopProceeds, LoopFails,
             NextItem, StartFails, StartRaises, SnapshotRaises,
     WatchStopFails, SeeNoTest,
           SeeNoSession, StartTest, WatchStop, WatchDone, WatchEnd, EndLoop, SkipItem, EndBatch,
           UserStop, StopStep, StartCleanup, LoadCatalog, PersistVerdict, MarkDone,
           CleanVm, CleanupEnds, WorkerStep, TakeVm, ClearVm, Launch, ReportDone, Die, GiveBack,
           EvalTakes, EvalLaunches, EvalGivesBack
      <4> QED
        BY <1>1, <2>2, <4>1, <4>2, <4>3
    <3> QED
      BY <2>0, <3>1 DEF FlagStop
  <2> QED
    BY <2>1, <2>2
<1>2. ASSUME NEW c \in Callers, InCall(c)'
      PROVE  /\ call'[c].test[1] = c[1]
             /\ Reached(call[c].test)'
             /\ c[2] = "loop" => loop'[c[1]] = "stopping" /\ call'[c].test[2] = item'[c[1]]
             /\ c[2] = "request" => stopReq'[c[1]]
             /\ c[2] = "user" => UserHas(call[c].test)'
  <2>0. c[1] \in Batches /\ c = <<c[1], c[2]>>
    BY Pairs
  <2>t. /\ call \in [Callers -> Calls] /\ loop \in [Batches -> LoopPhases]
        /\ item \in [Batches -> 1 .. NumItems + 1]
    BY DEF TypeInv, TypeOK
  <2>1. CASE Continues(c)
    <3>0. InCall(c) /\ call'[c].test = call[c].test
      BY <2>1 DEF Continues
    <3>1. call[c].test \in Tests
      BY <3>0, <2>t, CallShape DEF InCall
    <3>2. Reached(call[c].test)'
      <4>1. Reached(call[c].test)
        BY <3>0 DEF CallInv
      <4> QED
        BY <3>0, <3>1, <4>1, ReachedStays DEF Reached
    <3>3. c[2] = "loop" => loop'[c[1]] = "stopping" /\ item'[c[1]] = item[c[1]]
      <4>1. ASSUME c[2] = "loop" PROVE loop[c[1]] = "stopping" /\ ~WatchEnd(c[1]) /\ ~StartFails(c[1])
        BY <2>0, <3>0, <4>1 DEF CallInv, WatchEnd, StartFails, InCall, Idle
      <4> QED
        BY <2>0, <4>1, Moves DEF Stays, Works, Leaves
    <3>4. c[2] = "user" => UserHas(call[c].test)'
      <4>1. ASSUME c[2] = "user" PROVE UserHas(call[c].test)
        BY <3>0, <4>1 DEF CallInv
      <4> QED
        BY <3>0, <4>1, UsersStay DEF UserHas
    <3> QED
      BY <2>0, <3>0, <3>2, <3>3, <3>4, StopStays DEF CallInv
  <2>2. CASE c[2] = "loop" /\ (WatchStop(c[1]) \/ WatchDone(c[1])) /\ call'[c].test = Current(c[1])
    <3>1. loop'[c[1]] = "stopping" /\ item'[c[1]] = item[c[1]]
      BY <2>0, <2>2, <2>t DEF WatchStop, WatchDone, Goto
    <3> QED
      BY <2>2, <3>1 DEF Current, Reached
  <2>3. CASE /\ c[2] = "request" /\ StopActive(c[1]) /\ HasActiveTest(c[1])
             /\ call'[c].test = Current(c[1])
    <3>1. stopReq[c[1]] /\ UNCHANGED <<loop, item, stopReq>>
      BY <2>0, <2>3 DEF StopActive, CallInv, batchVars
    <3> QED
      BY <2>3, <3>1 DEF Current, Reached, HasActiveTest
  <2>4. ASSUME c[2] = "user", NEW i \in Items, NEW to \in UserVerdicts, UserStop(c[1], i, to),
               call'[c].test = <<c[1], i>>
        PROVE  Reached(call[c].test)' /\ UserHas(call[c].test)'
    <3>1. worker[<<c[1], i>>] # "none" /\ <<c[1], i>> \in Tests
      BY <2>0, <2>4, Pairs DEF UserStop
    <3>2. UserHas(call[c].test)'
      <4>1. [test |-> <<c[1], i>>, to |-> to] \in userStopped'
        BY <2>4 DEF UserStop
      <4> QED
        BY <2>4, <4>1 DEF UserHas
    <3>3. Reached(<<c[1], i>>)'
      <4>1. Reached(<<c[1], i>>)
        BY <3>1 DEF FreshInv
      <4>2. UNCHANGED <<loop, item>>
        BY <2>4 DEF UserStop, batchVars
      <4> QED
        BY <4>1, <4>2 DEF Reached
    <3> QED
      BY <2>4, <3>2, <3>3 DEF Reached
  <2> QED
    <3>1. CASE Next
      BY <1>2, <2>0, <2>1, <2>2, <2>3, <2>4, <3>1, CallOrigin
    <3>2. CASE UNCHANGED vars
      BY <1>2, <3>2, <2>1 DEF vars, Continues, InCall
    <3> QED
      BY <3>1, <3>2
<1> QED
  BY <1>1, <1>2 DEF CallInv

-----------------------------------------------------------------------------
(* Clean-ups. *)

CleansUp(t) == \E c \in Callers : StartCleanup(c) /\ call[c].test = t

\* Only a call that starts one and the thread itself touch a test's clean-up.
LEMMA CleanupOrigin ==
  ASSUME TypeInv, [Next]_vars, NEW t \in Tests
  PROVE  \/ cleanups'[t] = cleanups[t] /\ cleanupDone'[t] = cleanupDone[t]
         \/ CleansUp(t)
         \/ CleanupEnds(t)
<1>t. cleanups \in [Tests -> Nat] /\ cleanupDone \in [Tests -> BOOLEAN] /\ call \in [Callers -> Calls]
  BY DEF TypeInv, TypeOK
<1>1. ASSUME NEW u \in Tests, CleanupEnds(u), u # t
      PROVE  cleanups'[t] = cleanups[t] /\ cleanupDone'[t] = cleanupDone[t]
  BY <1>1, <1>t DEF CleanupEnds
<1>2. ASSUME NEW c \in Callers, StartCleanup(c), call[c].test # t
      PROVE  cleanups'[t] = cleanups[t] /\ cleanupDone'[t] = cleanupDone[t]
  BY <1>2, <1>t DEF StartCleanup
<1>3. ASSUME \A u \in Tests : ~CleanupEnds(u), \A c \in Callers : ~StartCleanup(c)
      PROVE  UNCHANGED <<cleanups, cleanupDone>>
  BY <1>3 DEF Next, vars, childVars, Admit, StartBatch, LoopStep, LoopProceeds, LoopFails,
       NextItem, StartFails, StartRaises, SnapshotRaises,
     WatchStopFails, SeeNoTest,
     SeeNoSession, StartTest, WatchStop, WatchDone, WatchEnd, EndLoop, SkipItem, EndBatch, FlagStop,
     StopActive, UserStop, StopStep, LoadCatalog, PersistVerdict, MarkDone,
     CleanVm, WorkerStep, TakeVm, ClearVm, Launch, ReportDone, Die, GiveBack,
     EvalTakes, EvalLaunches, EvalGivesBack
<1> QED
  BY <1>1, <1>2, <1>3 DEF CleansUp

\* A test's thread is born in StartTest and does the rest itself.
LEMMA WorkerOrigin ==
  ASSUME TypeInv, [Next]_vars, NEW t \in Tests, worker[t] = "none", worker'[t] # "none"
  PROVE  StartTest(t[1]) /\ t = Current(t[1])
<1>t. worker \in [Tests -> WorkerPhases]
  BY DEF TypeInv, TypeOK
<1>1. ASSUME NEW b \in Batches, StartTest(b) PROVE t = Current(b) /\ t[1] = b
  BY <1>1, <1>t DEF StartTest, Current
<1>2. ASSUME NEW u \in Tests, WorkerStep(u) PROVE FALSE
  <2>1. CASE u = t
    BY <1>2, <2>1, <1>t DEF WorkerStep, TakeVm, ClearVm, Launch, ReportDone, Die, GiveBack, Work
  <2>2. CASE u # t
    <3>1. ASSUME NEW from, NEW to, Work(u, from, to) PROVE worker'[t] = worker[t]
      BY <2>2, <3>1, <1>t DEF Work
    <3>2. worker'[t] = worker[t]
      BY <1>2, <3>1 DEF WorkerStep, TakeVm, ClearVm, Launch, ReportDone, Die, GiveBack
    <3> QED
      BY <3>2
  <2> QED
    BY <2>1, <2>2
<1>3. ASSUME \A b \in Batches : ~StartTest(b), \A u \in Tests : ~WorkerStep(u) PROVE UNCHANGED worker
  BY <1>3 DEF Next, vars, Admit, StartBatch, LoopStep, LoopProceeds, LoopFails,
       NextItem, StartFails, StartRaises, SnapshotRaises,
     WatchStopFails, SeeNoTest,
     SeeNoSession, WatchStop, WatchDone, WatchEnd, EndLoop, SkipItem, EndBatch, FlagStop,
     StopActive, UserStop, StopStep, StartCleanup, LoadCatalog, PersistVerdict, MarkDone,
     CleanVm, CleanupEnds, EvalTakes, EvalLaunches, EvalGivesBack
<1> QED
  BY <1>1, <1>2, <1>3

LEMMA FreshStep == TypeInv /\ CallInv /\ FreshInv /\ [Next]_vars => FreshInv'
<1> SUFFICES ASSUME TypeInv, CallInv, FreshInv, [Next]_vars, NEW t \in Tests, ~Reached(t)'
             PROVE  (worker[t] = "none" /\ cleanups[t] = 0 /\ ~cleanupDone[t])'
  BY DEF FreshInv
<1>1. ~Reached(t) /\ worker[t] = "none" /\ cleanups[t] = 0 /\ ~cleanupDone[t]
  BY ReachedStays DEF FreshInv
<1>2. worker'[t] = "none"
  <2>1. ASSUME StartTest(t[1]), t = Current(t[1]) PROVE FALSE
    <3>1. t[1] \in Batches /\ t[2] = item[t[1]]
      BY <2>1, Pairs DEF Current
    <3>2. loop'[t[1]] = "watching" /\ item'[t[1]] = item[t[1]]
      BY <2>1, <3>1 DEF StartTest, Goto, TypeInv, TypeOK
    <3> QED
      BY <3>1, <3>2 DEF Reached
  <2> QED
    BY <1>1, <2>1, WorkerOrigin
<1>3. ~CleansUp(t) /\ ~CleanupEnds(t)
  BY <1>1 DEF CleansUp, StartCleanup, InStep, CleanupEnds, CallInv, InCall
<1> QED
  BY <1>1, <1>2, <1>3, CleanupOrigin

\* Whoever starts the clean-up of a test no user stopped is the batch's thread,
\* stopping its current test, or a stop request.
LEMMA WhoCleansUp ==
  ASSUME CallInv, NEW t \in Tests, ~UserHas(t), NEW c \in Callers, InCall(c), call[c].test = t
  PROVE  \/ stopReq[t[1]]
         \/ c = <<t[1], "loop">> /\ loop[t[1]] = "stopping" /\ t[2] = item[t[1]]
BY Pairs DEF CallInv

\* A call that is about to start a clean-up does nothing else.
LEMMA OnlyStartsCleanup ==
  ASSUME TypeInv, [Next]_vars, NEW b \in Batches, loop[b] = "stopping",
         InStep(<<b, "loop">>, "cleanup"), ~StartCleanup(<<b, "loop">>)
  PROVE  InStep(<<b, "loop">>, "cleanup")'
<1> DEFINE own == <<b, "loop">>
<1>t. call \in [Callers -> Calls] /\ own \in Callers
  BY Pairs DEF TypeInv, TypeOK
<1>0. call'[own] = call[own] => InStep(own, "cleanup")'
  BY DEF InStep
<1>1. ASSUME NEW a \in Batches, WatchStop(a) \/ WatchDone(a) PROVE call'[own] = call[own]
  BY <1>1, <1>t DEF WatchStop, WatchDone
<1>2. ASSUME NEW a \in Batches, StopActive(a) PROVE call'[own] = call[own]
  BY <1>2, <1>t DEF StopActive
<1>3. ASSUME NEW a \in Batches, NEW j \in Items, NEW to \in UserVerdicts, UserStop(a, j, to)
      PROVE  call'[own] = call[own]
  BY <1>3, <1>t DEF UserStop
<1>4. ASSUME NEW d \in Callers, StopStep(d) PROVE call'[own] = call[own]
  <2>1. d # own
    BY <1>4 DEF StopStep, LoadCatalog, PersistVerdict, MarkDone, InStep
  <2> QED
    BY <1>4, <2>1, <1>t DEF StopStep, StartCleanup, LoadCatalog, PersistVerdict, MarkDone
<1>5. ASSUME \A a \in Batches : ~WatchStop(a) /\ ~WatchDone(a) /\ ~StopActive(a),
             \A a \in Batches, j \in Items, to \in UserVerdicts : ~UserStop(a, j, to),
             \A d \in Callers : ~StopStep(d)
      PROVE  UNCHANGED call
  BY <1>5 DEF Next, vars, Admit, StartBatch, LoopStep, LoopProceeds, LoopFails,
       NextItem, StartFails, StartRaises, SnapshotRaises,
     WatchStopFails, SeeNoTest,
     SeeNoSession, StartTest, WatchEnd, EndLoop, SkipItem, EndBatch, FlagStop,
     CleanVm, CleanupEnds, WorkerStep, TakeVm, ClearVm, Launch, ReportDone, Die, GiveBack,
     EvalTakes, EvalLaunches, EvalGivesBack
<1> HIDE DEF own
<1>6. call'[own] = call[own]
  BY <1>1, <1>2, <1>3, <1>4, <1>5
<1> QED
  BY <1>0, <1>6 DEF own

LEMMA CleanStep == TypeInv /\ CallInv /\ FreshInv /\ CleanInv /\ [Next]_vars => CleanInv'
<1> SUFFICES ASSUME TypeInv, CallInv, FreshInv, CleanInv, [Next]_vars, NEW t \in Tests, ~UserHas(t)'
             PROVE  /\ t[2] < item'[t[1]] => LeftBehind(t)'
                    /\ t[2] = item'[t[1]] /\ ~stopReq'[t[1]] => CleanedOnce(t)'
  BY DEF CleanInv
<1> DEFINE b == t[1]
           i == t[2]
           own == <<b, "loop">>
<1>b. b \in Batches /\ i \in Nat /\ item[b] \in Nat /\ t = <<b, i>> /\ own \in Callers
  <2>1. b \in Batches /\ i \in Items /\ t = <<b, i>> /\ own \in Callers
    BY Pairs
  <2>2. i \in Nat
    BY <2>1, NumItemsIsNat DEF Items
  <2>3. item[b] \in Nat
    BY <2>1, NumItemsIsNat DEF TypeInv, TypeOK
  <2> QED
    BY <2>1, <2>2, <2>3
<1>u. ~UserHas(t)
  BY UsersStay
<1>c. cleanups[t] \in Nat /\ cleanupDone[t] \in BOOLEAN
  BY DEF TypeInv, TypeOK
<1>m. Stays(b) \/ Works(b) \/ Leaves(b)
  BY <1>b, Moves
<1> HIDE DEF b, i, own
<1>1. ASSUME Quiet(t), i < item[b] PROVE Quiet(t)'
  <2>1. ~CleansUp(t) /\ ~CleanupEnds(t)
    BY <1>1 DEF Quiet, CleansUp, StartCleanup, CleanupEnds
  <2>2. cleanups'[t] = 0
    BY <1>1, <2>1, CleanupOrigin DEF Quiet
  <2>3. ASSUME NEW c \in Callers, InStep(c, "cleanup")', call'[c].test = t PROVE FALSE
    <3>1. InCall(c)'
      BY <2>3 DEF InStep, InCall
    <3>2. ~Continues(c)
      BY <1>1, <2>3 DEF Continues, Quiet, InStep
    <3>3. t # Current(c[1])
      BY <1>1, <1>b DEF Current, b, i
    <3>4. ASSUME NEW j, NEW to, UserStop(c[1], j, to), t = <<c[1], j>> PROVE FALSE
      <4>1. [test |-> t, to |-> to] \in userStopped'
        BY <3>4 DEF UserStop
      <4> QED
        BY <4>1 DEF UserHas
    <3>5. CASE Next
      BY <2>3, <3>1, <3>2, <3>3, <3>4, <3>5, CallOrigin
    <3>6. CASE UNCHANGED vars
      BY <1>1, <2>3, <3>6 DEF vars, Quiet, InStep
    <3> QED
      BY <3>5, <3>6
  <2> QED
    BY <2>2, <2>3 DEF Quiet
<1>2. ASSUME i < item'[b] PROVE LeftBehind(t)'
  <2>1. CASE i < item[b]
    <3>1. LeftBehind(t)
      BY <2>1, <1>u DEF CleanInv, b, i
    <3>2. CASE Quiet(t)
      BY <1>1, <2>1, <3>2 DEF LeftBehind
    <3>3. CASE stopReq[b] /\ loop[b] \in {"next", "skipping", "over"} /\ item[b] = i + 1
      <4>1. stopReq'[b]
        BY <1>b, <3>3, StopStays
      <4>2. ~Leaves(b)
        BY <1>b, <3>3 DEF Leaves, StartFails, WatchEnd
      <4>3. loop'[b] \in {"next", "skipping", "over"} /\ item'[b] = item[b]
        BY <1>m, <3>3, <4>2 DEF Stays, Works
      <4> QED
        BY <3>3, <4>1, <4>3 DEF LeftBehind, b, i
    <3> QED
      BY <3>1, <3>2, <3>3 DEF LeftBehind, b, i
  <2>2. CASE ~(i < item[b])
    <3>1. Leaves(b) /\ i = item[b]
      BY <1>2, <2>2, <1>b, <1>m DEF Stays, Works, Leaves
    <3>2. stopReq'[b] => LeftBehind(t)'
      BY <3>1, <1>b DEF Leaves, LeftBehind, b, i
    <3>3. ASSUME ~stopReq'[b] PROVE Quiet(t)'
      <4>0. ~stopReq[b]
        BY <3>3, <1>b, StopStays
      <4>1. UNCHANGED <<call, cleanups>>
        BY <3>1 DEF Leaves, StartFails, WatchEnd, childVars
      <4>2. Quiet(t)
        <5>1. CASE StartFails(b)
          <6>1. ~Reached(t)
            BY <5>1, <3>1, <1>b DEF Reached, StartFails, b, i
          <6> QED
            BY <6>1 DEF FreshInv, Quiet, CallInv, InStep, InCall
        <5>2. CASE WatchEnd(b)
          <6>1. loop[b] = "stopping" /\ call[own] = Idle /\ cleanupDone[t]
            BY <5>2, <3>1, <1>b DEF WatchEnd, Current, own
          <6>2. CleanedOnce(t)
            BY <3>1, <4>0, <1>u DEF CleanInv, b, i
          <6>3. cleanups[t] = 0
            BY <6>1, <6>2, <1>c DEF CleanedOnce, InStep, Idle, b, own
          <6>4. ASSUME NEW c \in Callers, InStep(c, "cleanup"), call[c].test = t PROVE FALSE
            <7>1. InCall(c)
              BY <6>4 DEF InStep, InCall
            <7>2. c = own
              BY <4>0, <6>4, <7>1, <1>u, WhoCleansUp DEF b, own
            <7> QED
              BY <6>1, <7>1, <7>2 DEF InCall, Idle
          <6> QED
            BY <6>3, <6>4 DEF Quiet
        <5> QED
          BY <3>1, <5>1, <5>2 DEF Leaves
      <4> QED
        BY <4>1, <4>2 DEF Quiet, InStep
    <3> QED
      BY <3>2, <3>3 DEF LeftBehind
  <2> QED
    BY <2>1, <2>2
<1>3. ASSUME i = item'[b], ~stopReq'[b] PROVE CleanedOnce(t)'
  <2>0. ~stopReq[b]
    BY <1>3, <1>b, StopStays
  <2>1. CASE loop'[b] \notin {"watching", "stopping"}
    BY <2>1 DEF CleanedOnce, b
  <2>2. ASSUME loop'[b] \in {"watching", "stopping"}
        PROVE  i = item[b] /\ (Stays(b) \/ Works(b)) /\ CleanedOnce(t)
    <3>1. i = item[b] /\ (Stays(b) \/ Works(b))
      BY <1>3, <2>2, <1>m DEF Stays, Works, Leaves
    <3> QED
      BY <3>1, <2>0, <1>u DEF CleanInv, b, i
  <2>3. CASE loop'[b] = "watching"
    <3>1. cleanups[t] = 0 /\ ~cleanupDone[t] /\ ~CleansUp(t)
      <4>1. CASE Stays(b)
        <5>1. loop[b] = "watching"
          BY <2>3, <4>1 DEF Stays
        <5>2. ~CleansUp(t)
          BY <2>0, <5>1, <1>u, WhoCleansUp DEF CleansUp, StartCleanup, InStep, InCall, b
        <5> QED
          BY <2>2, <2>3, <5>1, <5>2 DEF CleanedOnce, b
      <4>2. CASE Works(b)
        <5>1. loop[b] = "preparing"
          BY <2>3, <4>2 DEF Works
        <5>2. ~Reached(t)
          BY <2>2, <2>3, <5>1, <1>b DEF Reached, b, i
        <5> QED
          BY <5>2 DEF FreshInv, CleansUp, StartCleanup, CallInv, InStep, InCall
      <4> QED
        BY <2>2, <2>3, <4>1, <4>2
    <3>2. ~CleanupEnds(t)
      BY <3>1 DEF CleanupEnds
    <3>3. cleanups'[t] = 0 /\ ~cleanupDone'[t]
      BY <3>1, <3>2, CleanupOrigin
    <3> QED
      BY <2>3, <3>3 DEF CleanedOnce, b
  <2>4. CASE loop'[b] = "stopping"
    <3>1. CASE loop[b] # "stopping"
      <4>1. WatchDone(b) /\ loop[b] = "watching"
        BY <2>0, <2>2, <2>4, <3>1 DEF Stays, Works
      <4>2. cleanups[t] = 0 /\ ~cleanupDone[t] /\ UNCHANGED <<cleanups, cleanupDone>>
        BY <2>2, <2>4, <4>1 DEF CleanedOnce, WatchDone, childVars, b
      <4>3. InStep(own, "cleanup")'
        BY <4>1, <1>b DEF WatchDone, InStep, own, TypeInv, TypeOK
      <4> QED
        BY <2>4, <4>2, <4>3 DEF CleanedOnce, InStep, b, own
    <3>2. CASE loop[b] = "stopping"
      <4>0. IF InStep(own, "cleanup") THEN cleanups[t] = 0 /\ ~cleanupDone[t]
            ELSE cleanups[t] = (IF cleanupDone[t] THEN 0 ELSE 1)
        BY <2>2, <2>4, <3>2 DEF CleanedOnce, b, own
      <4>s. ASSUME IF InStep(own, "cleanup")' THEN cleanups'[t] = 0 /\ ~cleanupDone'[t]
                   ELSE cleanups'[t] = (IF cleanupDone'[t] THEN 0 ELSE 1)
            PROVE  CleanedOnce(t)'
        BY <2>4, <4>s DEF CleanedOnce, InStep, b, own
      <4>1. CASE CleansUp(t)
        <5>1. StartCleanup(own) /\ call[own].test = t
          BY <2>0, <4>1, <1>u, WhoCleansUp DEF CleansUp, StartCleanup, InStep, InCall, b, own
        <5>2. cleanups'[t] = cleanups[t] + 1 /\ ~cleanupDone'[t] /\ InStep(own, "cleanup")
          BY <5>1 DEF StartCleanup, TypeInv, TypeOK
        <5>3. ~InStep(own, "cleanup")'
          BY <5>1, <1>b DEF StartCleanup, InStep, TypeInv, TypeOK
        <5> QED
          BY <4>0, <4>s, <5>2, <5>3
      <4>2. CASE CleanupEnds(t)
        <5>1. cleanups[t] > 0 /\ cleanups'[t] = cleanups[t] - 1 /\ cleanupDone'[t] = TRUE
          BY <4>2 DEF CleanupEnds, TypeInv, TypeOK
        <5>2. UNCHANGED call
          BY <4>2 DEF CleanupEnds
        <5>3. InStep(own, "cleanup")' <=> InStep(own, "cleanup")
          BY <5>2 DEF InStep, own
        <5> QED
          BY <4>0, <4>s, <5>1, <5>3, <1>c
      <4>3. CASE ~CleansUp(t) /\ ~CleanupEnds(t)
        <5>1. cleanups'[t] = cleanups[t] /\ cleanupDone'[t] = cleanupDone[t]
          BY <4>3, CleanupOrigin
        <5>2. InStep(own, "cleanup") => InStep(own, "cleanup")'
          <6>1. ASSUME InStep(own, "cleanup") PROVE call[own].test = t
            <7>1. call[own].test \in Tests /\ call[own].test[1] = own[1] /\ call[own].test[2] = item[own[1]]
              BY <6>1, <1>b, CallShape DEF CallInv, InCall, InStep, own, TypeInv, TypeOK
            <7> QED
              BY <7>1, <2>2, <2>4, <1>b, Pairs DEF own, i
          <6>2. InStep(own, "cleanup") => ~StartCleanup(own)
            BY <4>3, <6>1, <1>b DEF CleansUp
          <6> QED
            BY <6>2, <3>2, <1>b, OnlyStartsCleanup DEF own
        <5>3. InStep(own, "cleanup")' => InStep(own, "cleanup")
          <6>1. ASSUME Next, InStep(own, "cleanup")' PROVE Continues(own)
            <7>1. InCall(own)' /\ own[1] = b /\ own[2] = "loop"
              BY <6>1 DEF InStep, InCall, own
            <7>2. ~WatchStop(b) /\ ~WatchDone(b)
              BY <3>2 DEF WatchStop, WatchDone
            <7> QED
              BY <6>1, <7>1, <7>2, <1>b, CallOrigin
          <6>2. CASE Next
            BY <6>1, <6>2 DEF Continues, InStep, own
          <6>3. CASE UNCHANGED vars
            BY <6>3 DEF vars, InStep, own
          <6> QED
            BY <6>2, <6>3
        <5> QED
          BY <4>0, <4>s, <5>1, <5>2, <5>3
      <4> QED
        BY <4>1, <4>2, <4>3
    <3> QED
      BY <3>1, <3>2
  <2> QED
    BY <2>1, <2>3, <2>4
<1> QED
  BY <1>2, <1>3 DEF b, i

CleanUps == CallInv /\ FreshInv /\ CleanInv

LEMMA CleanUpsHold == Spec => []CleanUps
<1>1. Init => CleanUps
  BY Pairs DEF Init, CleanUps, CallInv, FreshInv, CleanInv, InCall, Idle, CleanedOnce, LeftBehind, Quiet, InStep,
               Items
<1>2. TypeInv /\ CleanUps /\ [Next]_vars => CleanUps'
  BY CallStep, FreshStep, CleanStep DEF CleanUps
<1> QED
  BY <1>1, <1>2, Types, PTL DEF Spec

\* No test of a batch is started before the clean-up of an earlier one is over,
\* whoever stopped it among the batch's thread and stop requests
\* (CleanedBeforeNext).
THEOREM CleanUpsInOrder == Spec => []CleanedBeforeNext
<1>1. TypeInv /\ CleanUps => CleanedBeforeNext
  <2> SUFFICES ASSUME TypeInv, CleanUps, NEW b \in Batches, NEW i \in Items, NEW j \in Items, i < j,
                      worker[<<b, j>>] # "none", ~UserHas(<<b, i>>)
               PROVE  cleanups[<<b, i>>] = 0
    BY DEF CleanedBeforeNext, UserHas
  <2>1. <<b, i>> \in Tests /\ <<b, j>> \in Tests /\ item[b] \in Nat /\ i \in Nat /\ j \in Nat
    <3>1. <<b, i>> \in Tests /\ <<b, j>> \in Tests
      BY Pairs
    <3> QED
      BY <3>1, NumItemsIsNat DEF TypeInv, TypeOK, Items
  <2>2. Reached(<<b, j>>)
    BY <2>1 DEF CleanUps, FreshInv
  <2>3. j < item[b] \/ (j = item[b] /\ loop[b] \in {"watching", "stopping", "dead"})
    BY <2>2 DEF Reached
  <2>4. LeftBehind(<<b, i>>)
    BY <2>1, <2>3 DEF CleanUps, CleanInv
  <2> QED
    BY <2>1, <2>3, <2>4 DEF LeftBehind, Quiet
<1> QED
  BY <1>1, CleanUpsHold, Types, PTL

-----------------------------------------------------------------------------
(* Verdicts. *)

LEMMA PassedStays ==
  ASSUME TypeInv, [Next]_vars, NEW i \in Items, Passed(i)
  PROVE  Passed(i)'
<1>t. /\ loop \in [Batches -> LoopPhases] /\ item \in [Batches -> 1 .. NumItems + 1]
      /\ outcome \in [Batches -> Outcomes] /\ results \in [Batches -> Seq(Entries)]
  BY DEF TypeInv, TypeOK, Entries
<1> DEFINE Passes(b) ==
             \/ \E k \in DOMAIN results[b] : results[b][k] = [item |-> i, status |-> "passed"]
             \/ loop[b] = "stopping" /\ item[b] = i /\ outcome[b] = "passed"
<1>1. ASSUME NEW u \in userStopped, u.test[2] = i, u.to = "ok" PROVE u \in userStopped'
  BY <1>1 DEF Next, vars, stopVars, Admit, StartBatch, LoopStep, LoopProceeds, LoopFails,
       NextItem, StartFails, StartRaises, SnapshotRaises,
     WatchStopFails, SeeNoTest,
     SeeNoSession, StartTest, WatchStop, WatchDone, WatchEnd, EndLoop, SkipItem, EndBatch, FlagStop,
     StopActive, UserStop, StopStep, StartCleanup, LoadCatalog, PersistVerdict, MarkDone,
     CleanVm, CleanupEnds, WorkerStep, TakeVm, ClearVm, Launch, ReportDone, Die, GiveBack,
     EvalTakes, EvalLaunches, EvalGivesBack
<1>2. ASSUME NEW b \in Batches, Passes(b) PROVE Passes(b)'
  <2>1. CASE UNCHANGED <<loop[b], item[b], outcome[b], results[b]>>
    BY <1>2, <2>1
  <2>2. ASSUME NEW e \in Entries, results'[b] = Append(results[b], e),
               loop[b] # "stopping" \/ e = [item |-> item[b], status |-> outcome[b]]
        PROVE  Passes(b)'
    <3>1. results[b] \in Seq(Entries)
      BY <1>t
    <3>2. /\ \A k \in DOMAIN results[b] : k \in DOMAIN results'[b] /\ results'[b][k] = results[b][k]
          /\ Len(results[b]) + 1 \in DOMAIN results'[b] /\ results'[b][Len(results[b]) + 1] = e
      BY <2>2, <3>1, Appended
    <3> QED
      BY <1>2, <2>2, <3>2
  <2>3. ASSUME NEW a \in Batches, a # b, Admit(a) \/ StartBatch(a) \/ LoopStep(a) \/ FlagStop(a)
        PROVE  UNCHANGED <<loop[b], item[b], outcome[b], results[b]>>
    BY <2>3, <1>t DEF LoopStep, LoopProceeds, LoopFails,
         Admit, StartBatch, NextItem, StartFails, StartRaises, SnapshotRaises,
     WatchStopFails, SeeNoTest, SeeNoSession,
         StartTest, WatchStop, WatchDone, WatchEnd, EndLoop, SkipItem, EndBatch, FlagStop,
         Record, Goto, batchVars
  <2>4. CASE FlagStop(b)
    BY <2>1, <2>4 DEF FlagStop, batchVars
  <2>5. CASE \/ Admit(b) \/ StartBatch(b) \/ NextItem(b) \/ SeeNoTest(b) \/ SeeNoSession(b) \/ StartTest(b)
             \/ WatchStop(b) \/ WatchDone(b) \/ EndLoop(b) \/ EndBatch(b)
             \/ StartRaises(b) \/ SnapshotRaises(b) \/ WatchStopFails(b)
    <3>1. loop[b] # "stopping" /\ UNCHANGED results
      BY <2>5 DEF Admit, StartBatch, NextItem, SeeNoTest, SeeNoSession, StartTest, WatchStop, WatchDone,
                  EndLoop, EndBatch, StartRaises, SnapshotRaises, WatchStopFails
    <3> QED
      BY <1>2, <3>1
  <2>6. CASE StartFails(b)
    <3>1. [item |-> item[b], status |-> "failed"] \in Entries
      BY <2>6, <1>t DEF StartFails, Entries, Outcomes, TypeInv, AtItem
    <3>2. loop[b] # "stopping" /\ results'[b] = Append(results[b], [item |-> item[b], status |-> "failed"])
      BY <2>6, <1>t DEF StartFails, Record
    <3> QED
      BY <2>2, <3>1, <3>2
  <2>7. CASE WatchEnd(b)
    <3>1. [item |-> item[b], status |-> outcome[b]] \in Entries
      BY <2>7, <1>t DEF WatchEnd, Entries, TypeInv, AtItem
    <3>2. results'[b] = Append(results[b], [item |-> item[b], status |-> outcome[b]])
      BY <2>7, <1>t DEF WatchEnd, Record
    <3> QED
      BY <2>2, <3>1, <3>2
  <2>8. CASE SkipItem(b)
    <3>1. PICK j \in Items :
            results'[b] = Append(results[b], [item |-> j, status |-> "skipped"])
      BY <2>8, <1>t DEF SkipItem, Unreported
    <3>2. [item |-> j, status |-> "skipped"] \in Entries
      BY DEF Entries
    <3>3. loop[b] # "stopping"
      BY <2>8 DEF SkipItem
    <3> QED
      BY <2>2, <3>1, <3>2, <3>3
  <2>9. CASE \A a \in Batches : ~Admit(a) /\ ~StartBatch(a) /\ ~LoopStep(a) /\ ~FlagStop(a)
    BY <2>1, <2>9, ReportFrame DEF vars, batchVars
  <2> QED
    BY <2>1, <2>3, <2>4, <2>5, <2>6, <2>7, <2>8, <2>9 DEF LoopStep, LoopProceeds, LoopFails
<1> QED
  BY <1>1, <1>2 DEF Passed

\* Only a call that rewrites the catalogue changes a verdict ...
LEMMA VerdictOrigin ==
  ASSUME [Next]_vars, \A c \in Callers : ~PersistVerdict(c)
  PROVE  verdict' = verdict
BY DEF Next, vars, Admit, StartBatch, LoopStep, LoopProceeds, LoopFails,
     NextItem, StartFails, StartRaises, SnapshotRaises,
     WatchStopFails, SeeNoTest,
   SeeNoSession, StartTest, WatchStop, WatchDone, WatchEnd, EndLoop, SkipItem, EndBatch, FlagStop,
   StopActive, UserStop, StopStep, StartCleanup, LoadCatalog, MarkDone,
   CleanVm, CleanupEnds, WorkerStep, TakeVm, ClearVm, Launch, ReportDone, Die, GiveBack,
   EvalTakes, EvalLaunches, EvalGivesBack

\* ... and what it writes has been loaded in one step.
LEMMA CopyOrigin ==
  ASSUME TypeInv, [Next]_vars, NEW c \in Callers, InStep(c, "persist")'
  PROVE  call'[c] = call[c] \/ (call'[c].copy = verdict /\ LoadCatalog(c))
<1>t. call \in [Callers -> Calls]
  BY DEF TypeInv, TypeOK
<1>1. ASSUME NEW d \in Callers, StopStep(d) PROVE call'[c] = call[c] \/ LoadCatalog(c)
  <2>1. CASE d = c
    BY <1>t, <1>1, <2>1 DEF StopStep, StartCleanup, PersistVerdict, MarkDone, InStep, Idle
  <2>2. CASE d # c
    BY <1>t, <1>1, <2>2 DEF StopStep, StartCleanup, LoadCatalog, PersistVerdict, MarkDone
  <2> QED
    BY <2>1, <2>2
<1>2. ASSUME NEW b \in Batches, WatchStop(b) \/ WatchDone(b) PROVE call'[c] = call[c]
  <2>1. UNCHANGED call \/ \E v : call' = [call EXCEPT ![<<b, "loop">>] =
                                     [step |-> "cleanup", test |-> Current(b), to |-> v]]
    BY <1>2 DEF WatchStop, WatchDone
  <2>2. c # <<b, "loop">> \/ UNCHANGED call
    <3>1. ASSUME NEW v, c = <<b, "loop">>,
                 call' = [call EXCEPT ![c] = [step |-> "cleanup", test |-> Current(b), to |-> v]]
          PROVE  call'[c].step = "cleanup"
      BY <1>t, <3>1
    <3>2. call'[c].step = "persist"
      BY DEF InStep
    <3> QED
      BY <2>1, <3>1, <3>2
  <2> QED
    BY <1>t, <2>1, <2>2
<1>3. ASSUME NEW b \in Batches, StopActive(b) PROVE call'[c] = call[c]
  BY <1>t, <1>3 DEF StopActive, InStep
<1>4. ASSUME NEW b \in Batches, NEW j \in Items, NEW to \in UserVerdicts, UserStop(b, j, to)
      PROVE  call'[c] = call[c]
  BY <1>t, <1>4 DEF UserStop, InStep
<1>5. ASSUME \A b \in Batches : ~WatchStop(b) /\ ~WatchDone(b) /\ ~StopActive(b),
             \A b \in Batches, j \in Items, to \in UserVerdicts : ~UserStop(b, j, to),
             \A d \in Callers : ~StopStep(d)
      PROVE  UNCHANGED call
  BY <1>5 DEF Next, vars, Admit, StartBatch, LoopStep, LoopProceeds, LoopFails,
       NextItem, StartFails, StartRaises, SnapshotRaises,
     WatchStopFails, SeeNoTest,
     SeeNoSession, StartTest, WatchEnd, EndLoop, SkipItem, EndBatch, FlagStop,
     CleanVm, CleanupEnds, WorkerStep, TakeVm, ClearVm, Launch, ReportDone, Die, GiveBack,
     EvalTakes, EvalLaunches, EvalGivesBack
<1>6. LoadCatalog(c) => call'[c].copy = verdict
  BY <1>t DEF LoadCatalog
<1> QED
  BY <1>1, <1>2, <1>3, <1>4, <1>5, <1>6

LEMMA PassStep == TypeInv /\ CallInv /\ PassInv /\ [Next]_vars => PassInv'
<1> SUFFICES ASSUME TypeInv, CallInv, PassInv, [Next]_vars PROVE PassInv'
  OBVIOUS
<1>t. call \in [Callers -> Calls] /\ verdict \in [Items -> Verdicts]
  BY DEF TypeInv, TypeOK
<1>1. ASSUME NEW i \in Items, verdict'[i] = "ok" PROVE Passed(i)'
  <2>1. CASE verdict' = verdict
    BY <1>1, <2>1, PassedStays DEF PassInv, VerdictEarned
  <2>2. ASSUME NEW c \in Callers, PersistVerdict(c) PROVE Passed(i)
    <3>1. /\ InCall(c) /\ InStep(c, "persist")
          /\ call[c].test \in Tests /\ call[c].copy \in [Items -> Verdicts]
      BY <2>2, <1>t, CallShape DEF PersistVerdict, InStep, InCall
    <3>2. CASE verdict' = verdict
      BY <1>1, <3>2 DEF PassInv, VerdictEarned
    <3>3. CASE verdict' = [call[c].copy EXCEPT ![call[c].test[2]] = call[c].to]
      <4>1. CASE i = call[c].test[2]
        BY <1>1, <3>1, <3>3, <4>1 DEF PassInv
      <4>2. CASE i # call[c].test[2]
        BY <1>1, <3>1, <3>3, <4>2 DEF PassInv
      <4> QED
        BY <4>1, <4>2
    <3> QED
      BY <2>2, <3>2, <3>3 DEF PersistVerdict
  <2> QED
    BY <2>1, <2>2, VerdictOrigin, PassedStays
<1>2. ASSUME NEW c \in Callers, InCall(c)', call'[c].to = "ok" PROVE Passed(call[c].test[2])'
  <2>0. c[1] \in Batches /\ c = <<c[1], c[2]>>
    BY Pairs
  <2>1. CASE Continues(c)
    <3>1. call'[c].test = call[c].test /\ Passed(call[c].test[2]) /\ call[c].test[2] \in Items
      BY <1>2, <1>t, <2>1, CallShape, Pairs DEF Continues, PassInv, InCall
    <3>2. Passed(call[c].test[2])'
      BY <3>1, PassedStays DEF Passed
    <3> QED
      BY <3>2
  <2>2. ASSUME c[2] = "loop", WatchStop(c[1]), ~Continues(c) PROVE FALSE
    BY <1>2, <1>t, <2>0, <2>2 DEF WatchStop, Continues, InCall
  <2>3. ASSUME c[2] = "loop", WatchDone(c[1]), call'[c].test = Current(c[1]) PROVE Passed(call[c].test[2])'
    <3>1. PICK o \in Outcomes :
            /\ outcome' = [outcome EXCEPT ![c[1]] = o]
            /\ call'[c].to = VerdictFor[o]
      <4>1. PICK o \in Outcomes :
              /\ outcome' = [outcome EXCEPT ![c[1]] = o]
              /\ call' = [call EXCEPT ![c] =
                            [step |-> "cleanup", test |-> Current(c[1]), to |-> VerdictFor[o]]]
        BY <2>0, <2>3 DEF WatchDone
      <4>2. call'[c].to = VerdictFor[o]
        BY <1>t, <4>1
      <4> QED
        BY <4>1, <4>2
    <3>2. o = "passed"
      BY <1>2, <3>1 DEF VerdictFor, Outcomes
    <3>3. /\ loop'[c[1]] = "stopping" /\ item'[c[1]] = call'[c].test[2] /\ outcome'[c[1]] = "passed"
      BY <2>0, <2>3, <3>1, <3>2 DEF WatchDone, Goto, Current, TypeInv, TypeOK
    <3> QED
      BY <2>0, <3>3 DEF Passed
  <2>4. ASSUME NEW j \in Items, NEW to \in UserVerdicts, UserStop(c[1], j, to),
               call'[c].test = <<c[1], j>>, call'[c].to = to
        PROVE  Passed(call[c].test[2])'
    <3>1. [test |-> <<c[1], j>>, to |-> to] \in userStopped'
      BY <2>4 DEF UserStop
    <3> QED
      BY <1>2, <2>4, <3>1 DEF Passed
  <2>5. CASE Next
    BY <1>2, <2>1, <2>2, <2>3, <2>4, <2>5, CallOrigin
  <2>6. CASE UNCHANGED vars
    BY <1>2, <2>1, <2>6 DEF vars, Continues, InCall
  <2> QED
    BY <2>5, <2>6
<1>3. ASSUME NEW c \in Callers, InStep(c, "persist")', NEW i \in Items, call'[c].copy[i] = "ok"
      PROVE  Passed(i)'
  <2>1. CASE call'[c] = call[c]
    BY <1>3, <2>1, PassedStays DEF PassInv, InStep
  <2>2. CASE call'[c].copy = verdict
    BY <1>3, <2>2, PassedStays DEF PassInv, VerdictEarned
  <2> QED
    BY <1>3, <2>1, <2>2, CopyOrigin
<1>4. VerdictEarned'
  BY <1>1 DEF VerdictEarned
<1> QED
  BY <1>2, <1>3, <1>4 DEF PassInv

\* Nothing gets validated in the catalogue that neither a batch's test nor a user
\* has passed, whatever copies of the file are on their way (VerdictEarned).
THEOREM VerdictsEarned == Spec => []VerdictEarned
<1>1. Init => PassInv
  BY DEF Init, PassInv, VerdictEarned, InCall, InStep, Idle
<1>2. PassInv => VerdictEarned
  BY DEF PassInv
<1>3. CleanUps => CallInv
  BY DEF CleanUps
<1> QED
  BY <1>1, <1>2, <1>3, Types, CleanUpsHold, PassStep, PTL DEF Spec

-----------------------------------------------------------------------------
(* Verdicts of other items. *)

\* The batch works on test t, or has left it and starts no other.
LastTest(t) ==
  \/ t[2] = item[t[1]] /\ loop[t[1]] \in {"watching", "stopping", "dead"}
  \/ item[t[1]] = t[2] + 1 /\ loop[t[1]] \in {"next", "skipping", "over"}

\* What a stop request stops is the last test; and as long as users leave the tests
\* of the only batch alone, a loaded copy of the catalogue differs from the file in the
\* verdict that is about to be rewritten only.
KeptInv ==
  /\ \A c \in Callers : c[2] = "request" /\ InCall(c) => LastTest(call[c].test)
  /\ userStopped = {} =>
       \A c \in Callers : InStep(c, "persist") =>
         \A i \in Items \ {call[c].test[2]} : call[c].copy[i] = verdict[i]

OneBatch == \A a, b \in Batches : a = b

LEMMA LastStays ==
  ASSUME TypeInv, [Next]_vars, NEW t \in Tests, stopReq[t[1]], LastTest(t)
  PROVE  LastTest(t)'
<1>1. t[1] \in Batches /\ t[2] \in Nat
  BY Pairs DEF Items
<1>2. item[t[1]] \in Nat
  BY <1>1, NumItemsIsNat DEF TypeInv, TypeOK
<1>3. StartFails(t[1]) => loop[t[1]] \in {"starting", "listing", "preparing"}
  BY DEF StartFails
<1>4. WatchEnd(t[1]) => loop[t[1]] = "stopping"
  BY DEF WatchEnd
<1>5. CASE Stays(t[1])
  BY <1>5 DEF LastTest, Stays
<1>6. CASE Works(t[1])
  BY <1>6 DEF LastTest, Works
<1>7. CASE Leaves(t[1])
  <2>1. item'[t[1]] = item[t[1]] + 1 /\ loop'[t[1]] = "next" /\ loop[t[1]] = "stopping"
    BY <1>3, <1>4, <1>7 DEF LastTest, Leaves
  <2> QED
    BY <1>1, <1>2, <2>1 DEF LastTest
<1> QED
  BY <1>1, <1>5, <1>6, <1>7, Moves

LEMMA NobodyStays ==
  ASSUME [Next]_vars, userStopped' = {} PROVE userStopped = {}
<1>1. userStopped \subseteq userStopped'
  BY DEF Next, vars, stopVars, Admit, StartBatch, LoopStep, LoopProceeds, LoopFails,
       NextItem, StartFails, StartRaises, SnapshotRaises,
     WatchStopFails, SeeNoTest,
     SeeNoSession, StartTest, WatchStop, WatchDone, WatchEnd, EndLoop, SkipItem, EndBatch, FlagStop,
     StopActive, UserStop, StopStep, StartCleanup, LoadCatalog, PersistVerdict, MarkDone,
     CleanVm, CleanupEnds, WorkerStep, TakeVm, ClearVm, Launch, ReportDone, Die, GiveBack,
     EvalTakes, EvalLaunches, EvalGivesBack
<1> QED
  BY <1>1

\* Whoever stops a test of the only batch stops the same one.
LEMMA SameTest ==
  ASSUME TypeInv, CallInv, KeptInv, OneBatch, userStopped = {},
         NEW c \in Callers, NEW d \in Callers, InCall(c), InCall(d)
  PROVE  call[c].test[2] = call[d].test[2]
<1>1. /\ c[1] = d[1] /\ c[1] \in Batches /\ c[2] \in {"loop", "request", "user"}
      /\ d[2] \in {"loop", "request", "user"} /\ c = <<c[1], c[2]>> /\ d = <<d[1], d[2]>>
  BY Pairs DEF OneBatch
<1>2. c[2] # "user" /\ d[2] # "user"
  BY DEF CallInv, UserHas
<1>3. CASE c[2] = d[2]
  BY <1>1, <1>3
<1>4. ASSUME NEW x \in Callers, NEW y \in Callers, InCall(x), InCall(y), x[1] = y[1],
             x[2] = "loop", y[2] = "request"
      PROVE  call[x].test[2] = call[y].test[2]
  <2>1. loop[x[1]] = "stopping" /\ call[x].test[2] = item[x[1]]
    BY <1>4 DEF CallInv
  <2>2. LastTest(call[y].test) /\ call[y].test[1] = y[1]
    BY <1>4 DEF CallInv, KeptInv
  <2> QED
    BY <1>4, <2>1, <2>2 DEF LastTest
<1> QED
  BY <1>1, <1>2, <1>3, <1>4

\* What is written differs from the file in one verdict.
LEMMA OneVerdict ==
  ASSUME TypeInv, KeptInv, userStopped = {}, NEW d \in Callers, PersistVerdict(d)
  PROVE  /\ InStep(d, "persist") /\ InCall(d)
         /\ \A i \in Items \ {call[d].test[2]} : verdict'[i] = verdict[i]
<1>1. call \in [Callers -> Calls] /\ InStep(d, "persist") /\ InCall(d)
  BY DEF TypeInv, TypeOK, PersistVerdict, InStep, InCall
<1>2. call[d].copy \in [Items -> Verdicts]
  BY <1>1, CallShape DEF InStep
<1>3. ASSUME NEW i \in Items \ {call[d].test[2]} PROVE verdict'[i] = verdict[i]
  <2>1. call[d].copy[i] = verdict[i]
    BY <1>1 DEF KeptInv
  <2>2. verdict' = verdict \/ verdict' = [call[d].copy EXCEPT ![call[d].test[2]] = call[d].to]
    BY DEF PersistVerdict
  <2> QED
    BY <1>2, <2>1, <2>2
<1> QED
  BY <1>1, <1>3

LEMMA KeptStep ==
  ASSUME OneBatch PROVE TypeInv /\ CallInv /\ KeptInv /\ [Next]_vars => KeptInv'
<1> SUFFICES ASSUME TypeInv, CallInv, KeptInv, [Next]_vars PROVE KeptInv'
  OBVIOUS
<1>t. call \in [Callers -> Calls]
  BY DEF TypeInv, TypeOK
<1>1. ASSUME NEW c \in Callers, c[2] = "request", InCall(c)' PROVE LastTest(call[c].test)'
  <2>0. c[1] \in Batches
    BY Pairs
  <2>1. CASE Continues(c)
    <3>1. InCall(c) /\ call'[c].test = call[c].test /\ call[c].test \in Tests
      BY <1>t, <2>1, CallShape DEF Continues, InCall
    <3>2. LastTest(call[c].test) /\ stopReq[call[c].test[1]]
      BY <1>1, <3>1 DEF KeptInv, CallInv
    <3>3. PICK t \in Tests : t = call[c].test
      BY <3>1
    <3>4. LastTest(t)'
      BY <3>2, <3>3, LastStays
    <3> QED
      BY <3>1, <3>3, <3>4 DEF LastTest
  <2>2. CASE StopActive(c[1]) /\ HasActiveTest(c[1]) /\ call'[c].test = Current(c[1])
    <3>1. UNCHANGED <<loop, item>>
      BY <2>2 DEF StopActive, batchVars
    <3> QED
      BY <2>2, <3>1 DEF HasActiveTest, Current, LastTest
  <2>3. CASE Next
    BY <1>1, <2>1, <2>2, <2>3, CallOrigin
  <2>4. CASE UNCHANGED vars
    BY <1>1, <2>1, <2>4 DEF vars, Continues, InCall
  <2> QED
    BY <2>3, <2>4
<1>2. ASSUME userStopped' = {}, NEW c \in Callers, InStep(c, "persist")',
             NEW i \in Items \ {call'[c].test[2]}
      PROVE  call'[c].copy[i] = verdict'[i]
  <2>0. userStopped = {}
    BY <1>2, NobodyStays
  <2>1. CASE call'[c] = call[c]
    <3>1. InStep(c, "persist") /\ InCall(c) /\ call[c].copy[i] = verdict[i] /\ i # call[c].test[2]
      BY <1>2, <2>0, <2>1 DEF InStep, InCall, KeptInv
    <3>2. ASSUME NEW d \in Callers, PersistVerdict(d) PROVE verdict'[i] = verdict[i]
      <4>1. InCall(d) /\ \A j \in Items \ {call[d].test[2]} : verdict'[j] = verdict[j]
        BY <2>0, <3>2, OneVerdict
      <4>2. call[d].test[2] = call[c].test[2]
        BY <2>0, <3>1, <4>1, SameTest
      <4> QED
        BY <3>1, <4>1, <4>2
    <3>3. verdict'[i] = verdict[i]
      BY <3>2, VerdictOrigin
    <3> QED
      BY <2>1, <3>1, <3>3
  <2>2. CASE call'[c].copy = verdict /\ LoadCatalog(c)
    BY <2>2 DEF LoadCatalog
  <2> QED
    BY <1>2, <2>1, <2>2, CopyOrigin
<1> QED
  BY <1>1, <1>2 DEF KeptInv

\* As long as users leave the tests of a batch alone and there is no other batch, no
\* step changes the verdict of an item but that of the test being stopped, although the
\* batch's thread and its stop requests rewrite the catalogue from copies (VerdictsKept).
THEOREM VerdictsAreKept ==
  ASSUME OneBatch PROVE Spec => VerdictsKept
<1>1. Init => KeptInv
  BY DEF Init, KeptInv, InCall, InStep, Idle
<1>2. TypeInv /\ KeptInv /\ [Next]_vars =>
        [userStopped = {} =>
           \A i \in Items : verdict'[i] # verdict[i] =>
             \E c \in Callers : InStep(c, "persist") /\ call[c].test[2] = i]_vars
  <2> SUFFICES ASSUME TypeInv, KeptInv, [Next]_vars, userStopped = {},
                      NEW i \in Items, verdict'[i] # verdict[i]
               PROVE  \E c \in Callers : InStep(c, "persist") /\ call[c].test[2] = i
    OBVIOUS
  <2>1. PICK d \in Callers : PersistVerdict(d)
    BY VerdictOrigin
  <2> QED
    BY <2>1, OneVerdict
<1>3. CleanUps => CallInv
  BY DEF CleanUps
<1> QED
  BY <1>1, <1>2, <1>3, Types, CleanUpsHold, KeptStep, PTL DEF Spec, VerdictsKept
=============================================================================
