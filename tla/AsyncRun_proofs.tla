--------------------------- MODULE AsyncRun_proofs ---------------------------
(***************************************************************************)
(* Theorems about AsyncRun, for every set of runs, harnesses, VMs and      *)
(* status requests and every bound on restarts.                            *)
(***************************************************************************)
EXTENDS AsyncRun, TLAPS

\* Every variable keeps its type.
THEOREM TypeCorrect == Spec => []TypeOK
<1> USE RunsAreNotHarnesses, MaxRestartsIsNat DEF Users
<1>1. Init => TypeOK
  BY SMT DEF Init, TypeOK, Phases, Unlocked, OnVm, Closing, ExitCodes, ReturnCodes, PollerStates
<1>2. TypeOK /\ [Next]_vars => TypeOK'
  <2> SUFFICES ASSUME TypeOK, [Next]_vars PROVE TypeOK'
    OBVIOUS
  <2> USE DEF TypeOK, Phases, Unlocked, OnVm, Closing, ExitCodes, ReturnCodes,
              At, Goto, workerVars, metaVars, pollVars, vmVars
  <2>1. ASSUME NEW r \in Runs, LocalStep(r) \/ CliExits(r) PROVE TypeOK'
    <3>1. CASE Preflight(r)
      BY <3>1 DEF Preflight
    <3>2. CASE AcquireLock(r)
      BY <3>2 DEF AcquireLock
    <3>3. CASE LockTimeout(r)
      BY <3>3 DEF LockTimeout
    <3>4. CASE PushRepo(r)
      BY <3>4 DEF PushRepo
    <3>5. CASE OpenTunnel(r)
      BY <3>5 DEF OpenTunnel
    <3>6. CASE OpenSsh(r)
      BY <3>6 DEF OpenSsh
    <3>7. CASE PrepareDaemon(r)
      BY <3>7 DEF PrepareDaemon, MayClearSession
    <3>8. CASE InstallServices(r)
      BY <3>8 DEF InstallServices, MayClearSession
    <3>9. CASE KillSessions(r)
      BY <3>9 DEF KillSessions, MayClearSession
    <3>10. CASE CheckBlocking(r)
      BY <3>10 DEF CheckBlocking
    <3>11. CASE PrepareContext(r)
      <4>1. PICK next \in {"launch", "prepare_again", "fail_done"} : Goto(r, next)
        BY <3>11 DEF PrepareContext
      <4> QED
        BY <3>11, <4>1 DEF PrepareContext
    <3>12. CASE LaunchCli(r)
      BY <3>12 DEF LaunchCli
    <3>13. CASE CliExits(r)
      <4>1. worker' \in [Runs -> Phases]
        <5>1. Goto(r, "fin_rc") \/ Goto(r, "fail_done")
          BY <3>13, Zenon DEF CliExits
        <5> QED
          BY <5>1
      <4>2. exit' \in [Runs -> ExitCodes]
        BY <3>13 DEF CliExits
      <4>3. session' \in [Targets -> Users \cup {NoOne}]
        BY <3>13 DEF CliExits, MayClearSession
      <4> QED
        BY <3>13, <4>1, <4>2, <4>3 DEF CliExits
    <3>14. CASE FinishRc(r)
      BY <3>14 DEF FinishRc
    <3>15. CASE FinishCopy(r)
      BY <3>15 DEF FinishCopy
    <3>16. CASE FinishDone(r)
      BY <3>16 DEF FinishDone
    <3>17. CASE FailDone(r)
      BY <3>17 DEF FailDone
    <3>18. CASE FailRc(r)
      BY <3>18 DEF FailRc
    <3>19. CASE Raise(r)
      BY <3>19 DEF Raise
    <3>20. CASE Release(r)
      BY <3>20 DEF Release
    <3> QED
      BY <2>1, <3>1, <3>2, <3>3, <3>4, <3>5, <3>6, <3>7, <3>8, <3>9, <3>10, <3>11, <3>12, <3>13, <3>14, <3>15, <3>16, <3>17, <3>18, <3>19, <3>20 DEF LocalStep
  <2>2. ASSUME NEW r \in Runs, Submit(r) \/ CancelDone(r) \/ CancelRc(r) PROVE TypeOK'
    <3>1. CASE Submit(r)
      BY <3>1 DEF Submit
    <3>2. CASE CancelDone(r)
      BY <3>2 DEF CancelDone
    <3>3. CASE CancelRc(r)
      BY <3>3 DEF CancelRc
    <3> QED
      BY <2>2, <3>1, <3>2, <3>3
  <2>3. ASSUME NEW p \in Pollers, NEW r \in Runs, PollRead(p, r) PROVE TypeOK'
    BY <2>3 DEF PollRead, PollerStates
  <2>4. ASSUME NEW p \in Pollers,
               PollCheck(p) \/ PollAppend(p) \/ PollAppendFails(p) \/ PollFinish(p)
        PROVE  TypeOK'
    <3>a. poller \in [Pollers -> PollerStates]
      BY Zenon
    <3>0. poller[p] \in PollerStates
      BY <2>4, <3>a, Zenon
    <3>b. ASSUME NEW s \in PollerStates, poller' = [poller EXCEPT ![p] = s]
          PROVE  poller' \in [Pollers -> PollerStates]
      BY <3>a, <3>b
    <3>c. Idle \in PollerStates
      BY DEF PollerStates
    <3>d. ASSUME poller[p].pc # "idle", NEW pc \in {"finalizing", "appended"}
          PROVE  /\ poller[p].run \in Runs /\ poller[p].seen \in ReturnCodes
                 /\ [poller[p] EXCEPT !.pc = pc] \in PollerStates
      <4>1. poller[p] \in [pc : {"read", "finalizing", "appended"}, run : Runs, seen : ReturnCodes]
        BY <3>0, <3>d DEF PollerStates, Idle
      <4>2. [poller[p] EXCEPT !.pc = pc]
              \in [pc : {"read", "finalizing", "appended"}, run : Runs, seen : ReturnCodes]
        BY ONLY <4>1, pc \in {"finalizing", "appended"}
      <4> QED
        BY <4>1, <4>2 DEF PollerStates
    <3>1. CASE PollCheck(p)
      <4>1. \/ poller' = [poller EXCEPT ![p] = [poller[p] EXCEPT !.pc = "finalizing"]]
            \/ poller' = [poller EXCEPT ![p] = Idle]
        BY <3>1 DEF PollCheck
      <4>2. poller' \in [Pollers -> PollerStates]
        BY <3>1, <3>b, <3>c, <3>d, <4>1 DEF PollCheck
      <4> QED
        BY <3>1, <4>2 DEF PollCheck
    <3>2. CASE PollAppend(p)
      <4>1. history' \in [Runs -> Seq(ReturnCodes)]
        BY <3>2, <3>d DEF PollAppend, AppendHistory
      <4>2. poller' = [poller EXCEPT ![p] = [poller[p] EXCEPT !.pc = "appended"]]
        BY <3>2 DEF PollAppend
      <4>3. poller' \in [Pollers -> PollerStates]
        BY <3>2, <3>b, <3>d, <4>2 DEF PollAppend
      <4>4. UNCHANGED <<worker, workerVars, metaVars, vmVars, restarts>>
        BY <3>2 DEF PollAppend
      <4> QED
        BY <4>1, <4>3, <4>4
    <3>3. CASE PollAppendFails(p)
      BY <3>3, <3>b, <3>c DEF PollAppendFails
    <3>4. CASE PollFinish(p)
      <4>1. poller' \in [Pollers -> PollerStates]
        BY <3>4, <3>b, <3>c DEF PollFinish
      <4>2. historyAdded' \in [Runs -> BOOLEAN]
        BY <3>4 DEF PollFinish
      <4> QED
        BY <3>4, <4>1, <4>2 DEF PollFinish
    <3> QED
      BY <2>4, <3>1, <3>2, <3>3, <3>4
  <2>5. ASSUME NEW h \in Harnesses, NEW v \in Targets,
               HarnessAcquire(h, v) \/ HarnessUse(h, v) \/ HarnessRelease(h, v)
        PROVE  TypeOK'
    <3>1. CASE HarnessAcquire(h, v)
      BY <3>1 DEF HarnessAcquire
    <3>2. CASE HarnessUse(h, v)
      BY <3>2 DEF HarnessUse
    <3>3. CASE HarnessRelease(h, v)
      BY <3>3 DEF HarnessRelease
    <3> QED
      BY <2>5, <3>1, <3>2, <3>3
  <2>6. ASSUME Restart PROVE TypeOK'
    BY <2>6 DEF Restart, PollerStates
  <2>7. CASE UNCHANGED vars
    BY <2>7 DEF vars
  <2> QED
    BY <2>1, <2>2, <2>3, <2>4, <2>5, <2>6, <2>7 DEF Next, RequestStep, HarnessStep
<1> QED
  BY <1>1, <1>2, PTL DEF Spec

-----------------------------------------------------------------------------
(* The lock. *)

\* What every action of a thread but AcquireLock and Release does to the lock:
\* it keeps the handle and stays inside, or outside, the locked phases.
KeepsHandle(r) ==
  /\ UNCHANGED <<target, locked, lock>>
  /\ \E next \in Phases : Goto(r, next)
  /\ worker[r] # "ended"
  /\ worker[r] \in OnVm => worker'[r] \in OnVm \cup Closing
  /\ worker[r] \in Closing => worker'[r] \in Closing
  /\ worker[r] \in Unlocked => worker'[r] \in Unlocked \cup Closing

LEMMA QuietSteps ==
  ASSUME NEW r \in Runs, TypeOK, LocalStep(r) \/ CliExits(r),
         ~AcquireLock(r), ~Release(r)
  PROVE  KeepsHandle(r)
<1> USE DEF TypeOK, KeepsHandle, At, Goto, Phases, Unlocked, OnVm, Closing,
            workerVars, vmVars
<1>1. CASE Preflight(r)
  BY <1>1 DEF Preflight
<1>2. CASE LockTimeout(r)
  BY <1>2 DEF LockTimeout
<1>3. CASE PushRepo(r)
  BY <1>3 DEF PushRepo
<1>4. CASE OpenTunnel(r)
  BY <1>4 DEF OpenTunnel
<1>5. CASE OpenSsh(r)
  BY <1>5 DEF OpenSsh
<1>6. CASE PrepareDaemon(r)
  BY <1>6 DEF PrepareDaemon
<1>7. CASE InstallServices(r)
  BY <1>7 DEF InstallServices
<1>8. CASE KillSessions(r)
  BY <1>8 DEF KillSessions
<1>9. CASE CheckBlocking(r)
  BY <1>9 DEF CheckBlocking
<1>10. CASE PrepareContext(r)
  BY <1>10 DEF PrepareContext
<1>11. CASE LaunchCli(r)
  BY <1>11 DEF LaunchCli
<1>12. CASE CliExits(r)
  BY <1>12 DEF CliExits
<1>13. CASE FinishRc(r)
  BY <1>13 DEF FinishRc
<1>14. CASE FinishCopy(r)
  BY <1>14 DEF FinishCopy
<1>15. CASE FinishDone(r)
  BY <1>15 DEF FinishDone
<1>16. CASE FailDone(r)
  BY <1>16 DEF FailDone
<1>17. CASE FailRc(r)
  BY <1>17 DEF FailRc
<1>18. CASE Raise(r)
  BY <1>18 DEF Raise
<1> QED
  BY <1>1, <1>2, <1>3, <1>4, <1>5, <1>6, <1>7, <1>8, <1>9, <1>10, <1>11, <1>12, <1>13, <1>14, <1>15, <1>16, <1>17, <1>18 DEF LocalStep

\* No thread is on a VM without the lock, and no lock outlives its thread.
THEOREM LockSafety == Spec => []LockMatchesWorker
<1> USE RunsAreNotHarnesses DEF LockMatchesWorker, HandleWhileOnVm, HolderHasHandle
<1>1. Init => LockMatchesWorker
  BY DEF Init, OnVm
<1>2. TypeOK /\ LockMatchesWorker /\ [Next]_vars => LockMatchesWorker'
  <2> SUFFICES ASSUME TypeOK, LockMatchesWorker, [Next]_vars PROVE LockMatchesWorker'
    OBVIOUS
  <2>1. ASSUME NEW r \in Runs, LocalStep(r) \/ CliExits(r) PROVE LockMatchesWorker'
    <3>1. CASE AcquireLock(r)
      BY <3>1 DEF AcquireLock, TypeOK, At, Goto, OnVm, Closing
    <3>2. CASE Release(r)
      BY <3>2 DEF Release, TypeOK, At, Goto, OnVm, Closing
    <3>3. CASE ~AcquireLock(r) /\ ~Release(r)
      <4>1. KeepsHandle(r)
        BY <2>1, <3>3, QuietSteps
      <4>2. HolderHasHandle'
        BY <4>1 DEF KeepsHandle
      <4>3. ASSUME NEW q \in Runs
            PROVE  /\ worker'[q] \in OnVm => locked'[q]
                   /\ locked'[q] => worker'[q] \in OnVm \cup Closing
        <5>1. CASE q = r
          <6>1. locked'[r] = locked[r]
            BY <4>1 DEF KeepsHandle
          <6>2. CASE worker[r] \in Unlocked
            <7>1. ~locked[r]
              BY <6>2 DEF Unlocked, OnVm, Closing
            <7>2. worker'[r] \notin OnVm
              BY <4>1, <6>2 DEF KeepsHandle, Unlocked, OnVm, Closing
            <7> QED
              BY <5>1, <6>1, <7>1, <7>2
          <6>3. CASE worker[r] \in OnVm
            BY <4>1, <5>1, <6>1, <6>3 DEF KeepsHandle
          <6>4. CASE worker[r] \in Closing
            <7>1. worker'[r] \in Closing
              BY <4>1, <6>4 DEF KeepsHandle
            <7>2. worker'[r] \notin OnVm
              BY <7>1 DEF OnVm, Closing
            <7> QED
              BY <5>1, <7>1, <7>2
          <6> QED
            BY <4>1, <6>2, <6>3, <6>4 DEF KeepsHandle, TypeOK, Phases
        <5>2. CASE q # r
          BY <4>1, <5>2 DEF KeepsHandle, TypeOK, Goto
        <5> QED
          BY <5>1, <5>2
      <4> QED
        BY <4>2, <4>3
    <3> QED
      BY <3>1, <3>2, <3>3
  <2>2. ASSUME NEW r \in Runs, Submit(r) PROVE LockMatchesWorker'
    BY <2>2 DEF Submit, TypeOK, At, Goto, OnVm, Closing, workerVars, vmVars
  <2>3. ASSUME RequestStep, UNCHANGED worker PROVE LockMatchesWorker'
    BY <2>3 DEF RequestStep, CancelDone, CancelRc, PollRead, PollCheck, PollAppend,
                PollAppendFails, PollFinish, Submit, workerVars, vmVars
  <2>4. ASSUME HarnessStep PROVE LockMatchesWorker'
    BY <2>4 DEF HarnessStep, HarnessAcquire, HarnessUse, HarnessRelease, TypeOK, workerVars
  <2>5. ASSUME Restart PROVE LockMatchesWorker'
    BY <2>5 DEF Restart, TypeOK, OnVm, Closing
  <2>6. CASE UNCHANGED vars
    BY <2>6 DEF vars, workerVars, vmVars
  <2>7. ASSUME RequestStep PROVE (\E r \in Runs : Submit(r)) \/ UNCHANGED worker
    BY <2>7 DEF RequestStep, CancelDone, CancelRc, PollRead, PollCheck, PollAppend,
                PollAppendFails, PollFinish
  <2> QED
    BY <2>1, <2>2, <2>3, <2>4, <2>5, <2>6, <2>7 DEF Next
<1> QED
  BY <1>1, <1>2, TypeCorrect, PTL DEF Spec
-----------------------------------------------------------------------------
(* The CORE session, and the abstract lock. *)

\* A step of a thread leaves the session of every VM alone, or it is a step
\* from a locked phase that touches the session of the thread's own VM only.
LEMMA SessionSteps ==
  ASSUME NEW r \in Runs, TypeOK, LocalStep(r) \/ CliExits(r)
  PROVE  \/ UNCHANGED session
         \/ /\ worker[r] \in OnVm /\ worker'[r] # worker[r]
            /\ UNCHANGED lock
            /\ \E s \in {NoOne, session[target[r]], r} :
                 session' = [session EXCEPT ![target[r]] = s]
<1> USE DEF TypeOK, At, Goto, OnVm, MayClearSession
<1>1. CASE PrepareDaemon(r)
  BY <1>1 DEF PrepareDaemon
<1>2. CASE InstallServices(r)
  BY <1>2 DEF InstallServices
<1>3. CASE KillSessions(r)
  BY <1>3 DEF KillSessions
<1>4. CASE LaunchCli(r)
  BY <1>4 DEF LaunchCli
<1>5. CASE CliExits(r)
  BY <1>5 DEF CliExits
<1>6. ASSUME \/ Preflight(r) \/ AcquireLock(r) \/ LockTimeout(r) \/ PushRepo(r)
             \/ OpenTunnel(r) \/ OpenSsh(r) \/ CheckBlocking(r) \/ PrepareContext(r)
             \/ FinishRc(r) \/ FinishCopy(r) \/ FinishDone(r)
             \/ FailDone(r) \/ FailRc(r) \/ Raise(r) \/ Release(r)
      PROVE  UNCHANGED session
  BY <1>6 DEF vmVars, Preflight, AcquireLock, LockTimeout, PushRepo, OpenTunnel, OpenSsh,
              CheckBlocking, PrepareContext, FinishRc, FinishCopy, FinishDone,
              FailDone, FailRc, Raise, Release
<1> QED
  BY <1>1, <1>2, <1>3, <1>4, <1>5, <1>6 DEF LocalStep

\* Requests of the web UI never reach the VM or its lock.
LEMMA RequestsSpareVm ==
  ASSUME RequestStep
  PROVE  UNCHANGED <<lock, session>>
BY DEF RequestStep, Submit, CancelDone, CancelRc, PollRead, PollCheck, PollAppend,
       PollAppendFails, PollFinish, vmVars

\* Whatever happens to a CORE session is done by the holder of the lock.
THEOREM SessionSafety == Spec => SessionNotPulled
<1> DEFINE Pulled(v) ==
      session'[v] # session[v] =>
        /\ lock[v] # NoOne
        /\ session'[v] \in {NoOne, lock[v]}
        /\ lock[v] \in Runs => worker'[lock[v]] # worker[lock[v]]
        /\ lock[v] \in Harnesses => UNCHANGED worker
<1>1. ASSUME TypeOK, LockMatchesWorker, [Next]_vars, NEW v \in Targets
      PROVE  Pulled(v)
  <2> USE RunsAreNotHarnesses
  <2>1. ASSUME NEW r \in Runs, LocalStep(r) \/ CliExits(r) PROVE Pulled(v)
    <3>1. CASE UNCHANGED session
      BY <3>1
    <3>2. CASE worker[r] \in OnVm /\ worker'[r] # worker[r]
               /\ \E s \in {NoOne, session[target[r]], r} :
                    session' = [session EXCEPT ![target[r]] = s]
      <4>1. lock[target[r]] = r
        BY <1>1, <3>2 DEF LockMatchesWorker, HandleWhileOnVm, HolderHasHandle, TypeOK
      <4>2. CASE v = target[r]
        BY <1>1, <3>2, <4>1, <4>2 DEF TypeOK
      <4>3. CASE v # target[r]
        BY <1>1, <3>2, <4>3 DEF TypeOK
      <4> QED
        BY <4>2, <4>3
    <3> QED
      BY <1>1, <2>1, <3>1, <3>2, SessionSteps
  <2>2. ASSUME RequestStep PROVE Pulled(v)
    BY <2>2, RequestsSpareVm
  <2>3. ASSUME HarnessStep PROVE Pulled(v)
    BY <1>1, <2>3 DEF HarnessStep, HarnessAcquire, HarnessUse, HarnessRelease, TypeOK
  <2>4. ASSUME Restart PROVE Pulled(v)
    BY <2>4 DEF Restart
  <2>5. CASE UNCHANGED vars
    BY <2>5 DEF vars, vmVars
  <2> QED
    BY <1>1, <2>1, <2>2, <2>3, <2>4, <2>5 DEF Next
<1>2. TypeOK /\ LockMatchesWorker /\ [Next]_vars
        => [\A v \in Targets : Pulled(v)]_vars
  BY <1>1
<1> QED
  BY <1>2, TypeCorrect, LockSafety, PTL DEF Spec, SessionNotPulled

\* AsyncRun implements the abstract lock: the holder of the flock is the owner
\* of the VM, and every step takes, uses or frees VMs as VmLock allows.
THEOREM Refinement == Spec => ImplementsVmLock
<1> USE RunsAreNotHarnesses
<1>1. Init => Vm!LockInit
  BY DEF Init, Vm!LockInit
<1>2. ASSUME TypeOK, LockMatchesWorker, [Next]_vars
      PROVE  [Vm!LockNext]_(Vm!lockVars)
  <2>1. ASSUME NEW r \in Runs, LocalStep(r) \/ CliExits(r)
        PROVE  Vm!LockNext \/ UNCHANGED <<lock, session>>
    <3> target[r] \in Targets /\ r \in Users
      BY <1>2 DEF TypeOK, Users
    <3>1. CASE AcquireLock(r)
      <4>1. Vm!Take(r, target[r])
        BY <3>1 DEF AcquireLock, Vm!Take
      <4> QED
        BY <4>1 DEF Vm!LockNext
    <3>2. CASE Release(r)
      <4>1. CASE locked[r]
        <5>1. Vm!Free({target[r]})
          BY <1>2, <3>2, <4>1 DEF Release, Vm!Free, TypeOK
        <5> QED
          BY <5>1 DEF Vm!LockNext
      <4>2. CASE ~locked[r]
        BY <3>2, <4>2 DEF Release
      <4> QED
        BY <4>1, <4>2
    <3>3. CASE ~AcquireLock(r) /\ ~Release(r)
      <4>1. UNCHANGED lock
        BY <1>2, <2>1, <3>3, QuietSteps DEF KeepsHandle
      <4>2. CASE worker[r] \in OnVm
                 /\ \E s \in {NoOne, session[target[r]], r} :
                      session' = [session EXCEPT ![target[r]] = s]
        <5>1. lock[target[r]] = r
          BY <1>2, <4>2 DEF LockMatchesWorker, HandleWhileOnVm, HolderHasHandle
        <5>2. PICK s \in {NoOne, session[target[r]], r} :
                session' = [session EXCEPT ![target[r]] = s]
          BY <4>2
        <5>3. CASE s = session[target[r]]
          BY <1>2, <4>1, <5>2, <5>3 DEF TypeOK
        <5>4. CASE s \in {NoOne, r}
          <6>1. Vm!Use(target[r])
            BY <4>1, <5>1, <5>2, <5>4 DEF Vm!Use
          <6> QED
            BY <6>1 DEF Vm!LockNext
        <5> QED
          BY <5>3, <5>4
      <4> QED
        BY <1>2, <2>1, <4>1, <4>2, SessionSteps
    <3> QED
      BY <3>1, <3>2, <3>3
  <2>2. ASSUME NEW h \in Harnesses, NEW v \in Targets, HarnessAcquire(h, v)
        PROVE  Vm!LockNext
    <3>1. h \in Users /\ Vm!Take(h, v)
      BY <2>2 DEF HarnessAcquire, Vm!Take, Users
    <3> QED
      BY <3>1 DEF Vm!LockNext
  <2>3. ASSUME NEW h \in Harnesses, NEW v \in Targets, HarnessUse(h, v)
        PROVE  Vm!LockNext
    <3>1. Vm!Use(v)
      BY <2>3 DEF HarnessUse, Vm!Use, Users
    <3> QED
      BY <3>1 DEF Vm!LockNext
  <2>4. ASSUME NEW h \in Harnesses, NEW v \in Targets, HarnessRelease(h, v)
        PROVE  Vm!LockNext
    <3>1. Vm!Free({v})
      BY <1>2, <2>4 DEF HarnessRelease, Vm!Free, TypeOK
    <3> QED
      BY <3>1 DEF Vm!LockNext
  <2>5. ASSUME Restart PROVE Vm!LockNext
    <3>1. Vm!Free({v \in Targets : lock[v] \in Runs})
      BY <1>2, <2>5 DEF Restart, Vm!Free, TypeOK
    <3> QED
      BY <3>1 DEF Vm!LockNext
  <2>6. CASE UNCHANGED vars
    BY <2>6 DEF vars, vmVars, Vm!lockVars
  <2> QED
    BY <1>2, <2>1, <2>2, <2>3, <2>4, <2>5, <2>6, RequestsSpareVm
       DEF Next, HarnessStep, Vm!lockVars
<1> QED
  BY <1>1, <1>2, TypeCorrect, LockSafety, PTL DEF Spec, ImplementsVmLock, Vm!LockSpec
-----------------------------------------------------------------------------
(* The run history. *)

\* What the phase of an uncancelled run's thread says about its RUNS entry.
Outcome(r) ==
  cancel[r] = "no" =>
    /\ worker[r] \in Unlocked \cup OnVm \cup {"fin_rc", "fail_done"}
         => ~done[r] /\ rc[r] = "none"
    /\ worker[r] \in {"fin_copy", "fin_done"} => ~done[r]
    /\ worker[r] = "fail_rc" => rc[r] = "none"

\* A return code that a status request has read is still the one in RUNS, and
\* past the check the run is over.
ReadsStand(p) ==
  poller[p].pc # "idle" /\ cancel[poller[p].run] = "no" =>
    /\ poller[p].seen # "none" => rc[poller[p].run] = poller[p].seen
    /\ poller[p].pc # "read" => done[poller[p].run] /\ poller[p].seen # "none"

\* HistoryTruthful, with the return code known to be final.
Recorded(r) ==
  history[r] # << >> /\ cancel[r] = "no" =>
    done[r] /\ rc[r] # "none" /\ history[r] = <<rc[r]>>

HistoryInv ==
  /\ \A r \in Runs : Outcome(r) /\ Recorded(r)
  /\ \A p \in Pollers : ReadsStand(p)

\* An outcome that is complete, done and returncode both set, is final.
LEMMA OutcomeFinal ==
  ASSUME TypeOK, [Next]_vars, NEW r \in Runs, Outcome(r)
  PROVE  /\ cancel'[r] = "no" => cancel[r] = "no" /\ Outcome(r)'
         /\ cancel'[r] = "no" /\ rc[r] # "none" => rc'[r] = rc[r]
         /\ cancel'[r] = "no" /\ done[r] => done'[r]
<1> DEFINE Goal ==
      /\ cancel'[r] = "no" => cancel[r] = "no" /\ Outcome(r)'
      /\ cancel'[r] = "no" /\ rc[r] # "none" => rc'[r] = rc[r]
      /\ cancel'[r] = "no" /\ done[r] => done'[r]
<1> SUFFICES Goal
  OBVIOUS
<1> USE DEF Outcome
<1>1. ASSUME NEW q \in Runs, LocalStep(q) \/ CliExits(q), q # r PROVE Goal
  <2>1. /\ worker'[r] = worker[r] /\ done'[r] = done[r]
        /\ rc'[r] = rc[r] /\ UNCHANGED cancel
    BY <1>1 DEF TypeOK, LocalStep, Goto, metaVars, Preflight, AcquireLock, LockTimeout,
                PushRepo, OpenTunnel, OpenSsh, PrepareDaemon, InstallServices,
                KillSessions, CheckBlocking, PrepareContext, LaunchCli, CliExits,
                FinishRc, FinishCopy, FinishDone, FailDone, FailRc, Raise, Release
  <2> QED
    BY <2>1
<1>2. ASSUME LocalStep(r) \/ CliExits(r) PROVE Goal
  <2> USE DEF TypeOK, At, Goto, Unlocked, OnVm, ExitCodes
  <2>1. CASE FinishRc(r)
    BY <2>1 DEF FinishRc
  <2>2. CASE FinishDone(r)
    BY <2>2 DEF FinishDone
  <2>3. CASE FailDone(r)
    BY <2>3 DEF FailDone
  <2>4. CASE FailRc(r)
    BY <2>4 DEF FailRc
  <2>5. CASE FinishCopy(r)
    BY <2>5 DEF FinishCopy, metaVars
  <2>6. CASE Raise(r) \/ Release(r)
    BY <2>6 DEF Raise, Release, metaVars
  <2>7. CASE Preflight(r) \/ AcquireLock(r) \/ LockTimeout(r) \/ PushRepo(r)
             \/ OpenTunnel(r) \/ OpenSsh(r)
    BY <2>7 DEF Preflight, AcquireLock, LockTimeout, PushRepo, OpenTunnel, OpenSsh, metaVars
  <2>8. CASE \/ PrepareDaemon(r) \/ InstallServices(r) \/ KillSessions(r)
             \/ CheckBlocking(r) \/ LaunchCli(r)
    BY <2>8 DEF PrepareDaemon, InstallServices, KillSessions, CheckBlocking, LaunchCli, metaVars
  <2>9. CASE PrepareContext(r)
    BY <2>9 DEF PrepareContext, metaVars
  <2>10. CASE CliExits(r)
    BY <2>10 DEF CliExits, metaVars
  <2> QED
    BY <1>2, <2>1, <2>2, <2>3, <2>4, <2>5, <2>6, <2>7, <2>8, <2>9, <2>10 DEF LocalStep
<1>3. ASSUME NEW q \in Runs, Submit(q) PROVE Goal
  BY <1>3 DEF Submit, TypeOK, At, Goto, Unlocked, OnVm
<1>4. ASSUME NEW q \in Runs, CancelDone(q) \/ CancelRc(q) PROVE Goal
  BY <1>4 DEF CancelDone, CancelRc, TypeOK
<1>5. ASSUME NEW p \in Pollers, NEW q \in Runs,
             \/ PollRead(p, q) \/ PollCheck(p) \/ PollAppend(p)
             \/ PollAppendFails(p) \/ PollFinish(p)
      PROVE  Goal
  BY <1>5 DEF PollRead, PollCheck, PollAppend, AppendHistory, PollAppendFails, PollFinish, metaVars
<1>6. ASSUME HarnessStep PROVE Goal
  BY <1>6 DEF HarnessStep, HarnessAcquire, HarnessUse, HarnessRelease, metaVars
<1>7. ASSUME Restart PROVE Goal
  BY <1>7 DEF Restart, TypeOK, Unlocked, OnVm
<1>8. CASE UNCHANGED vars
  BY <1>8 DEF vars, metaVars
<1> QED
  BY <1>1, <1>2, <1>3, <1>4, <1>5, <1>6, <1>7, <1>8 DEF Next, RequestStep
\* Only status requests write the history and their own state.
LEMMA OthersSparePollers ==
  ASSUME NEW r \in Runs,
         LocalStep(r) \/ CliExits(r) \/ Submit(r) \/ CancelDone(r) \/ CancelRc(r)
  PROVE  UNCHANGED <<poller, history>>
<1>1. CASE LocalStep(r)
  BY <1>1 DEF LocalStep, pollVars, Preflight, AcquireLock, LockTimeout, PushRepo,
              OpenTunnel, OpenSsh, PrepareDaemon, InstallServices, KillSessions,
              CheckBlocking, PrepareContext, LaunchCli, FinishRc, FinishCopy,
              FinishDone, FailDone, FailRc, Raise, Release
<1>2. CASE CliExits(r) \/ Submit(r) \/ CancelDone(r) \/ CancelRc(r)
  BY <1>2 DEF pollVars, CliExits, Submit, CancelDone, CancelRc
<1> QED
  BY <1>1, <1>2

\* A run has at most one history entry, and it is the run's final outcome.
THEOREM HistoryCorrect == Spec => [](OneHistoryEntry /\ HistoryTruthful)
<1> DEFINE IInv == HistoryInv /\ OneHistoryEntry
<1>1. Init => IInv
  BY DEF Init, HistoryInv, Outcome, Recorded, ReadsStand, OneHistoryEntry, Idle
<1>2. TypeOK /\ IInv /\ [Next]_vars => IInv'
  <2> SUFFICES ASSUME TypeOK, IInv, [Next]_vars PROVE IInv'
    OBVIOUS
  <2>1. ASSUME NEW r \in Runs
        PROVE  /\ cancel'[r] = "no" => cancel[r] = "no" /\ Outcome(r)'
               /\ cancel'[r] = "no" /\ rc[r] # "none" => rc'[r] = rc[r]
               /\ cancel'[r] = "no" /\ done[r] => done'[r]
    BY OutcomeFinal DEF HistoryInv
  <2>2. \A r \in Runs : Outcome(r)'
    BY <2>1 DEF Outcome
  <2>3. ASSUME NEW p \in Pollers, poller'[p] = poller[p] PROVE ReadsStand(p)'
    <3>1. CASE poller[p].pc = "idle"
      BY <2>3, <3>1 DEF ReadsStand
    <3>2. CASE poller[p].pc # "idle"
      <4>1. poller[p].run \in Runs
        BY <3>2 DEF TypeOK, PollerStates, Idle
      <4> QED
        BY <2>1, <2>3, <4>1 DEF ReadsStand, HistoryInv
    <3> QED
      BY <3>1, <3>2
  <2>4. ASSUME NEW r \in Runs, history'[r] = history[r]
        PROVE  Recorded(r)' /\ Len(history'[r]) <= 1
    BY <2>1, <2>4 DEF Recorded, HistoryInv, OneHistoryEntry
  <2>5. CASE UNCHANGED <<poller, history>>
    BY <2>2, <2>3, <2>4, <2>5 DEF HistoryInv, OneHistoryEntry
  <2>6. ASSUME NEW p \in Pollers, NEW r \in Runs, PollRead(p, r) PROVE IInv'
    <3>1. ReadsStand(p)'
      BY <2>6 DEF PollRead, ReadsStand, TypeOK, metaVars
    <3>2. \A q \in Pollers : ReadsStand(q)'
      BY <2>3, <2>6, <3>1 DEF PollRead, TypeOK
    <3>3. UNCHANGED history
      BY <2>6 DEF PollRead
    <3> QED
      BY <2>2, <2>4, <3>2, <3>3 DEF HistoryInv, OneHistoryEntry
  <2>7. ASSUME NEW p \in Pollers, PollCheck(p) PROVE IInv'
    <3>1. UNCHANGED <<cancel, done, rc, history>>
      BY <2>7 DEF PollCheck, metaVars
    <3>2. ReadsStand(p)'
      <4>1. poller[p] \in [pc : {"read"}, run : Runs, seen : ReturnCodes]
        BY <2>7 DEF PollCheck, TypeOK, PollerStates, Idle
      <4>2. \/ poller'[p] = Idle
            \/ /\ poller'[p] = [poller[p] EXCEPT !.pc = "finalizing"]
               /\ done[poller[p].run] /\ poller[p].seen # "none"
        BY <2>7 DEF PollCheck, TypeOK
      <4>3. CASE poller'[p] = Idle
        BY <4>3 DEF ReadsStand, Idle
      <4>4. CASE /\ poller'[p] = [poller[p] EXCEPT !.pc = "finalizing"]
                 /\ done[poller[p].run] /\ poller[p].seen # "none"
        <5>1. /\ poller'[p].pc = "finalizing" /\ poller'[p].run = poller[p].run
              /\ poller'[p].seen = poller[p].seen
          BY <4>1, <4>4
        <5> QED
          BY <3>1, <4>1, <4>4, <5>1 DEF ReadsStand, HistoryInv
      <4> QED
        BY <4>2, <4>3, <4>4
    <3>3. \A q \in Pollers : ReadsStand(q)'
      BY <2>3, <2>7, <3>2 DEF PollCheck, TypeOK
    <3> QED
      BY <2>2, <2>4, <3>1, <3>3 DEF HistoryInv, OneHistoryEntry
  <2>8. ASSUME NEW p \in Pollers, PollAppend(p) PROVE IInv'
    <3>1. UNCHANGED <<cancel, done, rc>>
      BY <2>8 DEF PollAppend, metaVars
    <3>2. poller[p] \in [pc : {"finalizing"}, run : Runs, seen : ReturnCodes]
      BY <2>8 DEF PollAppend, TypeOK, PollerStates, Idle
    <3>3. ReadsStand(p)'
      <4>1. poller'[p] = [poller[p] EXCEPT !.pc = "appended"]
        BY <2>8 DEF PollAppend, AppendHistory, TypeOK
      <4>2. /\ poller'[p].pc = "appended" /\ poller'[p].run = poller[p].run
            /\ poller'[p].seen = poller[p].seen
        BY <3>2, <4>1
      <4> QED
        BY <3>1, <3>2, <4>2 DEF ReadsStand, HistoryInv
    <3>4. \A q \in Pollers : ReadsStand(q)'
      BY <2>3, <2>8, <3>3 DEF PollAppend, AppendHistory, TypeOK
    <3>5. ASSUME NEW r \in Runs PROVE Recorded(r)' /\ Len(history'[r]) <= 1
      <4>1. CASE history'[r] = history[r]
        BY <2>4, <4>1
      <4>2. CASE history'[r] # history[r]
        <5>1. r = poller[p].run /\ history[r] = << >>
              /\ history'[r] = Append(history[r], poller[p].seen)
          BY <2>8, <3>2, <4>2 DEF PollAppend, AppendHistory, TypeOK
        <5>2. history'[r] = <<poller[p].seen>>
          BY <5>1
        <5>3. cancel[r] = "no" => done[r] /\ poller[p].seen # "none" /\ rc[r] = poller[p].seen
          BY <3>2, <5>1 DEF ReadsStand, HistoryInv
        <5> QED
          BY <3>1, <5>2, <5>3 DEF Recorded
      <4> QED
        BY <4>1, <4>2
    <3> QED
      BY <2>2, <3>4, <3>5 DEF HistoryInv, OneHistoryEntry
  <2>9. ASSUME NEW p \in Pollers, PollAppendFails(p) \/ PollFinish(p) PROVE IInv'
    <3>1. /\ poller' = [poller EXCEPT ![p] = Idle]
          /\ UNCHANGED history
      BY <2>9 DEF PollAppendFails, PollFinish
    <3>2. ReadsStand(p)'
      BY <3>1 DEF ReadsStand, TypeOK, Idle
    <3>3. \A q \in Pollers : ReadsStand(q)'
      BY <2>3, <3>1, <3>2 DEF TypeOK
    <3> QED
      BY <2>2, <2>4, <3>1, <3>3 DEF HistoryInv, OneHistoryEntry
  <2>10. ASSUME HarnessStep PROVE UNCHANGED <<poller, history>>
    BY <2>10 DEF HarnessStep, HarnessAcquire, HarnessUse, HarnessRelease, pollVars
  <2>11. ASSUME Restart PROVE IInv'
    <3>1. \A p \in Pollers : ReadsStand(p)'
      BY <2>11 DEF Restart, ReadsStand, Idle
    <3>2. UNCHANGED history
      BY <2>11 DEF Restart
    <3> QED
      BY <2>2, <2>4, <3>1, <3>2 DEF HistoryInv, OneHistoryEntry
  <2>12. CASE UNCHANGED vars
    BY <2>5, <2>12 DEF vars, pollVars
  <2> QED
    BY <2>5, <2>6, <2>7, <2>8, <2>9, <2>10, <2>11, <2>12, OthersSparePollers
       DEF Next, RequestStep
<1>3. IInv => OneHistoryEntry /\ HistoryTruthful
  BY DEF HistoryInv, Recorded, HistoryTruthful
<1> QED
  BY <1>1, <1>2, <1>3, TypeCorrect, PTL DEF Spec
=============================================================================
