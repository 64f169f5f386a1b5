--------------------------- MODULE EvalArtifacts ---------------------------
(***************************************************************************)
(* The evaluation package of a run is built in the background.  Every      *)
(* status request that finalises the run (AsyncRun!PollAppend) calls       *)
(* schedule(); the first call writes status.json and starts a builder      *)
(* thread.  The reports page polls status(), which combines status.json    *)
(* with the in-memory set of active builders to tell a build that is under *)
(* way from one that a restart of the web process interrupted.             *)
(***************************************************************************)
EXTENDS Naturals

CONSTANTS
  Runs,        \* run ids
  Schedulers,  \* threads finalising a run
  Readers,     \* status requests of the reports page
  Nobody,      \* no run, no holder of the lock
  MaxRestarts  \* bound: how often the web process is restarted

ASSUME NobodyIsNobody == Nobody \notin Runs \cup Schedulers
ASSUME MaxRestartsIsNat == MaxRestarts \in Nat

VARIABLES
  file,      \* file[r]: status.json of r
  active,    \* the set self.active
  mutex,     \* holder of self.lock across the steps of schedule()
  at,        \* at[s]: where thread s is in schedule()
  run,       \* run[s]: the run it was called for
  building,  \* building[r]: builder threads of r at work
  leaving,   \* leaving[r]: builder threads of r about to leave self.active
  polled,    \* polled[q]: the run reader q asks for, between its two reads
  answer,    \* answer[q]: what status() last returned to q
  restarts

schedVars == <<at, run>>
buildVars == <<building, leaving>>
readVars == <<polled, answer>>
vars == <<file, active, mutex, schedVars, buildVars, readVars, restarts>>

\* "complete" and "error" are final; "interrupted" is an answer of status(),
\* never written to the file.
Final == {"complete", "error"}
FileStates == {"missing", "preparing"} \cup Final
Answers == FileStates \cup {"interrupted"}
Places == {"out", "enter", "write", "start", "undo", "report"}

TypeOK ==
  /\ file \in [Runs -> FileStates]
  /\ active \subseteq Runs
  /\ mutex \in Schedulers \cup {Nobody}
  /\ at \in [Schedulers -> Places]
  /\ run \in [Schedulers -> Runs \cup {Nobody}]
  /\ \A s \in Schedulers : at[s] # "out" => run[s] \in Runs
  /\ building \in [Runs -> Nat]
  /\ leaving \in [Runs -> Nat]
  /\ polled \in [Readers -> Runs \cup {Nobody}]
  /\ answer \in [Readers -> Answers]
  /\ restarts \in 0 .. MaxRestarts

Init ==
  /\ file = [r \in Runs |-> "missing"]
  /\ active = {}
  /\ mutex = Nobody
  /\ at = [s \in Schedulers |-> "out"]
  /\ run = [s \in Schedulers |-> Nobody]
  /\ building = [r \in Runs |-> 0]
  /\ leaving = [r \in Runs |-> 0]
  /\ polled = [q \in Readers |-> Nobody]
  /\ answer = [q \in Readers |-> "missing"]
  /\ restarts = 0

Move(s, from, to) == at[s] = from /\ at' = [at EXCEPT ![s] = to]

-----------------------------------------------------------------------------
(* Faulty variants of the actions below, each with a bug the code could have;   *)
(* they take no part in Spec.  PROJECT.json names the property each one breaks. *)

\* schedule() does not take the lock.
EnterUnlocked(s) ==
  /\ at[s] = "enter"
  /\ \/ /\ file[run[s]] # "missing"
        /\ Move(s, "enter", "out")
        /\ UNCHANGED active
     \/ /\ file[run[s]] = "missing"
        /\ Move(s, "enter", "write")
        /\ active' = active \cup {run[s]}
  /\ UNCHANGED <<file, mutex, run, buildVars, readVars, restarts>>

\* A run that is no longer active is prepared again.
EnterInactive(s) ==
  /\ at[s] = "enter" /\ mutex = Nobody
  /\ \/ /\ run[s] \in active
        /\ Move(s, "enter", "out")
        /\ UNCHANGED <<active, mutex>>
     \/ /\ run[s] \notin active
        /\ Move(s, "enter", "write")
        /\ mutex' = s
        /\ active' = active \cup {run[s]}
  /\ UNCHANGED <<file, run, buildVars, readVars, restarts>>

\* A thread that cannot be started is only reported to the caller.
StartFailsRaises(s) ==
  /\ Move(s, "start", "out")
  /\ UNCHANGED <<file, active, mutex, run, buildVars, readVars, restarts>>

\* The builder leaves self.active only if its result could be written.
FinishNoFinally(r) ==
  /\ building[r] > 0
  /\ building' = [building EXCEPT ![r] = @ - 1]
  /\ \/ /\ \E f \in Final : file' = [file EXCEPT ![r] = f]
        /\ leaving' = [leaving EXCEPT ![r] = @ + 1]
     \/ UNCHANGED <<file, leaving>>
  /\ UNCHANGED <<active, mutex, schedVars, readVars, restarts>>

\* The builder leaves while it is still building.
LeaveEarly(r) ==
  /\ mutex = Nobody
  /\ building[r] + leaving[r] > 0
  /\ leaving' = [leaving EXCEPT ![r] = @ - 1]
  /\ active' = active \ {r}
  /\ UNCHANGED <<file, mutex, schedVars, building, readVars, restarts>>

-----------------------------------------------------------------------------
(* schedule(). *)

\* The call; reading the XML may raise, which ends it again.
Call(s, r) ==
  /\ Move(s, "out", "enter")
  /\ run' = [run EXCEPT ![s] = r]
  /\ UNCHANGED <<file, active, mutex, buildVars, readVars, restarts>>

\* self.lock is taken; a run that has a status file already is left alone.
Enter(s) ==
  /\ at[s] = "enter" /\ mutex = Nobody
  /\ \/ /\ file[run[s]] # "missing"
        /\ Move(s, "enter", "out")
        /\ UNCHANGED <<active, mutex>>
     \/ /\ file[run[s]] = "missing"
        /\ Move(s, "enter", "write")
        /\ mutex' = s
        /\ active' = active \cup {run[s]}
  /\ UNCHANGED <<file, run, buildVars, readVars, restarts>>

\* The first status is written, or cannot be; self.lock is released.
Write(s) ==
  /\ \/ /\ Move(s, "write", "start")
        /\ file' = [file EXCEPT ![run[s]] = "preparing"]
     \/ /\ Move(s, "write", "out")
        /\ UNCHANGED file
  /\ mutex' = Nobody
  /\ UNCHANGED <<active, run, buildVars, readVars, restarts>>

Start(s) ==
  /\ Move(s, "start", "out")
  /\ building' = [building EXCEPT ![run[s]] = @ + 1]
  /\ UNCHANGED <<file, active, mutex, run, leaving, readVars, restarts>>

\* The thread cannot be started: the run is taken back ...
StartFails(s) ==
  /\ Move(s, "start", "undo")
  /\ UNCHANGED <<file, active, mutex, run, buildVars, readVars, restarts>>

Undo(s) ==
  /\ mutex = Nobody
  /\ Move(s, "undo", "report")
  /\ active' = active \ {run[s]}
  /\ UNCHANGED <<file, mutex, run, buildVars, readVars, restarts>>

\* ... and the failure is written, if it can be.
Report(s) ==
  /\ Move(s, "report", "out")
  /\ \E f \in {file[run[s]], "error"} : file' = [file EXCEPT ![run[s]] = f]
  /\ UNCHANGED <<active, mutex, run, buildVars, readVars, restarts>>

-----------------------------------------------------------------------------
(* The builder thread. *)

\* The package is complete or failed, and the result written if it can be.
Finish(r) ==
  /\ building[r] > 0
  /\ building' = [building EXCEPT ![r] = @ - 1]
  /\ leaving' = [leaving EXCEPT ![r] = @ + 1]
  /\ \E f \in Final \cup {file[r]} : file' = [file EXCEPT ![r] = f]
  /\ UNCHANGED <<active, mutex, schedVars, readVars, restarts>>

Leave(r) ==
  /\ mutex = Nobody
  /\ leaving[r] > 0
  /\ leaving' = [leaving EXCEPT ![r] = @ - 1]
  /\ active' = active \ {r}
  /\ UNCHANGED <<file, mutex, schedVars, building, readVars, restarts>>

-----------------------------------------------------------------------------
(* status(): the file, then, without the lock, the active set. *)

ReadFile(q, r) ==
  /\ polled[q] = Nobody
  /\ IF file[r] = "preparing"
     THEN polled' = [polled EXCEPT ![q] = r] /\ UNCHANGED answer
     ELSE answer' = [answer EXCEPT ![q] = file[r]] /\ UNCHANGED polled
  /\ UNCHANGED <<file, active, mutex, schedVars, buildVars, restarts>>

ReadActive(q) ==
  /\ polled[q] # Nobody
  /\ answer' = [answer EXCEPT ![q] =
                  IF polled[q] \in active THEN "preparing" ELSE "interrupted"]
  /\ polled' = [polled EXCEPT ![q] = Nobody]
  /\ UNCHANGED <<file, active, mutex, schedVars, buildVars, restarts>>

\* The web process is restarted: only the status files survive.
Restart ==
  /\ restarts < MaxRestarts
  /\ restarts' = restarts + 1
  /\ active' = {}
  /\ mutex' = Nobody
  /\ at' = [s \in Schedulers |-> "out"]
  /\ building' = [r \in Runs |-> 0]
  /\ leaving' = [r \in Runs |-> 0]
  /\ polled' = [q \in Readers |-> Nobody]
  /\ UNCHANGED <<file, run, answer>>

SchedulerStep(s) ==
  Enter(s) \/ Write(s) \/ Start(s) \/ StartFails(s) \/ Undo(s) \/ Report(s)

BuilderStep(r) == Finish(r) \/ Leave(r)

Next ==
  \/ \E s \in Schedulers : SchedulerStep(s) \/ \E r \in Runs : Call(s, r)
  \/ \E r \in Runs : BuilderStep(r)
  \/ \E q \in Readers : ReadActive(q) \/ \E r \in Runs : ReadFile(q, r)
  \/ Restart

Spec == Init /\ [][Next]_vars

\* Threads are scheduled, builds end, and Python's lock is handed on to a
\* thread that keeps asking for it.
Fairness ==
  /\ \A s \in Schedulers : SF_vars(SchedulerStep(s))
  /\ \A r \in Runs : SF_vars(BuilderStep(r))

FairSpec == Spec /\ Fairness

-----------------------------------------------------------------------------
(* Properties. *)

\* Threads that will build, or are building, the package of r.
Committed(r) == {s \in Schedulers : at[s] \in {"write", "start"} /\ run[s] = r}

\* However many status requests finalise a run at once, its package is built
\* by one thread: builders share a directory and the temporary status file.
OneBuilder ==
  \A r \in Runs :
    /\ building[r] + leaving[r] <= 1
    /\ building[r] + leaving[r] = 1 => Committed(r) = {}
    /\ \A s, t \in Committed(r) : s = t

\* The result of a build is never overwritten, by a late scheduler, a second
\* builder or a failed start.
ResultFinal == [][\A r \in Runs : file[r] \in Final => file'[r] = file[r]]_vars

\* A run that is reported as being prepared has a thread that will end the
\* preparation; the reports page polls as long as it is told "preparing".
PreparingIsTrue ==
  \A r \in Runs : file[r] = "preparing" /\ r \in active =>
    \/ building[r] + leaving[r] > 0
    \/ \E s \in Schedulers : at[s] \in {"start", "undo"} /\ run[s] = r

\* Every preparation ends.
PreparingEnds ==
  \A r \in Runs :
    file[r] = "preparing" /\ r \in active ~> ~(file[r] = "preparing" /\ r \in active)

\* "Package generation was interrupted; execute the scenario again" is said
\* only of a package that is not there.
InterruptedIsTrue ==
  [][\A q \in Readers :
       polled[q] # Nobody /\ ReadActive(q) /\ answer'[q] = "interrupted"
         => file[polled[q]] # "complete"]_vars
=============================================================================
