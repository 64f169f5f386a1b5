------------------------------ MODULE FlagBatch ------------------------------
(***************************************************************************)
(* A batch tests the generators of the flag catalogue one by one.  A test is *)
(* a child run: a thread waits for the remote generator, fetches its outputs *)
(* and executes a scenario with them.  The batch's thread polls the child's  *)
(* entry in RUNS, classifies it and cleans up after it; a stop request and   *)
(* the clean-up route of single tests may clean up as well.  Admission of    *)
(* batches and the VM lock are as in VulnBatch and AsyncRun.                 *)
(***************************************************************************)
EXTENDS Naturals, Sequences

CONSTANTS
  MaxFlags,     \* a batch has at most so many generators
  MaxUserFlags  \* users clean up the tests of batches of at most so many

ASSUME MaxFlagsIsPositive == MaxFlags \in Nat \ {0}

VARIABLES
  selected,  \* the number of selected generators
  loop,      \* where the batch's thread is
  place,     \* the item it is at
  finding,   \* its classification of the child
  reported,  \* the results of the batch
  halt,      \* stop_requested
  catalog,   \* catalog[i]: the validation state of generator i
  child,     \* child[i]: the entry of i's test and what its thread does
  cleaner,   \* cleaner[a]: where a is in a clean-up, and of which test
  sessions,  \* tests whose CORE sessions are on the VM
  others,    \* history: tests that a user cleaned up
  left       \* history: a clean-up of the VM failed

flagVars == <<selected, loop, place, finding, reported, halt, catalog, child, cleaner,
              sessions, others, left>>

FlagItems == 1 .. MaxFlags
Cleaners == {"batch", "stop", "user"}
Findings == {"none", "passed", "failed", "incomplete", "manual", "stopped"}
LoopPlaces ==
  {"unborn", "next", "starting", "watch", "classify", "own", "bottom", "record", "report",
   "ended", "died"}
CleanerPlaces == {"out", "look", "check", "claim", "runtime", "close", "remove", "end", "drop", "gone"}
RunnerPlaces ==
  {"none", "generator", "sync", "decide", "over", "code", "execute", "launch", "run", "gone"}

Children ==
  [runner : RunnerPlaces,
   rc : {"none", "zero", "bad"},                 \* exit status of the generator
   listed : BOOLEAN,                             \* in RUNS
   claimed : BOOLEAN, asked : BOOLEAN,           \* cleanup_started, cleanup_requested
   over : BOOLEAN, code : {"none", "zero", "bad"},  \* done, returncode
   closed : BOOLEAN,                             \* its SSH channel is closed
   fetched : BOOLEAN,                            \* its outputs came as declared
   removed : BOOLEAN,                            \* its run directory
   truth : {"none", "pass", "fail", "unknown"}]  \* what the validation says of its session

NoChild ==
  [runner |-> "none", rc |-> "none", listed |-> FALSE, claimed |-> FALSE,
   asked |-> FALSE, over |-> FALSE, code |-> "none",
   closed |-> FALSE, fetched |-> FALSE, removed |-> FALSE, truth |-> "none"]

NewChild == [NoChild EXCEPT !.runner = "generator", !.listed = TRUE]

FlagTypeOK ==
  /\ loop \in LoopPlaces
  /\ selected \in FlagItems
  /\ place \in 1 .. selected + 1
  /\ loop \in {"starting", "watch", "classify", "own", "bottom", "record"} => place <= selected
  /\ finding \in Findings
  /\ reported \in Seq([item : FlagItems, status : Findings])
  /\ halt \in BOOLEAN
  /\ catalog \in [FlagItems -> {"none", "passed", "failed", "incomplete"}]
  /\ child \in [FlagItems -> Children]
  /\ cleaner \in [Cleaners -> [at : CleanerPlaces, of : FlagItems]]
  /\ sessions \in SUBSET FlagItems
  /\ others \in SUBSET FlagItems
  /\ left \in BOOLEAN

FlagInit ==
  /\ selected = 1
  /\ loop = "unborn" /\ place = 1 /\ finding = "none"
  /\ reported = <<>>
  /\ halt = FALSE
  /\ catalog = [i \in FlagItems |-> "none"]
  /\ child = [i \in FlagItems |-> NoChild]
  /\ cleaner = [a \in Cleaners |-> [at |-> "out", of |-> 1]]
  /\ sessions = {}
  /\ others = {} /\ left = FALSE

Turn(from, to) == loop = from /\ loop' = to /\ UNCHANGED selected

\* The thread of i's test goes from one place to the next and changes the fields of d.
Run(i, from, to, d) ==
  /\ child[i].runner = from
  /\ child' = [child EXCEPT ![i] =
       [f \in DOMAIN NoChild |->
          IF f = "runner" THEN to ELSE IF f \in DOMAIN d THEN d[f] ELSE child[i][f]]]
  /\ UNCHANGED <<selected, loop, place, finding, reported, halt, catalog, cleaner, others, left>>

Nothing == [f \in {} |-> 0]

\* A result, and the next item.
Result(status) ==
  /\ reported' = Append(reported, [item |-> place, status |-> status])
  /\ place' = place + 1
  /\ UNCHANGED <<halt, child, cleaner, sessions, others, left>>

Unseen == {i \in 1 .. selected : \A k \in DOMAIN reported : reported[k].item # i}

\* _classify_single_run: the return code, the declared outputs, the validation.
Judged(c) ==
  IF c.code = "bad" \/ ~c.fetched \/ c.removed THEN "failed"
  ELSE IF c.truth = "pass" THEN "passed" ELSE "incomplete"

-----------------------------------------------------------------------------
(* Faulty variants of the definitions below, each with a bug the code could have; *)
(* they take no part in FlagSpec.  PROJECT.json names the property each breaks.   *)

\* The loop does not end with the last item.
TakeItemBeyond ==
  /\ ~halt
  /\ Turn("next", "starting")
  /\ UNCHANGED <<place, finding, reported, halt, catalog, child, cleaner, sessions, others, left>>

\* An item that cannot be started is not reported.
ChildFailsSilently ==
  /\ Turn("starting", "next")
  /\ place' = place + 1
  /\ UNCHANGED <<finding, reported, halt, catalog, child, cleaner, sessions, others, left>>

\* The return code is all that counts.
ClassifyByCode ==
  /\ Turn("classify", "own")
  /\ finding' = IF child[place].code = "bad" THEN "failed" ELSE "passed"
  /\ cleaner' = [cleaner EXCEPT !["batch"] = [at |-> "check", of |-> place]]
  /\ UNCHANGED <<place, reported, halt, catalog, child, sessions, others, left>>

\* The batch goes on without cleaning up.
ClassifyOnly ==
  /\ Turn("classify", "record")
  /\ finding' = Judged(child[place])
  /\ UNCHANGED <<place, reported, halt, catalog, child, cleaner, sessions, others, left>>

\* The batch keeps polling for a stopped child that is missing.
SeeMissingRunning ==
  /\ Turn("watch", "record")
  /\ ~child[place].listed /\ ~halt
  /\ finding' = "incomplete"
  /\ UNCHANGED <<place, reported, halt, catalog, child, cleaner, sessions, others, left>>

-----------------------------------------------------------------------------
(* POST batch/start, and the loop of the batch's thread. *)

StartFlagBatch ==
  /\ loop = "unborn" /\ loop' = "next"
  /\ selected' \in FlagItems
  /\ UNCHANGED <<place, finding, reported, halt, catalog, child, cleaner, sessions, others, left>>

TakeItem ==
  /\ ~halt /\ place <= selected
  /\ Turn("next", "starting")
  /\ UNCHANGED <<place, finding, reported, halt, catalog, child, cleaner, sessions, others, left>>

LeaveLoop ==
  /\ halt \/ place > selected
  /\ Turn("next", "report")
  /\ UNCHANGED <<place, finding, reported, halt, catalog, child, cleaner, sessions, others, left>>

\* The generator needs manual input.
SkipManual ==
  /\ Turn("starting", "next")
  /\ Result("manual")
  /\ UNCHANGED <<finding, catalog>>

\* The VM has an active session, or the remote process cannot be started.
ChildFails ==
  /\ Turn("starting", "next")
  /\ Result("failed")
  /\ UNCHANGED <<finding, catalog>>

\* An exception that nobody catches ends the thread of the batch.
StartRaises ==
  /\ Turn("starting", "died")
  /\ UNCHANGED <<place, finding, reported, halt, catalog, child, cleaner, sessions, others, left>>

StartChild ==
  /\ sessions = {}
  /\ Turn("starting", "watch")
  /\ finding' = "none"
  /\ child' = [child EXCEPT ![place] = NewChild]
  /\ UNCHANGED <<place, reported, halt, catalog, cleaner, sessions, others, left>>

\* The entry of the child has gone.
SeeMissing ==
  /\ Turn("watch", "record")
  /\ ~child[place].listed
  /\ finding' = "incomplete"
  /\ UNCHANGED <<place, reported, halt, catalog, child, cleaner, sessions, others, left>>

\* A stop request, and nobody cleans up yet.
SeeStop ==
  /\ Turn("watch", "own")
  /\ child[place].listed /\ halt /\ ~child[place].claimed
  /\ finding' = "incomplete"
  /\ cleaner' = [cleaner EXCEPT !["batch"] = [at |-> "check", of |-> place]]
  /\ UNCHANGED <<place, reported, halt, catalog, child, sessions, others, left>>

\* A stop request that cleans up.
SeeCleaning ==
  /\ Turn("watch", "bottom")
  /\ child[place].listed /\ halt /\ child[place].claimed /\ finding = "none"
  /\ finding' = "incomplete"
  /\ UNCHANGED <<place, reported, halt, catalog, child, cleaner, sessions, others, left>>

SeeDone ==
  /\ Turn("watch", "classify")
  /\ child[place].listed /\ child[place].over /\ ~child[place].claimed
  /\ UNCHANGED <<place, finding, reported, halt, catalog, child, cleaner, sessions, others, left>>

Classify ==
  /\ Turn("classify", "own")
  /\ finding' = Judged(child[place])
  /\ cleaner' = [cleaner EXCEPT !["batch"] = [at |-> "check", of |-> place]]
  /\ UNCHANGED <<place, reported, halt, catalog, child, sessions, others, left>>

\* The batch's own clean-up returns.
OwnOver ==
  /\ cleaner["batch"].at = "out"
  /\ Turn("own", "bottom")
  /\ UNCHANGED <<place, finding, reported, halt, catalog, child, cleaner, sessions, others, left>>

\* The end of an iteration: the child is classified and cleaned up, or polled again.
Bottom ==
  /\ Turn("bottom", IF finding # "none" /\ ~child[place].listed THEN "record" ELSE "watch")
  /\ UNCHANGED <<place, finding, reported, halt, catalog, child, cleaner, sessions, others, left>>

RecordResult ==
  /\ Turn("record", "next")
  /\ Result(finding)
  /\ catalog' = [catalog EXCEPT ![place] = finding]
  /\ finding' = "none"

\* After a stop request the items without a result are reported as skipped.
SkipUnseen ==
  /\ loop = "report" /\ halt
  /\ \E i \in Unseen :
       /\ \A j \in Unseen : i <= j
       /\ reported' = Append(reported, [item |-> i, status |-> "stopped"])
  /\ UNCHANGED <<selected, loop, place, finding, halt, catalog, child, cleaner, sessions, others, left>>

EndFlagBatch ==
  /\ halt => Unseen = {}
  /\ Turn("report", "ended")
  /\ UNCHANGED <<place, finding, reported, halt, catalog, child, cleaner, sessions, others, left>>

-----------------------------------------------------------------------------
(* The thread of a test. *)

\* The channel's exit status; a channel that was closed has none.
GeneratorEnds(i) ==
  /\ \E rc \in (IF child[i].closed THEN {"bad"} ELSE {"zero", "bad"}) :
       Run(i, "generator", "sync", [rc |-> rc])
  /\ UNCHANGED sessions

\* The outputs are fetched, unless somebody cleans up; they may not be what was declared.
SyncOutputs(i) ==
  /\ \/ ~child[i].asked /\ Run(i, "sync", "decide", [fetched |-> TRUE])
     \/ Run(i, "sync", "decide", Nothing)
  /\ UNCHANGED sessions

Decide(i) ==
  /\ Run(i, "decide", IF child[i].rc = "zero" /\ ~child[i].asked THEN "execute" ELSE "over", Nothing)
  /\ UNCHANGED sessions

\* done, then returncode.
SetOver(i) == Run(i, "over", "code", [over |-> TRUE]) /\ UNCHANGED sessions
SetCode(i) == Run(i, "code", "gone", [code |-> child[i].rc]) /\ UNCHANGED sessions

\* The scenario is prepared, unless the entry or the run directory has gone.
Execute(i) ==
  /\ \/ child[i].listed /\ ~child[i].removed
        /\ Run(i, "execute", "launch", [over |-> FALSE, code |-> "none"])
     \/ child[i].listed /\ Run(i, "execute", "gone", [over |-> TRUE, code |-> "bad"])
     \/ ~child[i].listed /\ Run(i, "execute", "gone", Nothing)
  /\ UNCHANGED sessions

\* AsyncRun's job: nothing tells it of a clean-up.
LaunchSession(i) ==
  \/ Run(i, "launch", "run", Nothing) /\ sessions' = sessions \cup {i}
  \/ Run(i, "launch", "gone", [over |-> TRUE, code |-> "bad"]) /\ UNCHANGED sessions

SessionEnds(i) ==
  /\ \E t \in {"pass", "fail", "unknown"} :
       Run(i, "run", "gone",
           [truth |-> t, over |-> TRUE, code |-> IF t = "fail" THEN "bad" ELSE "zero"])
  /\ UNCHANGED sessions

-----------------------------------------------------------------------------
(* Clean-ups: _cleanup_child_run, and the clean-up route of single tests. *)

\* a goes on with its clean-up; the entry of its test becomes c.
Clean(a, from, to, c) ==
  /\ cleaner[a].at = from
  /\ cleaner' = [cleaner EXCEPT ![a].at = to]
  /\ child' = [child EXCEPT ![cleaner[a].of] = c]
  /\ UNCHANGED <<selected, loop, place, finding, reported, halt>>

Cleaned(a) == child[cleaner[a].of]

RequestStop ==
  /\ loop # "unborn"
  /\ cleaner["stop"].at = "out"
  /\ halt' = TRUE
  /\ cleaner' = [cleaner EXCEPT !["stop"].at = "look"]
  /\ UNCHANGED <<selected, loop, place, finding, reported, catalog, child, sessions, others, left>>

\* The stop request finds the active child, or none.
LookForChild ==
  /\ cleaner["stop"].at = "look"
  /\ cleaner' = [cleaner EXCEPT !["stop"] =
       IF /\ loop \in {"watch", "classify", "own", "bottom", "record"}
          /\ child[place].listed
       THEN [at |-> "check", of |-> place] ELSE [@ EXCEPT !.at = "out"]]
  /\ UNCHANGED <<selected, loop, place, finding, reported, halt, catalog, child, sessions, others, left>>

\* cleanup_started is looked at ...
CheckClaim(a) ==
  /\ Clean(a, "check", IF Cleaned(a).claimed THEN "out" ELSE "claim", Cleaned(a))
  /\ UNCHANGED <<catalog, sessions, others, left>>

\* ... and set.
Claim(a) ==
  /\ Clean(a, "claim", "runtime", [Cleaned(a) EXCEPT !.claimed = TRUE, !.asked = TRUE])
  /\ UNCHANGED <<catalog, sessions, others, left>>

\* The route of single tests does not look, nor claim.
UserCleans(i) ==
  /\ selected <= MaxUserFlags /\ cleaner["user"].at = "out"
  /\ child[i].listed
  /\ cleaner' = [cleaner EXCEPT !["user"] = [at |-> "runtime", of |-> i]]
  /\ child' = [child EXCEPT ![i].asked = TRUE]
  /\ others' = others \cup {i}
  /\ UNCHANGED <<selected, loop, place, finding, reported, halt, catalog, sessions, left>>

\* _cleanup_remote_test_runtime: every session on the VM is deleted, if it is reached.
CleanRuntime(a) ==
  /\ Clean(a, "runtime", "close", Cleaned(a))
  /\ \/ sessions' = {} /\ UNCHANGED left
     \/ sessions # {} /\ left' = TRUE /\ UNCHANGED sessions
  /\ UNCHANGED <<catalog, others>>

CloseChannel(a) ==
  /\ Clean(a, "close", "remove", [Cleaned(a) EXCEPT !.closed = TRUE])
  /\ UNCHANGED <<catalog, sessions, others, left>>

\* The user's clean-up records a test that is not over as incomplete.
RemoveFiles(a) ==
  /\ Clean(a, "remove", "end", [Cleaned(a) EXCEPT !.removed = TRUE])
  /\ catalog' = IF a = "user" /\ ~Cleaned(a).over
                THEN [catalog EXCEPT ![cleaner[a].of] = "incomplete"] ELSE catalog
  /\ UNCHANGED <<sessions, others, left>>

\* done is set, ...
EndTest(a) ==
  /\ Clean(a, "end", "drop", [Cleaned(a) EXCEPT !.over = TRUE])
  /\ UNCHANGED <<catalog, sessions, others, left>>

\* ... cleanup_done is set and the entry is taken out of RUNS.
DropChild(a) ==
  /\ Clean(a, "drop", IF a = "user" THEN "gone" ELSE "out", [Cleaned(a) EXCEPT !.listed = FALSE])
  /\ UNCHANGED <<catalog, sessions, others, left>>

FlagLoopStep ==
  \/ TakeItem \/ LeaveLoop \/ SkipManual \/ ChildFails \/ StartRaises \/ StartChild
  \/ SeeMissing \/ SeeStop \/ SeeCleaning \/ SeeDone \/ Classify \/ OwnOver \/ Bottom
  \/ RecordResult \/ SkipUnseen \/ EndFlagBatch

RunnerStep(i) ==
  \/ GeneratorEnds(i) \/ SyncOutputs(i) \/ Decide(i) \/ SetOver(i) \/ SetCode(i)
  \/ Execute(i) \/ LaunchSession(i) \/ SessionEnds(i)

CleanerStep(a) ==
  \/ CheckClaim(a) \/ Claim(a) \/ CleanRuntime(a) \/ CloseChannel(a)
  \/ RemoveFiles(a) \/ EndTest(a) \/ DropChild(a)

FlagNext ==
  \/ StartFlagBatch \/ FlagLoopStep
  \/ \E i \in FlagItems : RunnerStep(i) \/ UserCleans(i)
  \/ RequestStop \/ LookForChild
  \/ \E a \in Cleaners : CleanerStep(a)

FlagSpec == FlagInit /\ [][FlagNext]_flagVars

\* The batch's thread goes on, and clean-ups end; tests may hang.
FlagFairness ==
  /\ WF_flagVars(FlagLoopStep)
  /\ \A a \in {"batch", "stop"} : WF_flagVars(CleanerStep(a))
  /\ WF_flagVars(LookForChild)

FlagFairSpec == FlagSpec /\ FlagFairness

-----------------------------------------------------------------------------
(* Properties. *)

\* The report names every generator once, in order, and says that one was skipped
\* because of a stop request only if there was one.
FlagReportComplete ==
  /\ \A k \in DOMAIN reported :
       /\ reported[k].item = k
       /\ reported[k].status = "stopped" => halt
  /\ loop = "ended" => Len(reported) = selected

\* A generator is recorded as passed only if a session with its outputs was
\* validated; and a test that was neither stopped nor cleaned up by others is
\* reported as passed if and only if it was, with the outputs it declares.
FlagVerdictEarned ==
  /\ \A i \in FlagItems : catalog[i] = "passed" => child[i].truth = "pass"
  /\ \A k \in DOMAIN reported :
       LET i == reported[k].item IN
       ~halt /\ i \notin others => (reported[k].status = "passed" <=> child[i].truth = "pass" /\ child[i].fetched)

\* A batch that nobody interfered with leaves no CORE session behind, unless a
\* clean-up could not reach the VM.
FlagSessionsGone ==
  loop = "ended" /\ sessions # {} => halt \/ others # {} \/ left

\* A stop request ends the batch, even if its test hangs, whoever cleans up after it,
\* unless the thread of the batch has died.
StopEndsFlagBatch == halt ~> loop \in {"ended", "died"}
=============================================================================
