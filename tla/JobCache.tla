------------------------------ MODULE JobCache ------------------------------
(***************************************************************************)
(* Resolving a flow and generating a chain can take minutes.  Each of the   *)
(* two routes keeps its jobs by request key, in a cache of its own: a       *)
(* request starts a worker or attaches to the one of its key, and streams   *)
(* white space until the job is done.  A browser whose connection drops     *)
(* asks again with the same key.  Finished jobs are swept ten minutes       *)
(* later, by the next request.                                              *)
(***************************************************************************)
CONSTANTS
  Keys,     \* request keys of the route
  Clients,  \* browsers
  Jobs,     \* bound: jobs in memory at once
  NoJob     \* no job, no key

ASSUME NoJobIsNoJob == NoJob \notin Jobs \cup Keys

VARIABLES
  table,   \* table[k]: the job stored under k
  stage,   \* stage[j]: how far job j is
  key,     \* key[j]: the key job j was created for
  body,    \* body[j]: the response of job j
  stream   \* stream[c]: the job whose end client c waits for

jobVars == <<table, stage, key, body, stream>>

\* "lost": the thread could not be started; "old": completed_at is ten minutes ago.
JobStages == {"free", "working", "ready", "done", "old", "lost"}
Bodies == {"empty", "response"}

JobTypeOK ==
  /\ table \in [Keys -> Jobs \cup {NoJob}]
  /\ \A k \in Keys : table[k] # NoJob => stage[table[k]] # "free" /\ key[table[k]] = k
  /\ stage \in [Jobs -> JobStages]
  /\ key \in [Jobs -> Keys \cup {NoJob}]
  /\ body \in [Jobs -> Bodies]
  /\ stream \in [Clients -> Jobs \cup {NoJob}]
  /\ \A c \in Clients : stream[c] # NoJob => stage[stream[c]] # "free"

JobInit ==
  /\ table = [k \in Keys |-> NoJob]
  /\ stage = [j \in Jobs |-> "free"]
  /\ key = [j \in Jobs |-> NoJob]
  /\ body = [j \in Jobs |-> "empty"]
  /\ stream = [c \in Clients |-> NoJob]

\* The keys whose jobs the next request sweeps.
Stale == {k \in Keys : table[k] # NoJob /\ stage[table[k]] = "old"}

\* A faulty variant of Swept: finished jobs are swept whatever their age.
SweptDone ==
  [k \in Keys |-> IF table[k] # NoJob /\ stage[table[k]] \in {"done", "old"}
                  THEN NoJob ELSE table[k]]

\* The table without them.
Swept == [k \in Keys |-> IF k \in Stale THEN NoJob ELSE table[k]]

\* Nobody can reach the job any more.
Garbage(j) ==
  /\ stage[j] = "old"
  /\ \A k \in Keys : table[k] # j
  /\ \A c \in Clients : stream[c] # j

-----------------------------------------------------------------------------
(* Faulty variants of the definitions below, each with a bug the code could have; *)
(* they take no part in JobSpec.  PROJECT.json names the property each breaks.    *)

\* done is set before the response is stored.
WorkAfterDone(j) ==
  \/ /\ stage[j] = "working"
     /\ stage' = [stage EXCEPT ![j] = "done"]
     /\ UNCHANGED <<table, key, body, stream>>
  \/ /\ stage[j] = "done"
     /\ \E b \in Bodies : body' = [body EXCEPT ![j] = b]
     /\ UNCHANGED <<table, stage, key, stream>>

\* An exception leaves the worker before done is set.
SetDoneNoFinally(j) ==
  /\ stage[j] = "ready" /\ body[j] # "empty"
  /\ stage' = [stage EXCEPT ![j] = "done"]
  /\ UNCHANGED <<table, key, body, stream>>

\* The job of a thread that could not be started is dropped, but stays in the table.
CreateForgets(c, k, j) ==
  /\ stream[c] = NoJob
  /\ Swept[k] = NoJob /\ stage[j] = "free"
  /\ table' = [Swept EXCEPT ![k] = j]
  /\ key' = [key EXCEPT ![j] = k]
  /\ \/ /\ stage' = [stage EXCEPT ![j] = "working"]
        /\ stream' = [stream EXCEPT ![c] = j]
     \/ UNCHANGED <<stage, stream>>
  /\ UNCHANGED body

-----------------------------------------------------------------------------
(* Requests.  The lock is held from the sweep to the start of the thread. *)

\* The request finds the job of its key.
Attach(c, k) ==
  /\ stream[c] = NoJob
  /\ Swept[k] # NoJob
  /\ table' = Swept
  /\ stream' = [stream EXCEPT ![c] = Swept[k]]
  /\ UNCHANGED <<stage, key, body>>

\* It creates the job.  If the thread cannot be started the request ends with an
\* exception, and the job stays in the table.
Create(c, k, j) ==
  /\ stream[c] = NoJob
  /\ Swept[k] = NoJob /\ stage[j] = "free"
  /\ table' = [Swept EXCEPT ![k] = j]
  /\ key' = [key EXCEPT ![j] = k]
  /\ \/ /\ stage' = [stage EXCEPT ![j] = "working"]
        /\ stream' = [stream EXCEPT ![c] = j]
     \/ /\ stage' = [stage EXCEPT ![j] = "lost"]
        /\ UNCHANGED stream
  /\ UNCHANGED body

\* The job is done, and the client gets its body.
Answer(c) ==
  /\ stream[c] # NoJob /\ stage[stream[c]] \in {"done", "old"}
  /\ stream' = [stream EXCEPT ![c] = NoJob]
  /\ UNCHANGED <<table, stage, key, body>>

\* The connection drops; the worker goes on.
Drop(c) ==
  /\ stream[c] # NoJob
  /\ stream' = [stream EXCEPT ![c] = NoJob]
  /\ UNCHANGED <<table, stage, key, body>>

-----------------------------------------------------------------------------
(* The worker. *)

\* The work is done and the response stored, or none if the handler of its
\* exception fails as well.
Work(j) ==
  /\ stage[j] = "working"
  /\ stage' = [stage EXCEPT ![j] = "ready"]
  /\ \E b \in Bodies : body' = [body EXCEPT ![j] = b]
  /\ UNCHANGED <<table, key, stream>>

\* finally: completed_at, then done.
SetDone(j) ==
  /\ stage[j] = "ready"
  /\ stage' = [stage EXCEPT ![j] = "done"]
  /\ UNCHANGED <<table, key, body, stream>>

\* Ten minutes pass.
Age(j) ==
  /\ stage[j] = "done"
  /\ stage' = [stage EXCEPT ![j] = "old"]
  /\ UNCHANGED <<table, key, body, stream>>

\* A place of Jobs is used again.
ForgetJob(j) ==
  /\ Garbage(j)
  /\ stage' = [stage EXCEPT ![j] = "free"]
  /\ key' = [key EXCEPT ![j] = NoJob]
  /\ body' = [body EXCEPT ![j] = "empty"]
  /\ UNCHANGED <<table, stream>>

WorkerJob(j) == Work(j) \/ SetDone(j)

JobNext ==
  \/ \E c \in Clients :
       \/ \E k \in Keys : Attach(c, k) \/ \E j \in Jobs : Create(c, k, j)
       \/ Answer(c) \/ Drop(c)
  \/ \E j \in Jobs : WorkerJob(j) \/ Age(j) \/ ForgetJob(j)

JobSpec == JobInit /\ [][JobNext]_jobVars

\* Workers end, and so do streams whose job is done.
JobFairness ==
  /\ \A j \in Jobs : WF_jobVars(WorkerJob(j))
  /\ \A c \in Clients : WF_jobVars(Answer(c))

-----------------------------------------------------------------------------
(* Properties. *)

\* "A retry carrying the same request id attaches to this worker instead of
\* running generators a second time or writing the plan concurrently": of two
\* jobs of one key, one ended more than ten minutes ago.
OneExecution ==
  \A i, j \in Jobs :
    i # j /\ key[i] # NoJob /\ key[i] = key[j] => stage[i] = "old" \/ stage[j] = "old"

\* All who wait for a job, and all who come back for it, get the same response: it
\* does not change between done and the end of the job.
ResponseFinal ==
  [][\A j \in Jobs : stage[j] \in {"done", "old"} =>
       stage'[j] = "free" \/ body'[j] = body[j]]_jobVars

\* A stream ends, unless the thread of its job could not be started.
StreamsEnd ==
  \A c \in Clients :
    stream[c] # NoJob /\ stage[stream[c]] # "lost" ~> stream[c] = NoJob
=============================================================================
