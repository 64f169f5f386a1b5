------------------------------ MODULE AiStream ------------------------------
(***************************************************************************)
(* A browser asks for a scenario, or for a generator's scaffold, that a     *)
(* model writes.  The request registers itself, starts a worker and passes   *)
(* its events on; the worker asks the model provider up to Attempts times,   *)
(* each time through a reader thread of its own; another request may cancel  *)
(* it.  An event is "result", "error" (a cancellation is one) or "end";      *)
(* status events and the text that arrives meanwhile are left out.          *)
(***************************************************************************)
EXTENDS Naturals, Sequences

CONSTANTS
  AiRequests,  \* bound: requests in memory at once
  Attempts     \* how often a worker asks: first attempt and repairs

ASSUME AttemptsArePositive == Attempts \in Nat \ {0}

VARIABLES
  via,        \* via[s]: route of request s, and how it asks for an answer
  entry,      \* entry[s]: its place in _ACTIVE_AI_STREAMS
  cancelled,  \* cancelled[s]: entry['cancelled'] is set
  response,   \* response[s]: entry['response'] is there to be closed
  canceller,  \* canceller[s]: a cancellation has set the flag and will close
  worker,     \* worker[s]: position of the worker
  attempt,    \* attempt[s]: which attempt it is at
  reader,     \* reader[s]: the reader thread of this attempt
  queue,      \* queue[s]: how the reader says that it ended
  halted,     \* halted[s]: stop_event of the reader
  closed,     \* closed[s]: the response was closed by a cancellation
  events,     \* events[s]: what the request has not yet passed on
  got,        \* got[s]: what the browser was given
  early,      \* history: cancelled before an answer was accepted
  inLine      \* history: the worker left the reader while it took a line from it

aiVars == <<via, entry, cancelled, response, canceller, worker, attempt, reader,
            queue, halted, closed, events, got, early, inLine>>

Ways == [route : {"preview", "scaffold"}, ask : {"ollama", "openai"}]
          \cup [route : {"preview"}, ask : {"bridge"}]
WorkerStages == {"none", "lost", "asking", "listening", "answered", "bridge",
                 "accepted", "preview", "closing", "ended"}

AiTypeOK ==
  /\ via \in [AiRequests -> Ways]
  /\ entry \in [AiRequests -> {"none", "active", "gone"}]
  /\ {cancelled, response, canceller, halted, closed, early, inLine}
       \subseteq [AiRequests -> BOOLEAN]
  /\ worker \in [AiRequests -> WorkerStages]
  /\ attempt \in [AiRequests -> 0 .. Attempts]
  /\ reader \in [AiRequests -> {"none", "opening", "reading", "over"}]
  /\ queue \in [AiRequests -> {"nothing", "done", "error"}]
  /\ \A s \in AiRequests : Len(events[s]) + Len(got[s]) <= 2

AiInit ==
  /\ via \in [AiRequests -> Ways]
  /\ entry = [s \in AiRequests |-> "none"]
  /\ worker = [s \in AiRequests |-> "none"]
  /\ attempt = [s \in AiRequests |-> 0]
  /\ reader = [s \in AiRequests |-> "none"]
  /\ queue = [s \in AiRequests |-> "nothing"]
  /\ events = [s \in AiRequests |-> <<>>]
  /\ got = [s \in AiRequests |-> <<>>]
  /\ cancelled = [s \in AiRequests |-> FALSE]
  /\ response = cancelled /\ canceller = cancelled /\ halted = cancelled
  /\ closed = cancelled /\ early = cancelled /\ inLine = cancelled

Polls(s) == via[s].ask = "ollama"  \* looks at the flag while it listens

\* The worker is at a new position.
At(s, to) == worker' = [worker EXCEPT ![s] = to]

\* The worker has this event for the browser, and is left with its finally clause.
Emit(s, e) ==
  /\ events' = [events EXCEPT ![s] = Append(@, e)]
  /\ At(s, "closing")

Fail(s) == Emit(s, "error")

requestVars == <<via, entry, cancelled, canceller, closed, got, early>>
readerVars == <<reader, queue, halted, inLine>>

-----------------------------------------------------------------------------
(* Faulty variants of the definitions below, each with a bug the code could have; *)
(* they take no part in AiSpec.  PROJECT.json names the property each breaks.     *)

\* An answer is accepted without a look at the flag.
DeliverUnasked(s) ==
  /\ worker[s] = "accepted"
  /\ IF via[s].route = "preview"
     THEN At(s, "preview") /\ UNCHANGED events
     ELSE Emit(s, "result")
  /\ UNCHANGED <<requestVars, readerVars, attempt, response>>

\* The end of the stream is not told on the way out.
CloseWorkerSilently(s) ==
  /\ worker[s] = "closing"
  /\ At(s, "ended")
  /\ response' = [response EXCEPT ![s] = FALSE]
  /\ UNCHANGED <<requestVars, readerVars, attempt, events>>

-----------------------------------------------------------------------------
(* The request. *)

Register(s) ==
  /\ entry[s] = "none"
  /\ entry' = [entry EXCEPT ![s] = "active"]
  /\ UNCHANGED <<via, cancelled, canceller, closed, got, early, readerVars, worker,
                 attempt, response, events>>

\* If the thread cannot be started the connection breaks; the scaffold route
\* starts it outside its try statement, and stays registered.
StartWorker(s) ==
  /\ entry[s] = "active" /\ worker[s] = "none"
  /\ \/ /\ At(s, IF via[s].ask = "bridge" THEN "bridge" ELSE "asking")
        /\ attempt' = [attempt EXCEPT ![s] = 1]
        /\ UNCHANGED entry
     \/ /\ At(s, "lost")
        /\ entry' = [entry EXCEPT ![s] = IF via[s].route = "preview" THEN "gone" ELSE @]
        /\ UNCHANGED attempt
  /\ UNCHANGED <<via, cancelled, canceller, closed, got, early, readerVars, response, events>>

\* The next event is passed on; the last one ends the request.
PassOn(s) ==
  /\ entry[s] = "active" /\ events[s] # <<>>
  /\ events' = [events EXCEPT ![s] = Tail(@)]
  /\ got' = [got EXCEPT ![s] = Append(@, Head(events[s]))]
  /\ entry' = [entry EXCEPT ![s] = IF Head(events[s]) = "end" THEN "gone" ELSE @]
  /\ UNCHANGED <<via, cancelled, canceller, closed, early, readerVars, worker, attempt, response>>

\* The browser has gone, and an event cannot be written.  The worker is not told.
Vanish(s) ==
  /\ entry[s] = "active" /\ worker[s] \notin {"none", "lost"}
  /\ entry' = [entry EXCEPT ![s] = "gone"]
  /\ UNCHANGED <<via, cancelled, canceller, closed, got, early, readerVars, worker, attempt,
                 response, events>>

\* A place of AiRequests is used again, for a request with an id of its own.
ForgetRequest(s) ==
  /\ entry[s] = "gone" /\ worker[s] \in {"lost", "ended"} /\ reader[s] \in {"none", "over"}
  /\ ~canceller[s]
  /\ \E w \in Ways : via' = [via EXCEPT ![s] = w]
  /\ entry' = [entry EXCEPT ![s] = "none"]
  /\ worker' = [worker EXCEPT ![s] = "none"]
  /\ attempt' = [attempt EXCEPT ![s] = 0]
  /\ reader' = [reader EXCEPT ![s] = "none"]
  /\ queue' = [queue EXCEPT ![s] = "nothing"]
  /\ events' = [events EXCEPT ![s] = <<>>]
  /\ got' = [got EXCEPT ![s] = <<>>]
  /\ cancelled' = [cancelled EXCEPT ![s] = FALSE]
  /\ response' = [response EXCEPT ![s] = FALSE]
  /\ halted' = [halted EXCEPT ![s] = FALSE]
  /\ closed' = [closed EXCEPT ![s] = FALSE]
  /\ early' = [early EXCEPT ![s] = FALSE]
  /\ inLine' = [inLine EXCEPT ![s] = FALSE]
  /\ UNCHANGED canceller

-----------------------------------------------------------------------------
(* A cancellation, which finds the request while it is registered. *)

SetCancelled(s) ==
  /\ entry[s] = "active" /\ ~canceller[s]
  /\ cancelled' = [cancelled EXCEPT ![s] = TRUE]
  /\ canceller' = [canceller EXCEPT ![s] = TRUE]
  /\ early' = [early EXCEPT ![s] = @ \/ worker[s] \notin {"preview", "closing", "ended"}]
  /\ UNCHANGED <<via, entry, closed, got, readerVars, worker, attempt, response, events>>

\* Then it closes the response, if it still finds one.
CloseResponse(s) ==
  /\ canceller[s]
  /\ canceller' = [canceller EXCEPT ![s] = FALSE]
  /\ closed' = [closed EXCEPT ![s] = @ \/ response[s]]
  /\ UNCHANGED <<via, entry, cancelled, got, early, readerVars, worker, attempt, response, events>>

-----------------------------------------------------------------------------
(* The worker. *)

\* With an OpenAI-compatible provider each attempt looks at the flag first, with Ollama
\* the repairs of a scenario; else a reader is started.
Ask(s) ==
  /\ worker[s] = "asking"
  /\ IF cancelled[s] /\ (~Polls(s) \/ (via[s].route = "preview" /\ attempt[s] > 1))
     THEN Fail(s) /\ UNCHANGED <<reader, queue>>
     ELSE /\ At(s, "listening")
          /\ reader' = [reader EXCEPT ![s] = "opening"]
          /\ queue' = [queue EXCEPT ![s] = "nothing"]
          /\ UNCHANGED events
  /\ UNCHANGED <<requestVars, attempt, response, halted, inLine>>

\* It sees the flag between two looks at the queue: the loop ends like one whose
\* reader is done.
SeeCancelled(s) ==
  /\ worker[s] = "listening" /\ Polls(s) /\ cancelled[s]
  /\ halted' = [halted EXCEPT ![s] = TRUE]
  /\ At(s, "answered")
  /\ UNCHANGED <<requestVars, reader, queue, inLine, attempt, response, events>>

\* The time is up.  The reader of an OpenAI-compatible provider cannot be stopped.
Deadline(s) ==
  /\ worker[s] = "listening"
  /\ halted' = [halted EXCEPT ![s] = Polls(s)]
  /\ Fail(s)
  /\ UNCHANGED <<requestVars, reader, queue, inLine, attempt, response>>

\* While it takes a line it sees the flag, or that the line is no JSON: the loop
\* is left by an exception, which does not stop the reader.
LeaveInLine(s) ==
  /\ worker[s] = "listening" /\ Polls(s) /\ reader[s] \in {"reading", "over"}
  /\ inLine' = [inLine EXCEPT ![s] = TRUE]
  /\ Fail(s)
  /\ UNCHANGED <<requestVars, reader, queue, halted, attempt, response>>

HearEnd(s) ==
  /\ worker[s] = "listening"
  /\ \/ queue[s] = "done" /\ At(s, "answered") /\ UNCHANGED events
     \/ queue[s] = "error" /\ Fail(s)
  /\ UNCHANGED <<requestVars, readerVars, attempt, response>>

\* The answer is what is asked for, or it has to be repaired, or there were enough
\* attempts: then a scenario is asked for through the bridge, if Ollama was asked
\* directly.  Only some ways look at the flag here.
Judge(s) ==
  /\ worker[s] = "answered"
  /\ \/ /\ cancelled[s] /\ (Polls(s) \/ via[s].route = "scaffold")
        /\ Fail(s) /\ UNCHANGED attempt
     \/ /\ ~(cancelled[s] /\ (Polls(s) \/ via[s].route = "scaffold"))
        /\ \/ At(s, "accepted") /\ UNCHANGED <<attempt, events>>
           \/ /\ attempt[s] < Attempts
              /\ attempt' = [attempt EXCEPT ![s] = @ + 1]
              /\ At(s, "asking") /\ UNCHANGED events
           \/ /\ attempt[s] = Attempts /\ UNCHANGED attempt
              /\ IF Polls(s) /\ via[s].route = "preview"
                 THEN At(s, "bridge") /\ UNCHANGED events
                 ELSE Fail(s)
           \/ Fail(s) /\ UNCHANGED attempt
  /\ UNCHANGED <<requestVars, readerVars, response>>

\* The bridge works on a draft with tools that the model calls.  It gives a scenario
\* or an error, or never returns: it waits for the servers of its tools (initialize,
\* list_tools, call_tool) without a time-out, and looks at the flag between calls only.
BridgeEnds(s) ==
  /\ worker[s] = "bridge"
  /\ \/ At(s, "accepted") /\ UNCHANGED events
     \/ Fail(s)
  /\ UNCHANGED <<requestVars, readerVars, attempt, response>>

\* The last look at the flag.
Deliver(s) ==
  /\ worker[s] = "accepted"
  /\ IF cancelled[s] THEN Fail(s)
     ELSE IF via[s].route = "preview" THEN At(s, "preview") /\ UNCHANGED events
     ELSE Emit(s, "result")
  /\ UNCHANGED <<requestVars, readerVars, attempt, response>>

\* The preview of the scenario is planned.
BuildPreview(s) ==
  /\ worker[s] = "preview"
  /\ \E e \in {"result", "error"} : Emit(s, e)
  /\ UNCHANGED <<requestVars, readerVars, attempt, response>>

\* finally: the response is nobody's any more, and the stream ends.
CloseWorker(s) ==
  /\ worker[s] = "closing"
  /\ At(s, "ended")
  /\ response' = [response EXCEPT ![s] = FALSE]
  /\ events' = [events EXCEPT ![s] = Append(@, "end")]
  /\ UNCHANGED <<requestVars, readerVars, attempt>>

WorkerStep(s) ==
  \/ Ask(s) \/ SeeCancelled(s) \/ Deadline(s) \/ LeaveInLine(s) \/ HearEnd(s) \/ Judge(s)
  \/ Deliver(s) \/ BuildPreview(s) \/ CloseWorker(s)

-----------------------------------------------------------------------------
(* The reader thread.  The provider may keep it for ever. *)

\* The provider begins to answer.
OpenResponse(s) ==
  /\ reader[s] = "opening"
  /\ reader' = [reader EXCEPT ![s] = "reading"]
  /\ response' = [response EXCEPT ![s] = Polls(s)]
  /\ UNCHANGED <<requestVars, queue, halted, inLine, worker, attempt, events>>

\* It has answered, or the connection has broken.
ReaderEnds(s) ==
  /\ reader[s] \in {"opening", "reading"}
  /\ reader' = [reader EXCEPT ![s] = "over"]
  /\ \E e \in {"done", "error"} : queue' = [queue EXCEPT ![s] = e]
  /\ UNCHANGED <<requestVars, halted, inLine, worker, attempt, response, events>>

\* With the next line, or when none comes in time, the reader sees that it is not
\* wanted any more.
ReaderStops(s) == (halted[s] \/ closed[s]) /\ ReaderEnds(s)

AiStep(s) ==
  \/ Register(s) \/ StartWorker(s) \/ PassOn(s) \/ Vanish(s) \/ ForgetRequest(s)
  \/ SetCancelled(s) \/ CloseResponse(s)
  \/ WorkerStep(s) \/ BridgeEnds(s) \/ OpenResponse(s) \/ ReaderEnds(s)

AiNext == \E s \in AiRequests : AiStep(s)

AiSpec == AiInit /\ [][AiNext]_aiVars

\* Threads go on: the worker waits for its reader until a deadline, and the sockets of
\* a stopped reader have time-outs.  Providers, and the servers of the bridge's tools,
\* need not answer: nothing is assumed of OpenResponse, ReaderEnds and BridgeEnds.
AiFairness ==
  \A s \in AiRequests :
    /\ WF_aiVars(StartWorker(s)) /\ WF_aiVars(PassOn(s))
    /\ WF_aiVars(WorkerStep(s)) /\ WF_aiVars(ReaderStops(s))

-----------------------------------------------------------------------------
(* Properties. *)

\* A browser that stays is told one outcome.  It is no result if the generation was
\* cancelled before an answer had been accepted, whichever way the worker noticed.
OneOutcome ==
  \A s \in AiRequests :
    /\ got[s] \in {<<>>, <<"result">>, <<"error">>, <<"result", "end">>, <<"error", "end">>}
    /\ early[s] => got[s] \in {<<>>, <<"error">>, <<"error", "end">>}

\* Every request ends, even if the provider never answers, unless its thread could
\* not be started or waits for the bridge; and a reader that was given up ends,
\* unless the worker left it in the middle of a line.
AiRequestsEnd ==
  \A s \in AiRequests :
    /\ entry[s] = "active" ~> entry[s] = "gone" \/ worker[s] \in {"lost", "bridge"}
    /\ worker[s] = "ended" /\ Polls(s) ~> reader[s] \in {"none", "over"} \/ inLine[s]
=============================================================================
