--------------------------- MODULE CodexAppServer ---------------------------
(***************************************************************************)
(* One "netsage ask" over the Codex App Server                             *)
(* (src/src/netsage/ai/providers/codex/client.py, provider.py and          *)
(* src/src/netsage/agent/service.py): the provider starts the server and   *)
(* asks for its account, the service prepares the device and collects, and *)
(* every step of the agent is a thread with one turn.  Messages travel in  *)
(* two pipes, so that a turn's events may overtake the answer to the       *)
(* request that started it.                                                *)
(***************************************************************************)
EXTENDS Integers, Sequences, SequencesExt, FiniteSets

CONSTANTS MaxSteps,   \* max_agent_steps
          MaxItems    \* bound: the items and requests a server sends in a turn

ASSUME BoundsAssumption == MaxSteps \in Nat \ {0} /\ MaxItems \in Nat \ {0}

VARIABLES process,    \* the child: "none", "running", "terminated", "gone"
          scratch,    \* whether its temporary directory exists
          requests,   \* what NetSage asked and the server has not answered
          pipe,       \* what the server wrote and NetSage has not read
          notes,      \* the client's queue of messages read while waiting
          awaited,    \* the method whose answer, or "turn", NetSage waits for
          stage,      \* "start", "connecting", "ready", "step", "closing", "ended"
          thread,     \* the thread of the current step; earlier ones are smaller
          final,      \* the thread of the last agent message read, 0 when none
          answered,   \* the threads whose turn gave a structured response
          turns       \* history: per thread, what the server wrote for it, in order
vars == <<process, scratch, requests, pipe, notes, awaited, stage, thread, final, answered, turns>>
serverOnly == <<scratch, notes, awaited, stage, thread, final, answered>>

Answer(method) == [type |-> "answer", of |-> method, thread |-> 0]
Refusal(method) == [type |-> "error", of |-> method, thread |-> 0]
\* What a turn writes: agent messages, items of the server's own tools,
\* requests of its own, and its end.
ItemTypes == {"agent_message", "unsafe_item", "request"}
Ends == {"completed", "failed"}
Event(type, t) == [type |-> type, of |-> "turn", thread |-> t]

Init ==
  /\ process = "none" /\ scratch = FALSE /\ requests = <<>> /\ pipe = <<>> /\ notes = <<>>
  /\ awaited = "none" /\ stage = "start" /\ thread = 0 /\ final = 0 /\ answered = {}
  /\ turns = [t \in 1..MaxSteps |-> <<>>]

----------------------------------------------------------------------------
(* The server, an external program.                                        *)

Ended(t) == turns[t] # <<>> /\ Last(turns[t]) \in Ends

ServerAnswers ==
  /\ process = "running" /\ requests # <<>>
  /\ \E reply \in {Answer(Head(requests)), Refusal(Head(requests))} : pipe' = Append(pipe, reply)
  /\ requests' = Tail(requests)
  /\ UNCHANGED <<process, turns>> /\ UNCHANGED serverOnly

\* A turn runs from the moment it was asked for, answered yet or not.
ServerWorks ==
  /\ process = "running" /\ thread > 0 /\ ~Ended(thread)
  /\ awaited \in {"turn", "turn/start"}
  /\ \E type \in IF Len(turns[thread]) < MaxItems THEN ItemTypes \cup Ends ELSE Ends :
       /\ pipe' = Append(pipe, Event(type, thread))
       /\ turns' = [turns EXCEPT ![thread] = Append(@, type)]
  /\ UNCHANGED <<process, requests>> /\ UNCHANGED serverOnly

ServerStops ==
  /\ process \in {"running", "terminated"}
  /\ process' = "gone"
  /\ UNCHANGED <<requests, pipe, turns>> /\ UNCHANGED serverOnly

----------------------------------------------------------------------------
(* The client.                                                             *)

Waiting == awaited # "none"
Ask(method) == requests' = Append(requests, method) /\ awaited' = method

\* What an error of the awaited call leads to: _connect() and the service's
\* finally close the server; initialize() after the connection does not.
Recover ==
  IF stage = "connecting" /\ awaited = "account/read" THEN "ended" ELSE "closing"

Fails ==
  /\ stage' = Recover /\ awaited' = "none"
  /\ UNCHANGED <<process, scratch, requests, thread, final, answered, turns>>

StartFails ==
  /\ stage = "start" /\ stage' = "ended"
  /\ UNCHANGED <<process, scratch, requests, pipe, notes, awaited, thread, final, answered, turns>>

Start ==
  /\ stage = "start"
  /\ process' = "running" /\ scratch' = TRUE /\ stage' = "connecting"
  /\ Ask("initialize")
  /\ UNCHANGED <<pipe, notes, thread, final, answered, turns>>

\* The answer awaited was read.
Proceed ==
  /\ CASE awaited = "initialize" -> Ask("account/read") /\ UNCHANGED <<stage, thread, final>>
       [] awaited = "account/read" ->
            \* The account is authenticated, or initialize() raises.
            /\ stage' \in {"ready", "ended"} /\ awaited' = "none"
            /\ UNCHANGED <<requests, thread, final>>
       [] awaited = "thread/start" ->
            Ask("turn/start") /\ thread' = thread + 1 /\ final' = 0 /\ UNCHANGED stage
       [] OTHER -> awaited' = "turn" /\ UNCHANGED <<requests, stage, thread, final>>
  /\ UNCHANGED <<process, scratch, answered, turns>>

(* Mutant: what is read while an answer is awaited is dropped.             *)
Queued_Dropped(message) == notes
Queued(message) == Append(notes, message)

\* _request: one message read while the answer to a request is awaited.
ReadAnswer ==
  /\ Waiting /\ awaited # "turn" /\ pipe # <<>>
  /\ pipe' = Tail(pipe)
  /\ LET message == Head(pipe)
     IN  CASE message = Answer(awaited) -> Proceed /\ UNCHANGED notes
           [] message = Refusal(awaited) -> Fails /\ UNCHANGED notes
           [] message.type = "request" -> Fails /\ UNCHANGED notes
           [] OTHER -> /\ notes' = Queued(message)
                       /\ UNCHANGED <<process, scratch, requests, awaited, stage, thread, final,
                                      answered, turns>>

\* _wait_for_turn: the queue first, then the pipe.  A failed turn is an error
\* whichever thread it is of; a completed one must be this thread's.
TurnEvent(message) ==
  CASE message.type \in {"request", "unsafe_item", "failed"} -> Fails
    [] message.type = "agent_message" ->
         /\ final' = message.thread
         /\ UNCHANGED <<process, scratch, requests, awaited, stage, thread, answered, turns>>
    [] message.type = "completed" /\ message.thread = thread ->
         IF final = 0 THEN Fails
         ELSE \/ Fails            \* the text is no structured response
              \/ /\ answered' = answered \cup {thread}
                 /\ awaited' = "none" /\ stage' = "ready"
                 /\ UNCHANGED <<process, scratch, requests, thread, final, turns>>
    [] OTHER -> UNCHANGED <<process, scratch, requests, awaited, stage, thread, final, answered,
                            turns>>

ReadTurn ==
  /\ awaited = "turn"
  /\ \/ /\ notes # <<>> /\ notes' = Tail(notes) /\ TurnEvent(Head(notes)) /\ UNCHANGED pipe
     \/ /\ notes = <<>> /\ pipe # <<>>
        /\ pipe' = Tail(pipe) /\ TurnEvent(Head(pipe)) /\ UNCHANGED notes

\* The child's output ends.
ReadEnd ==
  /\ Waiting /\ process = "gone" /\ pipe = <<>> /\ (awaited = "turn" => notes = <<>>)
  /\ Fails /\ UNCHANGED <<pipe, notes>>

(* Mutant: only requests have a deadline, the turn has none.               *)
HasDeadline_Requests == Waiting /\ awaited # "turn"
HasDeadline == Waiting

TimesOut == HasDeadline /\ Fails /\ UNCHANGED <<pipe, notes>>

----------------------------------------------------------------------------
(* The service and the agent's steps.                                      *)

\* Preparing the device or collecting evidence raises, or the agent is done
\* with the responses it has: the report is made, and the finally runs.
Finish ==
  /\ stage = "ready"
  /\ stage' = "closing"
  /\ UNCHANGED <<process, scratch, requests, pipe, notes, awaited, thread, final, answered, turns>>

Generate ==
  /\ stage = "ready" /\ thread < MaxSteps
  /\ Ask("thread/start") /\ stage' = "step"
  /\ UNCHANGED <<process, scratch, pipe, notes, thread, final, answered, turns>>

(* Mutant: the service's finally is an except for its errors.              *)
AfterCancel_Ended == "ended"
\* A cancellation is no Exception: _connect() does not close, the finally does.
AfterCancel == IF stage = "connecting" THEN "ended" ELSE "closing"

Cancel ==
  /\ stage \in {"connecting", "ready", "step"}
  /\ stage' = AfterCancel /\ awaited' = "none"
  /\ UNCHANGED <<process, scratch, requests, pipe, notes, thread, final, answered, turns>>

\* close(): terminate, wait two seconds, kill; then the directory goes.
Terminate ==
  /\ stage = "closing" /\ process = "running"
  /\ process' = "terminated"
  /\ UNCHANGED <<scratch, requests, pipe, notes, awaited, stage, thread, final, answered, turns>>

Kill ==
  /\ stage = "closing" /\ process = "terminated"
  /\ process' = "gone"
  /\ UNCHANGED <<scratch, requests, pipe, notes, awaited, stage, thread, final, answered, turns>>

CloseEnds ==
  /\ stage = "closing" /\ process = "gone"
  /\ scratch' = FALSE /\ notes' = <<>> /\ stage' = "ended"
  /\ UNCHANGED <<process, requests, pipe, awaited, thread, final, answered, turns>>

Next ==
  \/ ServerAnswers \/ ServerWorks \/ ServerStops
  \/ StartFails \/ Start \/ ReadAnswer \/ ReadTurn \/ ReadEnd \/ TimesOut
  \/ Finish \/ Generate \/ Cancel \/ Terminate \/ Kill \/ CloseEnds

\* NetSage's own steps are taken, and its deadlines pass; the server owes
\* nothing, except to read its input: the drain of a request stands outside
\* every deadline.
Fairness ==
  /\ WF_vars(StartFails \/ Start) /\ WF_vars(ReadAnswer) /\ WF_vars(ReadTurn) /\ WF_vars(ReadEnd)
  /\ WF_vars(TimesOut) /\ WF_vars(Finish \/ Generate)
  /\ WF_vars(Terminate) /\ WF_vars(Kill) /\ WF_vars(CloseEnds)

Spec == Init /\ [][Next]_vars /\ Fairness

----------------------------------------------------------------------------
(* A response is this turn's own and was given without tools: its text is  *)
(* of its thread, and its turn wrote neither a tool item nor a request     *)
(* before it completed (docs/providers/codex.md, "causes the provider turn *)
(* to fail closed"), even of what was read while an answer was awaited.    *)
(* And a completed turn is not missed: as long as NetSage waits for it, its *)
(* end has yet to be written, or is in the pipe or the queue.              *)
TurnsFailClosed ==
  /\ \A t \in answered :
       /\ Last(turns[t]) = "completed" /\ \E i \in DOMAIN turns[t] : turns[t][i] = "agent_message"
       /\ \A i \in DOMAIN turns[t] : turns[t][i] \notin {"unsafe_item", "request"}
  /\ awaited = "turn" /\ Ended(thread) =>
       \E i \in DOMAIN (notes \o pipe) :
         LET m == (notes \o pipe)[i] IN m.thread = thread /\ m.type \in Ends

(* Once the provider is initialised, whatever ends the ask stops the child  *)
(* and removes its directory (the finally of service.py's ask).  Before,   *)
(* neither is promised: initialize() stands outside that try.              *)
ServerClosed ==
  [][stage' = "ended" /\ stage \notin {"connecting", "ended"}
       => process' \in {"none", "gone"} /\ scratch' = FALSE]_vars

(* An ask ends, whatever the server does or fails to do: every wait of     *)
(* _request and _wait_for_turn has a deadline, and close() kills.          *)
AskEnds == <>(stage = "ended")
=============================================================================
