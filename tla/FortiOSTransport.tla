-------------------------- MODULE FortiOSTransport --------------------------
(***************************************************************************)
(* One SSH session of the FortiOS transport                                *)
(* (src/src/netsage/drivers/fortios/transport.py): credential, connection, *)
(* then for every rendered command a shell whose greeting is read up to a  *)
(* prompt, the command written, and its answer read up to a prompt while   *)
(* the pager is told to go on.                                             *)
(*                                                                         *)
(* What a shell writes is a sequence of pieces, and a chunk of output is   *)
(* any number of them: "echo" (the command), "text", a refusal ("denied",  *)
(* "unavailable", "rejected"), the two halves "pager" "more" of a pager    *)
(* marker, "prompt", and "prompt_like", a line of output that looks like a *)
(* prompt.                                                                 *)
(***************************************************************************)
EXTENDS Integers, Sequences, SequencesExt, FiniteSets

CONSTANTS Greetings,   \* what a shell may write before the first command
          Answers,     \* what it may write after a command
          OutputLimit  \* max_output_characters, in pieces

ASSUME OutputLimitAssumption == OutputLimit \in Nat \ {0}

Pieces == {"echo", "text", "denied", "unavailable", "rejected", "pager", "more", "prompt",
           "prompt_like"}

\* A shell that has written its prompt waits for the next command.
ASSUME ShellAssumption ==
  \A writing \in Greetings \cup Answers :
    writing \in Seq(Pieces) /\ \A i \in DOMAIN writing : writing[i] = "prompt" => i = Len(writing)

VARIABLES link,      \* the connection: "none", "open", "closed"
          commands,  \* the rendered commands still to be answered
          phase,     \* "waiting", or what is being read: "greeting", "answer"
          coming,    \* what the shell has yet to write
          read,      \* what was read of it since the last prompt
          spaces,    \* the spaces written to the pager in this read
          outputs,   \* the outputs so far
          outcome,   \* "none", "ok", or the error raised
          answers    \* history: per command, the greeting and the answer its shell was to write
sessionVars == <<link, commands, phase, coming, read, spaces, outputs, outcome, answers>>

PromptPieces == {"prompt", "prompt_like"}
LoginFaults == {"credential_failed", "authentication_failed", "host_key_failed",
                "transport_failed"}

Pagers(pieces) ==
  Cardinality({i \in 1..(Len(pieces) - 1) : pieces[i] = "pager" /\ pieces[i + 1] = "more"})

(* Mutant: the markers are looked for in the last chunk only.              *)
MarkersSeen_InChunk(earlier, chunk) == Pagers(chunk)
MarkersSeen(earlier, chunk) == Pagers(earlier \o chunk)

\* The text after the command's echo, or all of it from a shell without echo.
\* Every line that looks like a prompt is dropped.
Clean(pieces) ==
  LET echoes == {i \in DOMAIN pieces : pieces[i] = "echo"}
      from == IF echoes = {} THEN 0 ELSE CHOOSE i \in echoes : \A j \in echoes : i <= j
  IN  SelectSeq(SubSeq(pieces, from + 1, Len(pieces)), LAMBDA p : p = "text")

\* The refusals are looked for in this order, in all the shell wrote.
RefusalIn(pieces) ==
  LET Shows(p) == \E i \in DOMAIN pieces : pieces[i] = p
  IN  CASE Shows("denied") -> "permission_denied"
        [] ~Shows("denied") /\ Shows("unavailable") -> "command_unavailable"
        [] OTHER -> IF Shows("rejected") THEN "command_rejected" ELSE "none"

SessionInit ==
  /\ link = "none" /\ commands = <<>> /\ phase = "waiting" /\ coming = <<>> /\ read = <<>>
  /\ spaces = 0 /\ outputs = <<>> /\ outcome = "none" /\ answers = <<>>

\* Whatever ends a session, its connection is closed.
Stop(result) ==
  /\ outcome' = result
  /\ link' = IF link = "open" THEN "closed" ELSE link
  /\ phase' = "waiting" /\ coming' = <<>>
  /\ UNCHANGED <<commands, read, spaces, outputs, answers>>

Submit(rendered) ==
  /\ commands = <<>> /\ outcome = "none"
  /\ commands' = rendered
  /\ UNCHANGED <<link, phase, coming, read, spaces, outputs, outcome, answers>>

Connect ==
  /\ link = "none" /\ commands # <<>> /\ outcome = "none"
  /\ link' = "open"
  /\ UNCHANGED <<commands, phase, coming, read, spaces, outputs, outcome, answers>>

LoginFails ==
  /\ link = "none" /\ commands # <<>> /\ outcome = "none"
  /\ \E fault \in LoginFaults : Stop(fault)

Working == link = "open" /\ outcome = "none"

OpenShell ==
  /\ Working /\ phase = "waiting" /\ commands # <<>>
  /\ \E greeting \in Greetings :
       /\ coming' = greeting
       /\ answers' = Append(answers, [before |-> greeting, answer |-> <<>>])
  /\ phase' = "greeting" /\ read' = <<>> /\ spaces' = 0
  /\ UNCHANGED <<link, commands, outputs, outcome>>

\* The shell writes on until a pager it has not been told to turn.
CanWrite(n) == Pagers(read \o SubSeq(coming, 1, n - 1)) <= spaces

WriteCommand(chunk) ==
  /\ \E answer \in Answers :
       /\ coming' = SubSeq(coming, Len(chunk) + 1, Len(coming)) \o answer
       /\ answers' = [answers EXCEPT ![Len(answers)].answer = answer]
  /\ phase' = "answer" /\ read' = <<>> /\ spaces' = 0
  /\ UNCHANGED <<link, commands, outputs, outcome>>

AcceptAnswer(pieces) ==
  IF RefusalIn(pieces) # "none" THEN Stop(RefusalIn(pieces))
  ELSE /\ outputs' = Append(outputs, Clean(pieces))
       /\ commands' = Tail(commands)
       /\ phase' = "waiting" /\ coming' = <<>> /\ read' = <<>>
       /\ outcome' = IF Tail(commands) = <<>> THEN "ok" ELSE "none"
       /\ link' = IF Tail(commands) = <<>> THEN "closed" ELSE link
       /\ UNCHANGED <<spaces, answers>>

\* One chunk: the limit, the pager, and whether the last line is a prompt.
Receive ==
  /\ Working /\ phase \in {"greeting", "answer"}
  /\ \E n \in 1..Len(coming) :
       /\ CanWrite(n)
       /\ LET chunk == SubSeq(coming, 1, n)
              pieces == read \o chunk
              ended == Last(pieces) \in PromptPieces
              seen == MarkersSeen(read, chunk)
          IN  CASE Len(pieces) > OutputLimit -> Stop("output_limit")
                [] Len(pieces) <= OutputLimit /\ ended ->
                     IF phase = "greeting" THEN WriteCommand(chunk) ELSE AcceptAnswer(pieces)
                [] OTHER ->
                     /\ read' = pieces
                     /\ coming' = SubSeq(coming, n + 1, Len(coming))
                     /\ spaces' = IF phase = "answer" /\ seen > spaces THEN seen ELSE spaces
                     /\ UNCHANGED <<link, commands, phase, outputs, outcome, answers>>

ShellCloses == Working /\ phase # "waiting" /\ Stop("command_failed")
ShellFails == Working /\ phase = "waiting" /\ commands # <<>> /\ Stop("command_failed")
CommandTimesOut == Working /\ phase # "waiting" /\ Stop("timeout")

SessionNext ==
  \/ Connect \/ LoginFails \/ OpenShell \/ Receive
  \/ ShellCloses \/ ShellFails \/ CommandTimesOut

----------------------------------------------------------------------------
\* Something the shell writes before its prompt looks like one.
Misleading(told) ==
  \E pieces \in {told.before, told.answer} :
    \E i \in DOMAIN pieces : pieces[i] = "prompt_like"

(* A session that succeeds returns, command by command, all the text the   *)
(* shell wrote for it, unless a line of it looks like a prompt; and a pager *)
(* that was read in full has been answered, in whatever chunks it came     *)
(* (_read_until_prompt).                                                   *)
WholeAnswer ==
  /\ outcome = "ok" =>
       \A i \in DOMAIN outputs :
         ~Misleading(answers[i]) => outputs[i] = Clean(answers[i].answer)
  /\ phase = "answer" /\ read # <<>> => spaces = Pagers(read)
=============================================================================
