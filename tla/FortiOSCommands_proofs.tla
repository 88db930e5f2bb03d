----------------------- MODULE FortiOSCommands_proofs -----------------------
(***************************************************************************)
(* Proofs about what one process does with a FortiGate: the audit trail of *)
(* a catalog command tells how it ended, a session returns whole answers,  *)
(* and the compatibility report claims only what was observed, whatever    *)
(* the shells write and in whatever chunks it is read.                     *)
(***************************************************************************)
EXTENDS FortiOSCommands, SequenceTheorems, FiniteSetTheorems, TLAPS

Unlinked == commands = <<>> /\ outcome = "none" /\ link = "none"

\* The stage of an execution, what it has recorded by then, and what that
\* says of its session: one that has ended has nothing left to do.
TrailInvariant ==
  /\ stage \in {"idle", "running", "done", "cancelled"}
  /\ outcome # "none" => link # "open"
  /\ commands = <<>> /\ outcome = "none" => link = "none"
  /\ stage \in {"idle", "running"} => trail = <<>> /\ reply = "none"
  /\ stage \in {"done", "cancelled"} => outcome # "none" \/ Unlinked
  /\ stage = "cancelled" => trail = <<>>
  /\ stage = "done" =>
       /\ trail = <<>> \/ \E event : trail = <<event>>
       /\ reply = "result" => outcome = "ok"
       /\ reply = "result" <=> \E i \in DOMAIN trail : trail[i].result = "success"
       /\ trail = <<>> => reply = "AUDIT_FAILED"
       /\ \A i \in DOMAIN trail : trail[i].result = "denied" => link = "none"

\* What Fail leaves behind.
LEMMA FailRecords ==
  ASSUME NEW code, Fail(code), trail = <<>>, code # "result"
  PROVE  /\ stage' = "done"
         /\ trail' = <<>> \/ \E event : trail' = <<event>>
         /\ reply' # "result"
         /\ \A i \in DOMAIN trail' : /\ trail'[i].result # "success"
                                     /\ trail'[i].result = "denied" => code \in DeniedCodes
         /\ trail' = <<>> => reply' = "AUDIT_FAILED"
<1>1. CASE trail' = Append(trail, [result |-> IF code \in DeniedCodes THEN "denied" ELSE "failure",
                                   code |-> code]) /\ reply' = code
  <2> DEFINE event == [result |-> IF code \in DeniedCodes THEN "denied" ELSE "failure",
                       code |-> code]
  <2>1. trail' = <<event>>
    BY <1>1
  <2>2. DOMAIN trail' = {1} /\ trail'[1] = event /\ trail' # <<>>
    BY <2>1
  <2> QED
    BY <1>1, <2>1, <2>2 DEF Fail
<1>2. CASE reply' = "AUDIT_FAILED" /\ trail' = trail
  BY <1>2 DEF Fail
<1> QED
  BY <1>1, <1>2 DEF Fail

LEMMA TrailStarts == Init => TrailInvariant
  BY DEF Init, SessionInit, CatalogInit, TrailInvariant

\* A session's own step: none is left to a finished execution.
LEMMA SessionKeepsTrail ==
  ASSUME TrailInvariant, SessionNext, UNCHANGED catalogVars
  PROVE  TrailInvariant'
<1> USE DEF TrailInvariant, Unlinked, catalogVars
<1>1. CASE Connect
  BY <1>1 DEF Connect
<1>2. ASSUME NEW result, Stop(result), result # "none", stage \notin {"done", "cancelled"}
      PROVE  TrailInvariant'
  BY <1>2 DEF Stop
<1>3. stage \in {"done", "cancelled"} => ~Working /\ ~(commands # <<>> /\ outcome = "none")
  BY DEF Working
<1>4. CASE LoginFails
  BY <1>2, <1>3, <1>4 DEF LoginFails, LoginFaults
<1>5. CASE OpenShell
  BY <1>3, <1>5 DEF OpenShell, Working
<1>6. CASE Receive
  <2>1. PICK n \in 1..Len(coming) :
          LET chunk == SubSeq(coming, 1, n)
              pieces == read \o chunk
          IN  \/ Stop("output_limit")
              \/ WriteCommand(chunk)
              \/ AcceptAnswer(pieces)
              \/ UNCHANGED <<link, commands, outcome>>
    BY <1>6 DEF Receive
  <2> DEFINE chunk == SubSeq(coming, 1, n)
             pieces == read \o chunk
  <2>2. Working /\ stage \notin {"done", "cancelled"}
    BY <1>3, <1>6 DEF Receive
  <2>3. CASE Stop("output_limit")
    BY <1>2, <2>2, <2>3
  <2>4. CASE WriteCommand(chunk)
    BY <2>2, <2>4 DEF WriteCommand
  <2>5. CASE AcceptAnswer(pieces) /\ RefusalIn(pieces) # "none"
    BY <1>2, <2>2, <2>5 DEF AcceptAnswer
  <2>6. CASE AcceptAnswer(pieces) /\ RefusalIn(pieces) = "none"
    BY <2>2, <2>6 DEF AcceptAnswer, Working
  <2>7. CASE UNCHANGED <<link, commands, outcome>>
    BY <2>2, <2>7
  <2> QED
    BY <2>1, <2>3, <2>4, <2>5, <2>6, <2>7
<1>7. CASE ShellCloses \/ ShellFails \/ CommandTimesOut
  BY <1>2, <1>3, <1>7 DEF ShellCloses, ShellFails, CommandTimesOut
<1> QED
  BY <1>1, <1>4, <1>5, <1>6, <1>7 DEF SessionNext

LEMMA CatalogKeepsTrail ==
  ASSUME TrailInvariant, Idle \/ stage # "idle", CatalogNext
  PROVE  TrailInvariant'
<1> USE DEF TrailInvariant, Unlinked
<1>1. ASSUME NEW id \in Requested, Execute(id)
      PROVE  TrailInvariant'
  <2>1. PICK arguments \in ArgumentVerdicts, redaction \in RedactionVerdicts :
          \/ /\ PrepareError(id, arguments, redaction) # "none"
             /\ Fail(PrepareError(id, arguments, redaction))
             /\ UNCHANGED sessionVars
          \/ Submit(<<id>>) /\ stage' = "running" /\ UNCHANGED <<reply, trail>>
    BY <1>1 DEF Execute
  <2>2. Unlinked /\ trail = <<>> /\ reply = "none"
    BY <1>1 DEF Execute, Idle
  <2>3. CASE Submit(<<id>>) /\ stage' = "running" /\ UNCHANGED <<reply, trail>>
    BY <2>2, <2>3 DEF Submit
  <2>4. CASE Fail(PrepareError(id, arguments, redaction)) /\ UNCHANGED sessionVars
    <3>1. PrepareError(id, arguments, redaction) # "result"
      BY DEF PrepareError
    <3> QED
      BY <2>2, <2>4, <3>1, FailRecords DEF sessionVars
  <2> QED
    BY <2>1, <2>3, <2>4
<1>2. CASE SessionFails
  <2>1. CodeOf(outcome) \notin DeniedCodes \cup {"result"}
    BY DEF CodeOf, DeniedCodes
  <2> QED
    BY <1>2, <2>1, FailRecords DEF SessionFails, sessionVars
<1>3. CASE SessionReturns
  <2>1. stage = "running" /\ outcome = "ok" /\ trail = <<>> /\ UNCHANGED sessionVars
    BY <1>3 DEF SessionReturns
  <2>2. ASSUME NEW code \in {"OUTPUT_REDACTION_FAILED", "OUTPUT_LIMIT_EXCEEDED", "AUDIT_FAILED"},
               Fail(code)
        PROVE  TrailInvariant'
    BY <2>1, <2>2, FailRecords DEF sessionVars, DeniedCodes
  <2>3. CASE /\ trail' = Append(trail, [result |-> "success", code |-> "none"])
             /\ stage' = "done" /\ reply' = "result"
    <3> DEFINE event == [result |-> "success", code |-> "none"]
    <3>1. trail' = <<event>>
      BY <2>1, <2>3
    <3>2. DOMAIN trail' = {1} /\ trail'[1] = event /\ trail' # <<>>
      BY <3>1
    <3> QED
      BY <2>1, <2>3, <3>1, <3>2 DEF sessionVars
  <2> QED
    BY <1>3, <2>2, <2>3 DEF SessionReturns, Returned
<1>4. CASE ExecutionTimesOut
  <2>1. /\ outcome' = "cancelled" /\ link' # "open" /\ commands' = commands
        /\ stage = "running" /\ trail = <<>> /\ Fail("TIMEOUT")
    BY <1>4 DEF ExecutionTimesOut, Running, Stop
  <2> QED
    BY <2>1, FailRecords DEF DeniedCodes
<1>5. CASE Cancel
  BY <1>5 DEF Cancel, Running, Stop
<1> QED
  BY <1>1, <1>2, <1>3, <1>4, <1>5 DEF CatalogNext

LEMMA TrailStep == TrailInvariant /\ [Next]_vars => TrailInvariant'
<1> SUFFICES ASSUME TrailInvariant, [Next]_vars
             PROVE  TrailInvariant'
  OBVIOUS
<1>1. CASE Catalog
  BY <1>1, CatalogKeepsTrail DEF Catalog
<1>2. CASE Collect
  BY <1>2 DEF Collect, Idle, Submit, catalogVars, TrailInvariant, Unlinked
<1>3. CASE Session
  BY <1>3, SessionKeepsTrail DEF Session
<1>4. CASE Probe \/ UNCHANGED vars
  <2>1. UNCHANGED <<link, commands, outcome, stage, reply, trail>>
    BY <1>4 DEF Probe, vars, sessionVars, catalogVars
  <2> QED
    BY <2>1 DEF TrailInvariant, Unlinked
<1> QED
  BY <1>1, <1>2, <1>3, <1>4 DEF Next

(* The audit trail of a finished execution tells how it ended: success     *)
(* recorded exactly when the result was returned, at most one event, denied *)
(* only before any device was reached; and no connection outlives it       *)
(* (catalog/executor.py, execute).                                         *)
THEOREM AuditTrailIsTrue == Spec => []TrailTellsOutcome
<1>1. TrailInvariant => TrailTellsOutcome
  <2> SUFFICES ASSUME TrailInvariant
               PROVE  TrailTellsOutcome
    OBVIOUS
  <2>1. ASSUME stage \in {"done", "cancelled"}
        PROVE  link # "open" /\ Len(trail) <= 1
    <3>1. link # "open"
      BY <2>1 DEF TrailInvariant, Unlinked
    <3>2. trail = <<>> \/ \E event : trail = <<event>>
      BY <2>1 DEF TrailInvariant
    <3>3. CASE trail = <<>>
      BY <3>1, <3>3
    <3>4. CASE \E event : trail = <<event>>
      <4>1. PICK event : trail = <<event>>
        BY <3>4
      <4>2. Len(trail) = 1
        BY <4>1
      <4> QED
        BY <3>1, <4>2
    <3> QED
      BY <3>2, <3>3, <3>4
  <2> QED
    BY <2>1 DEF TrailInvariant, TrailTellsOutcome
<1> QED
  BY <1>1, TrailStarts, TrailStep, PTL DEF Spec

----------------------------------------------------------------------------
\* ConcatAssociative, for what a shell writes.
LEMMA PiecesAssociate ==
  ASSUME NEW s \in Seq(Pieces), NEW t \in Seq(Pieces), NEW u \in Seq(Pieces)
  PROVE  (s \o t) \o u = s \o (t \o u)
BY ConcatAssociative

(* What one chunk adds to what was read: the whole writing stays the same. *)
LEMMA OneChunk ==
  ASSUME read \in Seq(Pieces), coming \in Seq(Pieces), NEW n \in 1..Len(coming)
  PROVE  LET pieces == read \o SubSeq(coming, 1, n)
             rest == SubSeq(coming, n + 1, Len(coming))
         IN  /\ pieces \in Seq(Pieces) /\ pieces # <<>> /\ rest \in Seq(Pieces)
             /\ Len(pieces) = Len(read) + n
             /\ pieces \o rest = read \o coming
             /\ Last(pieces) = (read \o coming)[Len(pieces)]
             /\ n = Len(coming) => pieces = read \o coming /\ rest = <<>>
<1> DEFINE chunk == SubSeq(coming, 1, n)
           pieces == read \o chunk
           rest == SubSeq(coming, n + 1, Len(coming))
<1>1. Len(coming) \in Nat /\ Len(read) \in Nat /\ n \in Nat \ {0} /\ n <= Len(coming)
  BY LenProperties
<1>2. \A i \in 1..Len(coming) : coming[i] \in Pieces
  BY ElementOfSeq
<1>3. chunk \in Seq(Pieces) /\ Len(chunk) = n /\ \A i \in 1..n : chunk[i] = coming[i]
  BY <1>1, <1>2, SubSeqProperties
<1>4. rest \in Seq(Pieces)
  BY <1>1, <1>2, SubSeqProperties
<1>5. pieces \in Seq(Pieces) /\ Len(pieces) = Len(read) + n
  BY <1>3, ConcatProperties
<1>6. pieces # <<>>
  BY <1>1, <1>5, EmptySeq
<1>7. pieces \o rest = read \o coming
  <2>1. chunk \o rest = SubSeq(coming, 1, Len(coming))
    BY <1>1, ConcatAdjacentSubSeq
  <2>2. chunk \o rest = coming
    BY <2>1, SubSeqFull
  <2> HIDE DEF chunk, rest
  <2>3. (read \o chunk) \o rest = read \o (chunk \o rest)
    BY <1>3, <1>4, PiecesAssociate
  <2> QED
    BY <2>2, <2>3
<1>8. Last(pieces) = (read \o coming)[Len(pieces)]
  <2> HIDE DEF pieces, rest
  <2>1. pieces[Len(pieces)] = (pieces \o rest)[Len(pieces)]
    <3>1. Len(rest) \in Nat /\ Len(pieces) \in 1..(Len(pieces) + Len(rest))
      BY <1>1, <1>4, <1>5, LenProperties
    <3> QED
      BY <1>4, <1>5, <3>1, ConcatProperties
  <2> QED
    BY <1>7, <2>1 DEF Last
<1>9. n = Len(coming) => pieces = read \o coming /\ rest = <<>>
  BY <1>1, SubSeqFull, SubSeqEmpty
<1> QED
  BY <1>4, <1>5, <1>6, <1>7, <1>8, <1>9

\* A prompt ends the writing it stands in, so what ends with it is all of it.
LEMMA PromptIsLast ==
  ASSUME read \in Seq(Pieces), coming \in Seq(Pieces), NEW n \in 1..Len(coming),
         read \o coming \in Greetings \cup Answers,
         Last(read \o SubSeq(coming, 1, n)) = "prompt"
  PROVE  /\ read \o SubSeq(coming, 1, n) = read \o coming
         /\ SubSeq(coming, n + 1, Len(coming)) = <<>>
<1> DEFINE told == read \o coming
           pieces == read \o SubSeq(coming, 1, n)
<1>1. Len(coming) \in Nat /\ Len(read) \in Nat /\ n \in Nat \ {0} /\ n <= Len(coming)
  BY LenProperties
<1>2. Len(told) = Len(read) + Len(coming) /\ DOMAIN told = 1..Len(told)
  BY ConcatProperties, LenProperties
<1>3. Len(pieces) = Len(read) + n /\ told[Len(pieces)] = "prompt"
  BY OneChunk
<1>4. Len(pieces) \in DOMAIN told
  BY <1>1, <1>2, <1>3
<1>5. Len(pieces) = Len(told)
  BY <1>3, <1>4, ShellAssumption
<1>6. n = Len(coming)
  BY <1>1, <1>2, <1>3, <1>5
<1> QED
  BY <1>6, OneChunk

\* Reading on only adds pagers.
LEMMA PagersGrow ==
  ASSUME NEW earlier \in Seq(Pieces), NEW chunk \in Seq(Pieces)
  PROVE  /\ Pagers(earlier) \in Nat /\ Pagers(earlier \o chunk) \in Nat
         /\ Pagers(earlier) <= Pagers(earlier \o chunk)
<1> DEFINE At(pieces) == {i \in 1..(Len(pieces) - 1) : pieces[i] = "pager" /\ pieces[i + 1] = "more"}
<1>1. \A pieces \in Seq(Pieces) : IsFiniteSet(At(pieces)) /\ Pagers(pieces) \in Nat
  <2> TAKE pieces \in Seq(Pieces)
  <2>1. Len(pieces) \in Nat
    BY LenProperties
  <2>2. IsFiniteSet(1..(Len(pieces) - 1))
    BY <2>1, FS_Interval
  <2>3. IsFiniteSet(At(pieces))
    BY <2>2, FS_Subset
  <2> QED
    BY <2>3, FS_CardinalityType DEF Pagers
<1>2. earlier \o chunk \in Seq(Pieces)
  BY ConcatProperties
<1>3. At(earlier) \subseteq At(earlier \o chunk)
  BY ConcatProperties, LenProperties
<1>4. Cardinality(At(earlier)) <= Cardinality(At(earlier \o chunk))
  BY <1>1, <1>2, <1>3, FS_Subset
<1> QED
  BY <1>1, <1>2, <1>4 DEF Pagers

LEMMA NoPagers == Pagers(<<>>) = 0
<1>1. {i \in 1..(Len(<<>>) - 1) : <<>>[i] = "pager" /\ <<>>[i + 1] = "more"} = {}
  OBVIOUS
<1> QED
  BY <1>1, FS_EmptySet DEF Pagers

----------------------------------------------------------------------------
Shows(pieces) == \E i \in DOMAIN pieces : pieces[i] = "prompt_like"

\* While a command is being answered its writing is being told; otherwise there
\* is one output for every writing told.
AnswersAccounted ==
  /\ outputs \in Seq(Range(outputs)) /\ answers \in Seq([before : Seq(Pieces), answer : Seq(Pieces)])
  /\ Len(outputs) <= Len(answers)
  /\ phase = "waiting" /\ outcome = "none" => Len(answers) = Len(outputs)
  /\ phase # "waiting" => Len(answers) = Len(outputs) + 1

\* What was read and what is to come are the writing, unless a line of the
\* greeting that looks like a prompt has put the reader ahead of it.
ReadingIsWriting ==
  /\ coming \in Seq(Pieces) /\ read \in Seq(Pieces) /\ phase \in {"waiting", "greeting", "answer"}
  /\ \A i \in DOMAIN answers : answers[i].before \in Greetings
  /\ phase = "greeting" => read \o coming = answers[Len(answers)].before
  /\ phase = "answer" =>
       /\ answers[Len(answers)].answer \in Answers
       /\ ~Shows(answers[Len(answers)].before) => read \o coming = answers[Len(answers)].answer
       /\ spaces = Pagers(read)

AnswersWhole ==
  \A i \in DOMAIN outputs : ~Misleading(answers[i]) => outputs[i] = Clean(answers[i].answer)

AnswerInvariant == AnswersAccounted /\ ReadingIsWriting /\ AnswersWhole

\* Appending to a sequence of whatever it holds.
LEMMA AppendAny ==
  ASSUME NEW seq, seq \in Seq(Range(seq)), NEW element
  PROVE  LET longer == Append(seq, element)
         IN  /\ longer \in Seq(Range(longer))
             /\ Len(seq) \in Nat /\ DOMAIN seq = 1..Len(seq)
             /\ Len(longer) = Len(seq) + 1 /\ DOMAIN longer = 1..(Len(seq) + 1)
             /\ \A i \in DOMAIN seq : longer[i] = seq[i]
             /\ longer[Len(seq) + 1] = element
<1> DEFINE S == Range(seq) \cup {element}
           longer == Append(seq, element)
<1>1. seq \in Seq(S) /\ element \in S
  BY SeqMonotonic
<1> HIDE DEF S
<1>2. Len(seq) \in Nat /\ DOMAIN seq = 1..Len(seq)
  BY <1>1, LenProperties
<1>3. /\ longer \in Seq(S) /\ Len(longer) = Len(seq) + 1
      /\ \A i \in 1..Len(seq) : longer[i] = seq[i]
      /\ longer[Len(seq) + 1] = element
  BY <1>1, AppendProperties
<1> HIDE DEF longer
<1>4. DOMAIN longer = 1..(Len(seq) + 1) /\ longer \in Seq(Range(longer))
  BY <1>3, LenProperties, SeqOfRange
<1> QED
  BY <1>2, <1>3, <1>4 DEF longer

LEMMA AnswerStarts == Init => AnswerInvariant
<1> SUFFICES ASSUME Init PROVE AnswerInvariant
  OBVIOUS
<1>1. /\ outputs = <<>> /\ answers = <<>> /\ phase = "waiting" /\ coming = <<>> /\ read = <<>>
  BY DEF Init, SessionInit
<1>2. \A S : <<>> \in Seq(S) /\ Len(<<>>) = 0 /\ DOMAIN <<>> = {}
  BY EmptySeq
<1> QED
  BY <1>1, <1>2 DEF AnswerInvariant, AnswersAccounted, ReadingIsWriting, AnswersWhole

LEMMA StopKeepsAnswers ==
  ASSUME AnswerInvariant, NEW result, Stop(result), result # "none"
  PROVE  AnswerInvariant'
<1>1. /\ outcome' = result /\ phase' = "waiting" /\ coming' = <<>>
      /\ UNCHANGED <<read, spaces, outputs, answers>>
  BY DEF Stop
<1>2. <<>> \in Seq(Pieces)
  BY EmptySeq
<1>3. AnswersAccounted'
  BY <1>1 DEF AnswerInvariant, AnswersAccounted
<1>4. ReadingIsWriting'
  BY <1>1, <1>2 DEF AnswerInvariant, ReadingIsWriting
<1>5. AnswersWhole'
  BY <1>1 DEF AnswerInvariant, AnswersWhole
<1> QED
  BY <1>3, <1>4, <1>5 DEF AnswerInvariant

LEMMA OpenShellKeepsAnswers ==
  ASSUME AnswerInvariant, OpenShell
  PROVE  AnswerInvariant'
<1> DEFINE Told == [before : Seq(Pieces), answer : Seq(Pieces)]
<1>1. PICK greeting \in Greetings :
        /\ coming' = greeting
        /\ answers' = Append(answers, [before |-> greeting, answer |-> <<>>])
  BY DEF OpenShell
<1>2. /\ phase = "waiting" /\ outcome = "none" /\ outcome' = "none" /\ phase' = "greeting"
      /\ read' = <<>> /\ spaces' = 0 /\ outputs' = outputs
  BY DEF OpenShell, Working
<1>3. greeting \in Seq(Pieces)
  BY ShellAssumption
<1> DEFINE told == [before |-> greeting, answer |-> <<>>]
<1>4. told \in Told
  BY <1>3, EmptySeq
<1>5. answers \in Seq(Told) /\ outputs \in Seq(Range(outputs)) /\ Len(answers) = Len(outputs)
  BY <1>2 DEF AnswerInvariant, AnswersAccounted
<1>6. /\ Len(answers) \in Nat /\ DOMAIN answers = 1..Len(answers) /\ DOMAIN outputs = 1..Len(outputs)
  BY <1>5, LenProperties
<1> HIDE DEF Told
<1>7. /\ answers' \in Seq(Told) /\ Len(answers') = Len(answers) + 1
      /\ \A i \in 1..Len(answers) : answers'[i] = answers[i]
      /\ answers'[Len(answers) + 1] = told
  BY <1>1, <1>4, <1>5, AppendProperties
<1>8. DOMAIN answers' = 1..(Len(answers) + 1)
  BY <1>7, LenProperties
<1>9. AnswersAccounted'
  BY <1>2, <1>5, <1>6, <1>7 DEF AnswersAccounted, Told
<1>10. ReadingIsWriting'
  <2>1. <<>> \o greeting = greeting /\ <<>> \in Seq(Pieces)
    BY <1>3, ConcatEmptySeq, EmptySeq
  <2>2. \A i \in DOMAIN answers' : answers'[i].before \in Greetings
    BY <1>6, <1>7, <1>8 DEF AnswerInvariant, ReadingIsWriting
  <2> QED
    BY <1>1, <1>2, <1>3, <1>7, <2>1, <2>2 DEF ReadingIsWriting
<1>11. AnswersWhole'
  BY <1>2, <1>5, <1>6, <1>7 DEF AnswerInvariant, AnswersWhole
<1> QED
  BY <1>9, <1>10, <1>11 DEF AnswerInvariant

\* The prompt of the greeting: the command is written, and its answer told.
LEMMA WriteCommandKeepsAnswers ==
  ASSUME AnswerInvariant, phase = "greeting", NEW n \in 1..Len(coming),
         Last(read \o SubSeq(coming, 1, n)) \in PromptPieces,
         WriteCommand(SubSeq(coming, 1, n))
  PROVE  AnswerInvariant'
<1> DEFINE Told == [before : Seq(Pieces), answer : Seq(Pieces)]
           chunk == SubSeq(coming, 1, n)
           last == Len(answers)
<1>1. /\ coming \in Seq(Pieces) /\ read \in Seq(Pieces)
      /\ answers \in Seq(Told) /\ outputs \in Seq(Range(outputs)) /\ last = Len(outputs) + 1
      /\ \A i \in DOMAIN answers : answers[i].before \in Greetings
      /\ read \o coming = answers[last].before
  BY DEF AnswerInvariant, AnswersAccounted, ReadingIsWriting
<1>2. /\ last \in Nat /\ DOMAIN answers = 1..last /\ Len(outputs) \in Nat
      /\ DOMAIN outputs = 1..Len(outputs) /\ last \in DOMAIN answers
  BY <1>1, LenProperties
<1>3. Len(chunk) = n
  <2>1. Len(coming) \in Nat /\ \A i \in 1..Len(coming) : coming[i] \in Pieces
    BY <1>1, LenProperties, ElementOfSeq
  <2> QED
    BY <2>1, SubSeqProperties
<1>4. PICK answer \in Answers :
        /\ coming' = SubSeq(coming, n + 1, Len(coming)) \o answer
        /\ answers' = [answers EXCEPT ![last].answer = answer]
  BY <1>3 DEF WriteCommand
<1>5. /\ phase' = "answer" /\ read' = <<>> /\ spaces' = 0
      /\ UNCHANGED <<outputs, outcome>>
  BY DEF WriteCommand
<1>6. answer \in Seq(Pieces)
  BY ShellAssumption
<1> DEFINE told == [answers[last] EXCEPT !.answer = answer]
<1>7. answers[last] \in Told /\ told \in Told /\ told.before = answers[last].before /\ told.answer = answer
  <2>1. answers[last] \in Told
    BY <1>1, <1>2, ElementOfSeq
  <2> QED
    BY <1>6, <2>1
<1>8. answers' = [answers EXCEPT ![last] = told]
  BY <1>4
<1> HIDE DEF Told, told
<1>9. /\ answers' \in Seq(Told) /\ Len(answers') = last
      /\ \A i \in 1..last : answers'[i] = IF i = last THEN told ELSE answers[i]
  BY <1>1, <1>2, <1>7, <1>8, ExceptSeq
<1>10. DOMAIN answers' = 1..last
  BY <1>9, LenProperties
<1>11. AnswersAccounted'
  BY <1>1, <1>2, <1>5, <1>9 DEF AnswerInvariant, AnswersAccounted, Told
<1>12. ReadingIsWriting'
  <2>1. /\ <<>> \o coming' = coming' /\ <<>> \in Seq(Pieces) /\ coming' \in Seq(Pieces)
    BY <1>1, <1>4, <1>6, OneChunk, ConcatProperties, ConcatEmptySeq, EmptySeq
  <2>2. \A i \in DOMAIN answers' : answers'[i].before \in Greetings
    BY <1>1, <1>2, <1>7, <1>9, <1>10
  <2>3. ASSUME ~Shows(answers[last].before)
        PROVE  coming' = answer
    <3>1. Last(read \o chunk) = "prompt"
      <4>1. Last(read \o chunk) = answers[last].before[Len(read \o chunk)]
        BY <1>1, OneChunk
      <4>2. Len(read \o chunk) \in DOMAIN answers[last].before
        <5>1. /\ Len(read) \in Nat /\ Len(coming) \in Nat /\ n \in Nat /\ n <= Len(coming)
              /\ Len(read \o coming) = Len(read) + Len(coming)
              /\ DOMAIN (read \o coming) = 1..Len(read \o coming)
          <6>1. Len(read) \in Nat /\ Len(coming) \in Nat
            BY <1>1, LenProperties
          <6>2. read \o coming \in Seq(Pieces) /\ Len(read \o coming) = Len(read) + Len(coming)
            BY <1>1, ConcatProperties
          <6>3. DOMAIN (read \o coming) = 1..Len(read \o coming)
            BY <6>2, LenProperties
          <6> QED
            BY <6>1, <6>2, <6>3
        <5>2. Len(read \o chunk) = Len(read) + n
          BY <1>1, OneChunk
        <5> QED
          BY <1>1, <5>1, <5>2
      <4>3. Last(read \o chunk) # "prompt_like"
        BY <2>3, <4>1, <4>2 DEF Shows
      <4> QED
        BY <4>3 DEF PromptPieces
    <3>2. SubSeq(coming, n + 1, Len(coming)) = <<>>
      BY <1>1, <1>2, <3>1, PromptIsLast
    <3> QED
      BY <1>4, <1>6, <3>2, ConcatEmptySeq
  <2> QED
    BY <1>5, <1>7, <1>9, <1>2, <2>1, <2>2, <2>3, NoPagers DEF ReadingIsWriting
<1>13. AnswersWhole'
  <2>1. \A i \in DOMAIN outputs : answers'[i] = answers[i]
    BY <1>1, <1>2, <1>9
  <2> QED
    BY <1>5, <2>1 DEF AnswerInvariant, AnswersWhole
<1> QED
  BY <1>11, <1>12, <1>13 DEF AnswerInvariant

\* The prompt of an answer: what was read is all of it, and is kept cleaned.
LEMMA AcceptAnswerKeepsAnswers ==
  ASSUME AnswerInvariant, phase = "answer", NEW n \in 1..Len(coming),
         Last(read \o SubSeq(coming, 1, n)) \in PromptPieces,
         AcceptAnswer(read \o SubSeq(coming, 1, n))
  PROVE  AnswerInvariant'
<1> DEFINE pieces == read \o SubSeq(coming, 1, n)
           last == Len(answers)
<1>1. CASE RefusalIn(pieces) # "none"
  BY <1>1, StopKeepsAnswers DEF AcceptAnswer
<1>2. CASE RefusalIn(pieces) = "none"
  <2>1. /\ outputs' = Append(outputs, Clean(pieces))
        /\ phase' = "waiting" /\ coming' = <<>> /\ read' = <<>>
        /\ UNCHANGED <<spaces, answers>>
    BY <1>2 DEF AcceptAnswer
  <2>2. /\ coming \in Seq(Pieces) /\ read \in Seq(Pieces) /\ outputs \in Seq(Range(outputs))
        /\ answers \in Seq([before : Seq(Pieces), answer : Seq(Pieces)])
        /\ last = Len(outputs) + 1 /\ answers[last].answer \in Answers
        /\ ~Shows(answers[last].before) => read \o coming = answers[last].answer
    BY DEF AnswerInvariant, AnswersAccounted, ReadingIsWriting
  <2>3. /\ outputs' \in Seq(Range(outputs')) /\ Len(outputs) \in Nat /\ DOMAIN outputs = 1..Len(outputs)
        /\ Len(outputs') = last /\ DOMAIN outputs' = 1..last
        /\ \A i \in DOMAIN outputs : outputs'[i] = outputs[i]
        /\ outputs'[last] = Clean(pieces)
    BY <2>1, <2>2, AppendAny
  <2>4. AnswersAccounted'
    BY <2>1, <2>2, <2>3 DEF AnswersAccounted
  <2>5. ReadingIsWriting'
    <3>1. <<>> \in Seq(Pieces)
      BY EmptySeq
    <3> QED
      BY <2>1, <3>1 DEF AnswerInvariant, ReadingIsWriting
  <2>6. ASSUME ~Misleading(answers[last])
        PROVE  pieces = answers[last].answer
    <3>1. ~Shows(answers[last].before) /\ ~Shows(answers[last].answer)
      BY <2>6 DEF Misleading, Shows
    <3>2. read \o coming = answers[last].answer
      BY <2>2, <3>1
    <3>3. Len(pieces) \in DOMAIN (read \o coming)
      <4>1. Len(read) \in Nat /\ Len(coming) \in Nat
        BY <2>2, LenProperties
      <4>2. read \o coming \in Seq(Pieces) /\ Len(read \o coming) = Len(read) + Len(coming)
        BY <2>2, ConcatProperties
      <4>3. DOMAIN (read \o coming) = 1..Len(read \o coming)
        BY <4>2, LenProperties
      <4>4. Len(pieces) = Len(read) + n
        BY <2>2, OneChunk
      <4> QED
        BY <4>1, <4>2, <4>3, <4>4
    <3>4. Last(pieces) = (read \o coming)[Len(pieces)]
      BY <2>2, OneChunk
    <3>5. Last(pieces) = "prompt"
      BY <3>1, <3>2, <3>3, <3>4 DEF Shows, PromptPieces
    <3> QED
      BY <2>2, <3>2, <3>5, PromptIsLast
  <2>7. AnswersWhole'
    <3> SUFFICES ASSUME NEW i \in 1..last, ~Misleading(answers[i])
                 PROVE  outputs'[i] = Clean(answers[i].answer)
      BY <2>1, <2>3 DEF AnswersWhole
    <3>1. CASE i = last
      BY <2>3, <2>6, <3>1
    <3>2. CASE i # last
      <4>1. i \in DOMAIN outputs
        BY <2>2, <2>3, <3>2
      <4> QED
        BY <2>3, <4>1 DEF AnswerInvariant, AnswersWhole
    <3> QED
      BY <3>1, <3>2
  <2> QED
    BY <2>4, <2>5, <2>7 DEF AnswerInvariant
<1> QED
  BY <1>1, <1>2

\* A chunk without a prompt: it is kept, and the pagers it shows are turned.
LEMMA ReadOnKeepsAnswers ==
  ASSUME AnswerInvariant, phase \in {"greeting", "answer"}, NEW n \in 1..Len(coming),
         read' = read \o SubSeq(coming, 1, n),
         coming' = SubSeq(coming, n + 1, Len(coming)),
         spaces' = IF phase = "answer" /\ MarkersSeen(read, SubSeq(coming, 1, n)) > spaces
                   THEN MarkersSeen(read, SubSeq(coming, 1, n)) ELSE spaces,
         UNCHANGED <<link, commands, phase, outputs, outcome, answers>>
  PROVE  AnswerInvariant'
<1> DEFINE chunk == SubSeq(coming, 1, n)
<1>1. coming \in Seq(Pieces) /\ read \in Seq(Pieces)
  BY DEF AnswerInvariant, ReadingIsWriting
<1>2. read' \in Seq(Pieces) /\ coming' \in Seq(Pieces) /\ read' \o coming' = read \o coming
  BY <1>1, OneChunk
<1>3. ASSUME phase = "answer"
      PROVE  spaces' = Pagers(read')
  <2>1. chunk \in Seq(Pieces)
    <3>1. Len(coming) \in Nat /\ \A i \in 1..Len(coming) : coming[i] \in Pieces
      BY <1>1, LenProperties, ElementOfSeq
    <3> QED
      BY <3>1, SubSeqProperties
  <2>2. /\ Pagers(read) \in Nat /\ Pagers(read \o chunk) \in Nat
        /\ Pagers(read) <= Pagers(read \o chunk)
    BY <1>1, <2>1, PagersGrow
  <2>3. spaces = Pagers(read)
    BY <1>3 DEF AnswerInvariant, ReadingIsWriting
  <2> QED
    BY <1>3, <2>2, <2>3 DEF MarkersSeen
<1>4. AnswersAccounted'
  BY DEF AnswerInvariant, AnswersAccounted
<1>5. ReadingIsWriting'
  BY <1>2, <1>3 DEF AnswerInvariant, ReadingIsWriting
<1>6. AnswersWhole'
  BY DEF AnswerInvariant, AnswersWhole
<1> QED
  BY <1>4, <1>5, <1>6 DEF AnswerInvariant

LEMMA AnswerStep == AnswerInvariant /\ [Next]_vars => AnswerInvariant'
<1> SUFFICES ASSUME AnswerInvariant, [Next]_vars
             PROVE  AnswerInvariant'
  OBVIOUS
<1>1. ASSUME UNCHANGED <<phase, coming, read, spaces, outputs, outcome, answers>>
      PROVE  AnswerInvariant'
  BY <1>1 DEF AnswerInvariant, AnswersAccounted, ReadingIsWriting, AnswersWhole
<1>2. CASE Probe \/ UNCHANGED vars
  BY <1>1, <1>2 DEF Probe, vars, sessionVars
<1>3. CASE Collect
  BY <1>1, <1>3 DEF Collect, Submit
<1>4. CASE Catalog
  <2>1. \/ UNCHANGED <<phase, coming, read, spaces, outputs, outcome, answers>>
        \/ Stop("cancelled")
    BY <1>4 DEF Catalog, CatalogNext, Execute, Submit, SessionFails, SessionReturns,
                ExecutionTimesOut, Cancel, sessionVars
  <2> QED
    BY <1>1, <2>1, StopKeepsAnswers
<1>5. CASE Session
  <2>1. CASE Connect
    BY <1>1, <2>1 DEF Connect
  <2>2. CASE LoginFails
    BY <2>2, StopKeepsAnswers DEF LoginFails, LoginFaults
  <2>3. CASE OpenShell
    BY <2>3, OpenShellKeepsAnswers
  <2>4. CASE ShellCloses \/ ShellFails \/ CommandTimesOut
    BY <2>4, StopKeepsAnswers DEF ShellCloses, ShellFails, CommandTimesOut
  <2>5. CASE Receive
    <3>1. PICK n \in 1..Len(coming) :
            LET chunk == SubSeq(coming, 1, n)
                pieces == read \o chunk
            IN  \/ Stop("output_limit")
                \/ /\ Last(pieces) \in PromptPieces
                   /\ IF phase = "greeting" THEN WriteCommand(chunk) ELSE AcceptAnswer(pieces)
                \/ /\ read' = pieces
                   /\ coming' = SubSeq(coming, n + 1, Len(coming))
                   /\ spaces' = IF phase = "answer" /\ MarkersSeen(read, chunk) > spaces
                                THEN MarkersSeen(read, chunk) ELSE spaces
                   /\ UNCHANGED <<link, commands, phase, outputs, outcome, answers>>
      BY <2>5 DEF Receive
    <3>2. phase \in {"greeting", "answer"}
      BY <2>5 DEF Receive
    <3> QED
      BY <3>1, <3>2, StopKeepsAnswers, WriteCommandKeepsAnswers, AcceptAnswerKeepsAnswers,
         ReadOnKeepsAnswers
  <2> QED
    BY <1>5, <2>1, <2>2, <2>3, <2>4, <2>5 DEF Session, SessionNext
<1> QED
  BY <1>2, <1>3, <1>4, <1>5 DEF Next

(* A session that succeeds returns, command by command, the whole text the *)
(* shell wrote for it, in whatever chunks it was read, unless a line of it *)
(* looks like a prompt; and the pagers read are exactly those turned       *)
(* (transport.py, _read_until_prompt).                                     *)
THEOREM AnswersAreWhole == Spec => []WholeAnswer
<1>1. AnswerInvariant => WholeAnswer
  BY DEF AnswerInvariant, ReadingIsWriting, AnswersWhole, WholeAnswer
<1> QED
  BY <1>1, AnswerStarts, AnswerStep, PTL DEF Spec

----------------------------------------------------------------------------
ObservedStates == {"supported", "enabled", "disabled", "not_configured"}
FeatureStates == {"enabled", "disabled", "not_configured", "unknown"}

\* An observation without a category claims a state; and one of the system
\* area is supported exactly when it was parsed.
Consistent(observation, area) ==
  /\ observation.category = "none" => observation.state \in ObservedStates
  /\ area = "system" => /\ observation.state = "supported" <=> observation.parser = "parsed"
                        /\ observation.state = "supported" => observation.category = "none"

ObservationsConsistent ==
  /\ observed \in Seq(Range(observed)) /\ Len(observed) <= Len(Specs)
  /\ \A i \in DOMAIN observed : Consistent(observed[i], Specs[i].area)

ProbeInvariant == ObservationsConsistent /\ ClaimsAreObserved

LEMMA SpecsListed ==
  /\ Len(Specs) = 10 /\ DOMAIN Specs = 1..10
  /\ \A i \in 1..10 : Specs[i].area = "system" <=> i \in {1, 2}
  /\ \A i \in 1..10 : Specs[i].operation \in Features => i \in 6..10
  /\ \A i, j \in 1..10 : Specs[i].area = Specs[j].area => i = j \/ (i \in {1, 2} /\ j \in {1, 2})
<1>1. Len(Specs) = 10 /\ DOMAIN Specs = 1..10
  BY DEF Specs
<1>2. /\ Specs[1] = Spec_("get_device_facts", "system")
      /\ Specs[2] = Spec_("get_system_health", "system")
      /\ Specs[3] = Spec_("get_interfaces", "interfaces")
      /\ Specs[4] = Spec_("get_route_summary", "routing")
      /\ Specs[5] = Spec_("get_firewall_policies", "firewall")
  BY DEF Specs
<1>3. /\ Specs[6] = Spec_("get_ha_status", "ha")
      /\ Specs[7] = Spec_("get_sdwan_status", "sdwan")
      /\ Specs[8] = Spec_("get_ipsec_status", "ipsec")
      /\ Specs[9] = Spec_("get_bgp_status", "bgp")
      /\ Specs[10] = Spec_("get_ospf_status", "ospf")
  BY DEF Specs
<1>4. \A i \in 1..10 : i \in {1, 2, 3, 4, 5, 6, 7, 8, 9, 10}
  OBVIOUS
<1>5. \A i \in 1..10 : Specs[i].area = "system" <=> i \in {1, 2}
  BY <1>2, <1>3, <1>4 DEF Spec_
<1>6. \A i \in 1..10 : Specs[i].operation \in Features => i \in 6..10
  BY <1>2, <1>3, <1>4 DEF Spec_, Features, VariantReads
<1>7. \A i, j \in 1..10 : Specs[i].area = Specs[j].area => i = j \/ (i \in {1, 2} /\ j \in {1, 2})
  BY <1>2, <1>3, <1>4 DEF Spec_
<1> QED
  BY <1>1, <1>5, <1>6, <1>7

----------------------------------------------------------------------------
(* What a parser that succeeds says of its feature.                        *)
LEMMA FeatureOfIsKnown == \A enabled : FeatureOf(enabled) \in FeatureStates
  BY DEF FeatureOf, FeatureStates

LEMMA HAFeature ==
  ASSUME NEW out, ParseHAStatus(out).error = "none"
  PROVE  {"error", "feature"} \subseteq DOMAIN ParseHAStatus(out) /\ ParseHAStatus(out).feature \in FeatureStates
  BY FeatureOfIsKnown DEF ParseHAStatus, Failed, TextError

LEMMA SDWANFeature ==
  ASSUME NEW out, ParseSDWANStatus(out).error = "none"
  PROVE  {"error", "feature"} \subseteq DOMAIN ParseSDWANStatus(out) /\ ParseSDWANStatus(out).feature \in FeatureStates
  BY DEF ParseSDWANStatus, Failed, FeatureStates

LEMMA IPsecFeature ==
  ASSUME NEW out, ParseIPsecStatus(out).error = "none"
  PROVE  {"error", "feature"} \subseteq DOMAIN ParseIPsecStatus(out) /\ ParseIPsecStatus(out).feature \in FeatureStates
  BY FeatureOfIsKnown DEF ParseIPsecStatus, Failed, FeatureStates

LEMMA RoutingFeature ==
  ASSUME NEW operation, NEW variant, NEW out
  PROVE  LET status == ParseVariant(operation, variant, out)
         IN  /\ "error" \in DOMAIN status
             /\ status.error = "none" => "feature" \in DOMAIN status /\ status.feature \in FeatureStates
<1> DEFINE Good(status) ==
             /\ "error" \in DOMAIN status
             /\ status.error = "none" => "feature" \in DOMAIN status /\ status.feature \in FeatureStates
<1>1. \A rows, identified : Good(RoutingStatus(rows, identified))
  BY DEF RoutingStatus, FeatureStates
<1>2. \A text \in Absences : Good(AbsentRouting(text))
  BY DEF AbsentRouting, Absences, FeatureStates
<1>3. \A category : category # "none" => Good(Failed(category))
  BY DEF Failed
<1> HIDE DEF Good
<1>4. Good(ParseOSPFStatus(out))
  BY <1>1, <1>2, <1>3 DEF ParseOSPFStatus, Absences
<1>5. Good(ParseBGPSummary(out))
  BY <1>1, <1>2, <1>3 DEF ParseBGPSummary
<1>6. Good(ParseBGPNeighbors(out))
  BY <1>1, <1>2, <1>3 DEF ParseBGPNeighbors
<1>7. Good(ParseVariant(operation, variant, out))
  BY <1>4, <1>5, <1>6 DEF ParseVariant
<1> QED
  BY <1>7 DEF Good

LEMMA ReadFeature ==
  ASSUME NEW operation \in Features, NEW version, NEW out,
         Read(operation, version, out).error = "none"
  PROVE  Read(operation, version, out).feature \in FeatureStates
<1>1. \A value, attempted : /\ "error" \in DOMAIN value
                                 => WithAttempts(value, attempted).error = value.error
                            /\ "feature" \in DOMAIN value
                                 => WithAttempts(value, attempted).feature = value.feature
  BY DEF WithAttempts
<1>2. \A category, by, attempted : Raised(category, by, attempted).error = category
  BY DEF Raised
<1>3. CASE operation \in VariantReads
  <2>1. \/ \E category, by, attempted :
              category # "none" /\ Read(operation, version, out) = Raised(category, by, attempted)
        \/ \E variant, outs, attempted :
              Read(operation, version, out)
                = WithAttempts(ParseVariant(operation, variant, outs), attempted)
    <3> DEFINE first == VariantError(operation, 1, out[1])
               used == IF first \in Retryable THEN 2 ELSE 1
               error == VariantError(operation, used, out[used])
               attempted == SubSeq(Attempts[operation], 1, used)
    <3> HIDE DEF first, used, attempted
    <3>1. ShellError(out[used].texts) # "none" => error # "none"
      BY DEF VariantError
    <3>2. \/ Read(operation, version, out) = Raised("malformed", "parser", <<>>)
          \/ Read(operation, version, out) = Raised("command_unavailable", "exhausted", <<>>)
          \/ /\ ShellError(out[used].texts) # "none"
             /\ Read(operation, version, out) = Raised(error, "transport", <<>>)
          \/ /\ error # "none"
             /\ Read(operation, version, out) = Raised(error, "exhausted", attempted)
          \/ Read(operation, version, out)
               = WithAttempts(ParseVariant(operation, used, out[used]), attempted)
      BY <1>3 DEF Read, ReadVariants, first, used, attempted
    <3> HIDE DEF error
    <3> QED
      BY <3>1, <3>2
  <2>2. PICK variant, outs, attempted :
          Read(operation, version, out)
            = WithAttempts(ParseVariant(operation, variant, outs), attempted)
    BY <1>2, <2>1
  <2> QED
    BY <1>1, <2>2, RoutingFeature
<1>4. CASE operation \notin VariantReads
  <2>1. operation \in {"get_ha_status", "get_sdwan_status", "get_ipsec_status"}
    BY <1>4 DEF Features
  <2> DEFINE value == ParseRead(operation, out)
  <2>2. value.error = "none" => {"error", "feature"} \subseteq DOMAIN value /\ value.feature \in FeatureStates
    BY <2>1, HAFeature, SDWANFeature, IPsecFeature DEF ParseRead
  <2>3. \/ /\ ShellError(out.texts) # "none"
           /\ Read(operation, version, out) = Raised(ShellError(out.texts), "transport", <<>>)
        \/ value.error # "none" /\ Read(operation, version, out) = Raised(value.error, "parser", <<>>)
        \/ value.error = "none" /\ Read(operation, version, out) = WithAttempts(value, <<>>)
    BY <1>4 DEF Read
  <2> HIDE DEF value
  <2> QED
    BY <1>1, <1>2, <2>2, <2>3
<1> QED
  BY <1>3, <1>4

----------------------------------------------------------------------------
(* What each kind of observation says.                                     *)
LEMMA ErrorConsistent ==
  ASSUME NEW failure, failure.error # "none", NEW area
  PROVE  Consistent(ErrorObservation(failure), area)
<1> DEFINE category == CategoryOf(failure.error)
           o == ErrorObservation(failure)
<1>1. category # "none"
  BY DEF CategoryOf
<1> HIDE DEF category
<1>2. o.category = category /\ o.state = StateForError(category) /\ o.parser # "parsed"
  BY DEF ErrorObservation, Observation, category
<1>3. StateForError(category) \in {"permission_denied", "output_unrecognized", "unavailable"}
  BY DEF StateForError
<1> QED
  BY <1>1, <1>2, <1>3 DEF Consistent

LEMMA FatalConsistent ==
  ASSUME NEW category, category # "none", NEW area
  PROVE  Consistent(FatalObservation(category), area)
  BY DEF Consistent, FatalObservation, Observation

LEMMA MissingConsistent == \A area : Consistent(MissingVersion, area)
  BY DEF Consistent, MissingVersion, Observation

LEMMA FeatureConsistent ==
  ASSUME NEW value, value.feature \in FeatureStates, NEW area, area # "system"
  PROVE  Consistent(FeatureObservation(value), area)
<1> DEFINE state == IF value.truncated \/ value.feature = "unknown" THEN "partial"
                    ELSE value.feature
           o == FeatureObservation(value)
<1>1. o.state = state /\ (o.category = "none" => state # "partial")
  BY DEF FeatureObservation, Observation
<1>2. state # "partial" => state \in ObservedStates
  BY DEF FeatureStates, ObservedStates
<1> HIDE DEF state
<1> QED
  BY <1>1, <1>2 DEF Consistent

\* Whatever the device answers to the operation an area is observed by.
LEMMA ReadConsistent ==
  ASSUME NEW i \in 1..10, NEW out
  PROVE  LET operation == Specs[i].operation
         IN  Consistent(ObservationOf(operation, ReadOne(operation, out)), Specs[i].area)
<1> DEFINE operation == Specs[i].operation
           value == ReadOne(operation, out)
           area == Specs[i].area
<1> HIDE DEF value
<1>1. CASE value.error # "none"
  <2>1. ObservationOf(operation, value) = ErrorObservation(value)
    BY <1>1 DEF ObservationOf
  <2> QED
    BY <1>1, <2>1, ErrorConsistent DEF value
<1>2. CASE value.error = "none" /\ operation \in Features
  <2>1. operation \in Reads
    BY <1>2 DEF Features, Reads, VariantReads
  <2>2. value = Read(operation, known, out)
    BY <2>1 DEF ReadOne, value
  <2>3. value.feature \in FeatureStates
    BY <1>2, <2>2, ReadFeature
  <2>4. area # "system"
    BY <1>2, SpecsListed
  <2>5. ObservationOf(operation, value) = FeatureObservation(value)
    BY <1>2 DEF ObservationOf
  <2> QED
    BY <2>3, <2>4, <2>5, FeatureConsistent DEF value
<1>3. CASE value.error = "none" /\ operation \notin Features
  <2>1. ObservationOf(operation, value) = Observation("supported", "parsed", "none", <<"normalized">>)
    BY <1>3 DEF ObservationOf
  <2>2. Consistent(ObservationOf(operation, value), area)
    BY <2>1 DEF Observation, Consistent, ObservedStates
  <2> QED
    BY <2>2 DEF value
<1> QED
  BY <1>1, <1>2, <1>3

\* One more observation, or the fatal one that stands for all.
LEMMA ObserveConsistent ==
  ASSUME ObservationsConsistent, Probing, NEW observation,
         Consistent(observation, Specs[Len(observed) + 1].area), Observe(observation)
  PROVE  ObservationsConsistent'
<1>1. Len(Specs) = 10
  BY SpecsListed
<1>2. observed \in Seq(Range(observed)) /\ Len(observed) < 10
  BY <1>1 DEF ObservationsConsistent, Probing
<1>3. Len(observed) \in Nat /\ DOMAIN observed = 1..Len(observed)
  BY <1>2, LenProperties
<1>4. CASE observed' = Append(observed, observation)
  <2>1. /\ observed' \in Seq(Range(observed')) /\ Len(observed') = Len(observed) + 1
        /\ DOMAIN observed' = 1..(Len(observed) + 1)
        /\ \A i \in DOMAIN observed : observed'[i] = observed[i]
        /\ observed'[Len(observed) + 1] = observation
    BY <1>2, <1>4, AppendAny
  <2>2. \A i \in DOMAIN observed' : Consistent(observed'[i], Specs[i].area)
    <3> SUFFICES ASSUME NEW i \in 1..(Len(observed) + 1)
                 PROVE  Consistent(observed'[i], Specs[i].area)
      BY <2>1
    <3>1. CASE i = Len(observed) + 1
      BY <2>1, <3>1
    <3>2. CASE i # Len(observed) + 1
      <4>1. i \in DOMAIN observed
        BY <1>3, <3>2
      <4> QED
        BY <2>1, <4>1 DEF ObservationsConsistent
    <3> QED
      BY <3>1, <3>2
  <2> QED
    BY <1>1, <1>2, <1>3, <2>1, <2>2 DEF ObservationsConsistent
<1>5. CASE /\ observed = <<>> /\ observation.category \in FatalErrors
           /\ observed' = <<observation>> \o [i \in 1..9 |-> FatalObservation(observation.category)]
  <2> DEFINE fatal == FatalObservation(observation.category)
             rest == [i \in 1..9 |-> fatal]
             S == {observation, fatal}
  <2>1. \A area : Consistent(fatal, area)
    BY <1>5, FatalConsistent DEF FatalErrors
  <2> HIDE DEF fatal
  <2>2. <<observation>> \in Seq(S) /\ Len(<<observation>>) = 1 /\ <<observation>>[1] = observation
    OBVIOUS
  <2>3. rest \in Seq(S) /\ Len(rest) = 9 /\ \A i \in 1..9 : rest[i] = fatal
    OBVIOUS
  <2>4. observed' = <<observation>> \o rest
    BY <1>5 DEF fatal
  <2> HIDE DEF rest, S
  <2>5. /\ observed' \in Seq(S) /\ Len(observed') = 10
        /\ observed'[1] = observation /\ \A i \in 2..10 : observed'[i] = fatal
    <3> DEFINE one == <<observation>>
    <3> HIDE DEF one
    <3>1. one \in Seq(S) /\ Len(one) = 1 /\ one[1] = observation
      BY <2>2 DEF one
    <3>2. /\ one \o rest \in Seq(S) /\ Len(one \o rest) = Len(one) + Len(rest)
          /\ \A i \in 1..(Len(one) + Len(rest)) :
               (one \o rest)[i] = IF i <= Len(one) THEN one[i] ELSE rest[i - Len(one)]
      BY <2>3, <3>1, ConcatProperties
    <3>3. observed' = one \o rest
      BY <2>4 DEF one
    <3>4. observed' \in Seq(S) /\ Len(observed') = 10
      BY <2>3, <3>1, <3>2, <3>3
    <3>5. \A i \in 1..10 : observed'[i] = IF i <= 1 THEN one[i] ELSE rest[i - 1]
      <4>1. Len(one) + Len(rest) = 10
        BY <2>3, <3>1
      <4> QED
        BY <3>1, <3>2, <3>3, <4>1
    <3>6. ASSUME NEW i \in 2..10
          PROVE  observed'[i] = fatal
      <4>1. i \in 1..10 /\ ~(i <= 1) /\ i - 1 \in 1..9
        OBVIOUS
      <4> QED
        BY <2>3, <3>5, <4>1
    <3> QED
      BY <3>1, <3>4, <3>5, <3>6
  <2>6. DOMAIN observed' = 1..10 /\ observed' \in Seq(Range(observed'))
    BY <2>5, LenProperties, SeqOfRange
  <2>7. Len(observed) = 0
    BY <1>5, EmptySeq
  <2>8. \A i \in DOMAIN observed' : Consistent(observed'[i], Specs[i].area)
    <3> SUFFICES ASSUME NEW i \in 1..10
                 PROVE  Consistent(observed'[i], Specs[i].area)
      BY <2>6
    <3>1. CASE i = 1
      BY <2>5, <2>7, <3>1
    <3>2. CASE i \in 2..10
      BY <2>1, <2>5, <3>2
    <3> QED
      BY <3>1, <3>2
  <2> QED
    BY <1>1, <2>5, <2>6, <2>8 DEF ObservationsConsistent
<1> QED
  BY <1>1, <1>4, <1>5 DEF Observe

\* The operations of an area, and what their aggregate says of them.
LEMMA AggregateIsObserved ==
  ASSUME ObservationsConsistent, Len(observed) = Len(Specs), NEW area \in Areas
  PROVE  LET seen == {observed[i] : i \in {j \in DOMAIN observed : Specs[j].area = area}}
             report == Aggregate(area)
             claimed == report.state \in ObservedStates
         IN  /\ claimed => seen # {} /\ \A o \in seen : o.state = report.state
             /\ report.parser = "parsed" => \A o \in seen : o.parser = "parsed"
             /\ report.category = "none" => claimed /\ \A o \in seen : o.category = "none"
<1> DEFINE operations == OperationsOf(area)
           first == observed[Min(operations)]
           states == {observed[i].state : i \in operations}
           failed == {i \in operations : observed[i].category # "none"}
<1>1. Len(observed) = 10 /\ DOMAIN observed = 1..10
  BY SpecsListed, LenProperties DEF ObservationsConsistent
<1>2. operations = {i \in 1..10 : Specs[i].area = area}
  BY SpecsListed DEF OperationsOf
<1>3. operations # {}
  BY <1>2, SpecsListed DEF Areas
<1>4. \A S : S # {} /\ S \subseteq operations => Min(S) \in S
  <2> SUFFICES ASSUME NEW S, S # {}, S \subseteq operations
               PROVE  Min(S) \in S
    OBVIOUS
  <2>1. PICK i \in S : i \in 1..10
    BY <1>2
  <2>2. \A j \in S : j = i \/ (i \in {1, 2} /\ j \in {1, 2})
    BY <1>2, <2>1, SpecsListed
  <2>3. \E x \in S : \A y \in S : x <= y
    <3>1. CASE 1 \in S
      <4>1. \A y \in S : y \in {1, 2}
        BY <2>2, <3>1
      <4> QED
        BY <3>1, <4>1
    <3>2. CASE 1 \notin S
      <4>1. \A y \in S : y = i
        BY <2>1, <2>2, <3>2
      <4> QED
        BY <2>1, <4>1
    <3> QED
      BY <3>1, <3>2
  <2> QED
    BY <2>3 DEF Min
<1>5. Min(operations) \in operations
  BY <1>2, <1>3, <1>4
<1>6. \A i \in operations : Consistent(observed[i], area)
  BY <1>1, <1>2 DEF ObservationsConsistent
<1> HIDE DEF operations
<1> DEFINE seen == {observed[i] : i \in {j \in DOMAIN observed : Specs[j].area = area}}
<1>7. \A o : o \in seen <=> \E i \in operations : o = observed[i]
  BY <1>1, <1>2
<1> HIDE DEF seen
<1>8. CASE Cardinality(states) > 1
  <2>1. Aggregate(area) = [state |-> "partial", parser |-> "partial", category |-> "partial"]
    BY <1>8 DEF Aggregate, operations
  <2> QED
    BY <2>1 DEF ObservedStates
<1>9. CASE ~(Cardinality(states) > 1)
  <2>1. \A i \in operations : observed[i].state = first.state
    <3>1. IsFiniteSet(operations)
      <4>1. IsFiniteSet(1..10)
        <5>1. 1 \in Int /\ 10 \in Int
          OBVIOUS
        <5> QED
          BY <5>1, FS_Interval, Zenon
      <4>2. operations \in SUBSET (1..10)
        BY <1>2
      <4> QED
        BY <4>1, <4>2, FS_Subset
    <3>2. IsFiniteSet(states)
      <4> DEFINE f == [i \in operations |-> observed[i].state]
      <4>1. f \in Surjection(operations, states)
        BY DEF Surjection
      <4> HIDE DEF f, states
      <4> QED
        BY <3>1, <4>1, FS_Surjection
    <3>3. Cardinality(states) \in Nat
      BY <3>2, FS_CardinalityType
    <3>4. Cardinality(states) # 0
      <4>1. states # {}
        BY <1>3
      <4> HIDE DEF states
      <4> QED
        BY <3>2, <4>1, FS_EmptySet
    <3>5. PICK state : states = {state}
      <4> HIDE DEF states
      <4>1. Cardinality(states) = 1
        BY <1>9, <3>3, <3>4
      <4> QED
        BY <3>2, <4>1, FS_Singleton
    <3> QED
      BY <1>5, <3>5
  <2>2. Aggregate(area) =
          [state |-> first.state, parser |-> first.parser,
           category |-> IF failed = {} THEN "none" ELSE observed[Min(failed)].category]
    BY <1>9 DEF Aggregate, operations
  <2> HIDE DEF first, failed, states
  <2>3. ASSUME Aggregate(area).parser = "parsed", NEW i \in operations
        PROVE  observed[i].parser = "parsed"
    <3>1. first.parser = "parsed"
      BY <2>2, <2>3
    <3>2. CASE area = "system"
      <4>1. first.state = "supported"
        BY <1>5, <1>6, <3>1, <3>2 DEF first, Consistent
      <4> QED
        BY <1>6, <2>1, <3>2, <4>1 DEF Consistent
    <3>3. CASE area # "system"
      <4>1. i = Min(operations)
        BY <1>2, <1>5, <3>3, SpecsListed
      <4> QED
        BY <3>1, <4>1 DEF first
    <3> QED
      BY <3>2, <3>3
  <2>4. ASSUME Aggregate(area).category = "none"
        PROVE  /\ Aggregate(area).state \in ObservedStates
               /\ \A i \in operations : observed[i].category = "none"
    <3>1. failed = {}
      <4>1. SUFFICES ASSUME failed # {}
                     PROVE  FALSE
        OBVIOUS
      <4>2. Min(failed) \in failed
        <5>1. failed \subseteq operations
          BY DEF failed
        <5> QED
          BY <1>4, <4>1, <5>1
      <4> QED
        BY <2>2, <2>4, <4>1, <4>2 DEF failed
    <3>2. \A i \in operations : observed[i].category = "none"
      BY <3>1 DEF failed
    <3> QED
      BY <1>5, <1>6, <2>2, <3>2 DEF first, Consistent
  <2>5. Aggregate(area).state \in ObservedStates =>
          \A i \in operations : observed[i].state = Aggregate(area).state
    BY <2>1, <2>2
  <2>6. seen # {}
    BY <1>3, <1>7
  <2>7. Aggregate(area).state \in ObservedStates => \A o \in seen : o.state = Aggregate(area).state
    BY <1>7, <2>5
  <2>8. Aggregate(area).parser = "parsed" => \A o \in seen : o.parser = "parsed"
    BY <1>7, <2>3
  <2>9. Aggregate(area).category = "none" =>
          Aggregate(area).state \in ObservedStates /\ \A o \in seen : o.category = "none"
    BY <1>7, <2>4
  <2> QED
    BY <2>6, <2>7, <2>8, <2>9 DEF seen
<1> QED
  BY <1>8, <1>9

LEMMA ProbeStarts == Init => ProbeInvariant
<1> SUFFICES ASSUME Init PROVE ProbeInvariant
  OBVIOUS
<1>1. observed = <<>> /\ areas = <<>>
  BY DEF Init, ProbeInit
<1>2. <<>> \in Seq(Range(<<>>)) /\ Len(<<>>) = 0 /\ DOMAIN <<>> = {}
  BY EmptySeq
<1> QED
  BY <1>1, <1>2, SpecsListed DEF ProbeInvariant, ObservationsConsistent, ClaimsAreObserved

LEMMA ProbeStep == ProbeInvariant /\ [Next]_vars => ProbeInvariant'
<1> SUFFICES ASSUME ProbeInvariant, [Next]_vars
             PROVE  ProbeInvariant'
  OBVIOUS
<1>1. ASSUME UNCHANGED <<observed, areas>>
      PROVE  ProbeInvariant'
  BY <1>1 DEF ProbeInvariant, ObservationsConsistent, ClaimsAreObserved
<1>2. CASE Catalog \/ Collect \/ Session \/ UNCHANGED vars
  BY <1>1, <1>2 DEF Catalog, Collect, Session, vars, probeVars
<1>3. ASSUME areas' = <<>>
      PROVE  ClaimsAreObserved'
  BY <1>3 DEF ClaimsAreObserved
<1>4. CASE Probe /\ PrepareFails
  <2>1. PICK category \in PrepareErrors : areas' = FailedReport(category)
    BY <1>4 DEF PrepareFails
  <2>2. UNCHANGED observed
    BY <1>4 DEF PrepareFails
  <2>3. \A a \in DOMAIN areas' :
          areas'[a].state = "unavailable" /\ areas'[a].parser = "not_applicable"
          /\ areas'[a].category # "none"
    BY <2>1 DEF FailedReport, PrepareErrors
  <2>4. ClaimsAreObserved'
    BY <2>3 DEF ClaimsAreObserved
  <2> QED
    BY <2>2, <2>4 DEF ProbeInvariant, ObservationsConsistent
<1>5. CASE Probe /\ ~PrepareFails /\ ~PublishReport
  <2>1. Len(observed) + 1 \in 1..10 \/ ~Probing
    <3>1. Len(observed) \in Nat
      BY LenProperties DEF ProbeInvariant, ObservationsConsistent
    <3> QED
      BY <3>1, SpecsListed DEF Probing
  <2>2. Probing /\ UNCHANGED areas
    BY <1>5 DEF Probe, ProbeNext, SkipUnversioned, ProbeRead, ProbeReadFails, Reading
  <2>3. PICK observation : Observe(observation) /\ Consistent(observation, Specs[Len(observed) + 1].area)
    <3>1. CASE SkipUnversioned
      BY <3>1, MissingConsistent DEF SkipUnversioned
    <3>2. CASE ProbeRead
      BY <2>1, <2>2, <3>2, ReadConsistent DEF ProbeRead, Operation
    <3>3. CASE ProbeReadFails
      <4>1. PICK error \in TransportErrors : Observe(ErrorObservation(Raised(error, "transport", <<>>)))
        BY <3>3 DEF ProbeReadFails
      <4>2. Raised(error, "transport", <<>>).error # "none"
        BY DEF Raised, TransportErrors
      <4> QED
        BY <4>1, <4>2, ErrorConsistent
    <3> QED
      BY <1>5, <3>1, <3>2, <3>3 DEF Probe, ProbeNext
  <2>4. ObservationsConsistent'
    BY <2>2, <2>3, ObserveConsistent DEF ProbeInvariant
  <2> QED
    BY <1>3, <2>2, <2>4 DEF Probing, ProbeInvariant
<1>6. CASE Probe /\ PublishReport
  <2>1. /\ areas' = [a \in Areas |-> Aggregate(a)] /\ observed' = observed
        /\ Len(observed) = Len(Specs)
    BY <1>6 DEF PublishReport
  <2>2. ClaimsAreObserved'
    BY <2>1, AggregateIsObserved DEF ClaimsAreObserved, ProbeInvariant, ObservedStates
  <2> QED
    BY <2>1, <2>2 DEF ProbeInvariant, ObservationsConsistent
<1> QED
  BY <1>2, <1>4, <1>5, <1>6 DEF Next

(* The compatibility report claims no more than was observed, whatever the *)
(* device answered to the ten reads: an area is said to be supported,      *)
(* enabled, disabled or not configured, parsed, or without error only when *)
(* each of its operations was (compatibility/probe.py, _aggregate).        *)
THEOREM ReportIsObserved == Spec => []ClaimsAreObserved
<1>1. ProbeInvariant => ClaimsAreObserved
  BY DEF ProbeInvariant
<1> QED
  BY <1>1, ProbeStarts, ProbeStep, PTL DEF Spec
=============================================================================
