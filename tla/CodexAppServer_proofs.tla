------------------------ MODULE CodexAppServer_proofs ------------------------
(***************************************************************************)
(* Proofs about the App Server, for every number of steps and of items:    *)
(* the only ways to the end that skip close() are a start that never       *)
(* happened and an initialisation that did not succeed; and a response is  *)
(* taken only from a turn that used no tool, whatever was read too early.  *)
(***************************************************************************)
EXTENDS CodexAppServer, SequenceTheorems, TLAPS

\* Nothing exists before the start, and the two calls of the initialisation
\* are awaited only during it.
Beginning ==
  /\ stage = "start" => process = "none" /\ scratch = FALSE /\ awaited = "none"
  /\ awaited \in {"initialize", "account/read"} => stage = "connecting"

Closed == stage' = "ended" /\ stage \notin {"connecting", "ended"}
            => process' \in {"none", "gone"} /\ scratch' = FALSE

----------------------------------------------------------------------------
(* An error leads to the closing of the server, except while it connects.  *)
LEMMA Failing ==
  ASSUME Beginning, stage # "start", Fails
  PROVE  Beginning' /\ Closed
<1>1. stage' = Recover /\ awaited' = "none" /\ UNCHANGED <<process, scratch>>
  BY DEF Fails
<1>2. stage' \in {"closing", "ended"} /\ (stage' = "ended" => stage = "connecting")
  BY <1>1 DEF Recover
<1>3. QED BY <1>1, <1>2 DEF Beginning, Closed

(* The answer awaited leads on; only the account's can end the ask.        *)
LEMMA Proceeding ==
  ASSUME Beginning, stage # "start", Proceed
  PROVE  Beginning' /\ Closed
<1>1. UNCHANGED <<process, scratch>> BY DEF Proceed
<1>2. CASE awaited = "initialize"
  <2>1. awaited' = "account/read" /\ UNCHANGED stage BY <1>2 DEF Proceed, Ask
  <2>2. QED BY <1>1, <1>2, <2>1 DEF Beginning, Closed
<1>3. CASE awaited = "account/read"
  <2>1. stage = "connecting" /\ stage' \in {"ready", "ended"} /\ awaited' = "none"
    BY <1>3 DEF Proceed, Beginning
  <2>2. QED BY <1>1, <2>1 DEF Beginning, Closed
<1>4. CASE awaited \notin {"initialize", "account/read"}
  <2>1. awaited' \in {"turn/start", "turn"} /\ UNCHANGED stage BY <1>4 DEF Proceed, Ask
  <2>2. QED BY <1>1, <2>1 DEF Beginning, Closed
<1>5. QED BY <1>2, <1>3, <1>4

(* What is read of a turn fails it, or leaves the server alone.            *)
LEMMA TurnReading ==
  ASSUME Beginning, awaited = "turn", stage # "start", NEW message, TurnEvent(message)
  PROVE  Beginning' /\ Closed
<1>1. CASE Fails BY <1>1, Failing
<1>2. CASE ~Fails
  <2>1. /\ UNCHANGED <<process, scratch>>
        /\ \/ UNCHANGED <<stage, awaited>>
           \/ stage' = "ready" /\ awaited' = "none"
    BY <1>2 DEF TurnEvent
  <2>2. QED BY <2>1 DEF Beginning, Closed
<1>3. QED BY <1>1, <1>2

----------------------------------------------------------------------------
(* Every step keeps the beginning apart, and closes what it ends.          *)
LEMMA ServerStep ==
  ASSUME Beginning, ServerAnswers \/ ServerWorks \/ ServerStops
  PROVE  Beginning' /\ Closed
<1>1. UNCHANGED <<scratch, awaited, stage>> /\ (stage = "start" => UNCHANGED process)
  BY DEF ServerAnswers, ServerWorks, ServerStops, serverOnly, Beginning
<1>2. QED BY <1>1 DEF Beginning, Closed

LEMMA ReadingStep ==
  ASSUME Beginning, ReadAnswer \/ ReadTurn \/ ReadEnd \/ TimesOut
  PROVE  Beginning' /\ Closed
<1>1. stage # "start"
  BY DEF Beginning, ReadAnswer, ReadTurn, ReadEnd, TimesOut, Waiting, HasDeadline
<1>2. CASE ReadAnswer
  <2>1. Proceed \/ Fails \/ UNCHANGED <<process, scratch, awaited, stage>>
    BY <1>2 DEF ReadAnswer
  <2>2. CASE UNCHANGED <<process, scratch, awaited, stage>> BY <2>2 DEF Beginning, Closed
  <2>3. QED BY <1>1, <2>1, <2>2, Proceeding, Failing
<1>3. CASE ReadTurn
  <2>1. awaited = "turn" /\ (TurnEvent(Head(notes)) \/ TurnEvent(Head(pipe)))
    BY <1>3 DEF ReadTurn
  <2>2. QED BY <1>1, <2>1, TurnReading
<1>4. CASE ReadEnd \/ TimesOut
  <2>1. Fails BY <1>4 DEF ReadEnd, TimesOut
  <2>2. QED BY <1>1, <2>1, Failing
<1>5. QED BY <1>2, <1>3, <1>4

LEMMA ServiceStep ==
  ASSUME Beginning,
         StartFails \/ Start \/ Finish \/ Generate \/ Cancel \/ Terminate \/ Kill \/ CloseEnds
  PROVE  Beginning' /\ Closed
<1>1. CASE StartFails BY <1>1 DEF StartFails, Beginning, Closed
<1>2. CASE Start BY <1>2 DEF Start, Ask, Beginning, Closed
<1>3. CASE Finish \/ Generate BY <1>3 DEF Finish, Generate, Ask, Beginning, Closed
<1>4. CASE Cancel
  <2>1. AfterCancel \in {"ended", "closing"} /\ (AfterCancel = "ended" => stage = "connecting")
    BY DEF AfterCancel
  <2>2. QED BY <1>4, <2>1 DEF Cancel, Beginning, Closed
<1>5. CASE Terminate \/ Kill \/ CloseEnds
  BY <1>5 DEF Terminate, Kill, CloseEnds, Beginning, Closed
<1>6. QED BY <1>1, <1>2, <1>3, <1>4, <1>5

(* Once the provider is initialised, whatever ends the ask, an answer, an  *)
(* error, a deadline, the server's death or a cancellation, the child is   *)
(* gone and its directory removed before the ask is over.                  *)
THEOREM ServerIsClosed == Spec => ServerClosed
<1>1. Init => Beginning BY DEF Init, Beginning
<1>2. Beginning /\ [Next]_vars => Beginning'
  <2>1. CASE Next BY <2>1, ServerStep, ReadingStep, ServiceStep DEF Next
  <2>2. CASE UNCHANGED vars BY <2>2 DEF vars, Beginning
  <2>3. QED BY <2>1, <2>2
<1>3. Beginning /\ [Next]_vars
        => [stage' = "ended" /\ stage \notin {"connecting", "ended"}
              => process' \in {"none", "gone"} /\ scratch' = FALSE]_vars
  BY ServerStep, ReadingStep, ServiceStep DEF Next, Closed
<1>4. QED BY <1>1, <1>2, <1>3, PTL DEF Spec, ServerClosed

----------------------------------------------------------------------------
Methods == {"initialize", "account/read", "thread/start", "turn/start"}
Replies == [type : {"answer", "error"}, of : Methods, thread : {0}]
Events == [type : ItemTypes \cup Ends, of : {"turn"}, thread : 1..MaxSteps]
Messages == Replies \cup Events
Unsafe == {"unsafe_item", "request"}

TurnTypes ==
  /\ requests \in Seq(Methods) /\ pipe \in Seq(Messages) /\ notes \in Seq(Messages)
  /\ thread \in 0..MaxSteps /\ final \in 0..MaxSteps /\ answered \subseteq 1..MaxSteps
  /\ turns \in [1..MaxSteps -> Seq(ItemTypes \cup Ends)]

\* What is awaited in each stage, and that threads are used one after the other.
Phases ==
  /\ stage \in {"start", "connecting", "ready", "step", "closing", "ended"}
  /\ stage \in {"start", "ready", "closing", "ended"} => awaited = "none"
  /\ stage = "connecting" => awaited \in {"initialize", "account/read"}
  /\ stage = "step" => awaited \in {"thread/start", "turn/start", "turn"}
  /\ awaited = "thread/start" => thread < MaxSteps
  /\ awaited \in {"turn/start", "turn"} => thread > 0
  /\ \A t \in 1..MaxSteps : t > thread => turns[t] = <<>>

\* No event of a turn is on its way.
Quiet(way) == \A i \in DOMAIN way : way[i].of # "turn"

\* What is on its way to NetSage, the queue and then the pipe, tells what the
\* turn t has written: its end is there until it is read and nothing follows
\* it, and what must fail the turn comes before it.
Tells(way, t, told) ==
  /\ \A i \in DOMAIN way : way[i].of = "turn" =>
       /\ way[i].thread = t
       /\ way[i].type = "agent_message" => \E k \in DOMAIN told : told[k] = "agent_message"
       /\ way[i].type \in Ends =>
            told # <<>> /\ Last(told) = way[i].type /\ \A j \in DOMAIN way : j > i => way[j].of # "turn"
  /\ (\E k \in DOMAIN told : told[k] \in Unsafe) =>
       \E i \in DOMAIN way : /\ way[i].of = "turn" /\ way[i].type \in Unsafe
                             /\ \A j \in DOMAIN way : way[j].type \in Ends => i < j
  /\ told # <<>> /\ Last(told) \in Ends =>
       \E i \in DOMAIN way : way[i].of = "turn" /\ way[i].thread = t /\ way[i].type \in Ends

GoodTurn(told) ==
  /\ told # <<>> /\ Last(told) = "completed" /\ \E i \in DOMAIN told : told[i] = "agent_message"
  /\ \A i \in DOMAIN told : told[i] \notin Unsafe

TurnInvariant ==
  /\ TurnTypes /\ Phases
  /\ stage \in {"start", "connecting", "ready"} \/ awaited = "thread/start" => Quiet(notes \o pipe)
  /\ awaited \in {"turn/start", "turn"} =>
       /\ Tells(notes \o pipe, thread, turns[thread])
       /\ final # 0 => \E k \in DOMAIN turns[thread] : turns[thread][k] = "agent_message"
  /\ \A t \in answered : GoodTurn(turns[t])

----------------------------------------------------------------------------
(* The ways a message enters and leaves the way.                           *)
LEMMA WayIsSequence ==
  ASSUME NEW s \in Seq(Messages), NEW t \in Seq(Messages)
  PROVE  /\ s \o t \in Seq(Messages) /\ Len(s) \in Nat /\ Len(t) \in Nat
         /\ Len(s \o t) = Len(s) + Len(t) /\ DOMAIN (s \o t) = 1..(Len(s) + Len(t))
<1>1. s \o t \in Seq(Messages) /\ Len(s \o t) = Len(s) + Len(t)
  BY ConcatProperties
<1>2. Len(s) \in Nat /\ Len(t) \in Nat
  BY LenProperties
<1>3. DOMAIN (s \o t) = 1..Len(s \o t)
  BY <1>1, LenProperties
<1> QED
  BY <1>1, <1>2, <1>3

\* A message is written to the pipe.
LEMMA Written ==
  ASSUME NEW s \in Seq(Messages), NEW t \in Seq(Messages), NEW message \in Messages
  PROVE  /\ Append(t, message) \in Seq(Messages)
         /\ s \o Append(t, message) = Append(s \o t, message)
<1>1. Append(t, message) \in Seq(Messages) /\ Append(t, message) = t \o <<message>>
  BY AppendProperties, AppendIsConcat
<1>2. s \o t \in Seq(Messages) /\ Append(s \o t, message) = (s \o t) \o <<message>>
  BY ConcatProperties, AppendIsConcat
<1>3. <<message>> \in Seq(Messages)
  OBVIOUS
<1>4. ASSUME NEW u \in Seq(Messages)
      PROVE  (s \o t) \o u = s \o (t \o u)
  BY ConcatAssociative
<1>5. (s \o t) \o <<message>> = s \o (t \o <<message>>)
  BY <1>3, <1>4
<1> QED
  BY <1>1, <1>2, <1>5

\* A message is moved from the pipe to the queue.
LEMMA Moved ==
  ASSUME NEW s \in Seq(Messages), NEW t \in Seq(Messages), t # <<>>
  PROVE  /\ Head(t) \in Messages /\ Tail(t) \in Seq(Messages)
         /\ Append(s, Head(t)) \in Seq(Messages)
         /\ Append(s, Head(t)) \o Tail(t) = s \o t
<1> DEFINE one == <<Head(t)>>
<1>1. Head(t) \in Messages /\ Tail(t) \in Seq(Messages)
  BY HeadTailProperties
<1>2. Append(s, Head(t)) \in Seq(Messages) /\ Append(s, Head(t)) = s \o one
  BY <1>1, AppendProperties, AppendIsConcat
<1>3. one \in Seq(Messages)
  BY <1>1
<1>4. ASSUME NEW u \in Seq(Messages), NEW v \in Seq(Messages)
      PROVE  (s \o u) \o v = s \o (u \o v)
  BY ConcatAssociative
<1>5. one \o Tail(t) = t
  <2>1. Len(t) \in Nat \ {0} /\ Len(one) = 1 /\ one[1] = t[1]
    BY EmptySeq
  <2>2. /\ one \o Tail(t) \in Seq(Messages) /\ Len(Tail(t)) = Len(t) - 1
        /\ \A i \in 1..Len(Tail(t)) : Tail(t)[i] = t[i + 1]
    BY <1>1, <1>3, HeadTailProperties, ConcatProperties
  <2> HIDE DEF one
  <2>3. /\ Len(one \o Tail(t)) = Len(one) + Len(Tail(t))
        /\ \A i \in 1..(Len(one) + Len(Tail(t))) :
             (one \o Tail(t))[i] = IF i <= Len(one) THEN one[i] ELSE Tail(t)[i - Len(one)]
    BY <1>1, <1>3, ConcatProperties
  <2>4. Len(one \o Tail(t)) = Len(t)
    BY <2>1, <2>2, <2>3
  <2>5. ASSUME NEW i \in 1..Len(t)
        PROVE  (one \o Tail(t))[i] = t[i]
    <3>1. CASE i = 1
      BY <2>1, <2>2, <2>3, <3>1
    <3>2. CASE i # 1
      <4>1. i \in 1..(Len(one) + Len(Tail(t))) /\ ~(i <= Len(one)) /\ i - 1 \in 1..Len(Tail(t))
        BY <2>1, <2>2, <3>2
      <4>2. (one \o Tail(t))[i] = Tail(t)[i - 1]
        BY <2>1, <2>3, <4>1
      <4> QED
        BY <2>2, <4>1, <4>2
    <3> QED
      BY <3>1, <3>2
  <2> QED
    BY <2>2, <2>4, <2>5, SeqEqual
<1> HIDE DEF one
<1>6. (s \o one) \o Tail(t) = s \o t
  BY <1>1, <1>3, <1>4, <1>5
<1> QED
  BY <1>1, <1>2, <1>6

\* Position p is taken out of the way, and the others stay in order.
Without(way, p, rest) ==
  /\ rest \in Seq(Messages) /\ DOMAIN rest = 1..(Len(way) - 1)
  /\ p \in 1..Len(way) /\ Len(way) \in Nat /\ DOMAIN way = 1..Len(way)
  /\ \A i \in DOMAIN rest : rest[i] = IF i < p THEN way[i] ELSE way[i + 1]

LEMMA TakenFromPipe ==
  ASSUME NEW s \in Seq(Messages), NEW t \in Seq(Messages), t # <<>>
  PROVE  Without(s \o t, Len(s) + 1, s \o Tail(t)) /\ (s \o t)[Len(s) + 1] = Head(t)
<1>1. /\ Tail(t) \in Seq(Messages) /\ Len(Tail(t)) = Len(t) - 1 /\ Len(t) \in Nat \ {0}
      /\ \A i \in 1..Len(Tail(t)) : Tail(t)[i] = t[i + 1]
  BY HeadTailProperties, EmptySeq
<1>2. \A i \in 1..(Len(s) + Len(t)) : (s \o t)[i] = IF i <= Len(s) THEN s[i] ELSE t[i - Len(s)]
  BY ConcatProperties
<1>3. \A i \in 1..(Len(s) + Len(Tail(t))) :
        (s \o Tail(t))[i] = IF i <= Len(s) THEN s[i] ELSE Tail(t)[i - Len(s)]
  BY <1>1, ConcatProperties
<1>4. /\ s \o t \in Seq(Messages) /\ Len(s) \in Nat
      /\ Len(s \o t) = Len(s) + Len(t) /\ DOMAIN (s \o t) = 1..(Len(s) + Len(t))
  BY WayIsSequence
<1>5. s \o Tail(t) \in Seq(Messages) /\ DOMAIN (s \o Tail(t)) = 1..(Len(s) + Len(Tail(t)))
  BY <1>1, WayIsSequence
<1>6. ASSUME NEW i \in 1..(Len(s) + Len(Tail(t)))
      PROVE  (s \o Tail(t))[i] = IF i < Len(s) + 1 THEN (s \o t)[i] ELSE (s \o t)[i + 1]
  <2>1. CASE i <= Len(s)
    BY <1>1, <1>2, <1>3, <1>4, <2>1
  <2>2. CASE ~(i <= Len(s))
    <3>1. i - Len(s) \in 1..Len(Tail(t)) /\ i + 1 \in 1..(Len(s) + Len(t)) /\ ~(i + 1 <= Len(s))
      BY <1>1, <1>4, <2>2
    <3>2. (s \o Tail(t))[i] = Tail(t)[i - Len(s)]
      BY <1>3, <2>2
    <3>3. (s \o t)[i + 1] = t[(i + 1) - Len(s)]
      BY <1>2, <3>1
    <3>4. (i + 1) - Len(s) = (i - Len(s)) + 1 /\ ~(i < Len(s) + 1)
      BY <1>4, <2>2
    <3> QED
      BY <1>1, <3>1, <3>2, <3>3, <3>4
  <2> QED
    BY <2>1, <2>2
<1>7. (s \o t)[Len(s) + 1] = Head(t)
  <2>1. /\ Len(s) + 1 \in 1..(Len(s) + Len(t)) /\ ~(Len(s) + 1 <= Len(s))
        /\ (Len(s) + 1) - Len(s) = 1
    BY <1>1, <1>4
  <2>2. (s \o t)[Len(s) + 1] = t[1]
    BY <1>2, <2>1
  <2> QED
    BY <2>2
<1> QED
  BY <1>1, <1>4, <1>5, <1>6, <1>7 DEF Without

LEMMA TakenFromQueue ==
  ASSUME NEW s \in Seq(Messages), NEW t \in Seq(Messages), s # <<>>
  PROVE  Without(s \o t, 1, Tail(s) \o t) /\ (s \o t)[1] = Head(s)
<1>1. /\ Tail(s) \in Seq(Messages) /\ Len(Tail(s)) = Len(s) - 1 /\ Len(s) \in Nat \ {0}
      /\ \A i \in 1..Len(Tail(s)) : Tail(s)[i] = s[i + 1]
  BY HeadTailProperties, EmptySeq
<1>2. \A i \in 1..(Len(s) + Len(t)) : (s \o t)[i] = IF i <= Len(s) THEN s[i] ELSE t[i - Len(s)]
  BY ConcatProperties
<1>3. \A i \in 1..(Len(Tail(s)) + Len(t)) :
        (Tail(s) \o t)[i] = IF i <= Len(Tail(s)) THEN Tail(s)[i] ELSE t[i - Len(Tail(s))]
  BY <1>1, ConcatProperties
<1>4. /\ s \o t \in Seq(Messages) /\ Len(t) \in Nat
      /\ Len(s \o t) = Len(s) + Len(t) /\ DOMAIN (s \o t) = 1..(Len(s) + Len(t))
  BY WayIsSequence
<1>5. Tail(s) \o t \in Seq(Messages) /\ DOMAIN (Tail(s) \o t) = 1..(Len(Tail(s)) + Len(t))
  BY <1>1, WayIsSequence
<1>6. ASSUME NEW i \in 1..(Len(Tail(s)) + Len(t))
      PROVE  (Tail(s) \o t)[i] = (s \o t)[i + 1]
  <2>1. i + 1 \in 1..(Len(s) + Len(t))
    BY <1>1, <1>4
  <2>2. CASE i <= Len(Tail(s))
    <3>1. i + 1 <= Len(s) /\ i \in 1..Len(Tail(s))
      BY <1>1, <2>2
    <3> QED
      BY <1>1, <1>2, <1>3, <2>1, <2>2, <3>1
  <2>3. CASE ~(i <= Len(Tail(s)))
    <3>1. ~(i + 1 <= Len(s)) /\ i - Len(Tail(s)) = (i + 1) - Len(s)
      BY <1>1, <2>3
    <3> QED
      BY <1>2, <1>3, <2>1, <2>3, <3>1
  <2> QED
    BY <2>2, <2>3
<1>7. (s \o t)[1] = Head(s)
  <2>1. 1 \in 1..(Len(s) + Len(t)) /\ 1 <= Len(s)
    BY <1>1, <1>4
  <2> QED
    BY <1>2, <2>1
<1> QED
  BY <1>1, <1>4, <1>5, <1>6, <1>7 DEF Without

----------------------------------------------------------------------------
(* What each of them does to what the way tells.                           *)
LEMMA TakenTells ==
  ASSUME NEW way, NEW p, NEW rest, NEW t, NEW told, Without(way, p, rest), Tells(way, t, told),
         ~(way[p].of = "turn" /\ way[p].type \in Unsafe \cup Ends)
  PROVE  Tells(rest, t, told)
<1> DEFINE At(i) == IF i < p THEN i ELSE i + 1
           From(j) == IF j < p THEN j ELSE j - 1
<1>1. /\ p \in Nat /\ Len(way) \in Nat
      /\ \A i \in DOMAIN rest : i \in Nat /\ At(i) \in DOMAIN way /\ rest[i] = way[At(i)]
      /\ \A i, j \in DOMAIN rest : i < j <=> At(i) < At(j)
  BY DEF Without
<1>2. \A j \in DOMAIN way : j # p => From(j) \in DOMAIN rest /\ At(From(j)) = j
  BY DEF Without
<1> HIDE DEF At, From
<1>3. \A i, j \in DOMAIN rest : j > i <=> At(j) > At(i)
  BY <1>1
<1>4. ASSUME NEW i \in DOMAIN rest, rest[i].of = "turn"
      PROVE  /\ rest[i].thread = t
             /\ rest[i].type = "agent_message" => \E k \in DOMAIN told : told[k] = "agent_message"
             /\ rest[i].type \in Ends => /\ told # <<>> /\ Last(told) = rest[i].type
                                         /\ \A j \in DOMAIN rest : j > i => rest[j].of # "turn"
  <2>1. At(i) \in DOMAIN way /\ rest[i] = way[At(i)]
    BY <1>1
  <2>2. \A j \in DOMAIN rest : j > i => At(j) \in DOMAIN way /\ At(j) > At(i) /\ rest[j] = way[At(j)]
    BY <1>1, <1>3
  <2> QED
    BY <1>4, <2>1, <2>2 DEF Tells
<1>5. ASSUME \E k \in DOMAIN told : told[k] \in Unsafe
      PROVE  \E i \in DOMAIN rest : /\ rest[i].of = "turn" /\ rest[i].type \in Unsafe
                                    /\ \A j \in DOMAIN rest : rest[j].type \in Ends => i < j
  <2>1. PICK i \in DOMAIN way : /\ way[i].of = "turn" /\ way[i].type \in Unsafe
                                /\ \A j \in DOMAIN way : way[j].type \in Ends => i < j
    BY <1>5 DEF Tells
  <2>2. i # p
    BY <2>1
  <2>3. From(i) \in DOMAIN rest /\ At(From(i)) = i
    BY <1>2, <2>2
  <2>4. rest[From(i)] = way[i]
    BY <1>1, <2>3
  <2>5. \A j \in DOMAIN rest : rest[j].type \in Ends => From(i) < j
    BY <1>1, <2>1, <2>3
  <2> QED
    BY <2>1, <2>3, <2>4, <2>5
<1>6. ASSUME told # <<>>, Last(told) \in Ends
      PROVE  \E i \in DOMAIN rest : rest[i].of = "turn" /\ rest[i].thread = t /\ rest[i].type \in Ends
  <2>1. PICK i \in DOMAIN way : way[i].of = "turn" /\ way[i].thread = t /\ way[i].type \in Ends
    BY <1>6 DEF Tells
  <2>2. i # p
    BY <2>1
  <2> QED
    BY <1>1, <1>2, <2>1, <2>2
<1> QED
  BY <1>4, <1>5, <1>6 DEF Tells

LEMMA TakenQuiet ==
  ASSUME NEW way, NEW p, NEW rest, Without(way, p, rest), Quiet(way)
  PROVE  Quiet(rest)
  BY DEF Without, Quiet

LEMMA ReplyTells ==
  ASSUME NEW way \in Seq(Messages), NEW reply \in Replies, NEW t, NEW told
  PROVE  /\ Tells(way, t, told) => Tells(Append(way, reply), t, told)
         /\ Quiet(way) => Quiet(Append(way, reply))
<1> DEFINE longer == Append(way, reply)
<1>1. reply \in Messages /\ reply.of # "turn" /\ reply.type \notin Unsafe \cup Ends
  BY DEF Replies, Messages, Methods, Unsafe, Ends
<1>2. Len(way) \in Nat /\ DOMAIN way = 1..Len(way)
  BY LenProperties
<1>3. /\ longer \in Seq(Messages) /\ Len(longer) = Len(way) + 1
      /\ \A i \in 1..Len(way) : longer[i] = way[i]
      /\ longer[Len(way) + 1] = reply
  BY <1>1, AppendProperties
<1>4. DOMAIN longer = 1..(Len(way) + 1)
  BY <1>3, LenProperties
<1> HIDE DEF longer
<1>5. \A i \in DOMAIN longer : \/ i \in DOMAIN way /\ longer[i] = way[i]
                              \/ longer[i] = reply
  BY <1>2, <1>3, <1>4
<1>6. DOMAIN way \subseteq DOMAIN longer
  BY <1>2, <1>4
<1>7. Quiet(way) => Quiet(longer)
  BY <1>1, <1>5 DEF Quiet
<1>8. ASSUME Tells(way, t, told)
      PROVE  Tells(longer, t, told)
  <2>1. ASSUME NEW i \in DOMAIN longer, longer[i].of = "turn"
        PROVE  /\ longer[i].thread = t
               /\ longer[i].type = "agent_message" => \E k \in DOMAIN told : told[k] = "agent_message"
               /\ longer[i].type \in Ends =>
                    /\ told # <<>> /\ Last(told) = longer[i].type
                    /\ \A j \in DOMAIN longer : j > i => longer[j].of # "turn"
    <3>1. i \in DOMAIN way /\ longer[i] = way[i]
      BY <1>1, <1>5, <2>1
    <3> QED
      BY <1>1, <1>5, <1>8, <2>1, <3>1 DEF Tells
  <2>2. ASSUME \E k \in DOMAIN told : told[k] \in Unsafe
        PROVE  \E i \in DOMAIN longer : /\ longer[i].of = "turn" /\ longer[i].type \in Unsafe
                                        /\ \A j \in DOMAIN longer : longer[j].type \in Ends => i < j
    <3>1. PICK i \in DOMAIN way : /\ way[i].of = "turn" /\ way[i].type \in Unsafe
                                  /\ \A j \in DOMAIN way : way[j].type \in Ends => i < j
      BY <1>8, <2>2 DEF Tells
    <3>2. longer[i] = way[i] /\ i \in DOMAIN longer
      BY <1>2, <1>3, <1>6
    <3> QED
      BY <1>1, <1>5, <3>1, <3>2
  <2>3. ASSUME told # <<>>, Last(told) \in Ends
        PROVE  \E i \in DOMAIN longer :
                 longer[i].of = "turn" /\ longer[i].thread = t /\ longer[i].type \in Ends
    <3>1. PICK i \in DOMAIN way : way[i].of = "turn" /\ way[i].thread = t /\ way[i].type \in Ends
      BY <1>8, <2>3 DEF Tells
    <3> QED
      BY <1>2, <1>3, <1>6, <3>1
  <2> QED
    BY <2>1, <2>2, <2>3 DEF Tells
<1> QED
  BY <1>7, <1>8 DEF longer

\* An event is written, and its type noted: the turn has not ended.
LEMMA EventTells ==
  ASSUME NEW way \in Seq(Messages), NEW t \in 1..MaxSteps, NEW told \in Seq(ItemTypes \cup Ends),
         NEW type \in ItemTypes \cup Ends,
         Tells(way, t, told), ~(told # <<>> /\ Last(told) \in Ends)
  PROVE  Tells(Append(way, Event(type, t)), t, Append(told, type))
<1> DEFINE event == Event(type, t)
           longer == Append(way, event)
           said == Append(told, type)
<1>1. event \in Messages /\ event.of = "turn" /\ event.type = type /\ event.thread = t
  BY DEF Event, Messages, Events
<1>2. Len(way) \in Nat /\ DOMAIN way = 1..Len(way) /\ Len(told) \in Nat /\ DOMAIN told = 1..Len(told)
  BY LenProperties
<1> HIDE DEF event
<1>3. /\ longer \in Seq(Messages) /\ Len(longer) = Len(way) + 1
      /\ \A i \in 1..Len(way) : longer[i] = way[i]
      /\ longer[Len(way) + 1] = event
  BY <1>1, AppendProperties
<1>4. DOMAIN longer = 1..(Len(way) + 1)
  BY <1>3, LenProperties
<1>5. /\ said \in Seq(ItemTypes \cup Ends) /\ said # <<>> /\ Len(said) = Len(told) + 1
      /\ \A i \in 1..Len(told) : said[i] = told[i]
      /\ said[Len(told) + 1] = type
  BY AppendProperties
<1>6. DOMAIN said = 1..(Len(told) + 1) /\ Last(said) = type
  BY <1>5, LenProperties DEF Last
<1> HIDE DEF longer, said
<1>7. \A i \in DOMAIN longer : \/ i \in DOMAIN way /\ longer[i] = way[i] /\ i < Len(way) + 1
                               \/ i = Len(way) + 1 /\ longer[i] = event
  BY <1>2, <1>3, <1>4
<1>8. Len(way) + 1 \in DOMAIN longer /\ Len(told) + 1 \in DOMAIN said
  BY <1>2, <1>4, <1>6
<1>9. \A i \in DOMAIN way : way[i].of = "turn" => way[i].type \notin Ends
  BY DEF Tells
<1>10. \A i \in DOMAIN way : way[i].type \in Ends => way[i].of = "turn"
  <2>1. \A i \in DOMAIN way : way[i] \in Messages
    BY <1>2, ElementOfSeq
  <2>2. \A m \in Messages : m.type \in Ends => m.of = "turn"
    BY DEF Messages, Replies, Events, Ends
  <2> QED
    BY <2>1, <2>2
<1>11. ASSUME NEW i \in DOMAIN longer, longer[i].of = "turn"
       PROVE  /\ longer[i].thread = t
              /\ longer[i].type = "agent_message" => \E k \in DOMAIN said : said[k] = "agent_message"
              /\ longer[i].type \in Ends =>
                   /\ said # <<>> /\ Last(said) = longer[i].type
                   /\ \A j \in DOMAIN longer : j > i => longer[j].of # "turn"
  <2>1. CASE i \in DOMAIN way /\ longer[i] = way[i]
    <3>1. longer[i].type = "agent_message" => \E k \in DOMAIN told : told[k] = "agent_message"
      BY <1>11, <2>1 DEF Tells
    <3>2. \A k \in DOMAIN told : k \in DOMAIN said /\ said[k] = told[k]
      BY <1>2, <1>5, <1>6
    <3> QED
      BY <1>9, <1>11, <2>1, <3>1, <3>2 DEF Tells
  <2>2. CASE i = Len(way) + 1 /\ longer[i] = event
    <3>1. \A j \in DOMAIN longer : ~(j > i)
      BY <1>2, <1>4, <2>2
    <3> QED
      BY <1>1, <1>5, <1>6, <1>8, <2>2, <3>1
  <2> QED
    BY <1>7, <2>1, <2>2
<1>12. ASSUME \E k \in DOMAIN said : said[k] \in Unsafe
       PROVE  \E i \in DOMAIN longer : /\ longer[i].of = "turn" /\ longer[i].type \in Unsafe
                                       /\ \A j \in DOMAIN longer : longer[j].type \in Ends => i < j
  <2>1. CASE \E k \in DOMAIN told : told[k] \in Unsafe
    <3>1. PICK i \in DOMAIN way : way[i].of = "turn" /\ way[i].type \in Unsafe
      BY <2>1 DEF Tells
    <3>2. i \in DOMAIN longer /\ longer[i] = way[i] /\ i < Len(way) + 1
      BY <1>2, <1>3, <1>4
    <3>3. \A j \in DOMAIN longer : longer[j].type \in Ends => j = Len(way) + 1
      BY <1>7, <1>9, <1>10
    <3> QED
      BY <3>1, <3>2, <3>3
  <2>2. CASE ~\E k \in DOMAIN told : told[k] \in Unsafe
    <3>1. type \in Unsafe
      BY <1>2, <1>5, <1>6, <1>12, <2>2
    <3>2. \A j \in DOMAIN longer : longer[j].type \notin Ends
      BY <1>1, <1>7, <1>9, <1>10, <3>1 DEF Unsafe, Ends
    <3> QED
      BY <1>1, <1>3, <1>8, <3>1, <3>2
  <2> QED
    BY <2>1, <2>2
<1>13. Last(said) \in Ends =>
         \E i \in DOMAIN longer : longer[i].of = "turn" /\ longer[i].thread = t /\ longer[i].type \in Ends
  BY <1>1, <1>3, <1>6, <1>8
<1> QED
  BY <1>11, <1>12, <1>13 DEF Tells, longer, said, event

\* A thread that has written nothing, and of which nothing is on its way.
LEMMA FreshTells ==
  ASSUME NEW way, Quiet(way), NEW t
  PROVE  Tells(way, t, <<>>)
<1>1. DOMAIN <<>> = {}
  OBVIOUS
<1> QED
  BY <1>1 DEF Tells, Quiet

----------------------------------------------------------------------------
LEMMA TurnStarts == Init => TurnInvariant
<1> SUFFICES ASSUME Init PROVE TurnInvariant
  OBVIOUS
<1>1. MaxSteps \in Nat \ {0}
  BY BoundsAssumption
<1>2. \A S : <<>> \in Seq(S) /\ DOMAIN <<>> = {}
  BY EmptySeq
<1>3. notes \o pipe = <<>>
  BY DEF Init
<1>4. TurnTypes /\ Phases
  BY <1>1, <1>2 DEF Init, TurnTypes, Phases
<1> QED
  BY <1>2, <1>3, <1>4 DEF Init, TurnInvariant, Quiet

\* Whatever fails leaves nothing to wait for.
LEMMA FailingKeepsTurns ==
  ASSUME TurnInvariant, awaited # "none", Fails, pipe' \in Seq(Messages), notes' \in Seq(Messages)
  PROVE  TurnInvariant'
<1>1. stage' \in {"closing", "ended"} /\ awaited' = "none"
      /\ UNCHANGED <<requests, thread, final, answered, turns>>
  BY DEF Fails, Recover
<1>2. TurnTypes' /\ Phases'
  BY <1>1 DEF TurnInvariant, TurnTypes, Phases
<1> QED
  BY <1>1, <1>2 DEF TurnInvariant

\* A step that leaves the messages, the turns and what is awaited alone.
LEMMA AsideKeepsTurns ==
  ASSUME TurnInvariant,
         UNCHANGED <<requests, pipe, notes, awaited, thread, final, answered, turns>>,
         \/ stage' = stage
         \/ awaited = "none" /\ stage' \in {"closing", "ended"}
  PROVE  TurnInvariant'
<1>1. TurnTypes' /\ Phases'
  BY DEF TurnInvariant, TurnTypes, Phases
<1> QED
  BY <1>1 DEF TurnInvariant

LEMMA ServerKeepsTurns ==
  ASSUME TurnInvariant, ServerAnswers \/ ServerWorks \/ ServerStops
  PROVE  TurnInvariant'
<1> DEFINE way == notes \o pipe
<1>1. notes \in Seq(Messages) /\ pipe \in Seq(Messages) /\ way \in Seq(Messages)
  BY WayIsSequence DEF TurnInvariant, TurnTypes
<1>2. CASE ServerAnswers
  <2>1. PICK reply \in {Answer(Head(requests)), Refusal(Head(requests))} : pipe' = Append(pipe, reply)
    BY <1>2 DEF ServerAnswers
  <2>2. /\ requests # <<>> /\ requests' = Tail(requests) /\ UNCHANGED turns
        /\ UNCHANGED <<notes, awaited, stage, thread, final, answered>>
    BY <1>2 DEF ServerAnswers, serverOnly
  <2>3. Head(requests) \in Methods /\ requests' \in Seq(Methods)
    BY <2>2, HeadTailProperties DEF TurnInvariant, TurnTypes
  <2>4. reply \in Replies /\ reply \in Messages
    BY <2>3 DEF Answer, Refusal, Replies, Messages
  <2>5. pipe' \in Seq(Messages) /\ notes' \o pipe' = Append(way, reply)
    BY <1>1, <2>1, <2>2, <2>4, Written
  <2>6. TurnTypes'
    BY <2>2, <2>3, <2>5 DEF TurnInvariant, TurnTypes
  <2>7. Phases'
    BY <2>2 DEF TurnInvariant, Phases
  <2> HIDE DEF way
  <2>8. Quiet(way) => Quiet(notes' \o pipe')
    BY <1>1, <2>4, <2>5, ReplyTells
  <2>9. Tells(way, thread, turns[thread]) => Tells(notes' \o pipe', thread, turns[thread])
    BY <1>1, <2>4, <2>5, ReplyTells
  <2> QED
    BY <2>2, <2>6, <2>7, <2>8, <2>9 DEF TurnInvariant, way
<1>3. CASE ServerWorks
  <2>1. PICK type \in ItemTypes \cup Ends :
          /\ pipe' = Append(pipe, Event(type, thread))
          /\ turns' = [turns EXCEPT ![thread] = Append(@, type)]
    BY <1>3 DEF ServerWorks
  <2>2. /\ thread > 0 /\ ~Ended(thread) /\ awaited \in {"turn", "turn/start"}
        /\ UNCHANGED <<notes, awaited, stage, thread, final, answered, requests>>
    BY <1>3 DEF ServerWorks, serverOnly
  <2>3. thread \in 1..MaxSteps /\ turns[thread] \in Seq(ItemTypes \cup Ends)
    BY <2>2, BoundsAssumption DEF TurnInvariant, TurnTypes
  <2> DEFINE said == Append(turns[thread], type)
  <2>4. said \in Seq(ItemTypes \cup Ends) /\ turns' = [turns EXCEPT ![thread] = said]
    BY <2>1, <2>3, AppendProperties
  <2>5. /\ turns' \in [1..MaxSteps -> Seq(ItemTypes \cup Ends)] /\ turns'[thread] = said
        /\ \A t \in 1..MaxSteps : t # thread => turns'[t] = turns[t]
    BY <2>3, <2>4 DEF TurnInvariant, TurnTypes
  <2>6. Event(type, thread) \in Messages
    BY <2>3 DEF Event, Messages, Events
  <2>7. pipe' \in Seq(Messages) /\ notes' \o pipe' = Append(way, Event(type, thread))
    BY <1>1, <2>1, <2>2, <2>6, Written
  <2>8. TurnTypes'
    BY <2>2, <2>5, <2>7 DEF TurnInvariant, TurnTypes
  <2>9. Phases'
    BY <2>2, <2>3, <2>5 DEF TurnInvariant, Phases
  <2>10. Tells(notes' \o pipe', thread, said)
    <3>1. Tells(way, thread, turns[thread])
      BY <2>2 DEF TurnInvariant
    <3>2. ~(turns[thread] # <<>> /\ Last(turns[thread]) \in Ends)
      BY <2>2 DEF Ended
    <3> HIDE DEF way
    <3> QED
      BY <1>1, <2>3, <2>7, <3>1, <3>2, EventTells
  <2>11. (\E k \in DOMAIN turns[thread] : turns[thread][k] = "agent_message")
           => \E k \in DOMAIN said : said[k] = "agent_message"
    <3>1. /\ DOMAIN turns[thread] = 1..Len(turns[thread]) /\ Len(turns[thread]) \in Nat
          /\ DOMAIN said = 1..(Len(turns[thread]) + 1)
          /\ \A i \in 1..Len(turns[thread]) : said[i] = turns[thread][i]
      BY <2>3, <2>4, AppendProperties, LenProperties
    <3> QED
      BY <3>1
  <2>12. \A t \in answered' : GoodTurn(turns'[t])
    <3>1. thread \notin answered
      BY <2>2 DEF TurnInvariant, GoodTurn, Ended, Ends
    <3> QED
      BY <2>2, <2>5, <3>1 DEF TurnInvariant, TurnTypes
  <2>13. ~(stage' \in {"start", "connecting", "ready"} \/ awaited' = "thread/start")
    BY <2>2 DEF TurnInvariant, Phases
  <2> QED
    BY <2>2, <2>5, <2>8, <2>9, <2>10, <2>11, <2>12, <2>13 DEF TurnInvariant
<1>4. CASE ServerStops
  BY <1>4, AsideKeepsTurns DEF ServerStops, serverOnly
<1> QED
  BY <1>2, <1>3, <1>4

\* The answer awaited leads on: a new thread starts with nothing on its way.
LEMMA ProceedingKeepsTurns ==
  ASSUME TurnInvariant, awaited \in Methods, Proceed, notes' = notes, pipe' = Tail(pipe),
         pipe # <<>>, Head(pipe) = Answer(awaited)
  PROVE  TurnInvariant'
<1> DEFINE way == notes \o pipe
           p == Len(notes) + 1
<1>1. notes \in Seq(Messages) /\ pipe \in Seq(Messages)
  BY DEF TurnInvariant, TurnTypes
<1>2. Without(way, p, notes' \o pipe') /\ way[p] = Head(pipe) /\ pipe' \in Seq(Messages)
  BY <1>1, TakenFromPipe, HeadTailProperties
<1>3. way[p].of # "turn"
  BY <1>2 DEF Answer, Methods
<1>4. Quiet(way) => Quiet(notes' \o pipe')
  BY <1>2, TakenQuiet
<1>5. ASSUME NEW t, NEW told, Tells(way, t, told)
      PROVE  Tells(notes' \o pipe', t, told)
  BY <1>2, <1>3, <1>5, TakenTells
<1>6. UNCHANGED <<answered, turns>>
  BY DEF Proceed
<1>7. ASSUME awaited' \in Methods, requests' = Append(requests, awaited')
      PROVE  requests' \in Seq(Methods)
  BY <1>7, AppendProperties DEF TurnInvariant, TurnTypes
<1>8. CASE awaited = "initialize"
  <2>1. /\ requests' = Append(requests, awaited') /\ awaited' = "account/read"
        /\ UNCHANGED <<stage, thread, final>>
    BY <1>8 DEF Proceed, Ask
  <2>2. stage = "connecting" /\ requests' \in Seq(Methods)
    BY <1>7, <1>8, <2>1 DEF TurnInvariant, Phases, Methods
  <2>3. TurnTypes' /\ Phases'
    BY <1>1, <1>2, <1>6, <2>1, <2>2 DEF TurnInvariant, TurnTypes, Phases
  <2> QED
    BY <1>4, <1>6, <2>1, <2>2, <2>3 DEF TurnInvariant
<1>9. CASE awaited = "account/read"
  <2>1. stage' \in {"ready", "ended"} /\ awaited' = "none" /\ UNCHANGED <<requests, thread, final>>
    BY <1>9 DEF Proceed
  <2>2. stage = "connecting"
    BY <1>9 DEF TurnInvariant, Phases
  <2>3. TurnTypes' /\ Phases'
    BY <1>1, <1>2, <1>6, <2>1 DEF TurnInvariant, TurnTypes, Phases
  <2> QED
    BY <1>4, <1>6, <2>1, <2>2, <2>3 DEF TurnInvariant
<1>10. CASE awaited = "thread/start"
  <2>1. /\ requests' = Append(requests, awaited') /\ awaited' = "turn/start"
        /\ thread' = thread + 1 /\ final' = 0 /\ UNCHANGED stage
    BY <1>10 DEF Proceed, Ask
  <2>2. stage = "step" /\ requests' \in Seq(Methods) /\ thread < MaxSteps /\ thread \in 0..MaxSteps
    BY <1>7, <1>10, <2>1 DEF TurnInvariant, TurnTypes, Phases, Methods
  <2>3. MaxSteps \in Nat /\ thread' \in 1..MaxSteps
    BY <2>1, <2>2, BoundsAssumption
  <2>4. turns'[thread'] = <<>>
    BY <1>6, <2>1, <2>2, <2>3 DEF TurnInvariant, Phases
  <2>5. TurnTypes'
    BY <1>1, <1>2, <1>6, <2>1, <2>2, <2>3 DEF TurnInvariant, TurnTypes
  <2>6. Phases'
    <3>1. \A t \in 1..MaxSteps : t > thread' => turns'[t] = <<>>
      BY <1>6, <2>1, <2>2, <2>3 DEF TurnInvariant, Phases
    <3>2. awaited' = "turn/start" /\ stage' = "step" /\ thread' > 0
      BY <2>1, <2>2, <2>3
    <3> QED
      BY <3>1, <3>2 DEF Phases
  <2>7. Tells(notes' \o pipe', thread', <<>>)
    BY <1>4, <1>10, FreshTells DEF TurnInvariant
  <2> QED
    BY <1>6, <2>1, <2>2, <2>4, <2>5, <2>6, <2>7 DEF TurnInvariant
<1>11. CASE awaited = "turn/start"
  <2>1. awaited' = "turn" /\ UNCHANGED <<requests, stage, thread, final>>
    BY <1>11 DEF Proceed
  <2>2. stage = "step"
    BY <1>11 DEF TurnInvariant, Phases
  <2>3. TurnTypes' /\ Phases'
    BY <1>1, <1>2, <1>6, <1>11, <2>1, <2>2 DEF TurnInvariant, TurnTypes, Phases
  <2>4. Tells(notes' \o pipe', thread, turns[thread])
    BY <1>5, <1>11 DEF TurnInvariant
  <2> QED
    BY <1>6, <1>11, <2>1, <2>2, <2>3, <2>4 DEF TurnInvariant
<1> QED
  BY <1>8, <1>9, <1>10, <1>11 DEF Methods

LEMMA ReadAnswerKeepsTurns ==
  ASSUME TurnInvariant, ReadAnswer
  PROVE  TurnInvariant'
<1> DEFINE message == Head(pipe)
<1>1. /\ awaited # "none" /\ awaited # "turn" /\ pipe # <<>> /\ pipe' = Tail(pipe)
      /\ \/ message = Answer(awaited) /\ Proceed /\ UNCHANGED notes
         \/ Fails /\ UNCHANGED notes
         \/ /\ notes' = Append(notes, message)
            /\ UNCHANGED <<process, scratch, requests, awaited, stage, thread, final, answered, turns>>
  BY DEF ReadAnswer, Waiting, Queued
<1>2. notes \in Seq(Messages) /\ pipe \in Seq(Messages)
  BY DEF TurnInvariant, TurnTypes
<1>3. awaited \in Methods
  BY <1>1 DEF TurnInvariant, Phases, Methods
<1>4. CASE message = Answer(awaited) /\ Proceed /\ UNCHANGED notes
  BY <1>1, <1>3, <1>4, ProceedingKeepsTurns
<1>5. CASE Fails /\ UNCHANGED notes
  <2>1. pipe' \in Seq(Messages)
    BY <1>1, <1>2, HeadTailProperties
  <2> QED
    BY <1>1, <1>2, <1>5, <2>1, FailingKeepsTurns
<1>6. CASE /\ notes' = Append(notes, message)
           /\ UNCHANGED <<process, scratch, requests, awaited, stage, thread, final, answered, turns>>
  <2>1. /\ notes' \in Seq(Messages) /\ pipe' \in Seq(Messages)
        /\ notes' \o pipe' = notes \o pipe
    BY <1>1, <1>2, <1>6, Moved
  <2>2. TurnTypes' /\ Phases'
    BY <1>6, <2>1 DEF TurnInvariant, TurnTypes, Phases
  <2> QED
    BY <1>6, <2>1, <2>2 DEF TurnInvariant
<1> QED
  BY <1>1, <1>4, <1>5, <1>6

\* The next message of the turn, taken from position p of the way.
LEMMA TurnEventKeepsTurns ==
  ASSUME TurnInvariant, awaited = "turn", NEW p, Without(notes \o pipe, p, notes' \o pipe'),
         notes' \in Seq(Messages), pipe' \in Seq(Messages),
         \A j \in DOMAIN (notes \o pipe) : ~(j < p),
         (notes \o pipe)[p] \in Messages, TurnEvent((notes \o pipe)[p])
  PROVE  TurnInvariant'
<1> DEFINE way == notes \o pipe
           message == way[p]
<1>1. /\ Tells(way, thread, turns[thread]) /\ thread \in 1..MaxSteps /\ stage = "step"
      /\ final # 0 => \E k \in DOMAIN turns[thread] : turns[thread][k] = "agent_message"
  BY BoundsAssumption DEF TurnInvariant, TurnTypes, Phases
<1>2. p \in DOMAIN way
  BY DEF Without
<1> HIDE DEF way
<1>3. CASE Fails
  BY <1>3, FailingKeepsTurns
<1>4. CASE ~Fails /\ message.type = "agent_message"
  <2>1. /\ final' = message.thread
        /\ UNCHANGED <<requests, awaited, stage, thread, answered, turns>>
    BY <1>4 DEF TurnEvent, way
  <2>2. message \in Events
    BY <1>4 DEF Messages, Replies, way
  <2>3. message.of = "turn" /\ message.thread \in 1..MaxSteps
    BY <2>2 DEF Events
  <2>4. \E k \in DOMAIN turns[thread] : turns[thread][k] = "agent_message"
    BY <1>1, <1>2, <1>4, <2>3 DEF Tells
  <2>5. message.type \notin Unsafe \cup Ends
    BY <1>4 DEF Unsafe, Ends
  <2>6. Tells(notes' \o pipe', thread, turns[thread])
    BY <1>1, <2>5, TakenTells DEF way
  <2>7. TurnTypes'
    BY <2>1, <2>3 DEF TurnInvariant, TurnTypes
  <2>8. Phases'
    BY <2>1 DEF TurnInvariant, Phases
  <2> QED
    BY <1>1, <2>1, <2>4, <2>6, <2>7, <2>8 DEF TurnInvariant
<1>5. CASE ~Fails /\ message.type = "completed" /\ message.thread = thread
  <2>1. /\ final # 0 /\ answered' = answered \cup {thread} /\ awaited' = "none" /\ stage' = "ready"
        /\ UNCHANGED <<requests, thread, final, turns>>
    BY <1>5 DEF TurnEvent, way
  <2>2. message.of = "turn"
    BY <1>5 DEF Messages, Replies, Events, way
  <2>3. /\ turns[thread] # <<>> /\ Last(turns[thread]) = "completed"
        /\ \A j \in DOMAIN way : j > p => way[j].of # "turn"
    BY <1>1, <1>2, <1>5, <2>2 DEF Tells, Ends
  <2>4. \A k \in DOMAIN turns[thread] : turns[thread][k] \notin Unsafe
    <3>1. SUFFICES ASSUME \E k \in DOMAIN turns[thread] : turns[thread][k] \in Unsafe
                   PROVE  FALSE
      OBVIOUS
    <3>2. PICK i \in DOMAIN way : \A j \in DOMAIN way : way[j].type \in Ends => i < j
      BY <1>1, <3>1 DEF Tells
    <3>3. i < p
      BY <1>2, <1>5, <3>2 DEF Ends
    <3> QED
      BY <3>2, <3>3 DEF way
  <2>5. GoodTurn(turns[thread])
    BY <1>1, <2>1, <2>3, <2>4 DEF GoodTurn
  <2>6. Quiet(notes' \o pipe')
    <3>1. p \in Nat /\ \A j \in DOMAIN way : j \in Nat /\ ~(j < p)
      BY DEF Without, way
    <3>2. \A i \in DOMAIN (notes' \o pipe') :
            i + 1 \in DOMAIN way /\ i + 1 > p /\ (notes' \o pipe')[i] = way[i + 1]
      <4>1. TAKE i \in DOMAIN (notes' \o pipe')
      <4>2. i \in Nat /\ i \in DOMAIN way /\ i + 1 \in DOMAIN way
        BY DEF Without, way
      <4>3. ~(i < p)
        BY <3>1, <4>2
      <4>4. (notes' \o pipe')[i] = IF i < p THEN way[i] ELSE way[i + 1]
        BY DEF Without, way
      <4>5. i + 1 > p
        BY <3>1, <4>2, <4>3
      <4> QED
        BY <4>2, <4>3, <4>4, <4>5
    <3> QED
      BY <2>3, <3>2 DEF Quiet
  <2>7. TurnTypes'
    BY <1>1, <2>1 DEF TurnInvariant, TurnTypes
  <2>8. Phases'
    BY <2>1 DEF TurnInvariant, Phases
  <2> QED
    BY <2>1, <2>5, <2>6, <2>7, <2>8 DEF TurnInvariant
<1>6. CASE /\ ~Fails /\ message.type # "agent_message"
           /\ ~(message.type = "completed" /\ message.thread = thread)
  <2>1. UNCHANGED <<requests, awaited, stage, thread, final, answered, turns>>
    BY <1>6 DEF TurnEvent, way
  <2>2. message.type \notin Unsafe \cup {"failed"}
    BY <1>6 DEF TurnEvent, Unsafe, way
  <2>3. ~(message.of = "turn" /\ message.type \in Unsafe \cup Ends)
    BY <1>1, <1>2, <1>6, <2>2 DEF Tells, Ends
  <2>4. Tells(notes' \o pipe', thread, turns[thread])
    BY <1>1, <2>3, TakenTells DEF way
  <2>5. TurnTypes' /\ Phases'
    BY <2>1 DEF TurnInvariant, TurnTypes, Phases
  <2> QED
    BY <1>1, <2>1, <2>4, <2>5 DEF TurnInvariant
<1> QED
  BY <1>3, <1>4, <1>5, <1>6

LEMMA ReadTurnKeepsTurns ==
  ASSUME TurnInvariant, ReadTurn
  PROVE  TurnInvariant'
<1>1. notes \in Seq(Messages) /\ pipe \in Seq(Messages)
  BY DEF TurnInvariant, TurnTypes
<1>2. awaited = "turn"
  BY DEF ReadTurn
<1>3. /\ notes \o pipe \in Seq(Messages)
      /\ \A j \in DOMAIN (notes \o pipe) : ~(j < 1)
  BY <1>1, WayIsSequence
<1>4. CASE notes # <<>> /\ notes' = Tail(notes) /\ TurnEvent(Head(notes)) /\ UNCHANGED pipe
  <2>1. Without(notes \o pipe, 1, notes' \o pipe') /\ (notes \o pipe)[1] = Head(notes)
    BY <1>1, <1>4, TakenFromQueue
  <2>2. notes' \in Seq(Messages) /\ pipe' \in Seq(Messages) /\ Head(notes) \in Messages
    BY <1>1, <1>4, HeadTailProperties
  <2> QED
    BY <1>2, <1>3, <1>4, <2>1, <2>2, TurnEventKeepsTurns
<1>5. CASE notes = <<>> /\ pipe # <<>> /\ pipe' = Tail(pipe) /\ TurnEvent(Head(pipe)) /\ UNCHANGED notes
  <2>1. Len(notes) + 1 = 1
    BY <1>5, EmptySeq
  <2>2. Without(notes \o pipe, 1, notes' \o pipe') /\ (notes \o pipe)[1] = Head(pipe)
    BY <1>1, <1>5, <2>1, TakenFromPipe
  <2>3. notes' \in Seq(Messages) /\ pipe' \in Seq(Messages) /\ Head(pipe) \in Messages
    BY <1>1, <1>5, HeadTailProperties
  <2> QED
    BY <1>2, <1>3, <1>5, <2>2, <2>3, TurnEventKeepsTurns
<1> QED
  BY <1>4, <1>5 DEF ReadTurn

LEMMA ServiceKeepsTurns ==
  ASSUME TurnInvariant,
         StartFails \/ Start \/ Finish \/ Generate \/ Cancel \/ Terminate \/ Kill \/ CloseEnds
  PROVE  TurnInvariant'
<1>1. CASE StartFails \/ Finish \/ Terminate \/ Kill
  BY <1>1, AsideKeepsTurns DEF StartFails, Finish, Terminate, Kill, TurnInvariant, Phases
<1>2. CASE Start \/ Generate
  <2>1. /\ UNCHANGED <<pipe, notes, thread, final, answered, turns>>
        /\ requests' = Append(requests, awaited')
        /\ \/ stage = "start" /\ stage' = "connecting" /\ awaited' = "initialize"
           \/ stage = "ready" /\ stage' = "step" /\ awaited' = "thread/start" /\ thread < MaxSteps
    BY <1>2 DEF Start, Generate, Ask
  <2>2. requests' \in Seq(Methods)
    BY <2>1, AppendProperties DEF TurnInvariant, TurnTypes, Methods
  <2>3. TurnTypes' /\ Phases'
    BY <2>1, <2>2 DEF TurnInvariant, TurnTypes, Phases
  <2> QED
    BY <2>1, <2>3 DEF TurnInvariant
<1>3. CASE Cancel
  <2>1. /\ stage' \in {"closing", "ended"} /\ awaited' = "none"
        /\ UNCHANGED <<requests, pipe, notes, thread, final, answered, turns>>
    BY <1>3 DEF Cancel, AfterCancel
  <2>2. TurnTypes' /\ Phases'
    BY <2>1 DEF TurnInvariant, TurnTypes, Phases
  <2> QED
    BY <2>1, <2>2 DEF TurnInvariant
<1>4. CASE CloseEnds
  <2>1. /\ stage = "closing" /\ stage' = "ended" /\ notes' = <<>>
        /\ UNCHANGED <<requests, pipe, awaited, thread, final, answered, turns>>
    BY <1>4 DEF CloseEnds
  <2>2. TurnTypes' /\ Phases' /\ awaited' = "none"
    BY <2>1, EmptySeq DEF TurnInvariant, TurnTypes, Phases
  <2> QED
    BY <2>1, <2>2 DEF TurnInvariant
<1> QED
  BY <1>1, <1>2, <1>3, <1>4

LEMMA TurnStep == TurnInvariant /\ [Next]_vars => TurnInvariant'
<1> SUFFICES ASSUME TurnInvariant, [Next]_vars
             PROVE  TurnInvariant'
  OBVIOUS
<1>1. CASE ReadEnd \/ TimesOut
  <2>1. awaited # "none" /\ Fails /\ UNCHANGED <<pipe, notes>>
    BY <1>1 DEF ReadEnd, TimesOut, HasDeadline, Waiting
  <2> QED
    BY <2>1, FailingKeepsTurns DEF TurnInvariant, TurnTypes
<1>2. CASE UNCHANGED vars
  BY <1>2, AsideKeepsTurns DEF vars
<1> QED
  BY <1>1, <1>2, ServerKeepsTurns, ReadAnswerKeepsTurns, ReadTurnKeepsTurns, ServiceKeepsTurns
     DEF Next

(* A response is its own turn's and was given without tools, even when the *)
(* turn's events overtook the answer that started it; and the end of a turn *)
(* that NetSage waits for is never lost (codex/client.py, _request and     *)
(* _wait_for_turn).                                                        *)
THEOREM ResponsesFailClosed == Spec => []TurnsFailClosed
<1>1. TurnInvariant => TurnsFailClosed
  <2> SUFFICES ASSUME TurnInvariant PROVE TurnsFailClosed
    OBVIOUS
  <2>1. \A t \in answered :
          /\ Last(turns[t]) = "completed" /\ \E i \in DOMAIN turns[t] : turns[t][i] = "agent_message"
          /\ \A i \in DOMAIN turns[t] : turns[t][i] \notin {"unsafe_item", "request"}
    BY DEF TurnInvariant, GoodTurn, Unsafe
  <2>2. ASSUME awaited = "turn", Ended(thread)
        PROVE  \E i \in DOMAIN (notes \o pipe) :
                 /\ (notes \o pipe)[i].thread = thread
                 /\ (notes \o pipe)[i].type \in Ends
    BY <2>2 DEF TurnInvariant, Tells, Ended
  <2> QED
    BY <2>1, <2>2 DEF TurnsFailClosed
<1>2. QED BY <1>1, TurnStarts, TurnStep, PTL DEF Spec
==============================================================================
