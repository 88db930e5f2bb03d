------------------------- MODULE AgentRuntime_proofs -------------------------
(***************************************************************************)
(* The Broker and the AI-assisted investigation that calls it, for every   *)
(* provider, device, tool table and limits.                                *)
(*                                                                         *)
(* The Broker alone (BrokerSpec): its types, that no handler is started    *)
(* past the checks of invoke(), and that the audit trail tells what        *)
(* happened and accounts for every handler started.                        *)
(*                                                                         *)
(* The investigation (Spec): type correctness; its evidence is audited,    *)
(* its assessment grounded and it implements EvidenceBoundary; its tool    *)
(* calls stay in the budget and never repeat; what the provider is told is *)
(* what happened; and an accepted assessment stands on the deterministic   *)
(* report.                                                                 *)
(***************************************************************************)
EXTENDS AgentRuntime, SequenceTheorems, FiniteSetTheorems, TLAPS

-----------------------------------------------------------------------------
(* What an invocation does to the types, and a step of it at a time.       *)

LEMMA SettleTypes ==
    ASSUME BrokerTypeOK,
           NEW tool \in Names, NEW device \in Devices \cup {NoDevice},
           NEW result \in AuditResults, NEW outcome \in BrokerErrors \cup {"success"},
           Settle(tool, device, result, outcome)
    PROVE  audit' \in Seq(AuditEvents) /\ replies' \in Seq(Replies)
<1> DEFINE event == [tool |-> tool, device |-> device, result |-> result]
<1>1. event \in AuditEvents
    BY DEF AuditEvents
<1>2. audit \in Seq(AuditEvents) /\ replies \in Seq(Replies)
    BY DEF BrokerTypeOK
<1>3. [tool |-> tool, outcome |-> outcome, recorded |-> TRUE] \in Replies
    BY DEF Replies
<1>4. [tool |-> tool, outcome |-> SinkError, recorded |-> FALSE] \in Replies
    BY DEF Replies, BrokerErrors
<1>5. Append(audit, event) \in Seq(AuditEvents)
    BY <1>1, <1>2, AppendProperties
<1>6. /\ Append(replies, [tool |-> tool, outcome |-> outcome, recorded |-> TRUE]) \in Seq(Replies)
      /\ Append(replies, [tool |-> tool, outcome |-> SinkError, recorded |-> FALSE])
            \in Seq(Replies)
    BY <1>2, <1>3, <1>4, AppendProperties
<1>7. QED
    BY <1>2, <1>5, <1>6 DEF Settle

LEMMA CallFields ==
    ASSUME BrokerTypeOK, call # NoCall
    PROVE  call \in Calls /\ call.tool \in Names /\ call.device \in Devices
BY BrokerAssumption DEF BrokerTypeOK, Calls

LEMMA DenyTypes ==
    ASSUME BrokerTypeOK, NEW tool \in Names, NEW args \in Arguments, Deny(tool, args)
    PROVE  BrokerTypeOK'
<1>1. args.device \in Devices \cup {NoDevice}
    BY DEF Arguments
<1>2. Refusal(tool, args) \in BrokerErrors
    BY DEF Deny, Refusal, BrokerErrors, RefusalErrors
<1>3. "denied" \in AuditResults
    BY DEF AuditResults
<1>4. audit' \in Seq(AuditEvents) /\ replies' \in Seq(Replies)
    BY <1>1, <1>2, <1>3, SettleTypes DEF Deny
<1>5. QED
    BY <1>4 DEF Deny, BrokerTypeOK

LEMMA StartHandlerTypes ==
    ASSUME BrokerTypeOK, NEW tool \in Names, NEW args \in Arguments, StartHandler(tool, args)
    PROVE  BrokerTypeOK'
<1>1. args.device \in DOMAIN Inventory /\ args.destination \in Destinations \cup {NoDestination}
    BY DEF StartHandler, Refusal, Arguments
<1>2. call' \in Calls
    BY <1>1 DEF StartHandler, Calls
<1>3. touched' \in Seq(Calls)
    BY <1>2, AppendProperties DEF StartHandler, BrokerTypeOK
<1>4. QED
    BY <1>2, <1>3 DEF StartHandler, BrokerTypeOK

LEMMA HandlerEndsTypes ==
    ASSUME BrokerTypeOK, HandlerEnds
    PROVE  BrokerTypeOK'
<1>1. call # NoCall /\ call' = NoCall /\ UNCHANGED <<registered, touched>>
    BY DEF HandlerEnds, HandlerReturns, HandlerRaises
<1>2. call.tool \in Names /\ call.device \in Devices \cup {NoDevice}
    BY <1>1, CallFields
<1>3. audit' \in Seq(AuditEvents) /\ replies' \in Seq(Replies)
  <2>1. CASE HandlerReturns
      <3>1. Settle(call.tool, call.device, "success", "success")
          BY <2>1 DEF HandlerReturns
      <3>2. "success" \in AuditResults
          BY DEF AuditResults
      <3>3. QED
          BY <1>2, <3>1, <3>2, SettleTypes
  <2>2. ASSUME NEW error \in HandlerErrors \cup {"InvalidToolResultError"},
               HandlerRaises(error)
        PROVE  audit' \in Seq(AuditEvents) /\ replies' \in Seq(Replies)
      <3>1. Settle(call.tool, call.device, "failure", error)
          BY <2>2 DEF HandlerRaises
      <3>2. "failure" \in AuditResults /\ error \in BrokerErrors
          BY DEF AuditResults, BrokerErrors
      <3>3. QED
          BY <1>2, <3>1, <3>2, SettleTypes
  <2>3. QED
      BY <2>1, <2>2 DEF HandlerEnds
<1>4. QED
    BY <1>1, <1>3 DEF BrokerTypeOK

LEMMA HandlerCancelledTypes ==
    ASSUME BrokerTypeOK, HandlerCancelled
    PROVE  BrokerTypeOK'
<1>1. [tool |-> call.tool, outcome |-> "CancelledError", recorded |-> FALSE] \in Replies
    BY CallFields DEF HandlerCancelled, Replies, BrokerErrors
<1>2. replies' \in Seq(Replies)
    BY <1>1, AppendProperties DEF HandlerCancelled, BrokerTypeOK
<1>3. QED
    BY <1>2 DEF HandlerCancelled, BrokerTypeOK

-----------------------------------------------------------------------------
(* Every state of the Broker is well typed (ToolBroker.register, invoke).  *)
THEOREM BrokerTypeCorrect == BrokerSpec => []BrokerTypeOK
<1>1. BrokerInit => BrokerTypeOK
    BY DEF BrokerInit, BrokerTypeOK
<1>2. BrokerTypeOK /\ [BrokerNext]_brokerVars => BrokerTypeOK'
  <2> SUFFICES ASSUME BrokerTypeOK, [BrokerNext]_brokerVars
               PROVE  BrokerTypeOK'
      OBVIOUS
  <2>1. CASE UNCHANGED brokerVars
      BY <2>1 DEF brokerVars, BrokerTypeOK
  <2>2. ASSUME NEW tool \in Names, Register(tool)
        PROVE  BrokerTypeOK'
      BY <2>2 DEF Register, BrokerTypeOK
  <2>3. ASSUME NEW tool \in Names, NEW args \in Arguments,
               Deny(tool, args) \/ StartHandler(tool, args)
        PROVE  BrokerTypeOK'
      BY <2>3, DenyTypes, StartHandlerTypes
  <2>4. CASE HandlerEnds
      BY <2>4, HandlerEndsTypes
  <2>5. CASE HandlerCancelled
      BY <2>5, HandlerCancelledTypes
  <2>6. QED
      BY <2>1, <2>2, <2>3, <2>4, <2>5 DEF BrokerNext
<1>3. QED
    BY <1>1, <1>2, PTL DEF BrokerSpec

-----------------------------------------------------------------------------
(* A call the checks let through: what OnlyAuthorizedTouches says of each. *)
Legitimate(c) ==
    /\ c.tool \in ToolsForDevice(c.device) \ ForbiddenNames
    /\ c.destination # NoDestination <=> c.tool \in DestinationTools

(* Forbidden names are never in the tool table: with it, the property is   *)
(* inductive.                                                              *)
TouchInvariant ==
    /\ registered \cap ForbiddenNames = {}
    /\ OnlyAuthorizedTouches

LEMMA StartHandlerIsLegitimate ==
    ASSUME BrokerTypeOK, registered \cap ForbiddenNames = {},
           NEW tool \in Names, NEW args \in Arguments, StartHandler(tool, args)
    PROVE  Legitimate(call')
<1>1. /\ tool \in registered
      /\ args.device \in DOMAIN Inventory
      /\ ArgumentsMatch(tool, args)
      /\ CapabilityOf[tool] \in Inventory[args.device]
      /\ Authorized(tool)
    BY DEF StartHandler, Refusal
<1>2. call' = [tool |-> tool, device |-> args.device, destination |-> args.destination]
      /\ registered' = registered
    BY DEF StartHandler
<1>3. QED
    BY <1>1, <1>2 DEF Legitimate, ToolsForDevice, ArgumentsMatch

(* No driver is reached past the inventory, capability, policy and         *)
(* argument checks, for every inventory, policy and tool table             *)
(* (ToolBroker.invoke, register).                                          *)
THEOREM NoUnauthorizedTouch == BrokerSpec => []OnlyAuthorizedTouches
<1>1. BrokerInit => TouchInvariant
    BY DEF BrokerInit, TouchInvariant, OnlyAuthorizedTouches
<1>2. BrokerTypeOK /\ TouchInvariant /\ [BrokerNext]_brokerVars => TouchInvariant'
  <2> SUFFICES ASSUME BrokerTypeOK, TouchInvariant, [BrokerNext]_brokerVars
               PROVE  TouchInvariant'
      OBVIOUS
  <2>1. \A i \in DOMAIN touched : Legitimate(touched[i])
      BY DEF TouchInvariant, OnlyAuthorizedTouches, Legitimate
  <2>2. ASSUME registered \subseteq registered', touched' = touched,
               registered' \cap ForbiddenNames = {}
        PROVE  TouchInvariant'
      BY <2>1, <2>2 DEF TouchInvariant, OnlyAuthorizedTouches, Legitimate, ToolsForDevice
  <2>3. CASE UNCHANGED brokerVars
      BY <2>2, <2>3 DEF brokerVars, TouchInvariant
  <2>4. ASSUME NEW tool \in Names, Register(tool)
        PROVE  TouchInvariant'
      BY <2>2, <2>4 DEF Register, TouchInvariant
  <2>5. ASSUME NEW tool \in Names, NEW args \in Arguments, Deny(tool, args)
        PROVE  TouchInvariant'
      BY <2>2, <2>5 DEF Deny, TouchInvariant
  <2>6. ASSUME NEW tool \in Names, NEW args \in Arguments, StartHandler(tool, args)
        PROVE  TouchInvariant'
      <3>1. Legitimate(call')
          BY <2>6, StartHandlerIsLegitimate DEF TouchInvariant
      <3>2. registered' = registered /\ touched' = Append(touched, call')
          BY <2>6 DEF StartHandler
      <3>3. touched \in Seq(Calls) /\ call' \in Calls
          BY <2>6, StartHandlerTypes, BrokerAssumption DEF BrokerTypeOK, StartHandler, Calls,
             Refusal, Arguments
      <3>4. \A i \in DOMAIN touched' : Legitimate(touched'[i])
        <4>1. DOMAIN touched = 1..Len(touched) /\ Len(touched) \in Nat
            BY <3>3, LenProperties
        <4>2. /\ DOMAIN touched' = 1..(Len(touched) + 1)
              /\ touched'[Len(touched) + 1] = call'
              /\ \A i \in 1..Len(touched) : touched'[i] = touched[i]
            BY <3>2, <3>3, <4>1, AppendProperties, LenProperties
        <4>3. \A i \in DOMAIN touched' : i \in 1..Len(touched) \/ i = Len(touched) + 1
            BY <4>1, <4>2
        <4>4. QED
            BY <2>1, <3>1, <4>1, <4>2, <4>3
      <3>5. QED
          BY <3>2, <3>4 DEF TouchInvariant, OnlyAuthorizedTouches, Legitimate, ToolsForDevice
  <2>7. CASE HandlerEnds
      BY <2>2, <2>7 DEF HandlerEnds, HandlerReturns, HandlerRaises, TouchInvariant
  <2>8. CASE HandlerCancelled
      BY <2>2, <2>8 DEF HandlerCancelled, TouchInvariant
  <2>9. QED
      BY <2>3, <2>4, <2>5, <2>6, <2>7, <2>8 DEF BrokerNext
<1>3. TouchInvariant => OnlyAuthorizedTouches
    BY DEF TouchInvariant
<1>4. QED
    BY <1>1, <1>2, <1>3, BrokerTypeCorrect, PTL DEF BrokerSpec

-----------------------------------------------------------------------------
(* Counting the events and the replies: what one more of them does to the  *)
(* places where a kind of element stands.                                  *)
Places(seq, kind) == {i \in DOMAIN seq : seq[i] \in kind}

LEMMA PlacesFinite ==
    ASSUME NEW S, NEW seq \in Seq(S), NEW kind
    PROVE  /\ Places(seq, kind) \subseteq 1..Len(seq)
           /\ IsFiniteSet(Places(seq, kind))
           /\ Cardinality(Places(seq, kind)) \in Nat
<1>1. DOMAIN seq = 1..Len(seq) /\ Len(seq) \in Nat
    BY LenProperties
<1>2. Places(seq, kind) \in SUBSET (1..Len(seq))
    BY <1>1 DEF Places
<1>3. IsFiniteSet(1..Len(seq))
  <2>1. 1 \in Int /\ Len(seq) \in Int
      BY <1>1
  <2>2. QED
      BY <2>1, FS_Interval, Zenon
<1>4. IsFiniteSet(Places(seq, kind))
    BY <1>2, <1>3, FS_Subset
<1>5. QED
    BY <1>2, <1>4, FS_CardinalityType

LEMMA OneMorePlace ==
    ASSUME NEW S, NEW seq \in Seq(S), NEW kind, NEW e \in S
    PROVE  /\ Places(Append(seq, e), kind) =
                 IF e \in kind THEN Places(seq, kind) \cup {Len(seq) + 1} ELSE Places(seq, kind)
           /\ Cardinality(Places(Append(seq, e), kind)) =
                 IF e \in kind THEN Cardinality(Places(seq, kind)) + 1
                               ELSE Cardinality(Places(seq, kind))
<1>1. DOMAIN seq = 1..Len(seq) /\ Len(seq) \in Nat
    BY LenProperties
<1>2. /\ Append(seq, e) \in Seq(S)
      /\ Len(Append(seq, e)) = Len(seq) + 1
      /\ \A i \in 1..Len(seq) : Append(seq, e)[i] = seq[i]
      /\ Append(seq, e)[Len(seq) + 1] = e
    BY AppendProperties
<1>3. DOMAIN Append(seq, e) = 1..(Len(seq) + 1)
    BY <1>2, LenProperties
<1>4. 1..(Len(seq) + 1) = (1..Len(seq)) \cup {Len(seq) + 1}
    BY <1>1
<1>5. Places(Append(seq, e), kind) =
         IF e \in kind THEN Places(seq, kind) \cup {Len(seq) + 1} ELSE Places(seq, kind)
    BY <1>1, <1>2, <1>3, <1>4 DEF Places
<1>6. Len(seq) + 1 \notin Places(seq, kind)
    BY <1>1, PlacesFinite
<1>7. IsFiniteSet(Places(seq, kind)) /\ Cardinality(Places(seq, kind)) \in Nat
    BY PlacesFinite
<1>8. Cardinality(Places(seq, kind) \cup {Len(seq) + 1}) = Cardinality(Places(seq, kind)) + 1
    BY <1>6, <1>7, FS_AddElement
<1>9. QED
    BY <1>5, <1>8

(* The sets the properties count are places of a kind.                     *)
LEMMA CountedPlaces ==
    ASSUME BrokerTypeOK
    PROVE  /\ Recorded = Places(replies, {r \in Replies : r.recorded})
           /\ \A outcome : EndedWith(outcome) =
                  Places(replies, {r \in Replies : r.outcome = outcome})
           /\ Executions = Places(audit, {e \in AuditEvents : e.result # "denied"})
<1>1. /\ \A i \in DOMAIN replies : replies[i] \in Replies
      /\ \A i \in DOMAIN audit : audit[i] \in AuditEvents
    BY ElementOfSeq, LenProperties DEF BrokerTypeOK
<1>2. QED
    BY <1>1 DEF Recorded, EndedWith, Executions, Places

LEMMA CountsAreNumbers ==
    ASSUME BrokerTypeOK
    PROVE  /\ Recorded \subseteq 1..Len(replies)
           /\ IsFiniteSet(Recorded)
           /\ Cardinality(Recorded) \in Nat
           /\ \A outcome : Cardinality(EndedWith(outcome)) \in Nat
           /\ Cardinality(Executions) \in Nat
           /\ Len(replies) \in Nat /\ Len(audit) \in Nat /\ Len(touched) \in Nat
<1>1. replies \in Seq(Replies) /\ audit \in Seq(AuditEvents) /\ touched \in Seq(Calls)
    BY DEF BrokerTypeOK
<1>2. /\ Places(replies, {r \in Replies : r.recorded}) \subseteq 1..Len(replies)
      /\ IsFiniteSet(Places(replies, {r \in Replies : r.recorded}))
      /\ Cardinality(Places(replies, {r \in Replies : r.recorded})) \in Nat
    BY <1>1, PlacesFinite
<1>3. \A outcome :
         Cardinality(Places(replies, {r \in Replies : r.outcome = outcome})) \in Nat
    BY <1>1, PlacesFinite
<1>4. Cardinality(Places(audit, {e \in AuditEvents : e.result # "denied"})) \in Nat
    BY <1>1, PlacesFinite
<1>5. Len(replies) \in Nat /\ Len(audit) \in Nat /\ Len(touched) \in Nat
    BY <1>1, LenProperties
<1>6. QED
    BY <1>2, <1>3, <1>4, <1>5, CountedPlaces

LEMMA OneMoreReply ==
    ASSUME BrokerTypeOK, BrokerTypeOK', NEW reply \in Replies, replies' = Append(replies, reply)
    PROVE  /\ Recorded' = IF reply.recorded THEN Recorded \cup {Len(replies) + 1} ELSE Recorded
           /\ Cardinality(Recorded') =
                 IF reply.recorded THEN Cardinality(Recorded) + 1 ELSE Cardinality(Recorded)
           /\ \A outcome : Cardinality(EndedWith(outcome)') =
                 IF reply.outcome = outcome THEN Cardinality(EndedWith(outcome)) + 1
                                            ELSE Cardinality(EndedWith(outcome))
<1>1. replies \in Seq(Replies)
    BY DEF BrokerTypeOK
<1>2. /\ Recorded = Places(replies, {r \in Replies : r.recorded})
      /\ \A outcome : EndedWith(outcome) =
             Places(replies, {r \in Replies : r.outcome = outcome})
    BY CountedPlaces
<1>3. /\ Recorded' = Places(replies', {r \in Replies : r.recorded})
      /\ \A outcome : EndedWith(outcome)' =
             Places(replies', {r \in Replies : r.outcome = outcome})
  <2>1. \A i \in DOMAIN replies' : replies'[i] \in Replies
      BY ElementOfSeq, LenProperties DEF BrokerTypeOK
  <2>2. QED
      BY <2>1 DEF Recorded, EndedWith, Places
<1>4. reply \in {r \in Replies : r.recorded} <=> reply.recorded
    OBVIOUS
<1>5. \A outcome : reply \in {r \in Replies : r.outcome = outcome} <=> reply.outcome = outcome
    OBVIOUS
<1>6. /\ Recorded' = IF reply.recorded THEN Recorded \cup {Len(replies) + 1} ELSE Recorded
      /\ Cardinality(Recorded') =
            IF reply.recorded THEN Cardinality(Recorded) + 1 ELSE Cardinality(Recorded)
  <2> DEFINE kind == {r \in Replies : r.recorded}
  <2>1. /\ Recorded = Places(replies, kind) /\ Recorded' = Places(Append(replies, reply), kind)
        /\ reply \in kind <=> reply.recorded
      BY <1>2, <1>3, <1>4
  <2> HIDE DEF kind
  <2>2. QED
      BY <1>1, <2>1, OneMorePlace
<1>7. ASSUME NEW outcome
      PROVE  Cardinality(EndedWith(outcome)') =
                IF reply.outcome = outcome THEN Cardinality(EndedWith(outcome)) + 1
                                           ELSE Cardinality(EndedWith(outcome))
  <2> DEFINE kind == {r \in Replies : r.outcome = outcome}
  <2>1. /\ EndedWith(outcome) = Places(replies, kind)
        /\ EndedWith(outcome)' = Places(Append(replies, reply), kind)
        /\ reply \in kind <=> reply.outcome = outcome
      BY <1>2, <1>3, <1>5
  <2> HIDE DEF kind
  <2>2. QED
      BY <1>1, <2>1, OneMorePlace
<1>8. QED
    BY <1>6, <1>7

LEMMA OneMoreEvent ==
    ASSUME BrokerTypeOK, BrokerTypeOK', NEW event \in AuditEvents, audit' = Append(audit, event)
    PROVE  Cardinality(Executions') =
              IF event.result # "denied" THEN Cardinality(Executions) + 1
                                         ELSE Cardinality(Executions)
<1>1. audit \in Seq(AuditEvents)
    BY DEF BrokerTypeOK
<1>2. Executions = Places(audit, {e \in AuditEvents : e.result # "denied"})
    BY CountedPlaces
<1>3. Executions' = Places(audit', {e \in AuditEvents : e.result # "denied"})
  <2>1. \A i \in DOMAIN audit' : audit'[i] \in AuditEvents
      BY ElementOfSeq, LenProperties DEF BrokerTypeOK
  <2>2. QED
      BY <2>1 DEF Executions, Places
<1>4. QED
    BY <1>1, <1>2, <1>3, OneMorePlace

-----------------------------------------------------------------------------
(* The end of an invocation, as both properties see it: the event and the  *)
(* reply it adds, or the reply alone when the sink raises.                 *)
LEMMA SettleAdds ==
    ASSUME BrokerTypeOK,
           NEW tool \in Names, NEW device \in Devices \cup {NoDevice},
           NEW result \in AuditResults, NEW outcome \in BrokerErrors \cup {"success"},
           Settle(tool, device, result, outcome)
    PROVE  \/ /\ [tool |-> tool, device |-> device, result |-> result] \in AuditEvents
              /\ [tool |-> tool, outcome |-> outcome, recorded |-> TRUE] \in Replies
              /\ audit' = Append(audit, [tool |-> tool, device |-> device, result |-> result])
              /\ replies' = Append(replies,
                                   [tool |-> tool, outcome |-> outcome, recorded |-> TRUE])
           \/ /\ [tool |-> tool, outcome |-> SinkError, recorded |-> FALSE] \in Replies
              /\ audit' = audit
              /\ replies' = Append(replies,
                                   [tool |-> tool, outcome |-> SinkError, recorded |-> FALSE])
BY DEF Settle, AuditEvents, Replies, BrokerErrors

(* How a result category tells an outcome.                                 *)
Tells(event, reply) ==
    /\ event.tool = reply.tool
    /\ event.result = "success" <=> reply.outcome = "success"
    /\ event.result = "denied" <=> reply.outcome \in RefusalErrors

(* The event of an invocation stands in the trail, and later invocations   *)
(* do not move it.                                                         *)
LEMMA EventStands ==
    ASSUME BrokerTypeOK, NEW i \in Recorded
    PROVE  EventOf(i) \in 1..Cardinality(Recorded)
<1> DEFINE upto == {k \in Recorded : k <= i}
<1>1. i \in upto /\ upto \in SUBSET Recorded
    BY CountsAreNumbers
<1>2. IsFiniteSet(Recorded) /\ Cardinality(Recorded) \in Nat
    BY CountsAreNumbers
<1>3. IsFiniteSet(upto) /\ Cardinality(upto) <= Cardinality(Recorded)
    BY <1>1, <1>2, FS_Subset
<1>4. Cardinality(upto) \in Nat /\ Cardinality(upto) # 0
    BY <1>1, <1>3, FS_CardinalityType, FS_EmptySet
<1>5. EventOf(i) = Cardinality(upto)
    BY DEF EventOf
<1> HIDE DEF upto
<1>6. QED
    BY <1>2, <1>3, <1>4, <1>5

LEMMA EventStays ==
    ASSUME BrokerTypeOK, NEW i \in Recorded,
           Recorded' = Recorded \/ Recorded' = Recorded \cup {Len(replies) + 1}
    PROVE  EventOf(i)' = EventOf(i)
<1>1. i \in 1..Len(replies) /\ Len(replies) \in Nat
    BY CountsAreNumbers
<1>2. {k \in Recorded' : k <= i} = {k \in Recorded : k <= i}
    BY <1>1
<1>3. QED
    BY <1>2 DEF EventOf

LEMMA LastEventIsLast ==
    ASSUME BrokerTypeOK, NEW last, last = Len(replies) + 1,
           Recorded' = Recorded \cup {last}
    PROVE  EventOf(last)' = Cardinality(Recorded')
<1>1. Recorded \subseteq 1..Len(replies) /\ Len(replies) \in Nat
    BY CountsAreNumbers
<1>2. {k \in Recorded' : k <= last} = Recorded'
  <2>1. \A k \in Recorded' : k <= last
      BY <1>1
  <2>2. QED
      BY <2>1
<1>3. QED
    BY <1>2 DEF EventOf

(* A reply whose event was lost leaves the trail as it was.                *)
LEMMA LostReplyTells ==
    ASSUME BrokerTypeOK, BrokerTypeOK', AuditTellsWhatHappened,
           NEW reply \in Replies, ~reply.recorded,
           audit' = audit, replies' = Append(replies, reply)
    PROVE  AuditTellsWhatHappened'
<1>1. Recorded' = Recorded /\ Cardinality(Recorded') = Cardinality(Recorded)
    BY OneMoreReply
<1>2. \A i \in Recorded : EventOf(i)' = EventOf(i)
    BY <1>1, EventStays
<1>3. /\ Recorded \subseteq 1..Len(replies)
      /\ replies \in Seq(Replies)
    BY CountsAreNumbers DEF BrokerTypeOK
<1>4. \A i \in 1..Len(replies) : replies'[i] = replies[i]
    BY <1>3, AppendProperties
<1>5. Len(audit') = Cardinality(Recorded')
    BY <1>1 DEF AuditTellsWhatHappened
<1>6. ASSUME NEW i \in Recorded'
      PROVE  Tells(audit'[EventOf(i)'], replies'[i])
    BY <1>1, <1>2, <1>3, <1>4, <1>6 DEF AuditTellsWhatHappened, Tells
<1>7. QED
    BY <1>5, <1>6 DEF AuditTellsWhatHappened, Tells

(* An invocation that ends keeps the trail telling, whatever its result    *)
(* category and outcome, as long as the two agree.                         *)
LEMMA SettleTells ==
    ASSUME BrokerTypeOK, BrokerTypeOK', AuditTellsWhatHappened,
           NEW tool \in Names, NEW device \in Devices \cup {NoDevice},
           NEW result \in AuditResults, NEW outcome \in BrokerErrors \cup {"success"},
           result = "success" <=> outcome = "success",
           result = "denied" <=> outcome \in RefusalErrors,
           Settle(tool, device, result, outcome)
    PROVE  AuditTellsWhatHappened'
<1>1. /\ Len(audit) = Cardinality(Recorded)
      /\ \A i \in Recorded : Tells(audit[EventOf(i)], replies[i])
    BY DEF AuditTellsWhatHappened, Tells
<1>2. /\ Recorded \subseteq 1..Len(replies) /\ Len(replies) \in Nat /\ Len(audit) \in Nat
      /\ audit \in Seq(AuditEvents) /\ replies \in Seq(Replies)
    BY CountsAreNumbers DEF BrokerTypeOK
<1> SUFFICES /\ Len(audit') = Cardinality(Recorded')
             /\ \A i \in Recorded' : Tells(audit'[EventOf(i)'], replies'[i])
    BY DEF AuditTellsWhatHappened, Tells
<1>3. ASSUME NEW event \in AuditEvents, NEW reply \in Replies,
             event = [tool |-> tool, device |-> device, result |-> result],
             reply = [tool |-> tool, outcome |-> outcome, recorded |-> TRUE],
             audit' = Append(audit, event), replies' = Append(replies, reply)
      PROVE  /\ Len(audit') = Cardinality(Recorded')
             /\ \A i \in Recorded' : Tells(audit'[EventOf(i)'], replies'[i])
  <2>1. /\ Recorded' = Recorded \cup {Len(replies) + 1}
        /\ Cardinality(Recorded') = Cardinality(Recorded) + 1
      BY <1>3, OneMoreReply
  <2>2. /\ Len(audit') = Len(audit) + 1
        /\ \A i \in 1..Len(audit) : audit'[i] = audit[i]
        /\ audit'[Len(audit) + 1] = event
      BY <1>2, <1>3, AppendProperties
  <2>3. /\ \A i \in 1..Len(replies) : replies'[i] = replies[i]
        /\ replies'[Len(replies) + 1] = reply
      BY <1>2, <1>3, AppendProperties
  <2>4. ASSUME NEW i \in Recorded
        PROVE  Tells(audit'[EventOf(i)'], replies'[i])
      <3>1. EventOf(i)' = EventOf(i) /\ EventOf(i) \in 1..Len(audit)
          BY <1>1, <2>1, EventStays, EventStands
      <3>2. QED
          BY <1>1, <1>2, <2>2, <2>3, <3>1
  <2>5. Tells(event, reply)
      BY <1>3 DEF Tells
  <2>6. ASSUME NEW last, last = Len(replies) + 1
        PROVE  Tells(audit'[EventOf(last)'], replies'[last])
      <3>1. EventOf(last)' = Len(audit) + 1
          BY <1>1, <2>1, <2>6, LastEventIsLast
      <3>2. QED
          BY <2>2, <2>3, <2>5, <2>6, <3>1
  <2>7. QED
      BY <1>1, <2>1, <2>2, <2>4, <2>6
<1>4. ASSUME NEW reply \in Replies, ~reply.recorded,
             audit' = audit, replies' = Append(replies, reply)
      PROVE  /\ Len(audit') = Cardinality(Recorded')
             /\ \A i \in Recorded' : Tells(audit'[EventOf(i)'], replies'[i])
  <2>1. AuditTellsWhatHappened'
      BY <1>4, LostReplyTells
  <2>2. QED
      BY <2>1 DEF AuditTellsWhatHappened, Tells
<1>5. QED
    BY <1>3, <1>4, SettleAdds

-----------------------------------------------------------------------------
(* The audit trail tells, one event each and in order, how the invocations *)
(* ended whose event the sink accepted, however refusals, failures,        *)
(* successes, lost events and cancellations follow each other              *)
(* (ToolBroker.invoke, _record).                                           *)
THEOREM AuditTrailTells == BrokerSpec => []AuditTellsWhatHappened
<1>1. BrokerInit => AuditTellsWhatHappened
  <2> SUFFICES ASSUME BrokerInit PROVE AuditTellsWhatHappened
      OBVIOUS
  <2>1. Recorded = {} /\ Len(audit) = 0
      BY DEF BrokerInit, Recorded
  <2>2. QED
      BY <2>1, FS_EmptySet DEF AuditTellsWhatHappened
<1>2. /\ BrokerTypeOK /\ BrokerTypeOK' /\ AuditTellsWhatHappened /\ [BrokerNext]_brokerVars
      => AuditTellsWhatHappened'
  <2> SUFFICES ASSUME BrokerTypeOK, BrokerTypeOK', AuditTellsWhatHappened,
                      [BrokerNext]_brokerVars
               PROVE  AuditTellsWhatHappened'
      OBVIOUS
  <2>1. ASSUME UNCHANGED <<audit, replies>>
        PROVE  AuditTellsWhatHappened'
      BY <2>1 DEF AuditTellsWhatHappened, Recorded, EventOf
  <2>2. CASE UNCHANGED brokerVars
      BY <2>1, <2>2 DEF brokerVars
  <2>3. ASSUME NEW tool \in Names, Register(tool)
        PROVE  AuditTellsWhatHappened'
      BY <2>1, <2>3 DEF Register
  <2>4. ASSUME NEW tool \in Names, NEW args \in Arguments, Deny(tool, args)
        PROVE  AuditTellsWhatHappened'
      <3>1. /\ args.device \in Devices \cup {NoDevice}
            /\ Refusal(tool, args) \in RefusalErrors
            /\ Settle(tool, args.device, "denied", Refusal(tool, args))
          BY <2>4 DEF Deny, Refusal, RefusalErrors, Arguments
      <3>2. /\ Refusal(tool, args) \in BrokerErrors \cup {"success"}
            /\ Refusal(tool, args) # "success"
            /\ "denied" \in AuditResults
          BY <3>1 DEF BrokerErrors, RefusalErrors, AuditResults
      <3>3. QED
          BY <3>1, <3>2, SettleTells
  <2>5. ASSUME NEW tool \in Names, NEW args \in Arguments, StartHandler(tool, args)
        PROVE  AuditTellsWhatHappened'
      BY <2>1, <2>5 DEF StartHandler
  <2>6. CASE HandlerReturns
      <3>1. /\ call.tool \in Names /\ call.device \in Devices \cup {NoDevice}
            /\ Settle(call.tool, call.device, "success", "success")
          BY <2>6, CallFields DEF HandlerReturns
      <3>2. "success" \in AuditResults /\ "success" \notin RefusalErrors
          BY DEF AuditResults, RefusalErrors
      <3>3. QED
          BY <3>1, <3>2, SettleTells
  <2>7. ASSUME NEW error \in HandlerErrors \cup {"InvalidToolResultError"},
               HandlerRaises(error)
        PROVE  AuditTellsWhatHappened'
      <3>1. /\ call.tool \in Names /\ call.device \in Devices \cup {NoDevice}
            /\ Settle(call.tool, call.device, "failure", error)
          BY <2>7, CallFields DEF HandlerRaises
      <3>2. /\ "failure" \in AuditResults
            /\ error \in BrokerErrors /\ error # "success"
            /\ error \notin RefusalErrors
          BY BrokerAssumption DEF AuditResults, BrokerErrors, RefusalErrors
      <3>3. QED
          BY <3>1, <3>2, SettleTells
  <2>8. CASE HandlerCancelled
      <3>1. [tool |-> call.tool, outcome |-> "CancelledError", recorded |-> FALSE] \in Replies
          BY <2>8, CallFields DEF HandlerCancelled, Replies, BrokerErrors
      <3>2. QED
          BY <2>8, <3>1, LostReplyTells DEF HandlerCancelled
  <2>9. QED
      BY <2>2, <2>3, <2>4, <2>5, <2>6, <2>7, <2>8 DEF BrokerNext, HandlerEnds
<1>3. QED
    BY <1>1, <1>2, BrokerTypeCorrect, PTL DEF BrokerSpec

-----------------------------------------------------------------------------
(* What an end of an invocation does to the counts.                        *)
LEMMA SettleCounts ==
    ASSUME BrokerTypeOK, BrokerTypeOK',
           NEW tool \in Names, NEW device \in Devices \cup {NoDevice},
           NEW result \in AuditResults, NEW outcome \in BrokerErrors \cup {"success"},
           outcome \notin {SinkError, "CancelledError"},
           Settle(tool, device, result, outcome)
    PROVE  /\ Cardinality(EndedWith("CancelledError")') = Cardinality(EndedWith("CancelledError"))
           /\ \/ /\ Cardinality(EndedWith(SinkError)') = Cardinality(EndedWith(SinkError))
                 /\ Cardinality(Executions') = IF result # "denied" THEN Cardinality(Executions) + 1
                                                              ELSE Cardinality(Executions)
              \/ /\ Cardinality(EndedWith(SinkError)') = Cardinality(EndedWith(SinkError)) + 1
                 /\ Cardinality(Executions') = Cardinality(Executions)
<1>1. ASSUME NEW event \in AuditEvents, NEW reply \in Replies,
             event.result = result, reply.outcome = outcome,
             audit' = Append(audit, event), replies' = Append(replies, reply)
      PROVE  /\ Cardinality(EndedWith("CancelledError")') = Cardinality(EndedWith("CancelledError"))
             /\ Cardinality(EndedWith(SinkError)') = Cardinality(EndedWith(SinkError))
             /\ Cardinality(Executions') = IF result # "denied" THEN Cardinality(Executions) + 1
                                                          ELSE Cardinality(Executions)
    BY <1>1, OneMoreReply, OneMoreEvent
<1>2. ASSUME NEW reply \in Replies, reply.outcome = SinkError,
             audit' = audit, replies' = Append(replies, reply)
      PROVE  /\ Cardinality(EndedWith("CancelledError")') = Cardinality(EndedWith("CancelledError"))
             /\ Cardinality(EndedWith(SinkError)') = Cardinality(EndedWith(SinkError)) + 1
             /\ Cardinality(Executions') = Cardinality(Executions)
  <2>1. SinkError # "CancelledError"
      BY DEF SinkError
  <2>2. QED
      BY <1>2, <2>1, OneMoreReply DEF Executions
<1>3. QED
    BY <1>1, <1>2, SettleAdds

(* Handlers running now: at most one per Broker task.                      *)
InFlight == IF call = NoCall THEN 0 ELSE 1

(* HandlersAccounted, as the two bounds it states.                         *)
Bounds ==
    /\ Cardinality(Executions) + Cardinality(EndedWith("CancelledError")) + InFlight
          <= Len(touched)
    /\ Len(touched) <=
          Cardinality(Executions) + Cardinality(EndedWith("CancelledError")) + InFlight
            + Cardinality(EndedWith(SinkError))

LEMMA Accounting == BrokerTypeOK => (HandlersAccounted <=> Bounds)
<1> SUFFICES ASSUME BrokerTypeOK PROVE HandlersAccounted <=> Bounds
    OBVIOUS
<1>1. /\ Cardinality(Executions) \in Nat /\ Cardinality(EndedWith("CancelledError")) \in Nat
      /\ Cardinality(EndedWith(SinkError)) \in Nat /\ Len(touched) \in Nat
    BY CountsAreNumbers
<1>2. QED
    BY <1>1 DEF HandlersAccounted, Bounds, InFlight

LEMMA AccountingNext == BrokerTypeOK' => (HandlersAccounted' <=> Bounds')
    BY Accounting, PTL

(* Every handler started is in flight, told in the trail as a success or a *)
(* failure, cancelled, or lost by the sink; and the trail tells of no      *)
(* execution that did not happen (ToolBroker.invoke).                      *)
THEOREM NoHandlerUnaccounted == BrokerSpec => []HandlersAccounted
<1>1. BrokerInit => HandlersAccounted
  <2> SUFFICES ASSUME BrokerInit PROVE HandlersAccounted
      OBVIOUS
  <2>1. /\ Executions = {} /\ EndedWith("CancelledError") = {} /\ EndedWith(SinkError) = {}
        /\ Len(touched) = 0 /\ call = NoCall
      BY DEF BrokerInit, Executions, EndedWith
  <2>2. QED
      BY <2>1, FS_EmptySet DEF HandlersAccounted
<1>2. /\ BrokerTypeOK /\ BrokerTypeOK' /\ HandlersAccounted /\ [BrokerNext]_brokerVars
      => HandlersAccounted'
  <2> SUFFICES ASSUME BrokerTypeOK, BrokerTypeOK', HandlersAccounted, [BrokerNext]_brokerVars
               PROVE  HandlersAccounted'
      OBVIOUS
  <2> DEFINE executed == Cardinality(Executions)
             cancelled == Cardinality(EndedWith("CancelledError"))
             lost == Cardinality(EndedWith(SinkError))
             started == Len(touched)
             running == InFlight
  <2>1. /\ executed \in Nat /\ cancelled \in Nat /\ lost \in Nat /\ started \in Nat
        /\ running \in {0, 1}
        /\ executed + cancelled + running <= started
        /\ started <= executed + cancelled + running + lost
      BY CountsAreNumbers, Accounting DEF InFlight, Bounds
  <2>2. HandlersAccounted' <=>
           /\ executed' + cancelled' + running' <= started'
           /\ started' <= executed' + cancelled' + running' + lost'
      BY AccountingNext DEF Bounds
  <2>3. ASSUME UNCHANGED <<call, touched, audit, replies>>
        PROVE  HandlersAccounted'
      BY <2>3 DEF HandlersAccounted, Executions, EndedWith
  <2>4. ASSUME NEW tool \in Names, NEW args \in Arguments, Deny(tool, args)
        PROVE  HandlersAccounted'
      <3>1. /\ args.device \in Devices \cup {NoDevice}
            /\ Refusal(tool, args) \in RefusalErrors
            /\ Settle(tool, args.device, "denied", Refusal(tool, args))
          BY <2>4 DEF Deny, Refusal, RefusalErrors, Arguments
      <3>2. /\ Refusal(tool, args) \in BrokerErrors \cup {"success"}
            /\ Refusal(tool, args) \notin {SinkError, "CancelledError"}
            /\ "denied" \in AuditResults
          BY <3>1 DEF BrokerErrors, RefusalErrors, AuditResults, SinkError
      <3>3. /\ cancelled' = cancelled /\ executed' = executed
            /\ lost' = lost \/ lost' = lost + 1
          BY <3>1, <3>2, SettleCounts
      <3>4. started' = started /\ running' = running
          BY <2>4 DEF Deny, InFlight
      <3> HIDE DEF executed, cancelled, lost, started, running
      <3>5. QED
          BY <2>1, <2>2, <3>3, <3>4
  <2>5. ASSUME NEW tool \in Names, NEW args \in Arguments, StartHandler(tool, args)
        PROVE  HandlersAccounted'
      <3>1. /\ call = NoCall /\ call' # NoCall
            /\ touched' = Append(touched, call')
            /\ touched \in Seq(Calls) /\ call' \in Calls
          BY <2>5, BrokerAssumption DEF StartHandler, Refusal, Arguments, Calls, BrokerTypeOK
      <3>2. started' = started + 1
          BY <3>1, AppendProperties
      <3>3. running = 0 /\ running' = 1
          BY <3>1 DEF InFlight
      <3>4. executed' = executed /\ cancelled' = cancelled /\ lost' = lost
          BY <2>5 DEF StartHandler, Executions, EndedWith
      <3> HIDE DEF executed, cancelled, lost, started, running
      <3>5. QED
          BY <2>1, <2>2, <3>2, <3>3, <3>4
  <2>6. ASSUME HandlerEnds
        PROVE  HandlersAccounted'
      <3>1. /\ call # NoCall /\ call' = NoCall /\ touched' = touched
            /\ call.tool \in Names /\ call.device \in Devices \cup {NoDevice}
          BY <2>6, CallFields DEF HandlerEnds, HandlerReturns, HandlerRaises
      <3>2. \E result \in AuditResults \ {"denied"},
               outcome \in (BrokerErrors \cup {"success"}) \ {SinkError, "CancelledError"} :
                   Settle(call.tool, call.device, result, outcome)
        <4>1. CASE HandlerReturns
            <5>1. /\ "success" \in AuditResults \ {"denied"}
                  /\ "success" \in (BrokerErrors \cup {"success"}) \ {SinkError, "CancelledError"}
                BY DEF AuditResults, SinkError
            <5>2. QED
                BY <4>1, <5>1 DEF HandlerReturns
        <4>2. ASSUME NEW error \in HandlerErrors \cup {"InvalidToolResultError"},
                     HandlerRaises(error)
              PROVE  \E result \in AuditResults \ {"denied"},
                        outcome \in (BrokerErrors \cup {"success"})
                                       \ {SinkError, "CancelledError"} :
                            Settle(call.tool, call.device, result, outcome)
            <5>1. /\ "failure" \in AuditResults \ {"denied"}
                  /\ error \in (BrokerErrors \cup {"success"}) \ {SinkError, "CancelledError"}
                BY BrokerAssumption DEF AuditResults, BrokerErrors, SinkError
            <5>2. QED
                BY <4>2, <5>1 DEF HandlerRaises
        <4>3. QED
            BY <2>6, <4>1, <4>2 DEF HandlerEnds
      <3>3. /\ cancelled' = cancelled
            /\ \/ lost' = lost /\ executed' = executed + 1
               \/ lost' = lost + 1 /\ executed' = executed
          BY <3>1, <3>2, SettleCounts
      <3>4. running = 1 /\ running' = 0 /\ started' = started
          BY <3>1 DEF InFlight
      <3> HIDE DEF executed, cancelled, lost, started, running
      <3>5. QED
          BY <2>1, <2>2, <3>3, <3>4
  <2>7. ASSUME HandlerCancelled
        PROVE  HandlersAccounted'
      <3> DEFINE reply == [tool |-> call.tool, outcome |-> "CancelledError", recorded |-> FALSE]
      <3>1. /\ reply \in Replies /\ replies' = Append(replies, reply)
            /\ call # NoCall /\ call' = NoCall /\ touched' = touched /\ audit' = audit
          BY <2>7, CallFields DEF HandlerCancelled, Replies, BrokerErrors
      <3>2. reply.outcome = "CancelledError" /\ reply.outcome # SinkError
          BY DEF SinkError
      <3>3. cancelled' = cancelled + 1 /\ lost' = lost
          BY <3>1, <3>2, OneMoreReply
      <3>4. running = 1 /\ running' = 0 /\ started' = started /\ executed' = executed
          BY <3>1 DEF InFlight, Executions
      <3> HIDE DEF executed, cancelled, lost, started, running
      <3>5. QED
          BY <2>1, <2>2, <3>3, <3>4
  <2>8. QED
      BY <2>3, <2>4, <2>5, <2>6, <2>7 DEF BrokerNext, Register, brokerVars
<1>3. QED
    BY <1>1, <1>2, BrokerTypeCorrect, PTL DEF BrokerSpec

-----------------------------------------------------------------------------
(* The collector's steps.                                                  *)

LEMMA SettleOutcome ==
    ASSUME BrokerTypeOK, NEW tool, NEW device, NEW result, NEW outcome,
           Settle(tool, device, result, outcome),
           replies' \in Seq(Replies)
    PROVE  Outcome \in {outcome, SinkError}
<1>1. PICK reply : /\ replies' = Append(replies, reply)
                   /\ reply.outcome \in {outcome, SinkError}
    BY DEF Settle
<1>2. replies \in Seq(Replies)
    BY DEF BrokerTypeOK
<1>3. Len(replies) \in Nat /\ Len(replies') = Len(replies) + 1
    BY <1>1, <1>2
<1>4. replies'[Len(replies')] = reply
    BY <1>1, <1>2, <1>3
<1>5. QED
    BY <1>1, <1>4 DEF Outcome

LEMMA RefusalOutcome ==
    ASSUME BrokerTypeOK, NEW tool \in Names, NEW args \in Arguments, Deny(tool, args)
    PROVE  Outcome \in BrokerErrors
<1>1. replies' \in Seq(Replies)
    BY DenyTypes DEF BrokerTypeOK
<1>2. Outcome \in {Refusal(tool, args), SinkError}
    BY <1>1, SettleOutcome DEF Deny
<1>3. Refusal(tool, args) \in BrokerErrors
    BY DEF Deny, Refusal, BrokerErrors, RefusalErrors
<1>4. QED
    BY <1>2, <1>3 DEF BrokerErrors

(* How a handler ends: with "success" it was recorded as such, at the end  *)
(* of the trail.                                                           *)
LEMMA HandlerOutcome ==
    ASSUME BrokerTypeOK, HandlerEnds
    PROVE  /\ Outcome \in BrokerErrors \cup {"success"}
           /\ Outcome = "success" =>
                audit' = Append(audit, [tool |-> call.tool, device |-> call.device,
                                        result |-> "success"])
           /\ audit' = audit \/ \E event \in AuditEvents : audit' = Append(audit, event)
<1>1. replies' \in Seq(Replies) /\ audit' \in Seq(AuditEvents)
    BY HandlerEndsTypes DEF BrokerTypeOK
<1>2. call # NoCall /\ call.tool \in Names /\ call.device \in Devices \cup {NoDevice}
    BY CallFields DEF HandlerEnds, HandlerReturns, HandlerRaises
<1>3. "success" \in AuditResults /\ "failure" \in AuditResults
    BY DEF AuditResults
<1>4. "success" # SinkError
    BY BrokerAssumption DEF BrokerErrors
<1>5. CASE HandlerReturns
  <2>1. Settle(call.tool, call.device, "success", "success")
      BY <1>5 DEF HandlerReturns
  <2>2. Outcome \in {"success", SinkError}
      BY <1>1, <2>1, SettleOutcome
  <2>3. [tool |-> call.tool, device |-> call.device, result |-> "success"] \in AuditEvents
      BY <1>2, <1>3 DEF AuditEvents
  <2>4. CASE audit' = audit
      <3>1. PICK reply : replies' = Append(replies, reply) /\ reply.outcome = SinkError
          <4>1. CASE replies' = Append(replies, [tool |-> call.tool, outcome |-> SinkError,
                                                 recorded |-> FALSE])
              BY <4>1
          <4>2. CASE audit' = Append(audit, [tool |-> call.tool, device |-> call.device,
                                             result |-> "success"])
              BY <2>3, <2>4, <4>2, AppendProperties DEF BrokerTypeOK
          <4>3. QED
              BY <2>1, <4>1, <4>2 DEF Settle
      <3>2. replies \in Seq(Replies) /\ Len(replies) \in Nat
          BY DEF BrokerTypeOK
      <3>3. Len(replies') = Len(replies) + 1 /\ replies'[Len(replies')] = reply
          BY <3>1, <3>2
      <3>4. Outcome = SinkError
          BY <3>1, <3>3 DEF Outcome
      <3>5. QED
          BY <1>4, <2>2, <2>4, <3>4 DEF BrokerErrors
  <2>5. CASE audit' = Append(audit, [tool |-> call.tool, device |-> call.device,
                                     result |-> "success"])
      BY <2>2, <2>3, <2>5 DEF BrokerErrors
  <2>6. QED
      BY <2>1, <2>4, <2>5 DEF Settle
<1>6. ASSUME NEW error \in HandlerErrors \cup {"InvalidToolResultError"}, HandlerRaises(error)
      PROVE  /\ Outcome \in BrokerErrors
             /\ audit' = audit \/ \E event \in AuditEvents : audit' = Append(audit, event)
  <2>1. Settle(call.tool, call.device, "failure", error)
      BY <1>6 DEF HandlerRaises
  <2>2. Outcome \in {error, SinkError}
      BY <1>1, <2>1, SettleOutcome
  <2>3. [tool |-> call.tool, device |-> call.device, result |-> "failure"] \in AuditEvents
      BY <1>2, <1>3 DEF AuditEvents
  <2>4. QED
      BY <2>1, <2>2, <2>3 DEF Settle, BrokerErrors
<1>7. "success" \notin BrokerErrors
    BY BrokerAssumption
<1>8. QED
    BY <1>5, <1>6, <1>7 DEF HandlerEnds

LEMMA BrokerArgumentsType ==
    ASSUME NEW device \in Devices, NEW destination \in Destinations \cup {NoDestination}
    PROVE  BrokerArguments(device, destination) \in Arguments
BY DEF BrokerArguments, Arguments

LEMMA CollectRefusedTypes ==
    ASSUME CollectorTypeOK, NEW operation \in Names, NEW device \in Devices,
           NEW destination \in Destinations \cup {NoDestination},
           CollectRefused(operation, device, destination)
    PROVE  CollectorTypeOK'
<1>1. /\ BrokerArguments(device, destination) \in Arguments
      /\ Deny(operation, BrokerArguments(device, destination))
      /\ BrokerTypeOK
    BY BrokerArgumentsType DEF CollectRefused, CollectorTypeOK
<1>2. BrokerTypeOK' /\ Outcome \in BrokerErrors
    BY <1>1, DenyTypes, RefusalOutcome
<1>3. observation' \in Observations
    BY <1>2 DEF CollectRefused, Failure, Observations, CollectionErrors
<1>4. QED
    BY <1>2, <1>3 DEF CollectRefused, CollectorTypeOK

LEMMA CollectStartsTypes ==
    ASSUME CollectorTypeOK, NEW operation \in Names, NEW device \in Devices,
           NEW destination \in Destinations \cup {NoDestination},
           CollectStarts(operation, device, destination)
    PROVE  CollectorTypeOK'
<1>1. /\ BrokerArguments(device, destination) \in Arguments
      /\ StartHandler(operation, BrokerArguments(device, destination))
      /\ BrokerTypeOK
    BY BrokerArgumentsType DEF CollectStarts, CollectorTypeOK
<1>2. BrokerTypeOK'
    BY <1>1, StartHandlerTypes
<1>3. QED
    BY <1>2 DEF CollectStarts, CollectorTypeOK

(* What the end of a collection does: a failure leaves the store alone, a  *)
(* success appends the operation whose SUCCESS event was just recorded.    *)
LEMMA CollectEndsEffect ==
    ASSUME CollectorTypeOK, CollectEnds
    PROVE  /\ CollectorTypeOK'
           /\ call # NoCall /\ call' = NoCall /\ UNCHANGED <<registered, touched>>
           /\ \/ /\ store' = store
                 /\ observation'.evidence = 0
                 /\ observation'.error \in CollectionErrors
                 /\ audit' = audit \/ \E event \in AuditEvents : audit' = Append(audit, event)
              \/ /\ store' = Append(store, call.tool)
                 /\ observation' = Stored(Len(store) + 1)
                 /\ audit' = Append(audit, [tool |-> call.tool, device |-> call.device,
                                            result |-> "success"])
<1>1. HandlerEnds /\ BrokerTypeOK
    BY DEF CollectEnds, BrokerFails, ConversionFails, StorageFails, EvidenceStored,
           CollectorTypeOK
<1>2. BrokerTypeOK'
    BY <1>1, HandlerEndsTypes
<1>3. /\ call # NoCall /\ call' = NoCall /\ UNCHANGED <<registered, touched>>
      /\ call.tool \in Names
    BY <1>1, CallFields DEF HandlerEnds, HandlerReturns, HandlerRaises
<1>4. /\ Outcome \in BrokerErrors \cup {"success"}
      /\ audit' = audit \/ \E event \in AuditEvents : audit' = Append(audit, event)
    BY <1>1, HandlerOutcome
<1>5. ASSUME store' = store,
             NEW error \in CollectionErrors, observation' = Failure(error)
      PROVE  CollectorTypeOK' /\ observation'.evidence = 0 /\ observation'.error \in CollectionErrors
    BY <1>2, <1>5 DEF CollectorTypeOK, Failure, Observations
<1>6. CASE BrokerFails
  <2>1. Outcome \in CollectionErrors
      BY <1>4, <1>6 DEF BrokerFails, CollectionErrors
  <2>2. QED
      BY <1>3, <1>4, <1>5, <1>6, <2>1 DEF BrokerFails
<1>7. CASE ConversionFails
  <2>1. /\ "InvalidEvidenceResultError" \in CollectionErrors
        /\ "UnsupportedEvidenceOperationError" \in CollectionErrors
      BY DEF CollectionErrors, FactoryErrors
  <2>2. QED
      BY <1>3, <1>4, <1>5, <1>7, <2>1 DEF ConversionFails
<1>8. CASE StorageFails
  <2>1. "UnsafeEvidenceError" \in CollectionErrors
      BY DEF CollectionErrors, StoreErrors
  <2>2. QED
      BY <1>3, <1>4, <1>5, <1>8, <2>1 DEF StorageFails
<1>9. CASE EvidenceStored
  <2>1. audit' = Append(audit, [tool |-> call.tool, device |-> call.device,
                                result |-> "success"])
      BY <1>1, <1>9, HandlerOutcome DEF EvidenceStored
  <2>2. store \in Seq(Names) /\ store' = Append(store, call.tool)
      BY <1>9 DEF EvidenceStored, CollectorTypeOK
  <2>3. store' \in Seq(Names) /\ Len(store') = Len(store) + 1 /\ Len(store) \in Nat
      BY <1>3, <2>2, AppendProperties, LenProperties
  <2>4. observation' = Stored(Len(store) + 1)
      BY <1>9, <2>3 DEF EvidenceStored
  <2>5. observation' \in Observations
      BY <2>3, <2>4 DEF Stored, Observations
  <2>6. QED
      BY <1>2, <1>3, <2>1, <2>2, <2>3, <2>4, <2>5 DEF CollectorTypeOK
<1>10. QED
    BY <1>6, <1>7, <1>8, <1>9 DEF CollectEnds

LEMMA CollectCancelledTypes ==
    ASSUME CollectorTypeOK, CollectCancelled
    PROVE  CollectorTypeOK'
BY HandlerCancelledTypes DEF CollectCancelled, CollectorTypeOK

LEMMA CollectorUnchangedTypes ==
    ASSUME CollectorTypeOK, UNCHANGED collectorVars
    PROVE  CollectorTypeOK'
BY DEF CollectorTypeOK, BrokerTypeOK, collectorVars, brokerVars

-----------------------------------------------------------------------------
(* Type correctness.  A batch in progress has a call left, a call is known *)
(* while it is collected, and so is the workflow's operation: with these   *)
(* the types are inductive.                                                *)

TypeInvariant ==
    /\ TypeOK
    /\ pc = "executing" => remaining > 0
    /\ pc = "collecting" => current \in ToolCalls
    /\ pc = "workflowCollecting" => position <= Len(WorkflowTools)

LEMMA EvidenceIdsType ==
    ASSUME CollectorTypeOK
    PROVE  EvidenceIds = 1..Len(store) /\ Len(store) \in Nat /\ EvidenceIds \subseteq Nat
BY LenProperties DEF CollectorTypeOK, EvidenceIds

LEMMA FinishTypes ==
    ASSUME NEW state \in {"failed", "limit_reached"}, NEW category \in Categories,
           Finish(state, category)
    PROVE  report' \in Reports /\ pc' = "done"
BY DEF Finish, NoReport, Reports, Categories, Strengths

LEMMA AnswerTypes ==
    ASSUME TypeOK, NEW c \in ToolCalls, NEW status \in Statuses, NEW evidence \in Nat,
           AnswerWith(c, status, evidence)
    PROVE  results' \in Seq([id : CallIds, tool : Names, status : Statuses, evidence : Nat])
<1>1. [id |-> c.id, tool |-> c.tool, status |-> status, evidence |-> evidence]
        \in [id : CallIds, tool : Names, status : Statuses, evidence : Nat]
    BY DEF ToolCalls
<1>2. QED
    BY <1>1, AppendProperties DEF AnswerWith, TypeOK

LEMMA StatusOfTypes ==
    ASSUME NEW o
    PROVE  StatusOf(o) \in Statuses
<1>1. CASE o.error = "none"
    BY <1>1 DEF StatusOf, Statuses
<1>2. CASE o.error = "AuthorizationDeniedError"
    BY <1>2 DEF StatusOf, Statuses
<1>3. CASE o.error = "UnsupportedDeviceCapabilityError"
    BY <1>3 DEF StatusOf, Statuses
<1>4. CASE o.error \in {"FortiOSConnectionError", "TimeoutError"}
    BY <1>4 DEF StatusOf, Statuses
<1>5. CASE o.error \in {"InvalidToolArgumentsError", "ValueError"}
    BY <1>5 DEF StatusOf, Statuses
<1>6. CASE o.error \notin {"none", "AuthorizationDeniedError", "UnsupportedDeviceCapabilityError",
                          "FortiOSConnectionError", "TimeoutError",
                          "InvalidToolArgumentsError", "ValueError"}
    BY <1>6 DEF StatusOf, Statuses
<1>7. QED
    BY <1>1, <1>2, <1>3, <1>4, <1>5, <1>6

LEMMA ReportedBaseline ==
    ASSUME CollectorTypeOK, WorkflowReports
    PROVE  baseline' \in Baselines
<1>1. PICK diagnosis \in Conclusions \cup {NoDiagnosis}, confirmed \in SUBSET EvidenceIds :
        baseline' = [ids |-> EvidenceIds, diagnosis |-> diagnosis, confirmed |-> confirmed,
                     touches |-> Len(touched)]
    BY DEF WorkflowReports
<1>2. diagnosis \in Diagnoses \cup {NoDiagnosis}
    BY EvidenceIdsType, AgentAssumption DEF Conclusions, Diagnoses, Strengths
<1>3. Len(touched) \in Nat
    BY LenProperties DEF CollectorTypeOK, BrokerTypeOK
<1>4. QED
    BY <1>1, <1>2, <1>3, EvidenceIdsType DEF Baselines

LEMMA WorkflowTypes ==
    ASSUME TypeInvariant, Workflow
    PROVE  TypeInvariant'
<1>1. CollectorTypeOK /\ Device \in Devices /\ NoDestination \in Destinations \cup {NoDestination}
    BY AgentAssumption, BrokerAssumption DEF TypeInvariant, TypeOK
<1>2. ASSUME pc = "workflow", position <= Len(WorkflowTools)
      PROVE  WorkflowTools[position] \in Names /\ position + 1 \in 1..(Len(WorkflowTools) + 1)
  <2>1. WorkflowTools \in Seq(Names) /\ position \in 1..Len(WorkflowTools)
      BY <1>2, AgentAssumption, LenProperties DEF TypeInvariant, TypeOK
  <2>2. QED
      BY <2>1, ElementOfSeq, LenProperties
<1>3. CASE WorkflowRefused
  <2>1. CollectorTypeOK'
      BY <1>1, <1>2, <1>3, CollectRefusedTypes DEF WorkflowRefused
  <2>2. QED
      BY <1>2, <1>3, <2>1 DEF WorkflowRefused, TypeInvariant, TypeOK, runVars
<1>4. CASE WorkflowStarts
  <2>1. CollectorTypeOK'
      BY <1>1, <1>2, <1>4, CollectStartsTypes DEF WorkflowStarts
  <2>2. QED
      BY <1>4, <2>1 DEF WorkflowStarts, TypeInvariant, TypeOK, runVars, baselineVars, Programs
<1>5. CASE WorkflowEnds
  <2>1. CollectorTypeOK'
      BY <1>1, <1>5, CollectEndsEffect DEF WorkflowEnds
  <2>2. Len(WorkflowTools) \in Nat /\ position + 1 \in 1..(Len(WorkflowTools) + 1)
      BY <1>5, AgentAssumption, LenProperties DEF WorkflowEnds, TypeInvariant, TypeOK
  <2>3. QED
      BY <1>5, <2>1, <2>2 DEF WorkflowEnds, TypeInvariant, TypeOK, runVars, Programs
<1>6. CASE WorkflowReports
  <2>1. CollectorTypeOK'
      BY <1>1, <1>6, CollectorUnchangedTypes DEF WorkflowReports
  <2>2. baseline' \in Baselines
      BY <1>1, <1>6, ReportedBaseline
  <2>3. QED
      BY <1>6, <2>1, <2>2 DEF WorkflowReports, TypeInvariant, TypeOK, runVars, Programs
<1>7. QED
    BY <1>3, <1>4, <1>5, <1>6 DEF Workflow

LEMMA RuntimeStepTypes ==
    ASSUME TypeInvariant, RuntimeStep
    PROVE  TypeInvariant'
<1>1. CollectorTypeOK
    BY DEF TypeInvariant, TypeOK
<1>2. "invalid_response" \in Categories /\ "step_limit_reached" \in Categories
    BY DEF Categories
<1>3. CASE StartRun
    BY <1>1, <1>3, CollectorUnchangedTypes
    DEF StartRun, TypeInvariant, TypeOK, runVars, baselineVars, Programs
<1>4. CASE RejectMismatch
  <2>1. CollectorTypeOK' /\ report' \in Reports /\ pc' = "done"
      BY <1>1, <1>2, <1>4, CollectorUnchangedTypes, FinishTypes DEF RejectMismatch, Failed
  <2>2. QED
      BY <1>4, <2>1 DEF RejectMismatch, TypeInvariant, TypeOK, runVars, baselineVars, Programs
<1>5. CASE BuildContext
  <2>1. CollectorTypeOK' /\ snapshot' \subseteq Nat
      BY <1>1, <1>5, CollectorUnchangedTypes, EvidenceIdsType DEF BuildContext
  <2>2. QED
      BY <1>5, <2>1 DEF BuildContext, TypeInvariant, TypeOK, baselineVars, Programs
<1>6. CASE ContextUnsafe
    BY <1>1, <1>6, CollectorUnchangedTypes
    DEF ContextUnsafe, TypeInvariant, TypeOK, runVars, baselineVars, Programs
<1>7. CASE StepLimitReached
  <2>1. CollectorTypeOK' /\ report' \in Reports /\ pc' = "done"
      BY <1>1, <1>2, <1>7, CollectorUnchangedTypes, FinishTypes DEF StepLimitReached, Limited
  <2>2. QED
      BY <1>7, <2>1 DEF StepLimitReached, TypeInvariant, TypeOK, runVars, baselineVars, Programs
<1>8. CASE ToolAnswers
  <2>1. /\ CollectorTypeOK'
        /\ observation'.evidence \in Nat
      BY <1>1, <1>8, CollectEndsEffect DEF ToolAnswers, CollectorTypeOK, Observations
  <2>2. StatusOf(observation') \in Statuses
      BY StatusOfTypes
  <2>3. current \in ToolCalls
      BY <1>8 DEF ToolAnswers, TypeInvariant
  <2>4. results' \in Seq([id : CallIds, tool : Names, status : Statuses, evidence : Nat])
      BY <1>8, <2>1, <2>2, <2>3, AnswerTypes DEF ToolAnswers, TypeInvariant
  <2>5. QED
      BY <1>8, <2>1, <2>4
      DEF ToolAnswers, NextCall, TypeInvariant, TypeOK, baselineVars, Programs
<1>9. QED
    BY <1>3, <1>4, <1>5, <1>6, <1>7, <1>8 DEF RuntimeStep

LEMMA ProviderStepTypes ==
    ASSUME TypeInvariant, ProviderStep
    PROVE  TypeInvariant'
<1>1. CollectorTypeOK
    BY DEF TypeInvariant, TypeOK
<1>2. {"provider_failed", "invalid_response", "invalid_evidence_reference",
       "deterministic_contradiction", "tool_limit_reached"} \subseteq Categories
    BY DEF Categories
<1>3. CASE ProviderFails
  <2>1. CollectorTypeOK' /\ report' \in Reports /\ pc' = "done"
      BY <1>1, <1>2, <1>3, CollectorUnchangedTypes, FinishTypes DEF ProviderFails, Failed
  <2>2. QED
      BY <1>3, <2>1 DEF ProviderFails, TypeInvariant, TypeOK, runVars, baselineVars, Programs
<1>4. ASSUME NEW a \in Assessments, ProviderConcludes(a)
      PROVE  TypeInvariant'
  <2>1. a.strength \in Strengths /\ a.cited \subseteq Nat
      BY <1>1, EvidenceIdsType, AgentAssumption DEF Assessments
  <2>2. report' \in Reports /\ pc' = "done"
    <3>1. CASE Failed("invalid_evidence_reference") \/ Failed("deterministic_contradiction")
        BY <1>2, <3>1, FinishTypes DEF Failed
    <3>2. CASE /\ pc' = "done"
               /\ report' = [state |-> "completed", category |-> "none",
                             strength |-> a.strength, cited |-> a.cited]
        BY <2>1, <3>2 DEF Reports, Categories
    <3>3. QED
        BY <1>4, <3>1, <3>2 DEF ProviderConcludes
  <2>3. CollectorTypeOK'
      BY <1>1, <1>4, CollectorUnchangedTypes DEF ProviderConcludes
  <2>4. QED
      BY <1>4, <2>2, <2>3
      DEF ProviderConcludes, TypeInvariant, TypeOK, runVars, baselineVars, Programs
<1>5. ASSUME NEW n \in 1..(MaxToolCallsPerStep + 1), ProviderCallsTools(n)
      PROVE  TypeInvariant'
  <2>1. n \in Nat /\ n > 0
      BY AgentAssumption
  <2>2. CollectorTypeOK'
      BY <1>1, <1>5, CollectorUnchangedTypes DEF ProviderCallsTools
  <2>3. CASE Limited("tool_limit_reached") /\ UNCHANGED remaining
    <3>1. report' \in Reports /\ pc' = "done"
        BY <1>2, <2>3, FinishTypes DEF Limited
    <3>2. QED
        BY <1>5, <2>2, <2>3, <3>1
        DEF ProviderCallsTools, TypeInvariant, TypeOK, baselineVars, Programs
  <2>4. CASE pc' = "executing" /\ remaining' = n /\ UNCHANGED report
      BY <1>5, <2>1, <2>2, <2>4
      DEF ProviderCallsTools, TypeInvariant, TypeOK, baselineVars, Programs
  <2>5. QED
      BY <1>5, <2>3, <2>4 DEF ProviderCallsTools
<1>6. QED
    BY <1>3, <1>4, <1>5 DEF ProviderStep

LEMMA CallStepTypes ==
    ASSUME TypeInvariant, CallStep
    PROVE  TypeInvariant'
<1>1. CollectorTypeOK /\ TypeOK
    BY DEF TypeInvariant, TypeOK
<1>2. {"tool_denied", "invalid_arguments", "repeated_tool_call"} \subseteq Statuses
    BY DEF Statuses
<1>3. {"invalid_response", "repeated_tool_call"} \subseteq Categories
    BY DEF Categories
<1>4. SUFFICES ASSUME NEW c \in ToolCalls,
                      \/ RejectDuplicateId(c) \/ RejectRepeatedCall(c)
                      \/ RefuseTool(c) \/ RefuseArguments(c) \/ ExecuteTool(c)
               PROVE  TypeInvariant'
    BY DEF CallStep
<1>5. c.id \in CallIds /\ Signature(c) \in Names \X (Destinations \cup {NoDestination})
    BY DEF ToolCalls, Signature
<1>6. CASE RejectDuplicateId(c)
  <2>1. CollectorTypeOK' /\ report' \in Reports /\ pc' = "done"
      BY <1>1, <1>3, <1>6, CollectorUnchangedTypes, FinishTypes DEF RejectDuplicateId, Failed
  <2>2. QED
      BY <1>6, <2>1 DEF RejectDuplicateId, TypeInvariant, TypeOK, runVars, baselineVars, Programs
<1>7. CASE RejectRepeatedCall(c)
  <2>1. CollectorTypeOK' /\ report' \in Reports /\ pc' = "done"
      BY <1>1, <1>3, <1>7, CollectorUnchangedTypes, FinishTypes DEF RejectRepeatedCall, Failed
  <2>2. results' \in Seq([id : CallIds, tool : Names, status : Statuses, evidence : Nat])
      BY <1>1, <1>2, <1>7, AnswerTypes DEF RejectRepeatedCall
  <2>3. QED
      BY <1>5, <1>7, <2>1, <2>2
      DEF RejectRepeatedCall, TypeInvariant, TypeOK, baselineVars, Programs
<1>8. AcceptCall(c) =>
        /\ callIds' \subseteq CallIds
        /\ signatures' \subseteq Names \X (Destinations \cup {NoDestination})
        /\ total' \in Nat /\ remaining' \in Nat /\ remaining' = remaining - 1
        /\ UNCHANGED <<baselineVars, step, snapshot, report>>
    BY <1>1, <1>5 DEF AcceptCall, TypeInvariant, TypeOK
<1>9. ASSUME NEW status \in {"tool_denied", "invalid_arguments"},
             AcceptCall(c), AnswerWith(c, status, 0), NextCall(remaining - 1),
             UNCHANGED <<collectorVars, current>>
      PROVE  TypeInvariant'
  <2>1. CollectorTypeOK'
      BY <1>1, <1>9, CollectorUnchangedTypes
  <2>2. results' \in Seq([id : CallIds, tool : Names, status : Statuses, evidence : Nat])
      BY <1>1, <1>2, <1>9, AnswerTypes
  <2>3. /\ callIds' \subseteq CallIds
        /\ signatures' \subseteq Names \X (Destinations \cup {NoDestination})
        /\ total' \in Nat /\ remaining' \in Nat /\ remaining' = remaining - 1
        /\ UNCHANGED <<baselineVars, step, snapshot, report>>
      BY <1>8, <1>9
  <2>4. NextCall(remaining - 1) /\ UNCHANGED current
      BY <1>9
  <2>5. UNCHANGED <<position, incomplete, baseline, step, snapshot, report, current>>
      BY <2>3, <2>4 DEF baselineVars
  <2>6. remaining \in Nat
      BY <1>1 DEF TypeOK
  <2>7. pc' \in {"context", "executing"} /\ (pc' = "executing" => remaining' > 0)
      BY <2>3, <2>4, <2>6 DEF NextCall
  <2>8. TypeOK'
      BY <1>1, <2>1, <2>2, <2>3, <2>5, <2>7 DEF TypeOK, Programs
  <2>9. QED
      BY <2>7, <2>8 DEF TypeInvariant
<1>10. CASE RefuseTool(c)
    BY <1>9, <1>10 DEF RefuseTool
<1>11. CASE RefuseArguments(c)
    BY <1>9, <1>11 DEF RefuseArguments
<1>12. CASE ExecuteTool(c)
  <2>1. /\ c.tool \in Names /\ c.destination \in Destinations \cup {NoDestination}
        /\ Device \in Devices
      BY AgentAssumption, BrokerAssumption DEF ToolCalls
  <2>2. CollectorTypeOK'
      BY <1>1, <1>12, <2>1, CollectStartsTypes DEF ExecuteTool
  <2>3. QED
      BY <1>8, <1>12, <2>2 DEF ExecuteTool, TypeInvariant, TypeOK, baselineVars, Programs
<1>13. QED
    BY <1>4, <1>6, <1>7, <1>10, <1>11, <1>12

LEMMA InterruptedTypes ==
    ASSUME TypeInvariant, Interrupted
    PROVE  TypeInvariant'
<1>1. CollectorTypeOK
    BY DEF TypeInvariant, TypeOK
<1>2. CollectorTypeOK'
    BY <1>1, CollectorUnchangedTypes, CollectCancelledTypes DEF Interrupted
<1>3. QED
    BY <1>2 DEF Interrupted, TypeInvariant, TypeOK, runVars, baselineVars, Programs

LEMMA TypeInvariantHolds == Spec => []TypeInvariant
<1>1. Init => TypeInvariant
  <2> SUFFICES ASSUME Init PROVE TypeInvariant
      OBVIOUS
  <2>1. BrokerTypeOK
      BY DEF Init, BrokerTypeOK
  <2>2. Len(WorkflowTools) \in Nat
      BY AgentAssumption, LenProperties
  <2>3. NoReport \in Reports
      BY DEF NoReport, Reports, Categories, Strengths
  <2>4. CollectorTypeOK
      BY <2>1 DEF Init, CollectorTypeOK, Observations
  <2>5. /\ position \in 1..(Len(WorkflowTools) + 1)
        /\ results \in Seq([id : CallIds, tool : Names, status : Statuses, evidence : Nat])
      BY <2>2 DEF Init
  <2>6. TypeOK
      BY <2>3, <2>4, <2>5 DEF Init, TypeOK, Programs
  <2>7. QED
      BY <2>6 DEF Init, TypeInvariant
<1>2. TypeInvariant /\ [Next]_vars => TypeInvariant'
  <2> SUFFICES ASSUME TypeInvariant, [Next]_vars
               PROVE  TypeInvariant'
      OBVIOUS
  <2>1. CASE UNCHANGED vars
    <3>1. CollectorTypeOK'
        BY <2>1, CollectorUnchangedTypes DEF vars, TypeInvariant, TypeOK
    <3>2. QED
        BY <2>1, <3>1 DEF vars, TypeInvariant, TypeOK, baselineVars, runVars
  <2>2. QED
      BY <2>1, WorkflowTypes, RuntimeStepTypes, ProviderStepTypes, CallStepTypes,
         InterruptedTypes DEF Next
<1>3. QED
    BY <1>1, <1>2, PTL DEF Spec

(* Every state of an investigation is well typed, whatever the tools, the  *)
(* provider and the limits (EvidenceCollector.collect, AgentRuntime.run).  *)
THEOREM TypeCorrect == Spec => []TypeOK
<1>1. TypeInvariant => TypeOK
    BY DEF TypeInvariant
<1>2. QED
    BY <1>1, TypeInvariantHolds, PTL

-----------------------------------------------------------------------------
(* Sequences that only grow at their end.                                  *)

Prolongs(t, s) == Len(s) <= Len(t) /\ \A k \in DOMAIN s : k \in DOMAIN t /\ t[k] = s[k]

LEMMA AppendProlongs ==
    ASSUME NEW S, NEW s \in Seq(S), NEW e \in S
    PROVE  /\ Prolongs(Append(s, e), s)
           /\ DOMAIN Append(s, e) = (DOMAIN s) \cup {Len(s) + 1}
           /\ Append(s, e)[Len(s) + 1] = e
           /\ Len(s) + 1 \notin DOMAIN s
BY AppendProperties, LenProperties DEF Prolongs

LEMMA ProlongsItself ==
    ASSUME NEW S, NEW s \in Seq(S)
    PROVE  Prolongs(s, s)
BY LenProperties DEF Prolongs

-----------------------------------------------------------------------------
(* The inductive invariant.  Its parts need one another: an envelope is    *)
(* collected because the call in flight was touched on this device, and a  *)
(* citation is grounded because a snapshot only lists envelopes.           *)

InFlightTouched ==
    call # NoCall =>
        call.device = Device /\ \E k \in DOMAIN touched : touched[k] = call

EvidenceInvariant ==
    /\ EvidenceIsAudited
    /\ InFlightTouched
    /\ snapshot \subseteq EvidenceIds
    /\ report.cited \subseteq snapshot

LEMMA CollectedStays ==
    ASSUME NEW id \in EvidenceIds, Collected(id),
           Prolongs(store', store), Prolongs(audit', audit), Prolongs(touched', touched)
    PROVE  Collected(id)'
BY DEF Collected, Prolongs, EvidenceIds

(* A step that leaves the store alone while the histories only grow.       *)
LEMMA GrowthPreserves ==
    ASSUME EvidenceIsAudited, CollectorTypeOK, store' = store,
           Prolongs(audit', audit), Prolongs(touched', touched)
    PROVE  EvidenceIsAudited'
<1>1. Prolongs(store', store)
    BY ProlongsItself DEF CollectorTypeOK
<1>2. \A id \in EvidenceIds : Collected(id)'
    BY <1>1, CollectedStays DEF EvidenceIsAudited
<1>3. QED
    BY <1>2 DEF EvidenceIsAudited, EvidenceIds

LEMMA CollectRefusedEvidence ==
    ASSUME CollectorTypeOK, EvidenceIsAudited, InFlightTouched,
           NEW operation \in Names, NEW destination \in Destinations \cup {NoDestination},
           CollectRefused(operation, Device, destination)
    PROVE  EvidenceIsAudited' /\ InFlightTouched' /\ UNCHANGED store
<1> DEFINE args == BrokerArguments(Device, destination)
<1>1. Device \in Devices /\ args \in Arguments
    BY AgentAssumption, BrokerAssumption, BrokerArgumentsType
<1>2. Deny(operation, args) /\ store' = store
    BY DEF CollectRefused
<1>3. /\ audit \in Seq(AuditEvents) /\ touched \in Seq(Calls)
      /\ touched' = touched /\ call' = call
    BY <1>2 DEF CollectorTypeOK, BrokerTypeOK, Deny
<1>4. Prolongs(audit', audit)
  <2> DEFINE event == [tool |-> operation, device |-> args.device, result |-> "denied"]
  <2>1. event \in AuditEvents
      BY <1>1 DEF AuditEvents, AuditResults, Arguments
  <2>2. audit' = audit \/ audit' = Append(audit, event)
      BY <1>2 DEF Deny, Settle
  <2>3. Prolongs(Append(audit, event), audit) /\ Prolongs(audit, audit)
      BY <1>3, <2>1, AppendProlongs, ProlongsItself
  <2>4. QED
      BY <2>2, <2>3
<1>5. Prolongs(touched', touched)
    BY <1>3, ProlongsItself
<1>6. QED
    BY <1>2, <1>3, <1>4, <1>5, GrowthPreserves DEF InFlightTouched

LEMMA CollectStartsEvidence ==
    ASSUME CollectorTypeOK, EvidenceIsAudited,
           NEW operation \in Names, NEW destination \in Destinations \cup {NoDestination},
           CollectStarts(operation, Device, destination)
    PROVE  EvidenceIsAudited' /\ InFlightTouched' /\ UNCHANGED store
<1> DEFINE args == BrokerArguments(Device, destination)
<1>1. Device \in DOMAIN Inventory
    BY AgentAssumption
<1>2. /\ call' = [tool |-> operation, device |-> Device, destination |-> destination]
      /\ touched' = Append(touched, call')
      /\ UNCHANGED <<audit, store>>
    BY DEF CollectStarts, StartHandler, BrokerArguments
<1>3. audit \in Seq(AuditEvents) /\ touched \in Seq(Calls) /\ call' \in Calls
    BY <1>1, <1>2 DEF CollectorTypeOK, BrokerTypeOK, Calls
<1>4. /\ Prolongs(touched', touched)
      /\ Len(touched) + 1 \in DOMAIN touched'
      /\ touched'[Len(touched) + 1] = call'
    BY <1>2, <1>3, AppendProlongs
<1>5. Prolongs(audit', audit)
    BY <1>2, <1>3, ProlongsItself
<1>6. InFlightTouched'
    BY <1>2, <1>4 DEF InFlightTouched
<1>7. QED
    BY <1>2, <1>4, <1>5, <1>6, GrowthPreserves

LEMMA CollectEndsEvidence ==
    ASSUME CollectorTypeOK, EvidenceIsAudited, InFlightTouched, CollectEnds
    PROVE  /\ EvidenceIsAudited' /\ InFlightTouched'
           /\ \/ UNCHANGED EvidenceIds
              \/ EvidenceIds' = EvidenceIds \cup {Len(store) + 1}
           /\ EvidenceIds \subseteq EvidenceIds'
<1>1. call # NoCall /\ call' = NoCall /\ touched' = touched
    BY CollectEndsEffect
<1>2. /\ audit \in Seq(AuditEvents) /\ touched \in Seq(Calls) /\ store \in Seq(Names)
      /\ call \in Calls /\ call.tool \in Names /\ call.device \in Devices
    BY <1>1, CallFields DEF CollectorTypeOK, BrokerTypeOK
<1>3. Prolongs(touched', touched)
    BY <1>1, <1>2, ProlongsItself
<1>4. InFlightTouched'
    BY <1>1 DEF InFlightTouched
<1>5. CASE /\ store' = store
           /\ audit' = audit \/ \E event \in AuditEvents : audit' = Append(audit, event)
  <2>1. Prolongs(audit, audit)
      BY <1>2, ProlongsItself
  <2>2. ASSUME NEW event \in AuditEvents
        PROVE  Prolongs(Append(audit, event), audit)
      BY <1>2, AppendProlongs
  <2>3. Prolongs(audit', audit)
      BY <1>5, <2>1, <2>2
  <2>4. QED
      BY <1>3, <1>4, <1>5, <2>3, GrowthPreserves DEF EvidenceIds
<1>6. CASE /\ store' = Append(store, call.tool)
           /\ audit' = Append(audit, [tool |-> call.tool, device |-> call.device,
                                      result |-> "success"])
  <2> DEFINE event == [tool |-> call.tool, device |-> call.device, result |-> "success"]
  <2> PICK new : new = Len(store) + 1
      OBVIOUS
  <2>1. event \in AuditEvents
      BY <1>2 DEF AuditEvents, AuditResults
  <2>2. /\ Prolongs(audit', audit)
        /\ Len(audit) + 1 \in DOMAIN audit' /\ audit'[Len(audit) + 1] = event
      BY <1>2, <1>6, <2>1, AppendProlongs
  <2>3. /\ Prolongs(store', store)
        /\ DOMAIN store' = DOMAIN store \cup {new} /\ store'[new] = call.tool
      BY <1>2, <1>6, AppendProlongs
  <2>4. call.device = Device /\ \E k \in DOMAIN touched : touched[k] = call
      BY <1>1 DEF InFlightTouched
  <2>5. Collected(new)'
      BY <1>1, <2>2, <2>3, <2>4 DEF Collected, EvidenceIds
  <2>6. \A id \in EvidenceIds : Collected(id)'
      BY <1>3, <2>2, <2>3, CollectedStays DEF EvidenceIsAudited
  <2>7. QED
      BY <1>4, <2>3, <2>5, <2>6 DEF EvidenceIsAudited, EvidenceIds
<1>7. QED
    BY <1>5, <1>6, CollectEndsEffect

-----------------------------------------------------------------------------
(* Where a run stands, for the refinement: the deterministic conclusion is *)
(* fixed between the workflow and the run, and a report comes at the end.  *)

InWorkflow == pc \in {"workflow", "workflowCollecting"}

ProgressInvariant ==
    /\ InWorkflow => baseline = NoBaseline
    /\ pc \in Programs \ {"workflow", "workflowCollecting", "raised"} => baseline # NoBaseline
    /\ pc # "done" => report = NoReport
    /\ report.state # "completed" => report.cited = {}

IInv == TypeInvariant /\ EvidenceInvariant /\ ProgressInvariant

(* A step that leaves every observation, and what is said of it, alone.    *)
LEMMA QuietStep ==
    ASSUME EvidenceInvariant, UNCHANGED <<collectorVars, snapshot, report>>
    PROVE  EvidenceInvariant'
BY DEF EvidenceInvariant, EvidenceIsAudited, Collected, InFlightTouched, EvidenceIds,
       collectorVars, brokerVars

LEMMA QuietFailure ==
    ASSUME EvidenceInvariant, UNCHANGED <<collectorVars, snapshot>>,
           NEW state, NEW category, Finish(state, category)
    PROVE  EvidenceInvariant' /\ report'.cited = {} /\ report'.state = state
<1>1. report'.cited = {} /\ report'.state = state
    BY DEF Finish, NoReport
<1>2. QED
    BY <1>1 DEF EvidenceInvariant, EvidenceIsAudited, Collected, InFlightTouched, EvidenceIds,
       collectorVars, brokerVars

LEMMA WorkflowEvidence ==
    ASSUME IInv, Workflow
    PROVE  EvidenceInvariant' /\ ProgressInvariant'
<1>1. /\ CollectorTypeOK /\ EvidenceIsAudited /\ InFlightTouched
      /\ snapshot \subseteq EvidenceIds /\ report = NoReport
      /\ InWorkflow /\ baseline = NoBaseline
    BY DEF IInv, TypeInvariant, TypeOK, EvidenceInvariant, ProgressInvariant, InWorkflow,
           Workflow, WorkflowRefused, WorkflowStarts, WorkflowEnds, WorkflowReports
<1>2. ASSUME pc = "workflow", position <= Len(WorkflowTools)
      PROVE  WorkflowTools[position] \in Names
  <2>1. WorkflowTools \in Seq(Names) /\ position \in 1..Len(WorkflowTools)
      BY <1>2, AgentAssumption, LenProperties DEF IInv, TypeInvariant, TypeOK
  <2>2. QED
      BY <2>1, ElementOfSeq
<1>3. report.cited = {}
    BY <1>1 DEF NoReport
<1>4. CASE WorkflowRefused
  <2>1. EvidenceIsAudited' /\ InFlightTouched' /\ UNCHANGED store
      BY <1>1, <1>2, <1>4, CollectRefusedEvidence DEF WorkflowRefused
  <2>2. QED
      BY <1>1, <1>3, <1>4, <2>1
      DEF WorkflowRefused, runVars, EvidenceInvariant, ProgressInvariant, EvidenceIds, InWorkflow
<1>5. CASE WorkflowStarts
  <2>1. EvidenceIsAudited' /\ InFlightTouched' /\ UNCHANGED store
      BY <1>1, <1>2, <1>5, CollectStartsEvidence DEF WorkflowStarts
  <2>2. QED
      BY <1>1, <1>3, <1>5, <2>1
      DEF WorkflowStarts, runVars, baselineVars, EvidenceInvariant, ProgressInvariant,
          EvidenceIds, InWorkflow
<1>6. CASE WorkflowEnds
  <2>1. EvidenceIsAudited' /\ InFlightTouched' /\ EvidenceIds \subseteq EvidenceIds'
      BY <1>1, <1>6, CollectEndsEvidence DEF WorkflowEnds
  <2>2. QED
      BY <1>1, <1>3, <1>6, <2>1
      DEF WorkflowEnds, runVars, EvidenceInvariant, ProgressInvariant, InWorkflow
<1>7. CASE WorkflowReports
  <2>1. EvidenceInvariant'
      BY <1>7, QuietStep DEF WorkflowReports, runVars, IInv
  <2>2. baseline' # NoBaseline
      BY <1>1, <1>7, ReportedBaseline, AgentAssumption
  <2>3. QED
      BY <1>1, <1>3, <1>7, <2>1, <2>2 DEF WorkflowReports, ProgressInvariant, InWorkflow, NoReport
<1>8. QED
    BY <1>4, <1>5, <1>6, <1>7 DEF Workflow

LEMMA RuntimeStepEvidence ==
    ASSUME IInv, RuntimeStep
    PROVE  EvidenceInvariant' /\ ProgressInvariant'
<1>1. /\ CollectorTypeOK /\ EvidenceIsAudited /\ InFlightTouched /\ EvidenceInvariant
      /\ snapshot \subseteq EvidenceIds /\ report = NoReport
      /\ ~InWorkflow /\ pc # "raised" /\ baseline # NoBaseline
    BY DEF IInv, TypeInvariant, TypeOK, EvidenceInvariant, ProgressInvariant, InWorkflow, Programs,
           RuntimeStep, StartRun, RejectMismatch, BuildContext, ContextUnsafe,
           StepLimitReached, ToolAnswers
<1>2. report.cited = {}
    BY <1>1 DEF NoReport
<1>3. CASE StartRun \/ ContextUnsafe
  <2>1. EvidenceInvariant'
      BY <1>1, <1>3, QuietStep DEF StartRun, ContextUnsafe, runVars
  <2>2. QED
      BY <1>1, <1>2, <1>3, <2>1
      DEF StartRun, ContextUnsafe, ProgressInvariant, InWorkflow, baselineVars
<1>4. CASE RejectMismatch \/ StepLimitReached
  <2>1. PICK state, category : Finish(state, category)
      BY <1>4 DEF RejectMismatch, StepLimitReached, Failed, Limited
  <2>2. EvidenceInvariant' /\ report'.cited = {}
      BY <1>1, <1>4, <2>1, QuietFailure DEF RejectMismatch, StepLimitReached, runVars
  <2>3. QED
      BY <1>1, <1>4, <2>1, <2>2
      DEF RejectMismatch, StepLimitReached, Finish, ProgressInvariant, InWorkflow, baselineVars
<1>5. CASE BuildContext
  <2>1. EvidenceInvariant'
      BY <1>1, <1>2, <1>5
      DEF BuildContext, EvidenceInvariant, EvidenceIsAudited, Collected, InFlightTouched,
          EvidenceIds, collectorVars, brokerVars
  <2>2. QED
      BY <1>1, <1>2, <1>5, <2>1 DEF BuildContext, ProgressInvariant, InWorkflow, baselineVars
<1>6. CASE ToolAnswers
  <2>1. EvidenceIsAudited' /\ InFlightTouched' /\ EvidenceIds \subseteq EvidenceIds'
      BY <1>1, <1>6, CollectEndsEvidence DEF ToolAnswers
  <2>2. QED
      BY <1>1, <1>2, <1>6, <2>1
      DEF ToolAnswers, NextCall, EvidenceInvariant, ProgressInvariant, InWorkflow, baselineVars
<1>7. QED
    BY <1>3, <1>4, <1>5, <1>6 DEF RuntimeStep

(* An accepted assessment passed the two tests of _validate_final.         *)
LEMMA AcceptedAssessment ==
    ASSUME IInv, NEW a \in Assessments, ProviderConcludes(a), report'.state = "completed"
    PROVE  /\ report'.strength = a.strength /\ report'.cited = a.cited
           /\ ~CitesUnknownEvidence(a) /\ ~ContradictsBaseline(a)
<1>1. ASSUME NEW category, Failed(category)
      PROVE  FALSE
    BY <1>1 DEF Failed, Finish, NoReport
<1>2. QED
    BY <1>1 DEF ProviderConcludes

LEMMA ProviderStepEvidence ==
    ASSUME IInv, ProviderStep
    PROVE  EvidenceInvariant' /\ ProgressInvariant'
<1>1. /\ EvidenceInvariant
      /\ snapshot \subseteq EvidenceIds /\ report = NoReport
      /\ pc = "generating" /\ baseline # NoBaseline
    BY DEF IInv, EvidenceInvariant, ProgressInvariant, Programs,
           ProviderStep, ProviderFails, ProviderConcludes, ProviderCallsTools
<1>2. report.cited = {}
    BY <1>1 DEF NoReport
<1>3. ASSUME NEW state, NEW category, Finish(state, category),
             UNCHANGED <<collectorVars, snapshot, baseline>>
      PROVE  EvidenceInvariant' /\ ProgressInvariant'
  <2>1. EvidenceInvariant' /\ report'.cited = {}
      BY <1>1, <1>3, QuietFailure
  <2>2. QED
      BY <1>1, <1>3, <2>1 DEF Finish, ProgressInvariant, InWorkflow
<1>4. CASE ProviderFails
    BY <1>3, <1>4 DEF ProviderFails, Failed, runVars, baselineVars
<1>5. ASSUME NEW a \in Assessments, ProviderConcludes(a)
      PROVE  EvidenceInvariant' /\ ProgressInvariant'
  <2>1. UNCHANGED <<collectorVars, snapshot, baseline>>
      BY <1>5 DEF ProviderConcludes, runVars, baselineVars
  <2>2. CASE Failed("invalid_evidence_reference") \/ Failed("deterministic_contradiction")
      BY <1>3, <2>1, <2>2 DEF Failed
  <2>3. CASE /\ ~CitesUnknownEvidence(a)
             /\ pc' = "done"
             /\ report' = [state |-> "completed", category |-> "none",
                           strength |-> a.strength, cited |-> a.cited]
    <3>1. report'.cited \subseteq snapshot
        BY <2>3 DEF CitesUnknownEvidence
    <3>2. EvidenceInvariant'
        BY <1>1, <2>1, <3>1
        DEF EvidenceInvariant, EvidenceIsAudited, Collected, InFlightTouched,
            EvidenceIds, collectorVars, brokerVars
    <3>3. QED
        BY <1>1, <2>1, <2>3, <3>2 DEF ProgressInvariant, InWorkflow
  <2>4. QED
      BY <1>5, <2>2, <2>3 DEF ProviderConcludes
<1>6. ASSUME NEW n \in 1..(MaxToolCallsPerStep + 1), ProviderCallsTools(n)
      PROVE  EvidenceInvariant' /\ ProgressInvariant'
  <2>1. UNCHANGED <<collectorVars, snapshot, baseline>>
      BY <1>6 DEF ProviderCallsTools, baselineVars
  <2>2. CASE Limited("tool_limit_reached")
      BY <1>3, <2>1, <2>2 DEF Limited
  <2>3. CASE pc' = "executing" /\ UNCHANGED report
    <3>1. EvidenceInvariant'
        BY <1>1, <2>1, <2>3, QuietStep
    <3>2. QED
        BY <1>1, <1>2, <2>1, <2>3, <3>1 DEF ProgressInvariant, InWorkflow
  <2>4. QED
      BY <1>6, <2>2, <2>3 DEF ProviderCallsTools
<1>7. QED
    BY <1>4, <1>5, <1>6 DEF ProviderStep

LEMMA CallStepEvidence ==
    ASSUME IInv, CallStep
    PROVE  EvidenceInvariant' /\ ProgressInvariant'
<1>1. PICK c \in ToolCalls :
        \/ RejectDuplicateId(c) \/ RejectRepeatedCall(c)
        \/ RefuseTool(c) \/ RefuseArguments(c) \/ ExecuteTool(c)
    BY DEF CallStep
<1>2. /\ CollectorTypeOK /\ EvidenceIsAudited /\ InFlightTouched /\ EvidenceInvariant
      /\ snapshot \subseteq EvidenceIds /\ report = NoReport
      /\ pc = "executing" /\ baseline # NoBaseline
    BY <1>1 DEF IInv, TypeInvariant, TypeOK, EvidenceInvariant, ProgressInvariant, Programs,
                RejectDuplicateId, RejectRepeatedCall, RefuseTool, RefuseArguments,
                ExecuteTool, AcceptCall
<1>3. report.cited = {}
    BY <1>2 DEF NoReport
<1>4. CASE RejectDuplicateId(c) \/ RejectRepeatedCall(c)
  <2>1. PICK category : Finish("failed", category)
      BY <1>4 DEF RejectDuplicateId, RejectRepeatedCall, Failed
  <2>2. UNCHANGED <<collectorVars, snapshot>> /\ UNCHANGED baseline
      BY <1>4 DEF RejectDuplicateId, RejectRepeatedCall, runVars, baselineVars
  <2>3. EvidenceInvariant' /\ report'.cited = {}
      BY <1>2, <2>1, <2>2, QuietFailure
  <2>4. QED
      BY <1>2, <2>1, <2>2, <2>3 DEF Finish, ProgressInvariant, InWorkflow
<1>5. CASE RefuseTool(c) \/ RefuseArguments(c)
  <2>1. UNCHANGED <<collectorVars, snapshot, report>> /\ UNCHANGED baseline
      BY <1>5 DEF RefuseTool, RefuseArguments, AcceptCall, baselineVars
  <2>2. EvidenceInvariant'
      BY <1>2, <2>1, QuietStep
  <2>3. pc' \in {"context", "executing"}
      BY <1>5 DEF RefuseTool, RefuseArguments, NextCall
  <2>4. QED
      BY <1>2, <1>3, <2>1, <2>2, <2>3 DEF ProgressInvariant, InWorkflow
<1>6. CASE ExecuteTool(c)
  <2>1. c.tool \in Names /\ c.destination \in Destinations \cup {NoDestination}
      BY DEF ToolCalls
  <2>2. EvidenceIsAudited' /\ InFlightTouched' /\ UNCHANGED store
      BY <1>2, <1>6, <2>1, CollectStartsEvidence DEF ExecuteTool
  <2>3. UNCHANGED <<snapshot, report, baseline>> /\ pc' = "collecting"
      BY <1>6 DEF ExecuteTool, AcceptCall, baselineVars
  <2>4. QED
      BY <1>2, <1>3, <2>2, <2>3 DEF EvidenceInvariant, EvidenceIds, ProgressInvariant, InWorkflow
<1>7. QED
    BY <1>1, <1>4, <1>5, <1>6

LEMMA InterruptedEvidence ==
    ASSUME IInv, Interrupted
    PROVE  EvidenceInvariant' /\ ProgressInvariant'
<1>1. EvidenceInvariant /\ report = NoReport /\ report.cited = {}
    BY DEF IInv, ProgressInvariant, Interrupted, NoReport
<1>2. /\ pc' = "raised" /\ UNCHANGED <<snapshot, report, baseline>>
      /\ UNCHANGED collectorVars \/ CollectCancelled
    BY DEF Interrupted, runVars, baselineVars
<1>3. EvidenceInvariant'
  <2>1. CASE UNCHANGED collectorVars
      BY <1>1, <1>2, <2>1, QuietStep
  <2>2. CASE CollectCancelled
      BY <1>1, <1>2, <2>2
      DEF CollectCancelled, HandlerCancelled, EvidenceInvariant, EvidenceIsAudited, Collected,
          InFlightTouched, EvidenceIds
  <2>3. QED
      BY <1>2, <2>1, <2>2
<1>4. QED
    BY <1>1, <1>2, <1>3 DEF ProgressInvariant, InWorkflow

LEMMA IInvHolds == Spec => []IInv
<1>1. Init => EvidenceInvariant /\ ProgressInvariant
    BY DEF Init, EvidenceInvariant, EvidenceIsAudited, InFlightTouched, EvidenceIds,
           ProgressInvariant, NoReport, Programs
<1>2. IInv /\ [Next]_vars => EvidenceInvariant' /\ ProgressInvariant'
  <2> SUFFICES ASSUME IInv, [Next]_vars
               PROVE  EvidenceInvariant' /\ ProgressInvariant'
      OBVIOUS
  <2>1. CASE UNCHANGED vars
    <3>1. EvidenceInvariant'
        BY <2>1, QuietStep DEF vars, runVars, IInv
    <3>2. QED
        BY <2>1, <3>1 DEF vars, baselineVars, IInv, ProgressInvariant, InWorkflow
  <2>2. QED
      BY <2>1, WorkflowEvidence, RuntimeStepEvidence, ProviderStepEvidence,
         CallStepEvidence, InterruptedEvidence DEF Next
<1>3. QED
    BY <1>1, <1>2, TypeInvariantHolds, PTL DEF Spec, IInv

-----------------------------------------------------------------------------
(* Every envelope has its driver call on this device and its SUCCESS event *)
(* in the audit trail (EvidenceCollector.collect, ToolBroker.invoke).      *)
THEOREM EvidenceAudited == Spec => []EvidenceIsAudited
<1>1. IInv => EvidenceIsAudited
    BY DEF IInv, EvidenceInvariant
<1>2. QED
    BY <1>1, IInvHolds, PTL

(* An accepted assessment cites only evidence of its last round, each with *)
(* its driver call and SUCCESS event (AgentRuntime._validate_final).       *)
THEOREM AssessmentGrounded == Spec => []AssessmentIsGrounded
<1>1. IInv => AssessmentIsGrounded
    BY DEF IInv, EvidenceInvariant, EvidenceIsAudited, AssessmentIsGrounded
<1>2. QED
    BY <1>1, IInvHolds, PTL

-----------------------------------------------------------------------------
(* The refinement: a step either shows its reader nothing, or adds one     *)
(* observation, or fixes the conclusion, or publishes the assessment.      *)

Seen == [strength |-> IF report.state = "completed" THEN report.strength ELSE "none",
         cited |-> report.cited]
SeenVars == <<EvidenceIds, baseline, Seen>>
Nothing == [strength |-> "none", cited |-> {}]

LEMMA SeenNothing ==
    ASSUME IInv, report.state # "completed"
    PROVE  Seen = Nothing
BY DEF IInv, ProgressInvariant, Seen, Nothing

LEMMA CollectionIsObserved ==
    ASSUME IInv, CollectEnds, pc # "done", UNCHANGED <<baseline, report>>
    PROVE  [Boundary!Next]_(Boundary!boundaryVars)
<1>1. CollectorTypeOK /\ EvidenceIsAudited /\ InFlightTouched /\ report = NoReport
    BY DEF IInv, TypeInvariant, TypeOK, EvidenceInvariant, ProgressInvariant
<1>2. Seen = Nothing /\ Seen' = Nothing
    BY <1>1 DEF Seen, Nothing, NoReport
<1>3. CASE UNCHANGED EvidenceIds
    BY <1>3 DEF Boundary!boundaryVars
<1>4. CASE EvidenceIds' = EvidenceIds \cup {Len(store) + 1}
  <2>1. CASE Len(store) + 1 \in EvidenceIds
      BY <1>4, <2>1 DEF Boundary!boundaryVars
  <2>2. CASE Len(store) + 1 \notin EvidenceIds
      BY <1>2, <1>4, <2>2 DEF Boundary!Next, Boundary!Observe, Seen, Nothing
  <2>3. QED
      BY <2>1, <2>2
<1>5. QED
    BY <1>1, <1>3, <1>4, CollectEndsEvidence

LEMMA ReportFixes ==
    ASSUME IInv, WorkflowReports
    PROVE  Boundary!Fix
<1>1. CollectorTypeOK /\ baseline = NoBaseline
    BY DEF IInv, TypeInvariant, TypeOK, ProgressInvariant, InWorkflow, WorkflowReports
<1>2. baseline' # NoBaseline
    BY <1>1, ReportedBaseline, AgentAssumption
<1>3. PICK diagnosis \in Conclusions \cup {NoDiagnosis}, confirmed \in SUBSET EvidenceIds :
        baseline' = [ids |-> EvidenceIds, diagnosis |-> diagnosis, confirmed |-> confirmed,
                     touches |-> Len(touched)]
    BY DEF WorkflowReports
<1>4. diagnosis # NoDiagnosis => diagnosis.ids \subseteq EvidenceIds
    BY DEF Conclusions
<1>5. UNCHANGED <<store, report>>
    BY DEF WorkflowReports, collectorVars
<1>6. QED
    BY <1>1, <1>2, <1>3, <1>4, <1>5 DEF Boundary!Fix, EvidenceIds

LEMMA AcceptancePublishes ==
    ASSUME IInv, NEW a \in Assessments, ProviderConcludes(a), report'.state = "completed"
    PROVE  Boundary!Publish
<1>1. /\ report'.strength = a.strength /\ report'.cited = a.cited
      /\ ~CitesUnknownEvidence(a) /\ ~ContradictsBaseline(a)
    BY AcceptedAssessment
<1>2. baseline # NoBaseline /\ report.state # "completed" /\ snapshot \subseteq EvidenceIds
    BY DEF IInv, ProgressInvariant, EvidenceInvariant, ProviderConcludes, NoReport, Programs
<1>3. a.cited \subseteq EvidenceIds /\ (a.strength # "insufficient" => a.cited # {})
    BY <1>1, <1>2 DEF CitesUnknownEvidence
<1>4. a.strength # "none"
    BY DEF Assessments, Strengths
<1>5. UNCHANGED <<store, baseline>>
    BY DEF ProviderConcludes, collectorVars, baselineVars
<1>6. Seen = Nothing /\ Seen' = [strength |-> a.strength, cited |-> a.cited]
    BY <1>1, <1>2, SeenNothing DEF Seen
<1>7. Boundary!Compatible(Seen', baseline)
    BY <1>1, <1>6 DEF Boundary!Compatible, ContradictsBaseline
<1>8. QED
    BY <1>2, <1>3, <1>4, <1>5, <1>6, <1>7
    DEF Boundary!Publish, EvidenceIds, Seen, Nothing, Boundary!Compatible

LEMMA UnseenStep ==
    ASSUME UNCHANGED <<store, baseline>>, Seen' = Seen
    PROVE  UNCHANGED Boundary!boundaryVars
BY DEF Boundary!boundaryVars, Seen, EvidenceIds

LEMMA StepIsSeen ==
    ASSUME IInv, Next
    PROVE  [Boundary!Next]_(Boundary!boundaryVars)
<1>1. pc \in Programs /\ (pc # "done" => report = NoReport)
    BY DEF IInv, TypeInvariant, TypeOK, ProgressInvariant
<1>2. ASSUME UNCHANGED <<store, baseline, report>>
      PROVE  UNCHANGED Boundary!boundaryVars
    BY <1>2, UnseenStep DEF Seen
<1>3. ASSUME NEW state, state # "completed", NEW category, Finish(state, category),
             UNCHANGED <<store, baseline>>, pc # "done"
      PROVE  UNCHANGED Boundary!boundaryVars
  <2>1. Seen = Nothing /\ Seen' = Nothing
      BY <1>1, <1>3 DEF Seen, Nothing, Finish, NoReport
  <2>2. QED
      BY <1>3, <2>1, UnseenStep
<1>4. CASE Workflow
  <2>1. CASE WorkflowRefused \/ WorkflowStarts
      BY <1>2, <2>1 DEF WorkflowRefused, WorkflowStarts, CollectRefused, CollectStarts, baselineVars
  <2>2. CASE WorkflowEnds
      BY <2>2, CollectionIsObserved DEF WorkflowEnds
  <2>3. CASE WorkflowReports
      BY <2>3, ReportFixes DEF Boundary!Next
  <2>4. QED
      BY <1>4, <2>1, <2>2, <2>3 DEF Workflow
<1>5. CASE RuntimeStep
  <2>1. CASE StartRun \/ BuildContext \/ ContextUnsafe
      BY <1>2, <2>1 DEF StartRun, BuildContext, ContextUnsafe, collectorVars, baselineVars
  <2>2. CASE RejectMismatch \/ StepLimitReached
      BY <1>3, <2>2 DEF RejectMismatch, StepLimitReached, Failed, Limited, collectorVars, baselineVars
  <2>3. CASE ToolAnswers
      BY <2>3, CollectionIsObserved DEF ToolAnswers, baselineVars
  <2>4. QED
      BY <1>5, <2>1, <2>2, <2>3 DEF RuntimeStep
<1>6. CASE ProviderStep
  <2>1. CASE ProviderFails
      BY <1>3, <2>1 DEF ProviderFails, Failed, collectorVars, baselineVars
  <2>2. ASSUME NEW a \in Assessments, ProviderConcludes(a)
        PROVE  [Boundary!Next]_(Boundary!boundaryVars)
    <3>1. CASE report'.state = "completed"
        BY <2>2, <3>1, AcceptancePublishes DEF Boundary!Next
    <3>2. CASE report'.state # "completed"
        BY <1>3, <2>2, <3>2 DEF ProviderConcludes, Failed, collectorVars, baselineVars
    <3>3. QED
        BY <3>1, <3>2
  <2>3. ASSUME NEW n \in 1..(MaxToolCallsPerStep + 1), ProviderCallsTools(n)
        PROVE  [Boundary!Next]_(Boundary!boundaryVars)
      BY <1>2, <1>3, <2>3 DEF ProviderCallsTools, Limited, collectorVars, baselineVars
  <2>4. QED
      BY <1>6, <2>1, <2>2, <2>3 DEF ProviderStep
<1>7. CASE CallStep
  <2>1. PICK c \in ToolCalls :
          \/ RejectDuplicateId(c) \/ RejectRepeatedCall(c)
          \/ RefuseTool(c) \/ RefuseArguments(c) \/ ExecuteTool(c)
      BY <1>7 DEF CallStep
  <2>2. CASE RejectDuplicateId(c) \/ RejectRepeatedCall(c)
      BY <1>3, <2>2 DEF RejectDuplicateId, RejectRepeatedCall, Failed, collectorVars, baselineVars
  <2>3. CASE RefuseTool(c) \/ RefuseArguments(c) \/ ExecuteTool(c)
      BY <1>2, <2>3
      DEF RefuseTool, RefuseArguments, ExecuteTool, AcceptCall, CollectStarts, collectorVars,
          baselineVars
  <2>4. QED
      BY <2>1, <2>2, <2>3
<1>8. CASE Interrupted
    BY <1>2, <1>8 DEF Interrupted, CollectCancelled, collectorVars, baselineVars
<1>9. QED
    BY <1>4, <1>5, <1>6, <1>7, <1>8 DEF Next

(* The investigation implements the evidence boundary: whatever the tools  *)
(* and the provider do, observations only accumulate, the deterministic    *)
(* conclusion is fixed once and the published assessment fits both         *)
(* (EvidenceCollector.collect, AgentRuntime.run, _validate_final).         *)
THEOREM ImplementsBoundary == Spec => BoundaryKept
<1>1. Init => Boundary!Init
    BY DEF Init, Boundary!Init, EvidenceIds, NoReport
<1>2. IInv /\ [Next]_vars => [Boundary!Next]_(Boundary!boundaryVars)
  <2> SUFFICES ASSUME IInv, [Next]_vars
               PROVE  [Boundary!Next]_(Boundary!boundaryVars)
      OBVIOUS
  <2>1. CASE UNCHANGED vars
      BY <2>1, UnseenStep DEF vars, collectorVars, baselineVars, Seen
  <2>2. QED
      BY <2>1, StepIsSeen
<1>3. QED
    BY <1>1, <1>2, IInvHolds, PTL DEF Spec, BoundaryKept, Boundary!Spec

-----------------------------------------------------------------------------
(* The handlers of the run: those started after the report was made.       *)
RunCalls == (baseline.touches + 1)..Len(touched)

Counted ==
    /\ baseline \in Baselines
    /\ baseline.touches <= Len(touched) /\ Len(touched) <= baseline.touches + total
    /\ total + remaining <= MaxToolCallsTotal
    /\ \A i \in RunCalls : Signature(touched[i]) \in signatures
    /\ \A i, j \in RunCalls : i # j => touched[i] # touched[j]

LimitInvariant ==
    /\ InWorkflow => step = 0 /\ total = 0 /\ remaining = 0
    /\ pc \in {"start", "context", "generating"} => remaining = 0
    /\ pc \in {"start", "context", "generating", "executing", "collecting", "done"} => Counted
    /\ step > 0 => Counted

(* A step that starts no handler and accepts no call.                      *)
LEMMA CountedStays ==
    ASSUME Counted, UNCHANGED <<baseline, touched, total, signatures>>,
           total + remaining' <= MaxToolCallsTotal
    PROVE  Counted'
BY DEF Counted, RunCalls

LEMMA WorkflowLimits ==
    ASSUME TypeInvariant, LimitInvariant, Workflow
    PROVE  LimitInvariant'
<1>1. InWorkflow /\ step = 0 /\ total = 0 /\ remaining = 0
    BY DEF Workflow, WorkflowRefused, WorkflowStarts, WorkflowEnds, WorkflowReports,
           InWorkflow, LimitInvariant
<1>2. UNCHANGED <<step, total, remaining, signatures>>
    BY DEF Workflow, WorkflowRefused, WorkflowStarts, WorkflowEnds, WorkflowReports, runVars
<1>3. CASE WorkflowRefused \/ WorkflowStarts \/ WorkflowEnds
  <2>1. pc' \in {"workflow", "workflowCollecting"}
      BY <1>3 DEF WorkflowRefused, WorkflowStarts, WorkflowEnds
  <2>2. QED
      BY <1>1, <1>2, <2>1 DEF LimitInvariant, InWorkflow
<1>4. CASE WorkflowReports
  <2>1. baseline' \in Baselines
      BY <1>4, ReportedBaseline DEF TypeInvariant, TypeOK
  <2>2. baseline'.touches = Len(touched) /\ touched' = touched /\ pc' = "start"
      BY <1>4 DEF WorkflowReports, collectorVars, brokerVars
  <2>3. Len(touched) \in Nat
      BY LenProperties DEF TypeInvariant, TypeOK, CollectorTypeOK, BrokerTypeOK
  <2>4. RunCalls' = {}
      BY <2>2, <2>3 DEF RunCalls
  <2>5. Counted'
      BY <1>1, <1>2, <2>1, <2>2, <2>3, <2>4, AgentAssumption DEF Counted
  <2>6. QED
      BY <1>1, <1>2, <2>2, <2>5 DEF LimitInvariant, InWorkflow
<1>5. QED
    BY <1>3, <1>4 DEF Workflow

LEMMA RuntimeStepLimits ==
    ASSUME TypeInvariant, LimitInvariant, RuntimeStep
    PROVE  LimitInvariant'
<1>1. pc \in {"start", "context", "collecting"} /\ Counted
    BY DEF RuntimeStep, StartRun, RejectMismatch, BuildContext, ContextUnsafe,
           StepLimitReached, ToolAnswers, LimitInvariant
<1>2. UNCHANGED <<baseline, total, signatures, remaining>>
    BY DEF RuntimeStep, StartRun, RejectMismatch, BuildContext, ContextUnsafe,
           StepLimitReached, ToolAnswers, baselineVars, runVars
<1>3. UNCHANGED touched
  <2>1. CASE ToolAnswers
      BY <2>1, CollectEndsEffect DEF ToolAnswers, TypeInvariant, TypeOK
  <2>2. CASE ~ToolAnswers
      BY <2>2 DEF RuntimeStep, StartRun, RejectMismatch, BuildContext, ContextUnsafe,
                  StepLimitReached, collectorVars, brokerVars
  <2>3. QED
      BY <2>1, <2>2
<1>4. Counted'
    BY <1>1, <1>2, <1>3, CountedStays DEF Counted
<1>5. pc' \notin {"workflow", "workflowCollecting"}
    BY DEF RuntimeStep, StartRun, RejectMismatch, BuildContext, ContextUnsafe,
           StepLimitReached, ToolAnswers, Failed, Limited, Finish, NextCall
<1>6. pc' \in {"start", "context", "generating"} => remaining' = 0
    BY <1>2 DEF RuntimeStep, StartRun, RejectMismatch, BuildContext, ContextUnsafe,
                StepLimitReached, ToolAnswers, Failed, Limited, Finish, NextCall, LimitInvariant
<1>7. QED
    BY <1>4, <1>5, <1>6 DEF LimitInvariant, InWorkflow

LEMMA ProviderStepLimits ==
    ASSUME TypeInvariant, LimitInvariant, ProviderStep
    PROVE  LimitInvariant'
<1>1. pc = "generating" /\ Counted /\ remaining = 0 /\ total \in Nat
    BY DEF ProviderStep, ProviderFails, ProviderConcludes, ProviderCallsTools, LimitInvariant,
           TypeInvariant, TypeOK
<1>2. UNCHANGED <<baseline, touched, total, signatures>>
    BY DEF ProviderStep, ProviderFails, ProviderConcludes, ProviderCallsTools,
           baselineVars, runVars, collectorVars, brokerVars
<1>3. CASE UNCHANGED remaining /\ pc' = "done"
  <2>1. Counted'
      BY <1>1, <1>2, <1>3, CountedStays DEF Counted
  <2>2. QED
      BY <1>3, <2>1 DEF LimitInvariant, InWorkflow
<1>4. CASE total + remaining' <= MaxToolCallsTotal /\ pc' = "executing"
  <2>1. Counted'
      BY <1>1, <1>2, <1>4, CountedStays
  <2>2. QED
      BY <1>4, <2>1 DEF LimitInvariant, InWorkflow
<1>5. QED
    BY <1>3, <1>4 DEF ProviderStep, ProviderFails, ProviderConcludes, ProviderCallsTools,
                      Failed, Limited, Finish, runVars

(* A call accepted and not run spends the budget; one that runs is new.    *)
LEMMA AcceptedLimits ==
    ASSUME TypeInvariant, Counted, NEW c \in ToolCalls, AcceptCall(c),
           touched' = touched
    PROVE  Counted'
<1>1. /\ UNCHANGED baseline /\ total' = total + 1 /\ remaining' = remaining - 1
      /\ total \in Nat /\ remaining \in Nat /\ signatures \subseteq signatures'
    BY DEF AcceptCall, baselineVars, TypeInvariant, TypeOK
<1>2. baseline.touches \in Nat /\ Len(touched) \in Nat /\ MaxToolCallsTotal \in Nat
    BY AgentAssumption, LenProperties
    DEF Counted, Baselines, TypeInvariant, TypeOK, CollectorTypeOK, BrokerTypeOK
<1>3. RunCalls' = RunCalls
    BY <1>1 DEF RunCalls
<1>4. QED
    BY <1>1, <1>2, <1>3 DEF Counted

LEMMA ExecutedLimits ==
    ASSUME TypeInvariant, Counted, NEW c \in ToolCalls, ExecuteTool(c)
    PROVE  Counted'
<1>1. /\ UNCHANGED baseline /\ total' = total + 1 /\ remaining' = remaining - 1
      /\ total \in Nat /\ remaining \in Nat
      /\ signatures' = signatures \cup {Signature(c)} /\ Signature(c) \notin signatures
    BY DEF ExecuteTool, AcceptCall, baselineVars, TypeInvariant, TypeOK
<1>2. /\ baseline.touches \in Nat /\ Len(touched) \in Nat /\ MaxToolCallsTotal \in Nat
      /\ touched \in Seq(Calls)
    BY AgentAssumption, LenProperties
    DEF Counted, Baselines, TypeInvariant, TypeOK, CollectorTypeOK, BrokerTypeOK
<1>3. PICK new : new = [tool |-> c.tool, device |-> Device, destination |-> c.destination]
    OBVIOUS
<1>4. touched' = Append(touched, new)
    BY <1>3 DEF ExecuteTool, CollectStarts, StartHandler, BrokerArguments
<1>5. new \in Calls /\ Signature(new) = Signature(c)
    BY <1>3, AgentAssumption DEF Calls, ToolCalls, Signature
<1>6. PICK top : top = Len(touched) + 1
    OBVIOUS
<1>7. /\ Len(touched') = top /\ touched'[top] = new
      /\ \A i \in 1..Len(touched) : touched'[i] = touched[i]
    BY <1>2, <1>4, <1>5, <1>6, AppendProperties
<1>8. RunCalls' = RunCalls \cup {top} /\ RunCalls \subseteq 1..Len(touched) /\ top \notin RunCalls
    BY <1>1, <1>2, <1>6, <1>7 DEF RunCalls, Counted
<1>9. \A i \in RunCalls : touched'[i] = touched[i]
    BY <1>7, <1>8
<1>10. \A i \in RunCalls' : Signature(touched'[i]) \in signatures'
    BY <1>1, <1>5, <1>7, <1>8, <1>9 DEF Counted
<1>11. \A i \in RunCalls : touched[i] # new
    BY <1>1, <1>5 DEF Counted
<1>12. \A i, j \in RunCalls' : i # j => touched'[i] # touched'[j]
    BY <1>7, <1>8, <1>9, <1>11 DEF Counted
<1>13. /\ baseline.touches <= Len(touched') /\ Len(touched') <= baseline.touches + total'
       /\ total' + remaining' <= MaxToolCallsTotal
    BY <1>1, <1>2, <1>6, <1>7 DEF Counted
<1>14. QED
    BY <1>1, <1>10, <1>12, <1>13 DEF Counted

LEMMA CallStepLimits ==
    ASSUME TypeInvariant, LimitInvariant, CallStep
    PROVE  LimitInvariant'
<1>1. PICK c \in ToolCalls :
        \/ RejectDuplicateId(c) \/ RejectRepeatedCall(c)
        \/ RefuseTool(c) \/ RefuseArguments(c) \/ ExecuteTool(c)
    BY DEF CallStep
<1>2. pc = "executing" /\ Counted /\ remaining \in Nat
    BY <1>1 DEF RejectDuplicateId, RejectRepeatedCall, RefuseTool, RefuseArguments, ExecuteTool,
                AcceptCall, LimitInvariant, TypeInvariant, TypeOK
<1>3. CASE RejectDuplicateId(c) \/ RejectRepeatedCall(c)
  <2>1. UNCHANGED <<baseline, touched, total, signatures, remaining>> /\ pc' = "done"
      BY <1>3 DEF RejectDuplicateId, RejectRepeatedCall, Failed, Finish, runVars, baselineVars,
                  collectorVars, brokerVars
  <2>2. Counted'
      BY <1>2, <2>1, CountedStays DEF Counted
  <2>3. QED
      BY <2>1, <2>2 DEF LimitInvariant, InWorkflow
<1>4. CASE RefuseTool(c) \/ RefuseArguments(c)
  <2>1. AcceptCall(c) /\ touched' = touched /\ NextCall(remaining - 1)
      BY <1>4 DEF RefuseTool, RefuseArguments, collectorVars, brokerVars
  <2>2. Counted'
      BY <1>2, <2>1, AcceptedLimits
  <2>3. remaining' = remaining - 1
      BY <2>1 DEF AcceptCall
  <2>4. /\ pc' \in {"context", "executing"} /\ (pc' = "context" => remaining' = 0)
      BY <2>1, <2>3 DEF NextCall
  <2>5. QED
      BY <2>2, <2>4 DEF LimitInvariant, InWorkflow
<1>5. CASE ExecuteTool(c)
  <2>1. Counted' /\ pc' = "collecting"
      BY <1>2, <1>5, ExecutedLimits DEF ExecuteTool
  <2>2. QED
      BY <2>1 DEF LimitInvariant, InWorkflow
<1>6. QED
    BY <1>1, <1>3, <1>4, <1>5

LEMMA InterruptedLimits ==
    ASSUME TypeInvariant, LimitInvariant, Interrupted
    PROVE  LimitInvariant'
<1>1. /\ pc' = "raised" /\ UNCHANGED <<baseline, step, total, remaining, signatures>>
      /\ UNCHANGED touched
    BY DEF Interrupted, CollectCancelled, HandlerCancelled, baselineVars, runVars,
           collectorVars, brokerVars
<1>2. Counted => Counted'
    BY <1>1, CountedStays DEF Counted
<1>3. QED
    BY <1>1, <1>2 DEF LimitInvariant, InWorkflow

LEMMA LimitsHold == Spec => []LimitInvariant
<1>1. Init => LimitInvariant
    BY DEF Init, LimitInvariant, InWorkflow
<1>2. TypeInvariant /\ LimitInvariant /\ [Next]_vars => LimitInvariant'
  <2> SUFFICES ASSUME TypeInvariant, LimitInvariant, [Next]_vars
               PROVE  LimitInvariant'
      OBVIOUS
  <2>1. CASE UNCHANGED vars
      BY <2>1 DEF vars, runVars, baselineVars, collectorVars, brokerVars,
                  LimitInvariant, InWorkflow, Counted, RunCalls
  <2>2. QED
      BY <2>1, WorkflowLimits, RuntimeStepLimits, ProviderStepLimits, CallStepLimits,
         InterruptedLimits DEF Next
<1>3. QED
    BY <1>1, <1>2, TypeInvariantHolds, PTL DEF Spec

(* However the provider spreads its calls over its responses, the run      *)
(* starts no more handlers than it has counted calls, and the calls it has *)
(* counted and let in stay within the limit (AgentRuntime.run).            *)
THEOREM BudgetKept == Spec => []ToolBudget
<1>1. LimitInvariant => ToolBudget
    BY DEF LimitInvariant, Counted, ToolBudget, RunPhase
<1>2. QED
    BY <1>1, LimitsHold, PTL

(* The device never runs the same tool with the same destination twice for *)
(* one run (the signatures of AgentRuntime.run).                           *)
THEOREM NothingRunsTwice == Spec => []NoCallRunsTwice
<1>1. LimitInvariant => NoCallRunsTwice
    BY DEF LimitInvariant, Counted, RunCalls, NoCallRunsTwice, RunPhase
<1>2. QED
    BY <1>1, LimitsHold, PTL

-----------------------------------------------------------------------------
(* What the provider was told, against the evidence.                       *)
Told ==
    /\ baseline.ids \subseteq EvidenceIds
    /\ \A i \in DOMAIN results :
        /\ results[i].id \in callIds
        /\ results[i].status = "success" => /\ results[i].evidence \in EvidenceIds \ baseline.ids
                                            /\ store[results[i].evidence] = results[i].tool
        /\ results[i].status # "success" => results[i].evidence = 0
    /\ \A i, j \in DOMAIN results : i # j =>
        /\ results[i].id # results[j].id
        /\ results[i].status = "success" => results[i].evidence # results[j].evidence
    /\ \A id \in EvidenceIds \ baseline.ids : \E i \in DOMAIN results : results[i].evidence = id

(* The call in flight is the one being answered, and is not answered yet.  *)
ResultInvariant ==
    /\ InWorkflow => step = 0 /\ results = <<>>
    /\ pc = "collecting" => /\ call.tool = current.tool /\ current.id \in callIds
                            /\ \A i \in DOMAIN results : results[i].id # current.id
    /\ pc \in {"start", "context", "generating", "executing", "collecting", "done"} => Told
    /\ step > 0 => Told

RunInvariant == IInv /\ ResultInvariant

LEMMA ToldStays ==
    ASSUME Told, UNCHANGED <<baseline, store, results>>, callIds \subseteq callIds'
    PROVE  Told'
BY DEF Told, EvidenceIds

(* One more answer: a refusal or a failure, or the newest envelope.        *)
LEMMA ToldGrows ==
    ASSUME TypeInvariant, Told, NEW c \in ToolCalls, NEW status \in Statuses, NEW evidence \in Nat,
           AnswerWith(c, status, evidence), UNCHANGED baseline,
           callIds \subseteq callIds', c.id \in callIds',
           \A i \in DOMAIN results : results[i].id # c.id,
           \/ status # "success" /\ evidence = 0 /\ store' = store
           \/ /\ status = "success" /\ evidence = Len(store) + 1
              /\ store' = Append(store, c.tool) /\ c.tool \in Names
    PROVE  Told'
<1> DEFINE R == [id : CallIds, tool : Names, status : Statuses, evidence : Nat]
<1>1. results \in Seq(R) /\ store \in Seq(Names) /\ Len(results) \in Nat /\ Len(store) \in Nat
    BY LenProperties DEF TypeInvariant, TypeOK, CollectorTypeOK
<1>2. PICK new : new = [id |-> c.id, tool |-> c.tool, status |-> status, evidence |-> evidence]
    OBVIOUS
<1>3. new \in R /\ results' = Append(results, new)
    BY <1>2 DEF AnswerWith, ToolCalls
<1>4. PICK top : top = Len(results) + 1
    OBVIOUS
<1>5. /\ DOMAIN results' = DOMAIN results \cup {top} /\ top \notin DOMAIN results
      /\ results'[top] = new /\ \A i \in DOMAIN results : results'[i] = results[i]
    BY <1>1, <1>3, <1>4, AppendProlongs DEF Prolongs
<1>6. new.id = c.id /\ new.tool = c.tool /\ new.status = status /\ new.evidence = evidence
    BY <1>2
<1>7. EvidenceIds = 1..Len(store) /\ 0 \notin EvidenceIds
    BY EvidenceIdsType DEF TypeInvariant, TypeOK
<1>8. CASE status # "success" /\ evidence = 0 /\ store' = store
  <2>1. EvidenceIds' = EvidenceIds
      BY <1>8 DEF EvidenceIds
  <2>2. \A i \in DOMAIN results' :
        /\ results'[i].id \in callIds'
        /\ results'[i].status = "success" =>
             /\ results'[i].evidence \in EvidenceIds' \ baseline'.ids
             /\ store'[results'[i].evidence] = results'[i].tool
        /\ results'[i].status # "success" => results'[i].evidence = 0
      BY <1>5, <1>6, <1>8, <2>1 DEF Told
  <2>3. \A i, j \in DOMAIN results' : i # j =>
        /\ results'[i].id # results'[j].id
        /\ results'[i].status = "success" => results'[i].evidence # results'[j].evidence
      BY <1>5, <1>6, <1>7, <1>8 DEF Told
  <2>4. \A id \in EvidenceIds' \ baseline'.ids : \E i \in DOMAIN results' : results'[i].evidence = id
      BY <1>5, <2>1 DEF Told
  <2>5. QED
      BY <2>1, <2>2, <2>3, <2>4 DEF Told
<1>9. CASE /\ status = "success" /\ evidence = Len(store) + 1
           /\ store' = Append(store, c.tool) /\ c.tool \in Names
  <2>1. /\ EvidenceIds' = EvidenceIds \cup {evidence} /\ evidence \notin EvidenceIds
        /\ store'[evidence] = c.tool /\ \A id \in EvidenceIds : store'[id] = store[id]
      BY <1>1, <1>9, AppendProlongs DEF EvidenceIds, Prolongs
  <2>2. baseline.ids \subseteq EvidenceIds /\ evidence \notin baseline.ids /\ evidence # 0
      BY <1>1, <1>9, <2>1 DEF Told
  <2>3. \A i \in DOMAIN results' :
        /\ results'[i].id \in callIds'
        /\ results'[i].status = "success" =>
             /\ results'[i].evidence \in EvidenceIds' \ baseline'.ids
             /\ store'[results'[i].evidence] = results'[i].tool
        /\ results'[i].status # "success" => results'[i].evidence = 0
    <3>1. ASSUME NEW i \in DOMAIN results
          PROVE  /\ results'[i].id \in callIds'
                 /\ results'[i].status = "success" =>
                      /\ results'[i].evidence \in EvidenceIds' \ baseline'.ids
                      /\ store'[results'[i].evidence] = results'[i].tool
                 /\ results'[i].status # "success" => results'[i].evidence = 0
      <4>1. results'[i] = results[i]
          BY <1>5
      <4>2. results[i].status = "success" =>
              /\ results[i].evidence \in EvidenceIds \ baseline.ids
              /\ store'[results[i].evidence] = results[i].tool
          BY <2>1 DEF Told
      <4>3. results[i].id \in callIds' /\ (results[i].status # "success" => results[i].evidence = 0)
          BY DEF Told
      <4>4. QED
          BY <2>1, <4>1, <4>2, <4>3
    <3>2. /\ results'[top].id \in callIds' /\ results'[top].status = "success"
          /\ results'[top].evidence \in EvidenceIds' \ baseline'.ids
          /\ store'[results'[top].evidence] = results'[top].tool
        BY <1>5, <1>6, <1>9, <2>1, <2>2
    <3>3. QED
        BY <1>5, <3>1, <3>2
  <2>4. \A i \in DOMAIN results : results[i].evidence # evidence
      BY <2>1, <2>2 DEF Told
  <2>5. \A i, j \in DOMAIN results' : i # j =>
        /\ results'[i].id # results'[j].id
        /\ results'[i].status = "success" => results'[i].evidence # results'[j].evidence
      BY <1>5, <1>6, <2>4 DEF Told
  <2>6. \A id \in EvidenceIds' \ baseline'.ids : \E i \in DOMAIN results' : results'[i].evidence = id
      BY <1>5, <1>6, <2>1 DEF Told
  <2>7. QED
      BY <2>1, <2>2, <2>3, <2>5, <2>6 DEF Told
<1>10. QED
    BY <1>8, <1>9

LEMMA WorkflowResults ==
    ASSUME RunInvariant, Workflow
    PROVE  ResultInvariant'
<1>1. /\ InWorkflow /\ step = 0 /\ results = <<>> /\ UNCHANGED <<step, results>>
      /\ pc' \in {"workflow", "workflowCollecting", "start"}
    BY DEF RunInvariant, ResultInvariant, Workflow, WorkflowRefused, WorkflowStarts, WorkflowEnds,
           WorkflowReports, InWorkflow, runVars
<1>2. CASE pc' # "start"
    BY <1>1, <1>2 DEF ResultInvariant, InWorkflow
<1>3. CASE pc' = "start"
  <2>1. WorkflowReports
      BY <1>3 DEF Workflow, WorkflowRefused, WorkflowStarts, WorkflowEnds, WorkflowReports
  <2>2. baseline'.ids = EvidenceIds /\ EvidenceIds' = EvidenceIds
      BY <2>1 DEF WorkflowReports, collectorVars, EvidenceIds
  <2>3. results' = <<>>
      BY <1>1
  <2>4. Told'
      BY <2>2, <2>3 DEF Told
  <2>5. QED
      BY <1>1, <1>3, <2>4 DEF ResultInvariant, InWorkflow
<1>4. QED
    BY <1>2, <1>3

LEMMA ErrorIsNoSuccess ==
    ASSUME NEW o, o.error \in CollectionErrors
    PROVE  StatusOf(o) # "success"
<1>1. o.error # "none"
    BY CollectorAssumption
<1>2. QED
    BY <1>1 DEF StatusOf

LEMMA ToolAnswersResults ==
    ASSUME RunInvariant, ToolAnswers
    PROVE  ResultInvariant'
<1>1. /\ TypeInvariant /\ CollectorTypeOK /\ pc = "collecting" /\ CollectEnds
      /\ current \in ToolCalls /\ Told /\ UNCHANGED <<baseline, callIds>>
      /\ call.tool = current.tool /\ current.id \in callIds
      /\ \A i \in DOMAIN results : results[i].id # current.id
      /\ AnswerWith(current, StatusOf(observation'), observation'.evidence)
    BY DEF RunInvariant, IInv, TypeInvariant, TypeOK, ResultInvariant, ToolAnswers, baselineVars
<1>2. pc' \in {"context", "executing"}
    BY DEF ToolAnswers, NextCall
<1>3. StatusOf(observation') \in Statuses
    BY StatusOfTypes
<1>4. CASE store' = store /\ observation'.evidence = 0 /\ observation'.error \in CollectionErrors
  <2>1. StatusOf(observation') # "success"
      BY <1>4, ErrorIsNoSuccess
  <2>2. Told'
      BY <1>1, <1>3, <1>4, <2>1, ToldGrows
  <2>3. QED
      BY <1>2, <2>2 DEF ResultInvariant, InWorkflow
<1>5. CASE store' = Append(store, call.tool) /\ observation' = Stored(Len(store) + 1)
  <2>1. observation'.error = "none" /\ observation'.evidence = Len(store) + 1
      BY <1>5 DEF Stored
  <2>2. StatusOf(observation') = "success"
      BY <2>1 DEF StatusOf
  <2>3. Len(store) + 1 \in Nat /\ current.tool \in Names
      BY <1>1, LenProperties DEF CollectorTypeOK, ToolCalls
  <2>4. Told'
      BY <1>1, <1>3, <1>5, <2>1, <2>2, <2>3, ToldGrows
  <2>5. QED
      BY <1>2, <2>4 DEF ResultInvariant, InWorkflow
<1>6. QED
    BY <1>1, <1>4, <1>5, CollectEndsEffect

LEMMA RuntimeStepResults ==
    ASSUME RunInvariant, RuntimeStep
    PROVE  ResultInvariant'
<1>1. CASE ToolAnswers
    BY <1>1, ToolAnswersResults
<1>2. CASE ~ToolAnswers
  <2>1. /\ pc \in {"start", "context"} /\ UNCHANGED <<baseline, store, results, callIds>>
        /\ pc' \in {"context", "done", "generating", "raised"}
      BY <1>2 DEF RuntimeStep, StartRun, RejectMismatch, BuildContext, ContextUnsafe,
                  StepLimitReached, Failed, Limited, Finish, baselineVars, runVars, collectorVars
  <2>2. Told'
      BY <2>1, ToldStays DEF RunInvariant, ResultInvariant
  <2>3. QED
      BY <2>1, <2>2 DEF ResultInvariant, InWorkflow
<1>3. QED
    BY <1>1, <1>2

LEMMA ProviderStepResults ==
    ASSUME RunInvariant, ProviderStep
    PROVE  ResultInvariant'
<1>1. /\ pc = "generating" /\ UNCHANGED <<baseline, store, results, callIds>>
      /\ pc' \in {"done", "executing"}
    BY DEF ProviderStep, ProviderFails, ProviderConcludes, ProviderCallsTools,
           Failed, Limited, Finish, baselineVars, runVars, collectorVars
<1>2. Told'
    BY <1>1, ToldStays DEF RunInvariant, ResultInvariant
<1>3. QED
    BY <1>1, <1>2 DEF ResultInvariant, InWorkflow

LEMMA CallStepResults ==
    ASSUME RunInvariant, CallStep
    PROVE  ResultInvariant'
<1>1. PICK c \in ToolCalls :
        \/ RejectDuplicateId(c) \/ RejectRepeatedCall(c)
        \/ RefuseTool(c) \/ RefuseArguments(c) \/ ExecuteTool(c)
    BY DEF CallStep
<1>2. /\ pc = "executing" /\ Told /\ UNCHANGED <<baseline, store>> /\ TypeInvariant
    BY <1>1 DEF RejectDuplicateId, RejectRepeatedCall, RefuseTool, RefuseArguments, ExecuteTool,
                AcceptCall, CollectStarts, RunInvariant, IInv, ResultInvariant,
                baselineVars, collectorVars
<1>3. CASE RejectDuplicateId(c)
  <2>1. UNCHANGED <<results, callIds>> /\ pc' = "done"
      BY <1>3 DEF RejectDuplicateId, Failed, Finish, runVars
  <2>2. Told'
      BY <1>2, <2>1, ToldStays
  <2>3. QED
      BY <2>1, <2>2 DEF ResultInvariant, InWorkflow
<1>4. ASSUME NEW status \in Statuses \ {"success"}, AnswerWith(c, status, 0),
             callIds' = callIds \cup {c.id}, c.id \notin callIds
      PROVE  Told'
  <2>1. \A i \in DOMAIN results : results[i].id # c.id
      BY <1>2, <1>4 DEF Told
  <2>2. QED
      BY <1>2, <1>4, <2>1, ToldGrows
<1>5. {"tool_denied", "invalid_arguments", "repeated_tool_call"} \subseteq Statuses \ {"success"}
    BY DEF Statuses
<1>6. CASE RejectRepeatedCall(c)
  <2>1. Told' /\ pc' = "done"
      BY <1>4, <1>5, <1>6 DEF RejectRepeatedCall, Failed, Finish
  <2>2. QED
      BY <2>1 DEF ResultInvariant, InWorkflow
<1>7. CASE RefuseTool(c) \/ RefuseArguments(c)
  <2>1. Told' /\ pc' \in {"context", "executing"}
      BY <1>4, <1>5, <1>7 DEF RefuseTool, RefuseArguments, AcceptCall, NextCall
  <2>2. QED
      BY <2>1 DEF ResultInvariant, InWorkflow
<1>8. CASE ExecuteTool(c)
  <2>1. /\ pc' = "collecting" /\ current' = c /\ UNCHANGED results
        /\ callIds' = callIds \cup {c.id} /\ c.id \notin callIds
        /\ call'.tool = c.tool
      BY <1>8 DEF ExecuteTool, AcceptCall, CollectStarts, StartHandler
  <2>2. Told'
      BY <1>2, <2>1, ToldStays
  <2>3. \A i \in DOMAIN results' : results'[i].id # current'.id
      BY <1>2, <2>1 DEF Told
  <2>4. QED
      BY <2>1, <2>2, <2>3 DEF ResultInvariant, InWorkflow
<1>9. QED
    BY <1>1, <1>3, <1>6, <1>7, <1>8

LEMMA InterruptedResults ==
    ASSUME RunInvariant, Interrupted
    PROVE  ResultInvariant'
<1>1. /\ pc' = "raised" /\ UNCHANGED <<baseline, step, results, callIds, store>>
    BY DEF Interrupted, CollectCancelled, baselineVars, runVars, collectorVars
<1>2. Told => Told'
    BY <1>1, ToldStays
<1>3. QED
    BY <1>1, <1>2 DEF RunInvariant, ResultInvariant, InWorkflow

LEMMA ResultsHold == Spec => []RunInvariant
<1>1. Init => ResultInvariant
    BY DEF Init, ResultInvariant, InWorkflow
<1>2. RunInvariant /\ [Next]_vars => ResultInvariant'
  <2> SUFFICES ASSUME RunInvariant, [Next]_vars
               PROVE  ResultInvariant'
      OBVIOUS
  <2>1. CASE UNCHANGED vars
    <3>1. UNCHANGED <<pc, step, call, current, baseline, store, results, callIds>>
        BY <2>1 DEF vars, runVars, baselineVars, collectorVars, brokerVars
    <3>2. QED
        BY <3>1 DEF RunInvariant, ResultInvariant, InWorkflow, Told, EvidenceIds
  <2>2. QED
      BY <2>1, WorkflowResults, RuntimeStepResults, ProviderStepResults, CallStepResults,
         InterruptedResults DEF Next
<1>3. QED
    BY <1>1, <1>2, IInvHolds, PTL DEF Spec, RunInvariant

(* The provider is told the truth about its calls: the successful results  *)
(* and the evidence added since the deterministic report are the same      *)
(* things, one to one (AgentRuntime._execute, EvidenceCollector.collect).  *)
THEOREM ToldTheTruth == Spec => []ResultsMatchEvidence
<1>1. RunInvariant => ResultsMatchEvidence
    BY DEF RunInvariant, ResultInvariant, Told, ResultsMatchEvidence, RunPhase
<1>2. QED
    BY <1>1, ResultsHold, PTL

-----------------------------------------------------------------------------
(* The accepted assessment.                                                *)

(* Evidence cited beyond the report is what one of the run's own calls     *)
(* returned.                                                               *)
LEMMA NewEvidenceIsAnswered ==
    ASSUME RunInvariant, Told, NEW id \in EvidenceIds, id \notin baseline.ids
    PROVE  \E i \in DOMAIN results : results[i].status = "success" /\ results[i].evidence = id
<1>1. PICK i \in DOMAIN results : results[i].evidence = id
    BY DEF Told
<1>2. id # 0
    BY EvidenceIdsType DEF RunInvariant, IInv, TypeInvariant, TypeOK
<1>3. results[i].status = "success"
    BY <1>1, <1>2 DEF Told
<1>4. QED
    BY <1>1, <1>3

LEMMA AcceptanceStands ==
    ASSUME RunInvariant, NEW a \in Assessments, ProviderConcludes(a), report'.state = "completed"
    PROVE  DeterministicReportStands'
<1>1. /\ report'.strength = a.strength /\ report'.cited = a.cited
      /\ ~CitesUnknownEvidence(a) /\ ~ContradictsBaseline(a)
    BY AcceptedAssessment DEF RunInvariant
<1>2. /\ pc = "generating" /\ Told /\ UNCHANGED <<baseline, results>>
    BY DEF ProviderConcludes, RunInvariant, ResultInvariant, baselineVars, runVars
<1>3. a.cited \subseteq EvidenceIds
    BY <1>1 DEF CitesUnknownEvidence, RunInvariant, IInv, EvidenceInvariant
<1>4. baseline.confirmed \subseteq a.cited
    BY <1>1 DEF ContradictsBaseline
<1>5. ASSUME baseline.diagnosis # NoDiagnosis, baseline.diagnosis.strength = "confirmed"
      PROVE  a.strength = "confirmed" /\ baseline.diagnosis.ids \subseteq a.cited
    BY <1>1, <1>5 DEF ContradictsBaseline
<1>6. ASSUME baseline.diagnosis # NoDiagnosis,
             Rank[a.strength] > Rank[baseline.diagnosis.strength]
      PROVE  \E i \in DOMAIN results :
                 results[i].status = "success" /\ results[i].evidence \in a.cited
  <2>1. PICK id \in a.cited : id \notin baseline.ids
      BY <1>1, <1>6 DEF ContradictsBaseline
  <2>2. QED
      BY <1>2, <1>3, <2>1, NewEvidenceIsAnswered
<1>7. QED
    BY <1>1, <1>2, <1>4, <1>5, <1>6 DEF DeterministicReportStands

LEMMA OnlyAcceptanceCompletes ==
    ASSUME RunInvariant, Next, report'.state = "completed"
    PROVE  \E a \in Assessments : ProviderConcludes(a)
<1>1. ASSUME NEW state \in {"failed", "limit_reached"}, NEW category, Finish(state, category)
      PROVE  FALSE
    BY <1>1 DEF Finish, NoReport
<1>2. ASSUME UNCHANGED report, pc # "done"
      PROVE  FALSE
    BY <1>2 DEF RunInvariant, IInv, ProgressInvariant, NoReport
<1>3. ~Workflow
    BY <1>2 DEF Workflow, WorkflowRefused, WorkflowStarts, WorkflowEnds, WorkflowReports
<1>4. ~RuntimeStep
    BY <1>1, <1>2 DEF RuntimeStep, StartRun, RejectMismatch, BuildContext, ContextUnsafe,
                      StepLimitReached, ToolAnswers, Failed, Limited
<1>5. ~CallStep
  <2>1. ASSUME NEW c \in ToolCalls,
               \/ RejectDuplicateId(c) \/ RejectRepeatedCall(c)
               \/ RefuseTool(c) \/ RefuseArguments(c) \/ ExecuteTool(c)
        PROVE  FALSE
      BY <1>1, <1>2, <2>1 DEF RejectDuplicateId, RejectRepeatedCall, RefuseTool, RefuseArguments,
                              ExecuteTool, AcceptCall, Failed
  <2>2. QED
      BY <2>1 DEF CallStep
<1>6. ~Interrupted
    BY <1>2 DEF Interrupted
<1>7. ASSUME NEW n, ProviderCallsTools(n)
      PROVE  FALSE
    BY <1>1, <1>2, <1>7 DEF ProviderCallsTools, Limited
<1>8. ~ProviderFails
    BY <1>1 DEF ProviderFails, Failed
<1>9. QED
    BY <1>3, <1>4, <1>5, <1>6, <1>7, <1>8 DEF Next, ProviderStep

(* An accepted assessment keeps the CONFIRMED findings and a CONFIRMED     *)
(* diagnosis, and exceeds the diagnosis only on evidence the run itself    *)
(* brought (AgentRuntime._validate_final).                                 *)
THEOREM ReportStands == Spec => []DeterministicReportStands
<1>1. Init => DeterministicReportStands
    BY DEF Init, NoReport, DeterministicReportStands
<1>2. RunInvariant /\ DeterministicReportStands /\ [Next]_vars => DeterministicReportStands'
  <2> SUFFICES ASSUME RunInvariant, DeterministicReportStands, [Next]_vars
               PROVE  DeterministicReportStands'
      OBVIOUS
  <2>1. CASE UNCHANGED vars
      BY <2>1 DEF vars, runVars, baselineVars, DeterministicReportStands
  <2>2. CASE Next /\ report'.state = "completed"
      BY <2>2, OnlyAcceptanceCompletes, AcceptanceStands
  <2>3. CASE report'.state # "completed"
      BY <2>3 DEF DeterministicReportStands
  <2>4. QED
      BY <2>1, <2>2, <2>3
<1>3. QED
    BY <1>1, <1>2, ResultsHold, PTL DEF Spec
=============================================================================
