-------------------------- MODULE EvidenceCollector --------------------------
(***************************************************************************)
(* The evidence boundary on top of the Broker: EvidenceCollector.collect   *)
(* invokes one tool, EvidenceFactory turns the sanitized result into an    *)
(* envelope, and the in-memory store accepts the envelope or not.  Every   *)
(* failure on the way becomes a typed observation, never an exception.     *)
(*                                                                         *)
(* The store is a sequence of operations in insertion order, one per       *)
(* envelope; an evidence identifier is a position of it (uuid4 identifiers *)
(* are never reused).  All envelopes belong to one investigation, as in    *)
(* every workflow that builds its own store.                               *)
(***************************************************************************)
EXTENDS ToolBroker

CONSTANT EvidenceOperations   \* operations the factory has a payload type for

VARIABLES
    store,        \* operation of every envelope the store accepted, oldest first
    observation   \* what the last collect() returned

collectorVars == <<brokerVars, store, observation>>

EvidenceIds == DOMAIN store

FactoryErrors == {"UnsupportedEvidenceOperationError", "InvalidEvidenceResultError"}
StoreErrors == {"UnsafeEvidenceError"}
CollectionErrors == BrokerErrors \cup FactoryErrors \cup StoreErrors

(* No exception has the name that stands for "no error".                  *)
ASSUME CollectorAssumption == "none" \notin CollectionErrors

(* evidence is 0 in a failure; error is "none" in a success.               *)
Observations == [evidence : Nat, error : CollectionErrors \cup {"none"}]
Failure(error) == [evidence |-> 0, error |-> error]
Stored(id) == [evidence |-> id, error |-> "none"]

BrokerArguments(device, destination) ==
    [device |-> device, destination |-> destination, unexpected |-> FALSE]

-----------------------------------------------------------------------------
(* collect(), first half: up to the driver handler.  A refused call is a   *)
(* failure observation at once.                                            *)
CollectRefused(operation, device, destination) ==
    /\ Deny(operation, BrokerArguments(device, destination))
    /\ observation' = Failure(Outcome)
    /\ UNCHANGED store

CollectStarts(operation, device, destination) ==
    /\ StartHandler(operation, BrokerArguments(device, destination))
    /\ UNCHANGED <<store, observation>>

(* collect(), second half: the handler has ended; conversion and storage   *)
(* follow without another await.                                           *)
BrokerFails ==
    /\ HandlerEnds
    /\ Outcome # "success"
    /\ observation' = Failure(Outcome)
    /\ UNCHANGED store

ConversionFails ==
    /\ HandlerEnds
    /\ Outcome = "success"
    /\ observation' = Failure(IF call.tool \in EvidenceOperations
                             THEN "InvalidEvidenceResultError"
                             ELSE "UnsupportedEvidenceOperationError")
    /\ UNCHANGED store

StorageFails ==
    /\ HandlerEnds
    /\ Outcome = "success"
    /\ call.tool \in EvidenceOperations
    /\ observation' = Failure("UnsafeEvidenceError")
    /\ UNCHANGED store

(* Mutant: a result whose audit event was lost is stored all the same.     *)
EvidenceStored_SinkIgnored ==
    /\ HandlerReturns
    /\ call.tool \in EvidenceOperations
    /\ store' = Append(store, call.tool)
    /\ observation' = Stored(Len(store'))

EvidenceStored ==
    /\ HandlerEnds
    /\ Outcome = "success"
    /\ call.tool \in EvidenceOperations
    /\ store' = Append(store, call.tool)
    /\ observation' = Stored(Len(store'))

CollectEnds ==
    \/ BrokerFails
    \/ ConversionFails
    \/ StorageFails
    \/ EvidenceStored

CollectCancelled == HandlerCancelled /\ UNCHANGED <<store, observation>>

CollectorTypeOK ==
    /\ BrokerTypeOK
    /\ store \in Seq(Names)
    /\ observation \in Observations
=============================================================================
