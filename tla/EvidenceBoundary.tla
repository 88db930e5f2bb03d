-------------------------- MODULE EvidenceBoundary --------------------------
(***************************************************************************)
(* What an investigation promises its reader, whoever the AI provider is   *)
(* and however the tools behave: observations only accumulate; the         *)
(* deterministic conclusion is fixed once, over what was observed by then; *)
(* and at most one assessment is published, over observations made by then *)
(* and compatible with the fixed conclusion.  After that nothing changes.  *)
(***************************************************************************)
EXTENDS Naturals, FiniteSets

CONSTANTS Unset,        \* the conclusion is not fixed yet
          NoDiagnosis,  \* the fixed conclusion has no diagnosis
          Rank          \* the order of diagnosis strengths

VARIABLES
    observed,    \* identifiers of the observations made so far
    conclusion,  \* the deterministic conclusion, or Unset
    verdict      \* "none", or the published assessment

boundaryVars == <<observed, conclusion, verdict>>

(* An assessment that does not bend the deterministic conclusion d.        *)
Compatible(a, d) ==
    /\ d.confirmed \subseteq a.cited
    /\ d.diagnosis # NoDiagnosis =>
        /\ d.diagnosis.strength = "confirmed" =>
            a.strength = "confirmed" /\ d.diagnosis.ids \subseteq a.cited
        /\ Rank[a.strength] > Rank[d.diagnosis.strength] => ~(a.cited \subseteq d.ids)

Observe ==
    /\ verdict = [strength |-> "none", cited |-> {}]
    /\ \E id \in observed' \ observed : observed' = observed \cup {id}
    /\ UNCHANGED <<conclusion, verdict>>

Fix ==
    /\ conclusion = Unset
    /\ conclusion' # Unset
    /\ conclusion'.ids = observed
    /\ conclusion'.confirmed \subseteq observed
    /\ conclusion'.diagnosis # NoDiagnosis => conclusion'.diagnosis.ids \subseteq observed
    /\ UNCHANGED <<observed, verdict>>

Publish ==
    /\ conclusion # Unset
    /\ verdict = [strength |-> "none", cited |-> {}]
    /\ verdict'.strength # "none"
    /\ verdict'.cited \subseteq observed
    /\ verdict'.strength # "insufficient" => verdict'.cited # {}
    /\ Compatible(verdict', conclusion)
    /\ UNCHANGED <<observed, conclusion>>

Init ==
    /\ observed = {}
    /\ conclusion = Unset
    /\ verdict = [strength |-> "none", cited |-> {}]

Next == Observe \/ Fix \/ Publish

Spec == Init /\ [][Next]_boundaryVars
=============================================================================
