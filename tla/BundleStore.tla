----------------------------- MODULE BundleStore -----------------------------
(***************************************************************************)
(* What the Codex token store promises, however a bundle is cut into       *)
(* keyring records: one bundle is active, or none; a new one becomes       *)
(* active whole, in one step; the active one only stops being readable     *)
(* because its removal was asked for; and a removed one never comes back.  *)
(***************************************************************************)
EXTENDS Naturals

CONSTANTS None, Damaged

VARIABLES
    active,   \* the active bundle, None, or Damaged by an unfinished removal
    leaving   \* the bundles whose removal was asked for

storeVars == <<active, leaving>>

Init == active # Damaged /\ leaving = {}

Activate ==
    /\ active' \notin leaving \cup {None, Damaged}
    /\ UNCHANGED leaving

AskRemoval == \E bundle \in leaving' : leaving' = leaving \cup {bundle} /\ UNCHANGED active

Break ==
    /\ active \in leaving
    /\ active' = Damaged
    /\ UNCHANGED leaving

Clear ==
    /\ leaving # {}
    /\ active' = None
    /\ UNCHANGED leaving

Next == Activate \/ AskRemoval \/ Break \/ Clear

Spec == Init /\ [][Next]_storeVars
=============================================================================
