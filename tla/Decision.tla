------------------------------ MODULE Decision ------------------------------
(***************************************************************************)
(* What the approval engine promises of a request, whatever its calls do   *)
(* concurrently: it is opened once; its votes reach at most one verdict,   *)
(* which never changes; what resolves it is that verdict or a break-glass. *)
(* A break-glass overrides a verdict.  It is not final itself: a verdict   *)
(* of "denied" whose vote was under way may still overrule it, and only    *)
(* that.                                                                   *)
(***************************************************************************)
CONSTANT Requests

VARIABLES
    outcome,     \* outcome[r]: none, pending, approved, denied, forced or overruled
    reached      \* reached[r]: the verdict of the votes, none until there is one

vars == <<outcome, reached>>

Init == /\ outcome = [r \in Requests |-> "none"]
        /\ reached = [r \in Requests |-> "none"]

Open(r)  == /\ outcome[r] = "none"
            /\ outcome' = [outcome EXCEPT ![r] = "pending"]
            /\ UNCHANGED reached

Reach(r) == /\ outcome[r] \in {"pending", "forced"}
            /\ reached[r] = "none"
            /\ \E v \in {"approved", "denied"} : reached' = [reached EXCEPT ![r] = v]
            /\ UNCHANGED outcome

Decide(r) == /\ outcome[r] = "pending"
             /\ reached[r] # "none"
             /\ outcome' = [outcome EXCEPT ![r] = reached[r]]
             /\ UNCHANGED reached

Overrule(r) == /\ outcome[r] = "forced"
               /\ reached[r] = "denied"
               /\ outcome' = [outcome EXCEPT ![r] = "overruled"]
               /\ UNCHANGED reached

Force(r) == /\ outcome[r] # "none"
            /\ outcome' = [outcome EXCEPT ![r] = "forced"]
            /\ UNCHANGED reached

Next == \E r \in Requests : Open(r) \/ Reach(r) \/ Decide(r) \/ Overrule(r) \/ Force(r)

Spec == Init /\ [][Next]_vars
=============================================================================
