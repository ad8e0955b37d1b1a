--------------------------- MODULE RepairPromise ---------------------------
(***************************************************************************)
(* What a repair task promises its user: a candidate is certified as a     *)
(* whole, only the certified candidate ever reaches the target repository, *)
(* and a task that is closed stays as it was closed.                       *)
(***************************************************************************)
CONSTANTS Contents, None

VARIABLES
    candidate,  \* the certified content, or None
    target,     \* what /apply brought to the target repository, or None
    outcome     \* "open", "applied" or "discarded"

vars == <<candidate, target, outcome>>

Init == candidate = None /\ target = None /\ outcome = "open"

Certify(c) ==
    /\ outcome = "open" /\ target = None
    /\ candidate' = c
    /\ UNCHANGED <<target, outcome>>

Withdraw ==
    /\ outcome = "open"
    /\ candidate' = None
    /\ UNCHANGED <<target, outcome>>

Apply ==
    /\ outcome = "open" /\ candidate # None /\ target = None
    /\ target' = candidate
    /\ UNCHANGED <<candidate, outcome>>

Close ==
    /\ outcome = "open" /\ candidate # None /\ target = candidate
    /\ outcome' = "applied"
    /\ UNCHANGED <<candidate, target>>

Discard ==
    /\ outcome = "open"
    /\ outcome' = "discarded" /\ candidate' = None
    /\ UNCHANGED target

Next == (\E c \in Contents : Certify(c)) \/ Withdraw \/ Apply \/ Close
        \/ Discard

Spec == Init /\ [][Next]_vars
=============================================================================
