---------------------------- MODULE EvidencePromise ----------------------------
(***************************************************************************)
(* What the evidence ledger of a task promises to the tools that rely on   *)
(* it, whatever interrupts the process that writes it: a record is never   *)
(* lost and changes only in the four ways below, a new goal begins with no *)
(* active record of an earlier one, and at most one reproduction is the    *)
(* active one.  EvidenceLedger implements this module.                     *)
(***************************************************************************)
EXTENDS Naturals

CONSTANTS
    Ids,            \* the identities a record can have
    Reproductions   \* those of reproductions, a subset of Ids

VARIABLES
    status,     \* the status of every record, "none" before its first capture
    goal        \* the number of repair goals begun

promiseVars == <<status, goal>>

Statuses == {"none", "active", "stale", "superseded"}

PromiseInit ==
    /\ status = [i \in Ids |-> "none"]
    /\ goal = 0

Active(i) == status[i] = "active"

(* A reproduction becomes active only when no other one is.                *)
Capture(i) ==
    /\ ~ Active(i)
    /\ i \in Reproductions => \A r \in Reproductions : ~ Active(r)
    /\ status' = [status EXCEPT ![i] = "active"]
    /\ UNCHANGED goal

(* Only an active record leaves the active ones, and for ever unless the   *)
(* same fact is captured again.                                            *)
Retire(i, as) ==
    /\ Active(i)
    /\ status' = [status EXCEPT ![i] = as]
    /\ UNCHANGED goal

NewGoal ==
    /\ \A i \in Ids : ~ Active(i)
    /\ goal' = goal + 1
    /\ UNCHANGED status

PromiseNext ==
    \/ \E i \in Ids : Capture(i)
    \/ \E i \in Ids, as \in {"stale", "superseded"} : Retire(i, as)
    \/ NewGoal

PromiseSpec == PromiseInit /\ [][PromiseNext]_promiseVars

--------------------------------------------------------------------------------

PromiseTypeOK ==
    /\ status \in [Ids -> Statuses]
    /\ goal \in Nat

(* At most one reproduction is the one a verification replays.             *)
OneReproduction ==
    \A r, q \in Reproductions : Active(r) /\ Active(q) => r = q
================================================================================
