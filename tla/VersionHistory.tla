---------------------------- MODULE VersionHistory ----------------------------
(***************************************************************************)
(* What the operator promises about the software of one node, whatever the *)
(* number of label writes it takes: which version the node is at, which    *)
(* one it can go back to, and what is known of the version it is at.       *)
(* A verdict is about one version: it is never carried over to another.    *)
(***************************************************************************)
CONSTANTS Policies, None

VARIABLES
    active,     \* the policy, and so the version, the node is at
    prior,      \* the one a failed upgrade returns to
    verdict     \* what the boot of the active version came to

historyVars == <<active, prior, verdict>>

Init == active = None /\ prior = None /\ verdict = "pending"

(* A node without a version takes its first one: nothing to go back to.    *)
Adopt(p) ==
    /\ active = None /\ verdict = "pending"
    /\ active' = p /\ prior' = None
    /\ UNCHANGED verdict

(* An upgrade leaves the version behind as the one to return to.           *)
Upgrade(p) ==
    /\ active \notin {None, p} /\ verdict = "pending"
    /\ active' = p /\ prior' = active
    /\ UNCHANGED verdict

(* A rollback returns once: there is no version before the prior one.      *)
RollBack ==
    /\ active # None /\ prior # None /\ verdict = "pending"
    /\ active' = prior /\ prior' = None
    /\ UNCHANGED verdict

Judge ==
    /\ active # None /\ verdict = "pending"
    /\ verdict' \in {"good", "bad"}
    /\ UNCHANGED <<active, prior>>

(* A move, a rollback or a reboot reopens the question.                    *)
Reopen ==
    /\ verdict # "pending" /\ verdict' = "pending"
    /\ UNCHANGED <<active, prior>>

(* The node is isolated, or its policy deleted.                            *)
Withdraw ==
    /\ active # None
    /\ active' = None /\ prior' = None /\ verdict' = "pending"

Next ==
    \/ \E p \in Policies : Adopt(p) \/ Upgrade(p)
    \/ RollBack \/ Judge \/ Reopen \/ Withdraw

Spec == Init /\ [][Next]_historyVars
=============================================================================
