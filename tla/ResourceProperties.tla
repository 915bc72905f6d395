------------------------- MODULE ResourceProperties -------------------------
(* What makes PolicyResources correct.                                     *)
EXTENDS PolicyResources

(* Nothing is under way, and the cache and the collector have caught up.   *)
Quiet ==
    /\ op.pc = "idle" /\ queue = {} /\ seen = policy
    /\ \A o \in Objects : ~Gone(owner[o])

(* When all is quiet, every policy has its objects: the deletion of another*)
(* one, at any moment, has not taken them along.  The unique version is    *)
(* what this rests on (ValidateSwVersionUniqueness, SetControllerReference,*)
(* getUniqueNameForResource).                                              *)
AssetsStand ==
    Quiet => \A p \in Policies : policy[p].phase = "live" => Stands(policy[p].version)

(* Two policies of one version, admitted when the cache was behind: each   *)
(* now refuses every update of the other, that of its finalizer included.  *)
Clash(p) == \E q \in Policies \ {p} : policy[q].version = policy[p].version

(* No two policies that are there have one version.                        *)
VersionsApart ==
    \A p \in Policies : \A q \in Policies \ {p} :
        policy[p].phase # "absent" /\ policy[q].phase # "absent"
            => policy[p].version # policy[q].version

(* A policy that is deleted goes away, whatever conflicts and failures meet*)
(* the update that removes its finalizer ("so that it can be retried"):    *)
(* all that may keep it is another policy of its version.                  *)
DeletedPolicyGoes ==
    \A p \in Policies : policy[p].phase = "dying" ~> (policy[p].phase # "dying" \/ Clash(p))

(* "NFD resources need to be available beforehand": as long as there are   *)
(* policies, their rule is there when all is quiet.  Violated: the rule is *)
(* owned by the policy that created it first and goes with it, and nothing *)
(* makes the operator look after the policies that are left.               *)
RuleStays ==
    Quiet /\ (\E p \in Policies : policy[p].phase = "live") => owner[Object("rule", None)] # None
=============================================================================
