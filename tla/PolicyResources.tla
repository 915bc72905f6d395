--------------------------- MODULE PolicyResources ---------------------------
(***************************************************************************)
(* Policies, the objects created for them and who owns what: the webhook   *)
(* that keeps software versions apart, the finalizer, the assets of a pass *)
(* one after the other, and the garbage collector, which takes an object   *)
(* when the policy that owns it is gone.  Objects of a policy are named    *)
(* after its version, so that policies of one version would meet in them.  *)
(*                                                                         *)
(* The operator and its webhook read policies from a cache that follows    *)
(* the API server.  Every policy has nodes; what a pass does to them is    *)
(* left out, and so is what the objects contain.                           *)
(***************************************************************************)
EXTENDS Integers, Sequences

CONSTANTS
    Policies,       \* names
    Versions,
    None,
    Crd,            \* the CustomResourceDefinition as an owner
    Scenarios       \* first states, outside events allowed

Events == {"create", "edit", "delete", "stale", "glitch", "crash"}

(* A policy without a "phase" is not there; each creation has a new uid.   *)
Instances ==
    [ phase : {"absent", "live", "dying"}, uid : Nat, version : Versions \cup {None},
      finalizer : BOOLEAN ]

Absent == [phase |-> "absent", uid |-> 0, version |-> None, finalizer |-> FALSE]

(* The NodeFeatureRule, the objects of init-tasks (accounts, roles, volume)*)
(* and, for each version, the DaemonSets and the Module, and the ConfigMap.*)
Shared == {"rule", "init"}
Kinds == {"daemon", "config"}
Objects == (Shared \X {None}) \cup (Kinds \X Versions)

ASSUME ResourcesAssumption ==
    Scenarios \subseteq [ policy : [Policies -> Instances],
                          owner : [Objects -> Nat \cup {None, Crd}],
                          budget : [Events -> Nat] ]

(* What is no policy's is told from a uid.                                 *)
ASSUME OwnersAssumption == None # Crd /\ None \notin Nat /\ Crd \notin Nat

VARIABLES
    policy,         \* the policies on the API server
    seen,           \* the operator's cache of them
    owner,          \* of every object: a policy's uid, Crd, or None: not there
    queue,          \* requests
    op,             \* the worker
    uids,           \* uids given out
    budget          \* outside events left

vars == <<policy, seen, owner, queue, op, uids, budget>>

(* The assets of a pass; the rule is also created ahead of all others.     *)
Steps == <<"rule", "init", "rule", "daemon", "config">>

Idle == [pc |-> "idle", policy |-> CHOOSE p \in Policies : TRUE, got |-> Absent, at |-> 0]

Init ==
    /\ \E s \in Scenarios : policy = s.policy /\ owner = s.owner /\ budget = s.budget
    /\ seen = policy
    /\ queue = {p \in Policies : policy[p] # Absent}
    /\ op = Idle
    /\ uids = 1

-----------------------------------------------------------------------------
(* The API server.  (An operator with a suffix after "_" is a mutated form *)
(* of the one after it: the run must find a property violated with it.)    *)

Spend(E) ==
    /\ \A e \in E : budget[e] > 0
    /\ budget' = [e \in Events |-> IF e \in E THEN budget[e] - 1 ELSE budget[e]]

(* On every creation and update, of the policies in the cache.             *)
ValidateSwVersionUniqueness_Never(p, v) == TRUE

ValidateSwVersionUniqueness_ItselfToo(p, v) == \A q \in Policies : seen[q].version # v

ValidateSwVersionUniqueness(p, v) == \A q \in Policies \ {p} : seen[q].version # v

(* A user's request that is validated while the cache is behind.           *)
Admitted(e, p, v) ==
    /\ ValidateSwVersionUniqueness(p, v)
    /\ Spend(IF seen = policy THEN {e} ELSE {e, "stale"})

CreatePolicy(p, v) ==
    /\ policy[p] = Absent /\ Admitted("create", p, v)
    /\ uids' = uids + 1
    /\ policy' = [policy EXCEPT ![p] =
          [phase |-> "live", uid |-> uids', version |-> v, finalizer |-> FALSE]]
    /\ UNCHANGED <<seen, owner, queue, op>>

EditVersion(p, v) ==
    /\ policy[p].phase = "live" /\ policy[p].version # v /\ Admitted("edit", p, v)
    /\ policy' = [policy EXCEPT ![p].version = v]
    /\ UNCHANGED <<seen, owner, queue, op, uids>>

DeletePolicy(p) ==
    /\ policy[p].phase = "live" /\ Spend({"delete"})
    /\ policy' = [policy EXCEPT ![p] = IF @.finalizer THEN [@ EXCEPT !.phase = "dying"] ELSE Absent]
    /\ UNCHANGED <<seen, owner, queue, op, uids>>

(* The cache learns of a policy; its event is a request.                   *)
Observe(p) ==
    /\ seen[p] # policy[p]
    /\ seen' = [seen EXCEPT ![p] = policy[p]]
    /\ queue' = queue \cup {p}
    /\ UNCHANGED <<policy, owner, op, uids, budget>>

(* An owner that is no policy any more, and what it leaves behind.         *)
Gone(u) == u \notin {None, Crd} \cup {policy[p].uid : p \in Policies}

Collect(o) ==
    /\ Gone(owner[o])
    /\ owner' = [owner EXCEPT ![o] = None]
    /\ UNCHANGED <<policy, seen, queue, op, uids, budget>>

-----------------------------------------------------------------------------
(* The operator.                                                           *)

Me == op.policy
Ends == op' = Idle
Requeue == Ends /\ queue' = queue \cup {Me}

Take(p) ==
    /\ op.pc = "idle" /\ p \in queue
    /\ queue' = queue \ {p}
    /\ LET next == CASE seen[p].phase = "live" -> IF seen[p].finalizer THEN "create" ELSE "register"
                     [] seen[p].phase = "dying" /\ seen[p].finalizer -> "release"
                     [] OTHER -> "idle"
       IN  op' = IF next = "idle" THEN Idle ELSE [pc |-> next, policy |-> p, got |-> seen[p], at |-> 1]
    /\ UNCHANGED <<policy, seen, owner, uids, budget>>

(* An update of the policy as it was read; refused if it has changed since *)
(* or if the webhook objects.                                              *)
Accepted(p, read) == policy[p] = read /\ ValidateSwVersionUniqueness(p, read.version)

AddFinalizer ==
    /\ op.pc = "register"
    /\ IF Accepted(Me, op.got)
       THEN /\ policy' = [policy EXCEPT ![Me].finalizer = TRUE]
            /\ op' = [op EXCEPT !.pc = "create"]
            /\ UNCHANGED queue
       ELSE Requeue /\ UNCHANGED policy
    /\ UNCHANGED <<seen, owner, uids, budget>>

(* Who owns an object after the pass of policy uid has been at it.  The    *)
(* objects of init-tasks are the CRD's, also if an earlier operator had    *)
(* made the policy their owner; the rule, a DaemonSet or a Module stays    *)
(* with the owner it has; the ConfigMap is written over, owner and all.    *)
OwnerOfInitTask(uid, has) == IF has \in {None, uid} THEN Crd ELSE has
OwnerOfRule(uid, has) == IF has = None THEN uid ELSE has
OwnerOfWorkload(uid, has) == IF has = None THEN uid ELSE has
OwnerOfConfigMap(uid, has) == uid

Owner(k, uid, has) ==
    CASE k = "init"   -> OwnerOfInitTask(uid, has)
      [] k = "rule"   -> OwnerOfRule(uid, has)
      [] k = "daemon" -> OwnerOfWorkload(uid, has)
      [] k = "config" -> OwnerOfConfigMap(uid, has)

Object(k, v) == <<k, IF k \in Shared THEN None ELSE v>>

createKindResource ==
    /\ op.pc = "create" /\ op.at <= Len(Steps)
    /\ LET k == Steps[op.at]
           o == Object(k, op.got.version)
       IN  owner' = [owner EXCEPT ![o] = Owner(k, op.got.uid, @)]
    /\ op' = [op EXCEPT !.at = @ + 1]
    /\ UNCHANGED <<policy, seen, queue, uids, budget>>

(* A failure to write over the ConfigMap goes unnoticed.                   *)
UpdateIsLost ==
    /\ op.pc = "create" /\ op.at = Len(Steps)
    /\ owner[Object("config", op.got.version)] # None
    /\ Spend({"glitch"})
    /\ op' = [op EXCEPT !.at = @ + 1]
    /\ UNCHANGED <<policy, seen, owner, queue, uids>>

(* The pods of an asset take too long: the pass is over.                   *)
PodsNotReady ==
    /\ op.pc = "create" /\ op.at > 1 /\ Steps[op.at - 1] \in Kinds
    /\ Requeue
    /\ UNCHANGED <<policy, seen, owner, uids, budget>>

(* A policy becomes Operational once the pods of its objects have judged   *)
(* its nodes; what the collector is about to take has no such pods.        *)
Stands(v) == \A k \in Kinds : owner[<<k, v>>] # None /\ ~Gone(owner[<<k, v>>])

Finish ==
    /\ op.pc = "create" /\ op.at > Len(Steps)
    /\ IF Stands(op.got.version) THEN Ends /\ UNCHANGED queue ELSE Requeue
    /\ UNCHANGED <<policy, seen, owner, uids, budget>>

(* The labels of a deleted policy's nodes are cleaned up, then its         *)
(* finalizer is removed from the policy as it is read again.               *)
deletePolicyOwnedResources ==
    /\ op.pc = "release"
    /\ op' = [op EXCEPT !.pc = "unregister"]
    /\ UNCHANGED <<policy, seen, owner, queue, uids, budget>>

RemoveFinalizer ==
    /\ op.pc = "unregister"
    /\ IF Accepted(Me, seen[Me])
       THEN policy' = [policy EXCEPT ![Me] = Absent] /\ Ends /\ UNCHANGED queue
       ELSE Requeue /\ UNCHANGED policy
    /\ UNCHANGED <<seen, owner, uids, budget>>

ApiFails ==
    /\ op.pc # "idle" /\ Spend({"glitch"})
    /\ Requeue
    /\ UNCHANGED <<policy, seen, owner, uids>>

(* A new process fills its cache and gets a request for every policy.      *)
OperatorCrashes ==
    /\ Spend({"crash"})
    /\ seen' = policy /\ queue' = {p \in Policies : policy[p] # Absent} /\ Ends
    /\ UNCHANGED <<policy, owner, uids>>

WorkerStep ==
    \/ AddFinalizer \/ createKindResource \/ PodsNotReady \/ Finish
    \/ deletePolicyOwnedResources \/ RemoveFinalizer

Next ==
    \/ \E p \in Policies : \/ \E v \in Versions : CreatePolicy(p, v) \/ EditVersion(p, v)
                           \/ DeletePolicy(p) \/ Observe(p) \/ Take(p)
    \/ \E o \in Objects : Collect(o)
    \/ WorkerStep \/ UpdateIsLost \/ ApiFails \/ OperatorCrashes

Spec == Init /\ [][Next]_vars

(* The worker steps and comes to every request in its turn, the cache      *)
(* follows, the collector collects.  Nothing is assumed of users.          *)
Fairness ==
    /\ WF_vars(WorkerStep)
    /\ \A p \in Policies : SF_vars(Take(p)) /\ WF_vars(Observe(p))
    /\ \A o \in Objects : WF_vars(Collect(o))

FairSpec == Spec /\ Fairness
=============================================================================
