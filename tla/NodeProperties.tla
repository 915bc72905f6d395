---------------------------- MODULE NodeProperties ----------------------------
(***************************************************************************)
(* What makes NodeLifecycle correct: invariants, action properties, the    *)
(* abstract history of versions it implements, and what it must eventually *)
(* do under the fairness that the operator's scheduling gives.             *)
(***************************************************************************)
EXTENDS NodeLifecycle

(* The pods of a component are gone, or at least run nothing.              *)
NothingRuns == \A c \in Comps, q \in Policies : pods[c][q] \in {"none", "failed"}

-----------------------------------------------------------------------------
(* The history of versions.                                                *)

(* The version label, which every DaemonSet and Module selects on, always  *)
(* names the version of the policy in activeCR: several handlers write the *)
(* two from maps read at different times.                                  *)
VersionFollowsPolicy == labels.sw = labels.active

(* priorCR never names the policy the node is at: a rollback to it would   *)
(* tear the node down to bring the failed version up again.                *)
PriorNeverActive == labels.active # None => labels.prior # labels.active

(* The node's labels, over all the writes of all the flows, are a history  *)
(* of versions: adopted, upgraded, rolled back at most once, judged one    *)
(* version at a time (adoption, updateSwVersionLabels, rollbackHandler,    *)
(* markHealthCheckedforCurrentCR and the clean-ups).                       *)
History == INSTANCE VersionHistory WITH
    active <- labels.active,
    prior <- labels.prior,
    verdict <- IF ~Has("bootStatusMarked") THEN "pending"
               ELSE IF labels.boot = "true" THEN "good" ELSE "bad"

ImplementsHistory == History!Spec

-----------------------------------------------------------------------------
(* The labels of different flows.                                          *)

(* Once the boot status is marked no upgrade, rollback, first adoption or  *)
(* reboot recovery is still on: its label would let the next reconcile     *)
(* resume it against a node that has already been judged.                  *)
VerdictEndsWork ==
    Has("bootStatusMarked") =>
        labels.flags \cap ((InProgress \ {"teardownCompleted"}) \cup {"rollingBackUpgrade"}) = {}

(* A node is sent to rollback only on a verdict, and that verdict is that  *)
(* its cards did not boot.                                                 *)
FailureIsAVerdict ==
    Has("swUpgradeFailed") => Has("bootStatusMarked") /\ labels.boot = "false"

(* A node on its way back carries no boot status of the version it leaves, *)
(* which would be taken for that of the version it returns to.             *)
RollbackStartsClean == Has("rollingBackUpgrade") => labels.boot = "absent"

(* The marks of two flows never meet: a recovery from reboot is not also   *)
(* an upgrade, nor a rolled-back node still failed or rolling back.        *)
OneFlowAtATime ==
    /\ ~(Has("rebooted") /\ Has("upgrading"))
    /\ ~(Has("rolledBack") /\ (Has("swUpgradeFailed") \/ Has("rollingBackUpgrade")))

(* A node withdrawn from service (isolated) keeps nothing that could bring *)
(* it, or one of its pods, back: no policy, no move, no selector.          *)
WithdrawnIsBare ==
    labels.present = "false" =>
        labels.active = None /\ labels.blocked = None /\ labels.sel = {}

(* AutoIsolation is for nodes that took too long to reach a verdict, never *)
(* for one whose verdict is in (testAndSetX100NodeAsIsolated), as long as  *)
(* the timers leave the node with the verdict: an annotation write that    *)
(* fails is only logged, and its timer then expires on the judged node.    *)
JudgedNodeNotIsolated ==
    [][ op.pc = "isolate" /\ op'.pc = "label" /\ ~labels.isolate /\ labels'.isolate
            => ~Has("bootStatusMarked") ]_vars

(* A node whose policy is gone is moving to another one: the policy's      *)
(* deletion has released every other node.                                 *)
DeletedPolicyReleasesNode ==
    labels.active # None /\ labels.active \notin policies => labels.blocked # None

(* The last policy to be deleted leaves no trace of the operator.          *)
NothingLeftBehind ==
    policies = {} =>
        /\ labels.active = None /\ labels.prior = None /\ labels.blocked = None
        /\ labels.sel = {} /\ labels.flags = {} /\ labels.present # "true"

-----------------------------------------------------------------------------
(* Selectors and pods.                                                     *)

(* Selectors are set in creation order and removed from the last one back; *)
(* only a reboot takes the kernel modules from the middle.                 *)
SelectorsInOrder ==
    ~Has("rebooted") => \A c \in labels.sel : Earlier(c) \subseteq labels.sel

(* The firmware selector is the last to go: the teardown's order is the    *)
(* reverse of the creation order.  The "Sequence for deletion", of which   *)
(* no code takes the order, and the comment above the teardown name        *)
(* another one, firmware before HW manager and kernel modules.             *)
FirmwareLeavesLast ==
    [][ "firmware" \in labels.sel \ labels'.sel => labels'.sel = {} ]_vars

(* "Preferably observe status of current resource deletion before          *)
(* sequencing further": while a node is in service, whatever takes a       *)
(* selector away has seen the pods created after that one go.  A reboot    *)
(* has the kernel modules pulled from under the others.                    *)
RemovedInSequence ==
    [][ labels'.present = "true" /\ "rebooted" \notin labels'.flags =>
            \A c \in labels.sel \ labels'.sel, d \in Comps, q \in Policies :
                Position[d] > Position[c] => pods[d][q] # "up" ]_vars

(* A node whose boot has been judged, healthy or not, has all of its       *)
(* component pods selected once the worker is back at rest, unless it is   *)
(* already moving to another policy or its own is being deleted.           *)
JudgedNodeIsComplete ==
    Has("bootStatusMarked") /\ labels.present = "true" /\ op.pc = "idle"
    /\ labels.blocked = None /\ labels.active \notin deleting
        => labels.sel = Comps

(* "Sequence for creation of resources is maintained through the labels":  *)
(* a pod is created only beside the pods it depends on.                    *)
CreatedInSequence ==
    [][ \A c \in Comps, q \in Policies :
            pods[c][q] = "none" /\ pods'[c][q] # "none"
                => \A d \in Earlier(c) : pods[d][q] # "none" ]_vars

(* No two software versions run on a node: whatever is still there of one  *)
(* version, nothing of another one is up.                                  *)
OneVersionOnNode ==
    \A q, r \in Policies : q # r =>
        \A c, d \in Comps : ~(pods[c][q] # "none" /\ pods[d][r] = "up")

(* The version changes hands, by upgrade or by rollback, only when nothing *)
(* of the old one runs any more.                                           *)
VersionChangesWhenTornDown ==
    [][ labels.active # None /\ labels'.active \notin {None, labels.active} => NothingRuns ]_vars

-----------------------------------------------------------------------------
(* The inductive invariant.  A label map may be written back long after it *)
(* was read, so what the labels must satisfy is required of every map the  *)
(* worker holds; what a handler relies on at its place in the code is tied *)
(* to that place.                                                          *)

VersionOK(l) == l.sw = l.active /\ (l.active # None => l.prior # l.active)

VerdictOK(l) ==
    /\ "bootStatusMarked" \in l.flags =>
          l.flags \cap ((InProgress \ {"teardownCompleted"}) \cup {"rollingBackUpgrade"}) = {}
    /\ "swUpgradeFailed" \in l.flags => "bootStatusMarked" \in l.flags /\ l.boot = "false"
    /\ "rollingBackUpgrade" \in l.flags => l.boot = "absent"

FlowsOK(l) ==
    /\ ~("rebooted" \in l.flags /\ "upgrading" \in l.flags)
    /\ "rolledBack" \in l.flags => l.flags \cap {"swUpgradeFailed", "rollingBackUpgrade"} = {}

BareOK(l) ==
    /\ l.active = None => "bootStatusMarked" \notin l.flags /\ l.blocked = None
    /\ l.present = "false" => l.active = None /\ l.sel = {}
    /\ "firmware" \notin l.sel => l.sel = {}

MapOK(l) == VersionOK(l) /\ VerdictOK(l) /\ FlowsOK(l) /\ BareOK(l)

(* Where the worker is: adopting, rolling back, in the loop over policies. *)
Adopting == op.pc = "adopt" \/ (op.pc = "enable" /\ op.then = "adopt")

RollingBack ==
    \/ op.pc \in {"toPrior", "fromPolicy", "restore", "rolledBackLabel"}
    \/ op.pc \in {"list", "drain", "torn"} /\ op.flow = "rollback"

Looping ==
    \/ op.pc \in {"rollback", "loop", "block", "upgrading", "rolledBack", "switch"}
    \/ op.pc \in {"list", "drain"} /\ op.flow = "upgrade"
    \/ op.pc = "enable" /\ op.then \in {"loop", "rolledBack"}

Recovering == op.pc \in {"list", "drain", "torn"} /\ op.flow = "reboot"

Working == Adopting \/ RollingBack \/ Looping \/ Recovering \/ op.pc = "enable"

PlaceOK ==
    /\ op.pc # "idle" => Me \in policies
    /\ op.pc = "torn" => op.flow # "upgrade"
    /\ RollingBack => op.prior \in policies

WorkerOK ==
    /\ op.pc = "drain" => \A c \in labels.sel : Position[c] <= Position[op.at]
    /\ Working => labels.present = "true"
    /\ Adopting => op.snap.active = None /\ op.snap.present = "true"
    /\ RollingBack => op.rsnap.present = "true"
    /\ RollingBack \/ Looping =>
          /\ "rebooted" \notin labels.flags /\ "rebooted" \notin op.snap.flags
          /\ op.snap.active # None /\ op.snap.present = "true"
    /\ "rebooted" \notin op.rsnap.flags
    /\ Recovering => op.then = "status"
    /\ op.then = "adopt" => op.pc \in {"enable", "adopt"}

TypeInv == TypeOK /\ PlaceOK

LifecycleInv ==
    TypeInv /\ MapOK(labels) /\ MapOK(op.snap) /\ MapOK(op.rsnap) /\ WorkerOK

-----------------------------------------------------------------------------
(* Fairness.  The worker keeps stepping, the workqueue comes back to every *)
(* policy, and the retry loop of Reconcile is bounded, so that every pass  *)
(* ends.  The assets become ready, so that a pass often enough gets to the *)
(* boot status, and the cards' status is known in the end (a status that   *)
(* stays unknown is a failure after the health check's grace period).      *)
(* Nothing is assumed of users, faults or the order of policies.           *)
PassEnds == OperatorStep /\ op.pc # "idle" /\ op'.pc = "idle"
LookAtBoot(p) == AfterLabels /\ Me = p /\ op'.pc = "boot"
BootKnown == ReadBootStatus /\ labels'.boot \in {"true", "false"}

FairSpec ==
    /\ Spec
    /\ WF_vars(OperatorStep) /\ SF_vars(PassEnds)
    /\ \A p \in Policies : /\ SF_vars(Reconcile(p) \/ ReconcileDeletion(p))
                           /\ SF_vars(LookAtBoot(p))
    /\ SF_vars(BootKnown)
    /\ WF_vars(NodeComesUp)
    /\ \A c \in Comps, q \in Policies : WF_vars(PodStep(c, q))

(* Every node that a user gives to a policy ends up judged, complete, under*)
(* one policy and no longer moving, and stays so.                          *)
Settled ==
    /\ Has("bootStatusMarked") /\ labels.sel = Comps
    /\ listedBy = {labels.active} /\ labels.blocked = None

Converges == <>(listedBy # {}) => <>[]Settled

(* An upgrade comes to its end, by a verdict or by a rollback.             *)
UpgradeFinishes == Has("upgrading") ~> ~Has("upgrading")

(* A rollback that has begun comes to its end.                             *)
RollbackFinishes == Has("rollingBackUpgrade") ~> ~Has("rollingBackUpgrade")

(* A node that had a version when it rebooted recovers from the reboot.    *)
AdoptedNodeRecovers ==
    Has("rebooted") /\ labels.active # None /\ ~Has("enablingFirstPolicy")
        ~> ~Has("rebooted")

(* A policy that is deleted goes away, once the node's pods are gone.      *)
DeletionFinishes == \A p \in Policies : p \in deleting ~> p \notin policies

(* "Reboot path handling": a node recovers from every reboot, whenever it  *)
(* comes.  Violated: the code never gets a node out of a reboot that came  *)
(* before its first adoption.                                              *)
RebootRecovers == Has("rebooted") ~> ~Has("rebooted")
=============================================================================
