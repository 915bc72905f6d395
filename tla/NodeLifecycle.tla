--------------------------- MODULE NodeLifecycle ---------------------------
(***************************************************************************)
(* The life of one node with X100 cards under the operator.                *)
(*                                                                         *)
(* The single reconcile worker takes a policy and passes over the node:    *)
(* reboot scan, isolation, x100.present label, node list aggregation, then *)
(* ONE of first adoption, recovery after a reboot, rollback or upgrade, and*)
(* at the end the boot status and the verdict on it.  Every step below is  *)
(* one read of the node followed by one write, so users, Node Feature      *)
(* Discovery, the kubelet and the DaemonSet and KMM controllers act        *)
(* between any two of them, the operator may crash there and the call to   *)
(* the API server that a step makes may fail.                              *)
(*                                                                         *)
(* "op" is the worker's stack: where it is and the label maps it read      *)
(* earlier and still holds.  Everything else survives a crash.             *)
(***************************************************************************)
EXTENDS X100Labels

CONSTANTS
    RollbackOn,     \* policies with Spec.EnableRollback
    AutoIsolation,  \* policies with Spec.AutoIsolation
    Budgets         \* how often each outside event may happen: the scenarios

Faults == {"move", "delete", "isolate", "flap", "reboot", "podfail",
           "timeout", "crash", "apifail"}

ASSUME ConstantsAssumption ==
    /\ RollbackOn \subseteq Policies
    /\ AutoIsolation \subseteq Policies
    /\ Budgets \subseteq [Faults -> Nat]

VARIABLES
    policies,   \* policies that exist
    deleting,   \* those with a deletion timestamp
    listedBy,   \* those whose Spec.NodeSelector names this node
    labels,     \* the node's labels
    timers,     \* nodeProcessingStartTime and x100HealthCheckStartTime
    nodeReady,  \* the node's Ready condition is True (FALSE: Unknown)
    pods,       \* pods of each component and policy on the node
    op,         \* the reconcile worker
    budget      \* outside events left

vars == <<policies, deleting, listedBy, labels, timers, nodeReady, pods, op, budget>>
others == <<policies, deleting, nodeReady, pods>>
cluster == <<others, budget>>

PodStates == {"none", "starting", "up", "failed"}
TimerStates == {"none", "running", "expired"}
Flows == {"upgrade", "rollback", "reboot", "delete"}
PCs == {"idle", "scan", "isolate", "label", "aggregate", "pass", "enable", "adopt",
        "rollback", "toPrior", "fromPolicy", "restore", "rolledBackLabel",
        "loop", "block", "upgrading", "rolledBack", "list", "drain", "torn",
        "switch", "status", "boot", "mark", "clearTimers", "clean", "finalize"}

NoTimers == [proc |-> "none", health |-> "none"]

(* The worker between two reconciles holds nothing.                        *)
Idle == [ pc |-> "idle", policy |-> None, flow |-> "upgrade", then |-> "status",
          snap |-> BareLabels, rsnap |-> BareLabels, prior |-> None,
          todo |-> {}, found |-> {}, at |-> "devicePlugin" ]

Workers == [ pc : PCs, policy : PolicyOrNone, flow : Flows,
             then : {"status", "adopt", "loop", "rolledBack"},
             snap : NodeLabels, rsnap : NodeLabels, prior : PolicyOrNone,
             todo : SUBSET Policies, found : SUBSET Comps, at : Comps ]

TypeOK ==
    /\ policies \subseteq Policies /\ deleting \subseteq policies
    /\ listedBy \subseteq policies
    /\ labels \in NodeLabels
    /\ timers \in [proc : TimerStates, health : TimerStates]
    /\ nodeReady \in BOOLEAN
    /\ pods \in [Comps -> [Policies -> PodStates]]
    /\ op \in Workers
    /\ budget \in [Faults -> Nat]

Init ==
    /\ policies = Policies /\ deleting = {} /\ listedBy = {}
    /\ labels = BareLabels
    /\ timers = NoTimers
    /\ nodeReady = TRUE
    /\ pods = [c \in Comps |-> [q \in Policies |-> "none"]]
    /\ op = Idle
    /\ budget \in Budgets

-----------------------------------------------------------------------------
(* Reading the cluster.                                                    *)

Me == op.policy
Has(f) == f \in labels.flags

(* A pod of the component is on the node; a look-up by name prefix may     *)
(* find the pod of any policy.                                             *)
PodsOf(c) == {q \in Policies : pods[c][q] # "none"}
FetchedPod(c, s) == \E q \in Policies : pods[c][q] = s

(* KMM puts its ready label on the node while a module is loaded.          *)
kmmReady == FetchedPod("kmodules", "up")

(* One of the outside events that the instance still allows.               *)
Spend(f) == budget[f] > 0 /\ budget' = [budget EXCEPT ![f] = @ - 1]

(* At "status" the labelling code has returned and its local state is gone.*)
AtStatus == [Idle EXCEPT !.pc = "status", !.policy = Me]

Goto(pc) == op' = IF pc = "status" THEN AtStatus ELSE [op EXCEPT !.pc = pc]

(* The annotations are written by a call of their own; that it failed is   *)
(* only logged here.                                                       *)
SetTimers(t) ==
    \/ timers' = t /\ UNCHANGED budget
    \/ Spend("apifail") /\ UNCHANGED timers

(* A pass that ends: requeued, or labels again within the retry loop.      *)
EndPass == \E pc \in {"idle", "isolate"} :
    op' = IF pc = "idle" THEN Idle ELSE [Idle EXCEPT !.pc = pc, !.policy = Me]

-----------------------------------------------------------------------------
(* Reconcile up to the node's own branch.                                  *)

(* An existing policy starts with the reboot scan, one being deleted with  *)
(* its finalizer, which keeps the map read here.                           *)
Reconcile(p) ==
    /\ op.pc = "idle" /\ p \in policies \ deleting
    /\ op' = [Idle EXCEPT !.pc = "scan", !.policy = p]
    /\ UNCHANGED <<cluster, listedBy, labels, timers>>

ReconcileDeletion(p) ==
    LET pc == IF ~isX100RunningWithPolicy(labels, p) THEN "finalize"
              ELSE IF Has("teardownCompleted") THEN "clean" ELSE "list"
    IN  /\ op.pc = "idle" /\ p \in deleting
        /\ op' = [Idle EXCEPT !.pc = pc, !.policy = p, !.flow = "delete", !.snap = labels]
        /\ UNCHANGED <<cluster, listedBy, labels, timers>>

Rebooting == Me \in listedBy /\ ~nodeReady

NoReboot ==
    /\ op.pc = "scan" /\ ~Rebooting
    /\ Goto("isolate")
    /\ UNCHANGED <<cluster, listedBy, labels, timers>>

(* A failed upgrade is to be rolled back before the reboot is looked at.   *)
HoldReboot ==
    /\ op.pc = "scan" /\ Rebooting /\ Has("swUpgradeFailed")
    /\ op' = Idle
    /\ UNCHANGED <<cluster, listedBy, labels, timers>>

(* Stop the health timer and leave the reboot label; a reboot during the   *)
(* recovery has the teardown done again.  The pass goes on when only some  *)
(* of the policy's nodes are rebooting; a label that cannot be written ends*)
(* it with the timer gone.                                                 *)
RebootScan ==
    /\ op.pc = "scan" /\ Rebooting /\ ~Has("swUpgradeFailed")
    /\ timers' = [timers EXCEPT !.health = "none"]
    /\ \/ /\ labels' = IF ~Has("rebooted")
                       THEN [cleanupLabelsOnReboot(labels) EXCEPT !.flags = @ \cup {"rebooted"}]
                       ELSE [labels EXCEPT !.flags = @ \ {"teardownCompleted"}]
          /\ op' = Idle \/ Goto("isolate")
          /\ UNCHANGED budget
       \/ Spend("apifail") /\ op' = Idle /\ UNCHANGED labels
    /\ UNCHANGED <<others, listedBy>>

(* labels of a node taken out of service.                                  *)
Withdrawn(l) ==
    [cleanupStaleSelectorLabels(cleanupStaleCRLabels(l)) EXCEPT !.present = "false"]

(* AutoIsolation: the node took longer than its grace period.              *)
AutoIsolate ==
    /\ op.pc = "isolate"
    /\ IF /\ Me \in AutoIsolation /\ isX100RunningWithPolicy(labels, Me)
          /\ labels.present = "true" /\ timers.proc = "expired"
       THEN /\ labels' = [cleanupStaleSelectorLabels(cleanupStaleCRLabels(labels))
                            EXCEPT !.isolate = TRUE]
            /\ SetTimers(NoTimers)
       ELSE UNCHANGED <<labels, timers, budget>>
    /\ Goto("label")
    /\ UNCHANGED <<others, listedBy>>

(* labelX100Nodes: x100.present follows the PCI and isolate labels, and a  *)
(* node at work gets its processing timer; without the timer written the   *)
(* pass ends.                                                              *)
labelX100Nodes ==
    LET custom == labels.present = "true"
        leaves == labels.isolate /\ (custom \/ labels.pci)
        l == IF leaves THEN Withdrawn(labels)
             ELSE [labels EXCEPT !.present = IF custom /\ ~labels.pci THEN "absent"
                                             ELSE IF labels.pci THEN "true" ELSE @]
        starts == /\ isX100RunningWithPolicy(l, Me) /\ custom /\ ~labels.isolate
                  /\ ~Has("bootStatusMarked") /\ timers.proc = "none"
    IN  /\ op.pc = "label"
        /\ labels' = l
        /\ \/ /\ timers' = IF leaves THEN NoTimers
                           ELSE IF starts THEN [timers EXCEPT !.proc = "running"] ELSE timers
              /\ Goto("aggregate") /\ UNCHANGED budget
           \/ Spend("apifail") /\ op' = Idle /\ UNCHANGED timers
        /\ UNCHANGED <<others, listedBy>>

(* A node active under the policy joins its list, unless it is moving away.*)
Aggregate ==
    /\ op.pc = "aggregate"
    /\ listedBy' = IF labels.active = Me /\ labels.blocked = None
                   THEN listedBy \cup {Me} ELSE listedBy
    /\ Goto("pass")
    /\ UNCHANGED <<cluster, labels, timers>>

(* The branch a pass takes; the label map read here is kept.               *)
MayProcess == Me \in listedBy /\ labels.present = "true" /\ nodeReady

PassOver ==
    /\ op.pc = "pass" /\ ~MayProcess
    /\ Goto("status")
    /\ UNCHANGED <<cluster, listedBy, labels, timers>>

StartAdoption ==
    /\ op.pc = "pass" /\ MayProcess /\ labels.active = None
    /\ op' = [op EXCEPT !.pc = "enable", !.then = "adopt", !.snap = labels]
    /\ UNCHANGED <<cluster, listedBy, labels, timers>>

StartEnabling ==
    /\ op.pc = "pass" /\ MayProcess /\ labels.active # None
    /\ \/ Has("enablingFirstPolicy")
       \/ Has("rebooted") /\ Has("teardownCompleted")
    /\ op' = [op EXCEPT !.pc = "enable", !.then = "status"]
    /\ UNCHANGED <<cluster, listedBy, labels, timers>>

StartReboot ==
    /\ op.pc = "pass" /\ MayProcess /\ labels.active # None /\ Has("rebooted")
    /\ ~Has("enablingFirstPolicy") /\ ~Has("teardownCompleted")
    /\ op' = [op EXCEPT !.pc = "list", !.flow = "reboot", !.then = "status"]
    /\ UNCHANGED <<cluster, listedBy, labels, timers>>

StartLoop ==
    LET pc == IF Has("swUpgradeFailed") \/ Has("rollingBackUpgrade") THEN "rollback" ELSE "loop"
    IN  /\ op.pc = "pass" /\ MayProcess /\ labels.active # None
        /\ ~Has("enablingFirstPolicy") /\ ~Has("rebooted")
        /\ op' = [op EXCEPT !.pc = pc, !.snap = labels, !.todo = policies]
        /\ UNCHANGED <<cluster, listedBy, labels, timers>>

-----------------------------------------------------------------------------
(* Bringing pods up: enablePodSelectorLabels adds the next selector once   *)
(* the component before it reports completion.  A failure abandons the     *)
(* pass, except on first adoption, where isFirmwareDSCreated is never TRUE.*)

NextSelectorMayBeSet_NoWait(c) == c = "devicePlugin" => kmmReady

NextSelectorMayBeSet(c) ==
    CASE c = "firmware"     -> TRUE
      [] c = "HwManager"    -> FetchedPod("firmware", "up")
      [] c = "kmodules"     -> FetchedPod("HwManager", "up")
      [] c = "devicePlugin" -> kmmReady

NextSelectorMayFail(c) ==
    CASE c = "firmware"     -> FALSE
      [] c = "HwManager"    -> PodsOf("firmware") = {} \/ \E s \in {"starting", "failed"} : FetchedPod("firmware", s)
      [] c = "kmodules"     -> PodsOf("HwManager") = {} \/ \E s \in {"starting", "failed"} : FetchedPod("HwManager", s)
      [] c = "devicePlugin" -> ~kmmReady

EnableNext ==
    /\ op.pc = "enable"
    /\ \E c \in Comps :
          /\ IsNextSelector(c, labels) /\ NextSelectorMayBeSet(c)
          /\ labels' = [labels EXCEPT !.sel = @ \cup {c}]
    /\ Goto(op.then)
    /\ UNCHANGED <<cluster, listedBy, timers>>

AllEnabled ==
    /\ op.pc = "enable" /\ labels.sel = Comps
    /\ Goto(op.then)
    /\ UNCHANGED <<cluster, listedBy, labels, timers>>

EnableFails ==
    /\ op.pc = "enable"
    /\ \E c \in Comps : IsNextSelector(c, labels) /\ NextSelectorMayFail(c)
    /\ Goto(IF op.then = "adopt" THEN "adopt" ELSE "status")
    /\ UNCHANGED <<cluster, listedBy, labels, timers>>

(* First policy: written over the map read BEFORE the selector was added.  *)
Adopted(l, p) ==
    [l EXCEPT !.active = p, !.sw = p, !.prior = None,
              !.flags = (@ \ {"ownerPolicyDeleted"}) \cup {"enablingFirstPolicy"}]

AdoptFirstPolicy ==
    /\ op.pc = "adopt"
    /\ labels' = Adopted(op.snap, Me)
    /\ Goto("status")
    /\ UNCHANGED <<cluster, listedBy, timers>>

-----------------------------------------------------------------------------
(* Tearing pods down, selector by selector in deletion order.              *)

(* Where each flow continues once its pods are gone.                       *)
AfterTeardown == IF op.flow = "upgrade" THEN "switch" ELSE "torn"

(* Which pods are on the node is looked up once; with none the teardown is *)
(* over at once, whatever selectors are still set.                         *)
PodsFound == {c \in Comps : PodsOf(c) # {}}

ListPods ==
    /\ op.pc = "list" /\ PodsFound # {}
    /\ op' = [op EXCEPT !.pc = "drain", !.found = PodsFound, !.at = "devicePlugin"]
    /\ UNCHANGED <<cluster, listedBy, labels, timers>>

NothingToDrain ==
    /\ op.pc = "list" /\ PodsFound = {}
    /\ Goto(AfterTeardown)
    /\ UNCHANGED <<cluster, listedBy, labels, timers>>

DrainNext_SkipsHwManager ==
    [devicePlugin |-> "kmodules", kmodules |-> "firmware", HwManager |-> "firmware"]

DrainNext_ModulesLate ==
    [devicePlugin |-> "HwManager", HwManager |-> "kmodules", kmodules |-> "firmware"]

DrainNext == [devicePlugin |-> "kmodules", kmodules |-> "HwManager", HwManager |-> "firmware"]

DrainedOK_NoWait(c) == TRUE

(* A component found is terminated when its pod can be fetched and has     *)
(* failed; a pod that cannot be fetched any more is still "waiting".       *)
DrainedOK(c) ==
    IF c = "kmodules" THEN ~kmmReady ELSE c \notin op.found \/ FetchedPod(c, "failed")

DrainWaits(c) ==
    IF c = "kmodules" THEN kmmReady
    ELSE /\ c \in op.found
         /\ PodsOf(c) = {} \/ \E s \in {"starting", "up"} : FetchedPod(c, s)

(* Remove the selector and wait: an error abandons this pass.              *)
DrainsSelector ==
    /\ op.pc = "drain"
    /\ labels' = [labels EXCEPT !.sel = @ \ {op.at}]
    /\ UNCHANGED <<cluster, listedBy, timers>>

Drain ==
    /\ DrainsSelector /\ op.at # "firmware" /\ DrainedOK(op.at)
    /\ op' = [op EXCEPT !.at = DrainNext[@]]

DrainLast ==
    /\ DrainsSelector /\ op.at = "firmware" /\ DrainedOK(op.at)
    /\ Goto(AfterTeardown)

DrainPending ==
    /\ DrainsSelector /\ DrainWaits(op.at)
    /\ IF op.flow = "delete" THEN op' = Idle ELSE Goto("status")

(* Record the teardown: on the labels as they are, but for a rollback on   *)
(* the map it read before it began.                                        *)
MarkTornDown ==
    LET base == IF op.flow = "rollback" THEN op.rsnap ELSE labels
    IN  /\ op.pc = "torn"
        /\ labels' = [base EXCEPT !.flags = @ \cup {"teardownCompleted"}]
        /\ Goto(CASE op.flow = "rollback" -> "toPrior"
                  [] op.flow = "reboot" -> "enable"
                  [] op.flow = "delete" -> "clean")
        /\ UNCHANGED <<cluster, listedBy, timers>>

-----------------------------------------------------------------------------
(* Upgrade: the loop over all policies of labelX100NodeswithCR.            *)

LoopDone ==
    /\ op.pc = "loop" /\ op.todo = {}
    /\ Goto("status")
    /\ UNCHANGED <<cluster, listedBy, labels, timers>>

(* cr is the node's policy and another one reconciles: take the node off   *)
(* cr's list; an error of that Update is never looked at.                  *)
LeaveOldPolicy(cr) ==
    /\ op.pc = "loop" /\ cr \in op.todo /\ cr = op.snap.active /\ cr # Me
    /\ op.snap.blocked = None
    /\ \/ listedBy' = listedBy \ {cr} /\ UNCHANGED budget
       \/ Spend("apifail") /\ UNCHANGED listedBy
    /\ op' = [op EXCEPT !.pc = "block", !.then = "loop", !.todo = @ \ {cr}]
    /\ UNCHANGED <<policies, deleting, nodeReady, pods, labels, timers>>

(* ... unless a move is already under way.                                 *)
KeepMoving(cr) ==
    /\ op.pc = "loop" /\ cr \in op.todo /\ cr = op.snap.active /\ cr # Me
    /\ op.snap.blocked # None
    /\ op' = [op EXCEPT !.pc = "upgrading", !.then = "loop", !.todo = @ \ {cr}]
    /\ UNCHANGED <<cluster, listedBy, labels, timers>>

(* Any other cr: resume what the map read at the start says is unfinished. *)
ResumeUnfinished(cr) ==
    LET rolledBack == "rolledBack" \in op.snap.flags
        pc == IF "upgrading" \in op.snap.flags THEN "upgrading"
              ELSE IF rolledBack THEN "rolledBack" ELSE "loop"
        then == IF rolledBack THEN "rolledBack" ELSE "loop"
    IN  /\ op.pc = "loop" /\ cr \in op.todo /\ ~(cr = op.snap.active /\ cr # Me)
        /\ op' = [op EXCEPT !.pc = pc, !.then = then, !.todo = @ \ {cr}, !.flow = "upgrade"]
        /\ UNCHANGED <<cluster, listedBy, labels, timers>>

(* Keep the node out of its old policy's list; written over the old map.   *)
BlockAggregation ==
    LET l == [op.snap EXCEPT !.blocked = Me]
    IN  /\ op.pc = "block"
        /\ labels' = l
        /\ op' = [op EXCEPT !.pc = "upgrading", !.snap = l]
        /\ UNCHANGED <<cluster, listedBy, timers>>

(* transitionToUpgradingState, then runUpgradeSequenceForNode's own look   *)
(* at whether a teardown is needed.                                        *)
UpgradeBegun_KeepsStatus(l) == [l EXCEPT !.flags = @ \cup {"upgrading"}]

UpgradeBegun(l) == [StatusCleaned(l) EXCEPT !.flags = @ \cup {"upgrading"}]

transitionToUpgradingState ==
    LET l == IF Has("upgrading") THEN labels ELSE UpgradeBegun(labels)
    IN  /\ op.pc = "upgrading"
        /\ labels' = l
        /\ op' = [op EXCEPT !.flow = "upgrade",
                            !.pc = IF "teardownCompleted" \in l.flags THEN "switch" ELSE "list"]
        /\ UNCHANGED <<cluster, listedBy, timers>>

(* The software version changes hands.                                     *)
Switched_KeepsBlock(l, p) ==
    [l EXCEPT !.prior = l.active, !.active = p, !.sw = p,
              !.flags = @ \cup {"teardownCompleted"}]

Switched_LateVersion(l, p) ==
    [l EXCEPT !.prior = l.active, !.active = p, !.blocked = None,
              !.flags = @ \cup {"teardownCompleted"}]

Switched(l, p) ==
    [l EXCEPT !.prior = l.active, !.active = p, !.sw = p, !.blocked = None,
              !.flags = @ \cup {"teardownCompleted"}]

updateSwVersionLabels ==
    /\ op.pc = "switch" /\ ~Has("teardownCompleted") /\ labels.active # Me
    /\ labels' = Switched(labels, Me)
    /\ Goto("enable")
    /\ UNCHANGED <<cluster, listedBy, timers>>

AlreadySwitched ==
    /\ op.pc = "switch" /\ Has("teardownCompleted")
    /\ Goto("enable")
    /\ UNCHANGED <<cluster, listedBy, labels, timers>>

IncorrectPolicy ==
    /\ op.pc = "switch" /\ ~Has("teardownCompleted") /\ labels.active = Me
    /\ Goto("status")
    /\ UNCHANGED <<cluster, listedBy, labels, timers>>

(* A rolled-back node: go on enabling; a status left from before is dropped*)
(* first, by a write that then looks for rolledBack to be gone and, as the *)
(* label stays, always reports a failure, which ends the pass.             *)
RolledBack ==
    /\ op.pc = "rolledBack"
    /\ IF op.snap.boot = "true"
       THEN labels' = StatusCleaned(op.snap) /\ op' = Idle
       ELSE UNCHANGED labels /\ op' = [op EXCEPT !.pc = "enable", !.then = "loop"]
    /\ UNCHANGED <<cluster, listedBy, timers>>

-----------------------------------------------------------------------------
(* Rollback: rollbackHandler.                                              *)

MayRollBack_AnyPrior ==
    /\ Me \in RollbackOn /\ isX100RunningWithPolicy(labels, Me)
    /\ Has("swUpgradeFailed") \/ Has("rollingBackUpgrade")
    /\ labels.prior # None

MayRollBack ==
    /\ Me \in RollbackOn /\ isX100RunningWithPolicy(labels, Me)
    /\ Has("swUpgradeFailed") \/ Has("rollingBackUpgrade")
    /\ labels.prior \in policies

SkipRollback ==
    /\ op.pc = "rollback" /\ ~MayRollBack
    /\ Goto("loop")
    /\ UNCHANGED <<cluster, listedBy, labels, timers>>

(* transitionToRollingBackUpgradeState, and the map kept for later.        *)
RollbackBegun_KeepsStatus(l) == [l EXCEPT !.flags = @ \cup {"rollingBackUpgrade"}]

RollbackBegun(l) == [StatusCleaned(l) EXCEPT !.flags = @ \cup {"rollingBackUpgrade"}]

BeginRollback ==
    LET l == IF Has("rollingBackUpgrade") THEN labels ELSE RollbackBegun(labels)
    IN  /\ op.pc = "rollback" /\ MayRollBack
        /\ labels' = l
        /\ op' = [op EXCEPT !.prior = labels.prior, !.rsnap = l, !.flow = "rollback",
                            !.pc = IF "teardownCompleted" \in l.flags THEN "toPrior" ELSE "list"]
        /\ UNCHANGED <<cluster, listedBy, timers>>

ListUnderPrior ==
    /\ op.pc = "toPrior"
    /\ \/ /\ listedBy' = listedBy \cup {op.prior}
          /\ Goto("fromPolicy") /\ UNCHANGED budget
       \/ Spend("apifail") /\ Goto("status") /\ UNCHANGED listedBy
    /\ UNCHANGED <<policies, deleting, nodeReady, pods, labels, timers>>

(* The Update that takes the node off this policy's list: its error is     *)
(* never looked at, and it always conflicts when prior is this policy too. *)
UnlistFromPolicy ==
    /\ op.pc = "fromPolicy"
    /\ \/ /\ listedBy' = IF op.prior = Me THEN listedBy ELSE listedBy \ {Me}
          /\ UNCHANGED budget
       \/ Spend("apifail") /\ UNCHANGED listedBy
    /\ Goto("restore")
    /\ UNCHANGED <<policies, deleting, nodeReady, pods, labels, timers>>

Restored_KeepsPrior(l, p) == [l EXCEPT !.active = p, !.sw = p]

Restored(l, p) == [l EXCEPT !.active = p, !.sw = p, !.prior = None]

RestorePrior ==
    /\ op.pc = "restore"
    /\ labels' = Restored(labels, op.prior)
    /\ op' = [op EXCEPT !.pc = "rolledBackLabel", !.rsnap = labels']
    /\ UNCHANGED <<cluster, listedBy, timers>>

LabelRolledBack_StaysRollingBack ==
    /\ op.pc = "rolledBackLabel"
    /\ labels' = [op.rsnap EXCEPT !.flags = @ \cup {"rolledBack"}]
    /\ op' = [op EXCEPT !.pc = "loop", !.rsnap = BareLabels, !.prior = None]
    /\ UNCHANGED <<cluster, listedBy, timers>>

LabelRolledBack ==
    /\ op.pc = "rolledBackLabel"
    /\ labels' = IF "rollingBackUpgrade" \in op.rsnap.flags
                 THEN [op.rsnap EXCEPT !.flags = (@ \ {"rollingBackUpgrade"}) \cup {"rolledBack"}]
                 ELSE labels
    /\ op' = [op EXCEPT !.pc = "loop", !.rsnap = BareLabels, !.prior = None]
    /\ UNCHANGED <<cluster, listedBy, timers>>

-----------------------------------------------------------------------------
(* Boot status and verdict.                                                *)

(* labelX100NodeswithCR is over: try again, look at the boot status if the *)
(* assets are ready, or requeue.                                           *)
AfterLabels ==
    /\ op.pc = "status"
    /\ \/ EndPass
       \/ op' = [Idle EXCEPT !.pc = "boot", !.policy = Me]
    /\ UNCHANGED <<cluster, listedBy, labels, timers>>

(* Eligible: the health timer starts and the HwManager pod, if its log can *)
(* be read, says what it knows of the cards.                               *)
ReadBootStatus ==
    /\ op.pc = "boot"
    /\ LabelsEligibleForBootStatusCheck(labels, Me) /\ FetchedPod("devicePlugin", "up")
    /\ timers' = [timers EXCEPT !.health = IF @ = "none" THEN "running" ELSE @]
    /\ \/ UNCHANGED labels
       \/ /\ FetchedPod("HwManager", "up")
          /\ \E b \in {"unknown", "true", "false"} : labels' = [labels EXCEPT !.boot = b]
    /\ Goto("mark")
    /\ UNCHANGED <<cluster, listedBy>>

SkipBootStatus ==
    /\ op.pc = "boot"
    /\ \/ ~LabelsEligibleForBootStatusCheck(labels, Me)
       \/ PodsOf("devicePlugin") = {}
       \/ \E s \in {"starting", "failed"} : FetchedPod("devicePlugin", s)
    /\ Goto("mark")
    /\ UNCHANGED <<cluster, listedBy, labels, timers>>

(* markHealthCheckedforCurrentCR: a known status, or an unknown one whose  *)
(* time is up, becomes the verdict; an upgrade that ends without success   *)
(* has failed.                                                             *)
Verdict_KeepsReboot(l) ==
    [l EXCEPT !.boot = IF @ = "true" THEN @ ELSE "false",
              !.flags = (@ \ (InProgress \ {"rebooted"})) \cup {"bootStatusMarked"}
                        \cup IF "upgrading" \in l.flags /\ l.boot # "true"
                             THEN {"swUpgradeFailed"} ELSE {}]

Verdict_KeepsUpgrading(l) ==
    [l EXCEPT !.boot = IF @ = "true" THEN @ ELSE "false",
              !.flags = (@ \ (InProgress \ {"upgrading"})) \cup {"bootStatusMarked"}]

Verdict(l) ==
    [l EXCEPT !.boot = IF @ = "true" THEN @ ELSE "false",
              !.flags = (@ \ InProgress) \cup {"bootStatusMarked"}
                        \cup IF "upgrading" \in l.flags /\ l.boot # "true"
                             THEN {"swUpgradeFailed"} ELSE {}]

VerdictDue ==
    /\ isX100RunningWithPolicy(labels, Me)
    /\ labels.boot \in {"true", "false"} \/ (labels.boot = "unknown" /\ timers.health = "expired")

MarkVerdict ==
    /\ op.pc = "mark" /\ VerdictDue
    /\ labels' = Verdict(labels)
    /\ Goto("clearTimers")
    /\ UNCHANGED <<cluster, listedBy, timers>>

NoVerdict ==
    /\ op.pc = "mark" /\ ~VerdictDue
    /\ EndPass
    /\ UNCHANGED <<cluster, listedBy, labels, timers>>

ClearTimers ==
    /\ op.pc = "clearTimers"
    /\ SetTimers(NoTimers)
    /\ EndPass
    /\ UNCHANGED <<others, listedBy, labels>>

-----------------------------------------------------------------------------
(* Deletion of a policy: the node is cleaned from the map read first, and  *)
(* the last policy takes the operator's own marks with it.  A write that   *)
(* fails has the deletion begin anew, with what is done by then.           *)

CleanOnDeletion ==
    LET l == [cleanupStaleSelectorLabels(cleanupStaleCRLabels(op.snap)) EXCEPT
                !.present = IF op.snap.isolate THEN "false" ELSE "true",
                !.flags = {"ownerPolicyDeleted"}]
    IN  /\ op.pc = "clean"
        /\ labels' = l
        /\ \/ /\ timers' = NoTimers
              /\ op' = [Idle EXCEPT !.pc = "finalize", !.policy = Me]
              /\ UNCHANGED budget
           \/ Spend("apifail") /\ op' = Idle /\ UNCHANGED timers
        /\ UNCHANGED <<others, listedBy>>

FinalizePolicy_KeepsFinalizer ==
    /\ op.pc = "finalize"
    /\ op' = Idle
    /\ UNCHANGED <<cluster, listedBy, labels, timers>>

FinalizePolicy ==
    /\ op.pc = "finalize"
    /\ labels' = IF policies = {Me} /\ labels.present # "absent"
                 THEN [labels EXCEPT !.flags = @ \ {"ownerPolicyDeleted"},
                                     !.present = IF labels.isolate THEN @ ELSE "absent"]
                 ELSE labels
    /\ \/ /\ policies' = policies \ {Me}
          /\ deleting' = deleting \ {Me}
          /\ listedBy' = listedBy \ {Me}
          /\ UNCHANGED budget
       \/ Spend("apifail") /\ UNCHANGED <<policies, deleting, listedBy>>
    /\ op' = Idle
    /\ UNCHANGED <<timers, nodeReady, pods>>

-----------------------------------------------------------------------------
(* The outside: users, Node Feature Discovery, the kubelet, the DaemonSet  *)
(* and KMM controllers, the clock, and a crash of the operator.            *)

UserAssigns(p) ==
    /\ p \in policies \ (deleting \cup listedBy) /\ Spend("move")
    /\ listedBy' = listedBy \cup {p}
    /\ UNCHANGED <<policies, deleting, labels, timers, nodeReady, pods, op>>

UserDeletes(p) ==
    /\ p \in policies \ deleting /\ Spend("delete")
    /\ deleting' = deleting \cup {p}
    /\ UNCHANGED <<policies, listedBy, labels, timers, nodeReady, pods, op>>

UserTogglesIsolate ==
    /\ Spend("isolate")
    /\ labels' = [labels EXCEPT !.isolate = ~@]
    /\ UNCHANGED <<policies, deleting, listedBy, timers, nodeReady, pods, op>>

PciLabelFlaps ==
    /\ Spend("flap")
    /\ labels' = [labels EXCEPT !.pci = ~@]
    /\ UNCHANGED <<policies, deleting, listedBy, timers, nodeReady, pods, op>>

NodeReboots ==
    /\ nodeReady /\ Spend("reboot")
    /\ nodeReady' = FALSE
    /\ pods' = [c \in Comps |-> [q \in Policies |->
                   IF pods[c][q] = "up" THEN "starting" ELSE pods[c][q]]]
    /\ UNCHANGED <<policies, deleting, listedBy, labels, timers, op>>

NodeComesUp ==
    /\ ~nodeReady /\ nodeReady' = TRUE
    /\ UNCHANGED <<policies, deleting, listedBy, labels, timers, pods, op, budget>>

(* A pod is wanted while the node matches its DaemonSet's (or its Module's)*)
(* node selector: present, swversion and the component's own label.        *)
Wanted(c, q) ==
    q \in policies /\ labels.present = "true" /\ labels.sw = q /\ c \in labels.sel

PodBecomes(c, q, s) ==
    /\ pods' = [pods EXCEPT ![c][q] = s]
    /\ UNCHANGED <<policies, deleting, listedBy, labels, timers, nodeReady, op>>

PodCreated(c, q) ==
    /\ pods[c][q] = "none" /\ Wanted(c, q)
    /\ PodBecomes(c, q, "starting") /\ UNCHANGED budget

PodUp(c, q) ==
    /\ pods[c][q] = "starting" /\ Wanted(c, q) /\ nodeReady
    /\ PodBecomes(c, q, "up") /\ UNCHANGED budget

PodFails(c, q) ==
    /\ pods[c][q] \in {"starting", "up"} /\ Spend("podfail")
    /\ PodBecomes(c, q, "failed")

PodGone(c, q) ==
    /\ pods[c][q] = "failed" \/ (pods[c][q] # "none" /\ ~Wanted(c, q))
    /\ nodeReady
    /\ PodBecomes(c, q, "none") /\ UNCHANGED budget

TimerExpires(t) ==
    /\ timers[t] = "running" /\ Spend("timeout")
    /\ timers' = [timers EXCEPT ![t] = "expired"]
    /\ UNCHANGED <<policies, deleting, listedBy, labels, nodeReady, pods, op>>

OperatorCrashes ==
    /\ op.pc # "idle" /\ Spend("crash")
    /\ op' = Idle
    /\ UNCHANGED <<policies, deleting, listedBy, labels, timers, nodeReady, pods>>

(* A call to the API server fails for good, or is reported to have failed. *)
(* Some handlers only log the error and go on, most return it: that ends   *)
(* the request, or has the node left alone for this pass.                  *)
Deleting == op.flow = "delete" /\ op.pc \in {"list", "drain", "torn"}
AdoptsAnyway == op.pc = "enable" /\ op.then = "adopt"

EndsRequest ==
    \/ op.pc \in {"scan", "label", "aggregate", "pass", "adopt", "rolledBack", "clean", "finalize"}
    \/ Deleting /\ op.pc # "torn"

LeavesNode ==
    /\ op.pc \in {"enable", "list", "drain", "torn", "rollback", "toPrior", "fromPolicy", "restore",
                  "rolledBackLabel", "loop", "block", "upgrading", "switch"}
    /\ ~Deleting /\ ~AdoptsAnyway

LogsError(pc) ==
    \/ op.pc = "isolate" /\ pc = "label"
    \/ op.pc = "boot" /\ pc = "mark"
    \/ op.pc = "mark" /\ pc = "clearTimers"
    \/ AdoptsAnyway /\ pc = "adopt"
    \/ Deleting /\ op.pc = "torn" /\ pc = "clean"

CallFails ==
    /\ Spend("apifail")
    /\ \/ EndsRequest /\ op' = Idle
       \/ LeavesNode /\ op' = AtStatus
       \/ \E pc \in PCs : LogsError(pc) /\ Goto(pc)
       \/ op.pc = "rolledBackLabel" /\ op' = [op EXCEPT !.pc = "loop", !.rsnap = BareLabels, !.prior = None]
    /\ UNCHANGED <<policies, deleting, listedBy, labels, timers, nodeReady, pods>>

-----------------------------------------------------------------------------
OperatorStep ==
    \/ NoReboot \/ HoldReboot \/ RebootScan
    \/ AutoIsolate \/ labelX100Nodes \/ Aggregate
    \/ PassOver \/ StartAdoption \/ StartEnabling \/ StartReboot \/ StartLoop
    \/ EnableNext \/ AllEnabled \/ EnableFails \/ AdoptFirstPolicy
    \/ ListPods \/ NothingToDrain \/ Drain \/ DrainLast \/ DrainPending \/ MarkTornDown
    \/ LoopDone
    \/ (\E cr \in Policies : LeaveOldPolicy(cr) \/ KeepMoving(cr) \/ ResumeUnfinished(cr))
    \/ BlockAggregation \/ transitionToUpgradingState
    \/ updateSwVersionLabels \/ AlreadySwitched \/ IncorrectPolicy \/ RolledBack
    \/ SkipRollback \/ BeginRollback \/ ListUnderPrior \/ UnlistFromPolicy
    \/ RestorePrior \/ LabelRolledBack
    \/ AfterLabels \/ ReadBootStatus \/ SkipBootStatus
    \/ MarkVerdict \/ NoVerdict \/ ClearTimers
    \/ CleanOnDeletion \/ FinalizePolicy

PodStep(c, q) == PodCreated(c, q) \/ PodUp(c, q) \/ PodGone(c, q)

Outside ==
    \/ \E p \in Policies : UserAssigns(p) \/ UserDeletes(p)
    \/ UserTogglesIsolate \/ PciLabelFlaps \/ NodeReboots \/ NodeComesUp
    \/ \E c \in Comps, q \in Policies : PodStep(c, q) \/ PodFails(c, q)
    \/ \E t \in {"proc", "health"} : TimerExpires(t)
    \/ OperatorCrashes \/ CallFails

Next ==
    \/ OperatorStep
    \/ \E p \in Policies : Reconcile(p) \/ ReconcileDeletion(p)
    \/ Outside

Spec == Init /\ [][Next]_vars
=============================================================================
