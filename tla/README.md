# X100 operator: verification project

TLA+ models of the Kubernetes operator in `src/x100-operator/deploy` that
brings up, upgrades, rolls back and removes the software of X100 accelerator
cards on worker nodes. The modules are checked with TLC on small instances and
the main invariants are proved with TLAPS for every instance.

## 1. The system

A user creates `X100ManagementPolicy` objects. A policy carries one software
version and a list of nodes (`Spec.NodeSelector`). For each policy the operator
creates one DaemonSet or KMM Module per component: firmware, HwManager,
kernel modules, device plugin. Their pods run on a node when the node's labels
match: `x100.present=true`, the policy's `swversion`, and a selector label of
the component. **The operator has no other memory than the labels and two
annotations of the node**: it brings a node through adoption, upgrade,
rollback, reboot recovery and deletion by reading the label map, deciding, and
writing the whole map back.

One worker (`MaxConcurrentReconciles` is left at 1) runs `Reconcile` for one
policy at a time. Between any two of its reads and writes users, Node Feature
Discovery, the kubelet and the DaemonSet and KMM controllers act, and the
operator may be restarted.

### Inventory

| Component | State | Operations | Talks to | Hard behaviour | What makes it correct |
|---|---|---|---|---|---|
| Node labels, `constants.go`, `utility.go` | label map of a node | clean-up lists, predicates | everything | one list per flow; a label left out of a list outlives its flow | no flow sees labels of another |
| Node life cycle, `label_control.go`, `rollback_control.go`, `utility.go` | labels and timer annotations of a node; label maps held across writes | isolate, label, aggregate, adopt, enable selectors, tear down, block, upgrade, switch version, roll back, boot status, verdict | pods and their logs, policies' lists | multi-write flows, stale maps, crashes, reboots, ignored errors, time-outs | one version at a time, versions change on an empty node, each version judged once, every flow ends |
| Policy reconciler, `x100_managementpolicy_controller.go` | finalizer, retry count, status | finalize, reboot scan, retry loop, requeue | all of the above | deletion in the middle of a flow; last policy | nothing is left behind; deletion ends |
| Asset state machine, `state_machine.go` | asset index, retry counters | walk over the assets, boot-status hook | resource creation | retries and resets of a shared state object | every asset is tried in order, a failed one stops the walk |
| Policy node lists | `Spec.NodeSelector` of all policies | aggregation, removal by index, EmptyNode placeholder | API server | lost updates, index of a missing name, early `break` | a node is on one list, other nodes' membership is untouched |
| Node update, `setX100NodeLabels`, `setX100NodeAnnotations` | node object and `resourceVersion` | update, refetch on conflict, write again | kubelet, NFD, users | the refetch keeps the caller's map and overwrites concurrent labels | no lost update of labels the operator owns |
| Webhook, `x100managementpolicy_webhook.go` | none (reads the cache) | validate create and update | API server | check-then-act | versions are unique |
| Resource creation, `resource_control.go` | owned objects | create or update, owner references | API server, garbage collector | objects found from before, shared ones, the collector running beside | no deletion takes what another policy needs |
| Watch predicates | none | filter and map events | work queue | an event filtered out is never retried | no policy is forgotten, every reboot is noticed |
| VF configuration, `src/fconfig/csm-x100-fconfig.sh` | none | copies configuration files once, then sleeps | sysfs, ConfigMap | - | - |
| Manifest templating, `main.go`, build files | none | text, start-up | - | - | - |

## 2. Modules

| Module | Models | Needs |
|---|---|---|
| `X100Labels` | label map of a node, its clean-ups | - |
| `NodeLifecycle` | one node under one worker and several policies | `X100Labels` |
| `NodeProperties`, `VersionHistory` | its properties; the abstract history of versions it implements | `NodeLifecycle` |
| `PolicyLists`, `ListProperties` | the node lists of several policies over several nodes | - |
| `NodeUpdate`, `UpdateProperties` | the write of labels and annotations, request by request, with the maps and objects that callers hold | - |
| `PolicyReconciler`, `ReconcilerProperties` | requests, scan, labelling, assets, status, requeueing | - |
| `PolicyResources`, `ResourceProperties` | webhook, finalizers, owned objects, garbage collector | - |
| `MC...` | the instances that TLC checks | one of the above |
| `NodeProofs`, `LifecycleProofs`, `HistoryProofs`, `PodProofs`, `ListProofs`, `UpdateProofs`, `ReconcilerProofs`, `ResourceProofs` | theorems for all instances | one of the above |

The five models look at the same program from five sides, and each takes as one
step what another takes apart:

- `NodeLifecycle` takes a label write as atomic, and keeps the maps that handlers
  hold over several writes (`snap`, `rsnap`); `NodeUpdate` shows what the
  requests behind a write guarantee, with such maps as well: a label that a call
  has set stays until a call sets out to change it, by its key or by an older
  map that has it otherwise.
- `NodeLifecycle` knows of the lists only whether they name its node;
  `PolicyLists` has the lists, and reduces the node to who has it and where it
  moves.
- `NodeLifecycle` lets any policy be reconciled at any time and a pass end or
  repeat as it likes; `PolicyReconciler` shows which requests there are and that
  passes get to the boot status, and reduces a visit to a node to one step.
- All three take versions as unique and the objects of an existing policy as
  there; `PolicyResources` shows when this is so.

An operator with a suffix after "_" (`RemoveNode_LeavesIt`) is a plausible bug in
the one after it: with it in place the run must find a property violated.
PROJECT.json lists which.

What could still be added: a composition of `PolicyLists` with `PolicyReconciler`
(lists that change under a request), and a proof of the refinement of
`VersionHistory` where crashes and rollbacks meet (section 5).

## 3. What is modelled

### X100Labels, NodeLifecycle

`X100Labels` is the data: a label map is a record. Labels that are "true" or
absent are members of `flags`, pod selectors are members of `sel`, `active`,
`prior`, `sw`, `blocked` are activeCR, priorCR, swversion and
aggregationBlocked. A version is named by the policy that carries it (versions
are unique by the webhook). Each clean-up list of `constants.go` is an operator.

`NodeLifecycle` is one node. `op` is the worker's stack: `pc`, the policy being
reconciled, the flow and where it continues (`flow`, `then`), and the label
maps read earlier and still held: `snap` (read at the start of
`labelX100NodeswithCR`, or of the deletion) and `rsnap` (kept by
`rollbackHandler`), the rollback's `prior`, the policies left in the loop
(`todo`), and the teardown's pods found and place (`found`, `at`).

| `pc` | Code |
|---|---|
| `scan` | reboot scan of `Reconcile` |
| `isolate`, `label`, `aggregate` | `testAndSetX100NodeAsIsolated`, `labelX100Nodes`, aggregation in `labelX100NodeswithCR` |
| `pass` | the choice of branch in `labelX100NodeswithCR` |
| `enable`, `adopt` | `enablePodSelectorLabels`, first adoption |
| `rollback`, `toPrior`, `fromPolicy`, `restore`, `rolledBackLabel` | `rollbackHandler`, write by write |
| `loop`, `block`, `upgrading`, `switch`, `rolledBack` | the loop over the policies, `runUpgradeSequenceForNode`, `updateSwVersionLabels` |
| `list`, `drain`, `torn` | `teardownX100ManagementPolicyOwnedPodsOnNode` (device plugin, kernel modules, HwManager, firmware) and the write of teardownCompleted after it |
| `status`, `boot`, `mark`, `clearTimers` | end of the pass, `labelx100bootupStatusforNodes`, `markHealthCheckedforCurrentCR` |
| `clean`, `finalize` | `clearLabelsOnCrDeletion`, removal of the finalizer |

A crash sets `op` to `Idle`; labels, timers, lists and pods survive. Pods go
through none, starting, up, failed; for the firmware and HwManager "up" stands
for running with the completion file that the next component waits for. A
reboot sets Ready to Unknown and restarts pods. Timers are none, running,
expired. `budget` is how often each outside event may still happen; pod
creation, start and removal, and the node coming up are never bounded.

A call to the API server may fail for good, or be reported to have failed
(`CallFails`, and the Updates of policies, whose errors most callers drop). What
the worker does then depends on the place:

| Error of | Is | Then |
|---|---|---|
| scan, labelling, aggregation, a pass as such, adoption, most of a deletion | returned | the request ends and is requeued |
| the steps within the loop over policies, teardown, rollback | met with `break` | the node is left alone for this pass |
| isolation; boot status and verdict (utility.go:975-978); the first selector of an adoption (label_control.go:354-364); teardownCompleted in a deletion | logged | the next write follows as if this one were done |
| the removal of the timers (983-987), of which `SetTimers` makes one write | logged | the timers stay beside the verdict |
| rolledBack (rollback_control.go:182-185) | logged | the loop over the policies goes on with the map read before the rollback |

Abstractions:

- A read of the node and the write that follows are one step (`NodeUpdate` takes
  them apart). What is held across several writes is kept in `op` and is seen.
  A label write and an annotation write that follow each other are one step,
  except for the verdict and its timers, where they are two.
- The asset state machine is the choice at `AfterLabels` and `EndPass`
  (`PolicyReconciler` has it).
- The node is not cordoned, so that the guard `isNodeSchedulable` of
  label_control.go:97 always lets it through (`PolicyReconciler` has cordons).
- Other nodes appear only as the choice in `RebootScan` (some, or all, of the
  policy's nodes are rebooting).
- A rolled-back node whose old status is still "true" has it cleaned by a write
  that verifies the label it keeps (label_control.go:530) and so reports
  failure: the write is done and the pass ends (`RolledBack`).
- Policies exist from the start and are not created again.
- The KMM ready label follows the module pod without delay.
- `isFirmwareDSCreated` never returns true as written, so that the pass of a
  first adoption always goes on (comment at `EnableFails`).
- Card counts, CSV status, logging and formatting are left out.

`VersionHistory` is what a node promises, in three variables: the active
version, the one to go back to, and the verdict; a version is adopted,
upgraded, rolled back at most once, judged, reopened (reboot) or withdrawn.

### PolicyLists

`lists` are the lists at the API server, `cache` the informer's copies, each
marked when it is out of date. `op` keeps what the Go code keeps: `held`, the
policy object of `Reconcile`; `mine`, the one fetched again after aggregation;
`array`, the memory the loop over `NodeSelector` ranges over. The removal of a
node is `append(s[:i], s[i+1:]...)`, which shifts that memory in place
(`ShiftedFrom`), and the index of a name that is not found is the first
(`IndexOf`). An `Update` of a stale copy is refused, and each call site treats
the error as the code does: most drop it. A removal from an empty list is an
index out of range; the operator restarts.

| Action | Code |
|---|---|
| `Fill`, `Aggregate` | an empty list takes the free nodes; nodes active under the policy are added, up to the first one that moves away |
| `Wait`, `Adopt`, `Move`, `SwitchVersion` | a visit in `labelX100NodeswithCR` |
| `ListUnderPrior`, `UnlistFromPolicy`, `RestorePrior` | `rollbackHandler` |
| `PassEnds` | the retry loop goes on with the policy object it has, or the reconcile ends |

### NodeUpdate

The node is the sequence of its versions and a `resourceVersion` an index into
it. Reads come from the informer cache (`seen`), which catches up version by
version. `op` is the worker in its call: the node object in hand (`node`, with its
resourceVersion `rv` and, as `at`, the version its labels were read at), the
caller's own object once a refetch has put another one in hand (`callers`), the
map to be written (`map`), the label map the handler keeps over its calls
(`held`), and the attempt.

| Action | Code |
|---|---|
| `Hold` | a handler reads the labels and keeps them |
| `Begin`, `ReadMap` | a call whose map is read for it |
| `BeginWithHeld` | a call with the map held since before an earlier call: label_control.go:328 written at 369 after the call of 354, 342 at 489-491; rollback_control.go:97 at 108, after the whole teardown, 163 at 171 and again at 182; x100_managementpolicy_controller.go:96 at 149 |
| `Update`, `Conflict`, `Refetch`, `UpdateFails`, `Fetch`, `Verify` | an attempt, in `setX100NodeLabels` or `setX100NodeAnnotations` |

The object of a call is fetched for it, or listed together with the map that is
held, or it is the one the call before has left, which the Get at utility.go:529
has refreshed (`ObjectsAtHand`). So at rollback_control.go:182 an old map goes
with a new resourceVersion, and the label of another writer is lost without a
conflict; and an annotation call may write the labels that a failed label call
has left in the object.

A conflict refetches the object but keeps the map, as the code does; after
another error labels are retried while annotations go on to the verification
(there is no `continue`), which for an addition accepts any value. `told` is a
history variable: what the last successful call for a label has set; a call
that hands over an older map is taken to set out to change every label that the
map has otherwise (`Outdated`).

### PolicyReconciler

| Part | Code |
|---|---|
| `queue`, `delayed`, `Take`, `Timer`, `Wakes` | workqueue, `RequeueAfter`, `UpdateFunc` and the mapping of a node to all policies |
| `ScanNode`, `ScanDone` | the reboot scan with its three returns |
| `labelX100Nodes`, `PassOver` ... `LeaveAlone`, `LabelsDone` | labelling, a node a step; the test that some node qualifies |
| `CreateAsset`, `Outcomes`, `Over` | the walk over the assets that have pods; `isPodReady`, which looks at the first pod found; retries |
| `getx100bootupStatus`, `AllMarked`, `ReportOperational`, `ReportNotOperational` | boot status and marks, end state, status update |

A policy starts new or Operational from before. Requests come from the updates
of nodes that `UpdateFunc` lets through, from timers, and from the policy's own
status update; the ten-hourly resync, heartbeats of nodes and the creation of
nodes are left out, since nothing must depend on them. Upgrades and rollbacks
are left to `NodeLifecycle`; a failed upgrade appears as a node that is never
done. Assets without pods never fail on their own and are left out.

### PolicyResources

A policy is absent, live or dying (a deletion timestamp), with a uid, a version
and a finalizer; `seen` is the cache, which the webhook reads as well. Objects
are reduced to their owner: the NodeFeatureRule, created by whoever comes first
and owned by it; the objects of init-tasks, which become the CRD's (an earlier
operator had made the policy the owner); the DaemonSets and the Module, which
stay as found; and the ConfigMap, which is written over, owner included, with
the error of that write dropped. The latter two are named after the version.
The collector takes an object whose owner is gone. Every policy has nodes, so
that `Finish` is reached only when pods of its objects have judged them: an
object the collector is about to take has none. Nothing watches the owned
objects, so that what is taken away after a policy is Operational stays away.

## 4. What is checked

Passing runs:

| Run | Instance and budget | Shows |
|---|---|---|
| `upgrade` | 2 policies; 2 moves, 1 time-out; `FairSpec` | pods come in order and are seen to go in the reverse one; the version changes on an empty node; no two versions run; every node settles; rollbacks end |
| `faults` | 2 policies with AutoIsolation; 2 moves with crash, time-out and failed call; or with 2 reboots; or with 2 deletions; or with crash, isolation and loss of the PCI label | the labels tell one story whatever map is written back; flows do not mix; judged nodes are complete; an isolated node is bare; nothing is left behind; refinement of `VersionHistory` |
| `recovers` | 2 policies; 2 moves and a crash; 1 move, 1 reboot, 1 deletion; or 1 move, 1 deletion, 1 pod failure; `FairSpec` | upgrades end; adopted nodes recover; deletions end |
| `lists` | 2 policies, 2 nodes, 8 scenarios of `MCPolicyLists`; `FairSpec` | the placeholder stands alone, lists are never emptied by the operator, no node is listed twice, every node ends on the list of its policy and on no other |
| `node_update` | 2 labels of the operator, one foreign, one annotation; 3 calls, with maps read or held, 3 attempts each, 1 foreign write, 1 failed Update with 1 crash or 1 lost answer | success means written; what was set stays; only old maps overwrite others |
| `reconciler` | 2 policies, 2 nodes, 2 assets one of which is a module, 2 retries, 6 scenarios; `FairSpec` | no policy is forgotten, none is Operational too early, all become so, a node that goes down is noticed |
| `resources` | 2 names, 2 versions, 5 scenarios with up to 3 creations, 2 edits, 2 deletions, a crash, a failure, a stale validation; `FairSpec` | what a policy needs stands when all is quiet; a deleted policy goes |

**Bounds.** Two policies are enough for every flow (a move there, its failure,
the way back, a second move against a first); a third would only repeat the
role of a bystander. Two nodes are enough for a list in which one node takes
the place of another, for one that runs empty, and for a policy with one of
its nodes down; they are not enough for a walk in which two rollbacks leave an
entry to be visited again, which is why `v_rolled_back_moved` has three.
Budgets are how often each outside event may still happen, and
are chosen so that the case of interest happens: adoption takes one move, an
upgrade two, `timeout` lets an unknown boot status become a failure, `crash`
strikes between any two writes. What the code does by itself is never bounded.
Bounds of the code that are made smaller: 5 attempts of an update are 3, 20
retries are 2, and the assets with pods are 2 (3 in `v_no_node_qualifies`,
where one must be left over when the retries end). One retry that fails and
one that ends the loop are all the cases there are; the theorems of section 5
hold for any number.

**Deadlock** is checked except where the system may rightly stop: all policies
deleted (`faults`), all calls made (`node_update`), all policies Operational or
waiting for a node (`reconciler`), all quiet (`resources`).

Where a property ends to hold, which is part of what the runs say:

- `SelectorsInOrder` holds without reboots, with up to three of them, and with two
  beside a crash or a failed call. It fails with more: two reboots with two
  crashes, or with a third move beside a crash or a failed call, or a reboot
  with a deletion. A map held over a reboot brings an old selector set back.
- `RemovedInSequence` holds with a crash, with two reboots, and with an isolation
  and a loss of the PCI label. It fails with a failed call, after which a move
  begins in the middle of a rollback; with a deletion during a first adoption;
  and with a pod failure.
- `JudgedNodeIsComplete` holds with crashes, with reboots, with failed calls, with
  four moves, and with a deletion. It fails with a pod failure; with a second
  isolation or a second loss of the PCI label; with AutoIsolation on a time-out
  that the user undoes, since the expired timer is still there and the status
  "false" at once; with a deletion beside a crash, a reboot or a failed call;
  and with two reboots beside a crash or a failed call: the boot status is
  read, the write of the verdict is lost, and the second reboot leaves
  the old status alone because the node is marked `rebooted` already, so that
  the verdict is given while it comes up.
- `OneVersionOnNode`, `CreatedInSequence` and `VersionChangesWhenTornDown` need one
  move at a time (`OneMoveAtATime` of `PodProofs`). Without any fault a third
  move breaks them in three ways: a user lists a node with its prior policy
  while its rollback is on, and an upgrade runs beside the rollback; an upgrade
  begins on a rolled-back node that is not judged yet, whose teardown finds no
  pod while the firmware selector is set, and the pod comes after; or, with
  three policies, a move during an upgrade makes `BlockAggregation` write a map
  back that has fewer selectors, so that a module pod stays. With one move at a
  time they hold in the face of crashes, failed calls and time-outs. Two
  reboots break all three, and so do an isolation, a loss of the PCI label and a
  pod failure; a deletion breaks the first two.
- `CreatedInSequence` needs the PCI label to stay and pods not to fail: when
  the label goes only x100.present is removed, the selectors stay, and when it
  returns the pods come back in any order.
- `VersionChangesWhenTornDown` fails with a reboot, because a module pod that is
  there but not ready counts as gone (`waitForKmmPodTermination` looks at the
  KMM label alone), and with a crash between the two list updates of a
  rollback: the way back then becomes an ordinary upgrade, and the leftover
  rollback label takes the node to the version that failed.
- `JudgedNodeNotIsolated` is in no run. Verdict and timers are two writes
  (`markHealthCheckedforCurrentCR`), and that the second has failed is only
  logged (utility.go:983-987): a time-out and that failed write, or a crash
  between the two, and a judged node is isolated. `JudgedNodesStayInService`
  proves that there is no other way.
- `FirmwareLeavesLast` is in no run: it is proved (`FirmwareIsLast`), and holds by
  the order of the teardown.
- `Converges` and `RollbackFinishes` fail with a crash in a rollback
  (`v_rollback_stuck`), and likewise with a failed write of rolledBack, which is
  only logged (rollback_control.go:182-185).
- `UpgradeFinishes` fails with a failed call. An Update at label_control.go:478
  that is refused leaves the node on two lists, its old policy moves it back
  while the upgrade is on, and when that upgrade fails it returns to its prior
  policy with a move to this same policy still noted: it is "upgrading" from
  then on, and every pass gives up (`IncorrectPolicy`). It also fails with a
  third move, and when a policy is deleted and the operator crashes.
- `DeletionFinishes` needs a node that no second policy lists: otherwise that
  policy's passes go on enabling selectors while the teardown removes them, and
  the two may undo each other for ever.
- `NothingLeftBehind` fails with isolation and with a PCI label that comes and
  goes: if the node is isolated, or the PCI label removed, after the last pass
  that labelled it, the last policy's deletion leaves x100.present="true" as it
  was, since no later pass looks at the node. It also fails with a crash in a
  first adoption, between the first selector and activeCR, or with a failed
  write of activeCR (label_control.go:369-372): the deletion finds
  the node not under the policy and leaves the selector; and when a node that
  is listed reboots before it is adopted: the reboot label stays.
- `EventuallyHome` fails when a cache lags while nodes move: the Update that
  takes a node off its old list is refused, its error dropped
  (label_control.go:478), and the node stays on two lists; and when users take
  nodes off lists in the middle of a move, all lists may end with the
  placeholder, and such policies are not taken up any more.
- `MovesOnlyListedNodes` is refuted by two rollbacks in one walk
  (`v_rolled_back_moved`). It also fails in both cases above, and when a user
  takes a node off the list that is being walked. `MovesStayListed` proves it
  where none of this happens.
- `NoDuplicates` fails when a user lists a node again while its upgrade is
  failing, with a crash between the two list updates of a rollback, which is
  then done again, and with a rollback when a lagging cache has left the node on
  its old list. `PlaceholderAlone` and `NeverEmptied` hold in every
  scenario, and are proved.
- `NothingForgotten` and `BecomesOperational` fail when the update of the status
  to Operational is lost (x100_managementpolicy_controller.go:463): its error is
  dropped and the request is over. `BecomesOperational` also fails for several
  fresh nodes (`v_no_node_qualifies`), for a node that reboots before it is
  adopted (`v_reboot_before_adoption`), and for one that is cordoned as well:
  then the operator may not hear of it at all. `NothingForgotten` does not see
  the last two, since a policy is reported by the marks of its adopted nodes
  (`Reported`), as `endState` has it.
- `AcknowledgedStays` speaks of a label until a call sets out to change it, and a
  call with an older map sets out to change all that the map has otherwise, as
  first adoption does with the selector it has just set. It and
  `WrittenOnSuccess` need calls that verify the key they set;
  rollback_control.go:108 verifies another.
- `OnlyOldMapsOverwrite` says when the label of another writer may be lost: with
  a map held over an earlier call, or at a later attempt of a call. It is lost
  in these cases.
- `AssetsStand` fails when a version is edited and another policy takes the old
  version: the objects of the old version are still owned by the first policy
  and go with it. It also rests on `Finish` (section 3).
- Two policies of one version, admitted by a stale cache, refuse each other's
  removal of the finalizer: `DeletedPolicyGoes` makes that exception (`Clash`).
- A policy of an earlier operator takes the objects of init-tasks along when it is
  deleted before a pass of the new operator has made them the CRD's.

### Fairness

`NodeProperties!FairSpec` assumes of the operator: the worker keeps stepping
(weak fairness of `OperatorStep`); the retry loop of `Reconcile` is bounded by its
retry count, so that passes end (strong fairness of `PassEnds`); a policy is
requeued after each reconcile and the queue is first in first out, so that no
policy waits for ever (strong fairness of taking up each policy). Of the world:
the assets become ready, so that a policy's pass reaches the boot status again
and again (`LookAtBoot`), and the boot status becomes known, because the cards
answer or the health check's five minutes turn unknown into a failure
(`BootKnown`); a rebooting node comes up; the kubelet and the controllers act on
a pod as long as they have to.

`PolicyLists!FairSpec`: the same for the worker and the queue; the informer
catches up (`Sync`); an upgraded node is judged (strong fairness, since the
worker gives the verdict between its walks); a policy that visits a node
again and again acts on it at last (`Visits`: what the visit waits for are pods,
which `NodeLifecycle` has).

`PolicyReconciler!FairSpec`: the worker steps, requests are taken in their turn,
timers fire, pods start and stop on a node that is up. That a node comes up or
is uncordoned is not assumed: the properties say "once the nodes stay up" or
"unless it comes up sooner". The retry loop is in the model and needs no
assumption.

`PolicyResources!FairSpec`: worker and queue, the cache follows, the collector
collects.

Strong fairness is needed where the action is disabled in between: the worker
serves other policies, or a pass takes another branch. Nothing is assumed of
users, faults, or the order in which policies are taken.

### Disagreements found

Each `v_` run checks one sentence of the code's comments, which TLC refutes.
PROJECT.json quotes the lines.

| Run | What happens | Needs |
|---|---|---|
| `v_rollback_stuck` | a crash after priorCR is cleared leaves the node rolling back for ever | one crash |
| `v_reboot_before_adoption` | a node that reboots between listing and adoption is never judged | one reboot |
| `v_no_node_qualifies` | several fresh nodes wait for a pod whose DaemonSet is created only once one of them need not wait | nothing |
| `v_rule_lost` | the deletion of the first policy takes the NodeFeatureRule all others rely on | one deletion |
| `v_rolled_back_moved` | two rollbacks in one walk over a list, and a rolled-back node is moved once more to the policy that no longer lists it | three nodes, two failed upgrades |

In `v_rolled_back_moved`, label_control.go:324 says "Process only nodes that are
in the policy nodeSelectorList". The removal of a rolled-back node
(rollback_control.go:148) shifts the array that the loop of
label_control.go:322 ranges over with its old length. After two removals in one
walk over three nodes the array ends with entries seen twice: a node that has
been rolled back, and is off the list, is visited again. Its labels, read
afresh, say that it is active under its prior policy, so that it is taken off
that one's list (label_control.go:458-491) and upgraded again to the version
that has just failed.

One more needs no run. The order of the teardown is documented in three ways:
`x100SelectorLabelsForDeletion`, "Sequence for deletion" (constants.go:62-68), has
device plugin, firmware, HwManager, kernel modules; the comment above the
teardown (utility.go:1105-1107) has firmware, HwManager, kernel modules; and
`teardownX100ManagementPolicyOwnedPodsOnNode` takes device plugin, kernel
modules, HwManager, firmware, the reverse of "Sequence for creation"
(constants.go:70-76). The list is only read by `cleanupStaleSelectorLabels`
(utility.go:66-73), which removes all of it in one write, so that its order is
without effect. The model has the order of the code, and `FirmwareIsLast` proves
that the firmware goes last, which both texts deny.

## 5. What is proved

`NodeProofs` proves `TypeCorrect`, `Spec => []TypeOK`, from `TypeInv`: the types
alone are not inductive, since a rollback makes `op.prior` the active policy
and adoption does the same with `op.policy`; `PlaceOK` says that both exist
where they are used.

`LifecycleProofs` proves `LabelsConsistent`, `Spec => []LifecycleInv`, and from
it six invariants and an action property. The idea of the invariant: the worker
writes back maps it read long before, so that what the labels must satisfy
(`MapOK`) is required of `labels`, `op.snap` and `op.rsnap` alike. `WorkerOK` ties
to the worker's place what handlers rely on without looking again: while it
adopts, the map it holds has no activeCR; while it rolls back or upgrades,
neither the labels nor the held maps have the reboot label, because only the
reboot scan sets it and the same worker runs the scan; while it drains, no
selector later than the current one is set. From there:

1. every write keeps `MapOK` under what its handler has checked (lemmas
   `CleanMap` ... `VerdictMap`, one per write);
2. every action keeps `LifecycleInv` (one lemma per action, `...Keeps`; most by
   `QuietStep`, to a place where nothing is claimed, or `CarryStep`, moving on
   within a flow);
3. outside events write only labels that `MapOK` does not speak of, and a crash
   only makes the worker forget.

The last part of `LifecycleProofs` proves `DeletedPolicyReleases`, that a deleted
policy leaves only nodes that are moving away. `ReleaseInv` requires it of the labels and of the two
held maps (`Released`), and of the place where the policy is removed that the
node is not under it (`FinalizeOK`). Only the worker removes a policy, and it
holds no map there; everywhere else the policies stay, and a policy written into
the labels is one the worker is working for, or the prior one, both of which
`PlaceOK` says exist.

`HistoryProofs` proves what holds as long as certain faults do not occur. It
rests on one lemma (`HeldMaps`): a map the worker holds was on the node in the
step in which it was read, or is bare. What every write keeps therefore holds
of all three maps, and a hypothesis on a budget becomes an invariant (a budget
that is 0 stays 0).

- `SelectorsStayInOrder`: no reboots. A selector is set only beside all earlier
  ones and the last is taken first, in the labels and in the maps written over
  them (`OrderInv`).
- `JudgedNodesStayInService`: the step that removes the timers after a verdict
  neither fails nor is cut off (`TimersLeft` never happens). A map with a verdict
  means that no processing timer runs, except between the verdict and
  `ClearTimers`, where no pass can begin (`UntimedInv`). Any other crash and
  failed call may happen.
- `HistoryWithVerdicts` and `HistoryWithoutRollback`: the refinement of
  `VersionHistory`. `HistoryInv` says what a map can be a stage of
  (`HistoryOK`), and for each place of the worker how the map it holds relates
  to the labels now: within the loop they agree on what the history speaks of
  (`LoopOK`), a rollback has not been overtaken (`BackOK`), an upgrade that is
  begun is still on (`MoveOK`). One write escapes it: `RolledBack`, resuming a
  rollback, drops a boot status it finds in a map without its verdict
  (`StatusDropped`). `HistoryUnlessDropped` is the refinement of every behaviour
  without that write. It does not occur where every verdict that is due is
  written (`VerdictLost` never happens: no crash and no failed write at `mark`
  with a status to judge, while crashes and failed calls elsewhere do no
  harm), since then the pass that reads a good status judges it (`KnownInv`);
  nor without rollbacks, since no map has a mark of one (`NeverBack`).
- `MoveHasDestination`: any faults. `blocked` names a policy that exists.
- `LastDeletionLeavesNothing`: no reboots, isolations and losses of the PCI
  label; no crash and no failed call between the first selector and activeCR of
  an adoption (`AdoptionCut`), and no verdict lost; any moves, rollbacks, and
  other crashes and failed calls. `LeftInv` says what a node without policy may
  still carry, and that the deletion of a policy finds the node under it or
  bare.

`PodProofs` relates labels to pods: `OneVersionRuns`, `JudgedNodesAreComplete`,
`PodsComeInSequence` and `VersionChangesOnEmptyNode`. The labels decide which pods
may be there and the pods follow some steps later, by steps of other actors;
what the four say is that the operator never draws a conclusion from labels
that the pods have not caught up with. They hold for any crashes, failed
calls, time-outs, rollbacks and number of moves, under two hypotheses: nothing
but moves is done to the node (`Kept`: no reboots, pod failures, deletions,
isolations and losses of the PCI label), and a move begins only when the upgrade
or rollback before it has been judged (`OneMoveAtATime`, a condition on the
labels in every state). Section 4 has the counterexamples without them.

The inductive invariant `NodeInv` is `LifecycleInv`, `OrderInv`, `HistoryInv`,
`ResumesOnMark` (which say what handlers and held maps may be), and `PodInv`:

- `StageMaps`: the labels, and the maps the worker may still write back, are in
  exactly one of five stages (first bring-up, upgrading, rolling back, rolled
  back, judged), and a boot status or verdict is only on a node with all
  selectors.
- `PodsFit`: what a stage says of the pods. Going up, there are pods of selected
  components only and those before a selected one are up (`EarlierUp`, `NoStray`);
  with a status or a verdict all are up (`AllUp`); on the way down none is still
  starting and the selected ones are up (`NoneStarting`), which is why a
  teardown, which looks for pods only once, sees every one of them; at the
  bottom of a rollback none is selected (`Bottom`). Pods are those of the active
  version (`OfActive`) and of one version (`OneVersion`).
- `PlaceFits`: what the worker relies on at its place. While it drains, what is
  there has been found, and what it has passed is gone (`DrainPlace`); the map a
  rollback keeps has no selector the labels have lost, and none at the end
  (`BackPlace`); when a version is about to change, nothing runs (`LoopPlace`).

The proof goes write by write: each keeps the stage (lemmas `...Stage`), the pods
fit the new labels (`...Fits`), and the next place is backed (`...Place`). A pod
step is created, up or gone (`CreatedFits`, `UpFits`, `GoneFits`): a pod is
created only where its selector is set and the ones before are up, and goes only
on the way down, since nothing else takes a selector away (`QuietSteps`).
`HistoryInv` stays although crashes and rollbacks meet: the write of
`StatusDropped` ends the pass, and the node it leaves, being rolled back, is not
upgrading, so that nothing is asked of it (`NextCalmHistory`). The step is still
not one of `VersionHistory`, so that the refinement does not follow.

`ListProofs` proves that the placeholder stands alone and that the operator
empties no list. `ListInv` ties every copy of a list, in the cache or in the
worker, to the list: a copy that is not stale equals it. Since a stale copy is
never written, what the worker computes from a copy is what the list becomes,
and a proper list stays proper under each computation (lemmas on `RemoveNode`,
`ReturnNode`, filling and aggregation, from the library's facts on sequences).
The other ingredient is that a policy with only the placeholder is not taken
up, and that a rolled-back node has a prior policy other than its own.

It then proves the two properties that need hypotheses on the scenarios.
`ListsWithoutRollback`: without rollbacks (no policy has them enabled, or no
upgrade fails) no node is listed twice, whatever users, caches and crashes do,
since all else that adds to a list looks first. `ListsWithRollbacks`: a rollback
adds the node to its prior list without looking. That it is not there is
`LeftUnlisted`: a node leaves that list when it moves, and comes back only
through the rollback. For this the cache must keep up (or the removal is
refused), the operator must not crash between the two updates, and users must
not list the node with the policy it has left (`NotListedAgain`, an assumption
on their steps); each of these is needed, by the counterexamples of section 4.
`MovesStayListed`: what is left of the walk is on the list (`WalkIsListed`), as
long as users take nothing off it, the cache keeps up, and no rollback shifts
the array; users may add and the operator may crash.

`UpdateProofs` rests on one argument: an Update is accepted only with the newest
`resourceVersion`, and that came from the cache, so that at that moment the cache
was up to date; and what it shows from then on is what was written. Maps and
objects may be old, so `UpdateInv` says what is true of each copy in memory: the
labels of others are as they were in the version its labels were read at
(`Faithful`), and an object with the newest `resourceVersion` has every label
that a call was told to have set (`Knows`, `Sound`). So does the map to be
written, held or not (`MapKnows`), since a held map that has a label otherwise
puts it in doubt. For each place of the call, the object carries the map
(`CarriesMap`), or the node has had it since the call began (`KeyWritten`,
`MapWritten`). `OldMapsOnly` follows from `Faithful`: an object as old as its
labels is refused, or has the labels of others as they are. Assumption
`VerifiesItsLabel`: a call for a label verifies that label, and a deletion
deletes.

`ReconcilerProofs` proves types and `OperationalIsEarned` from `EarnedInv` (the
assets before the current one exist; a node is judged or on its way back from a
reboot, never both) and `NothingForgotten` from `MemoryInv`: every policy is
queued, on a timer, being worked on, reported, or has a node whose next update
will wake the operator. The scan makes it delicate: it collects nodes that were
down, which may have come up since, and then their update has put the policy
into the queue again (`DownAreAwaited`). Assumption `StateIsWritten`: no update of
the state to Operational is lost; without it the theorem is false.

`ResourceProofs` proves `VersionsStayApart`: as long as no request is validated
while the cache is behind (`CacheInTime`), no two policies have one version.
From that `AssetsStayStanding` proves `AssetsStand`, with `VersionsStay` (no
version is edited; at first there is at most one policy, which owns only
objects of its version). `StandInv` says that a policy that is there owns objects
of its own version only (`OwnVersion`), that a pass works for a policy that is
still there and as the pass has read it (`PassIsOwn`), and that every policy is
queued, not yet seen, being worked on, or owns its objects, unless the CRD does
(`Served`). The collector takes only from owners that are gone, so that what a
pass has found its own stays.

All theorems hold for any sets of policies, nodes, labels, versions and assets,
and, apart from the hypotheses named above, any budgets: any number of crashes,
reboots, deletions and failures. Without such a hypothesis TLC finds the
property violated (section 4), with four exceptions: the refinement, below; in
`LastDeletionLeavesNothing`, that every verdict due is written, which the proof
takes from the refinement (TLC has no counterexample within three moves and two
deletions with a crash, or two moves with a crash and a failed call); the single
policy that `VersionsStay` allows at first, which keeps the proof short; and of
`PodProofs`, whose four theorems share hypotheses that three of them need, one
move at a time for `JudgedNodesAreComplete` and no deletion for
`VersionChangesOnEmptyNode`: for these TLC has no counterexample within four
moves or one deletion. The named ASSUMEs of the modules (`NoneIsNoPolicy`, `ConstantsAssumption`,
`ListAssumption`, `UpdateAssumption`, `ReconcilerAssumption`,
`ResourcesAssumption` and `OwnersAssumption`) are evaluated by TLC in the runs.

| Theorem | Property |
|---|---|
| `TypeCorrect`, `UpdateTypes`, `ReconcilerTypes` | `TypeOK` of their module |
| `VersionAlwaysFollows` | `VersionFollowsPolicy` |
| `PriorDiffers` | `PriorNeverActive` |
| `VerdictEnds` | `VerdictEndsWork` |
| `FailureIsJudged` | `FailureIsAVerdict` (proved, in no run: `LifecycleInv` implies it) |
| `RollbackIsClean` | `RollbackStartsClean` |
| `FlowsApart` | `OneFlowAtATime` |
| `WithdrawnStaysBare` | `WithdrawnIsBare` |
| `FirmwareIsLast` | `FirmwareLeavesLast` (proved, in no run) |
| `DeletedPolicyReleases` | `DeletedPolicyReleasesNode` |
| `SelectorsStayInOrder` | `SelectorsInOrder`, without reboots |
| `JudgedNodesStayInService` | `JudgedNodeNotIsolated`, where the timers go with the verdict (proved, in no run) |
| `HistoryWithVerdicts`, `HistoryWithoutRollback`, `HistoryUnlessDropped` | `ImplementsHistory` (refinement of `VersionHistory`), where every verdict due is written; without rollbacks; without the one write in doubt |
| `LastDeletionLeavesNothing` | `NothingLeftBehind`, without reboots, isolations and losses of the PCI label, where no adoption is cut off and every verdict due is written |
| `MoveHasDestination` | a move leads to a policy that exists (proved, in no run) |
| `OneVersionRuns`, `PodsComeInSequence`, `VersionChangesOnEmptyNode` | `OneVersionOnNode`, `CreatedInSequence`, `VersionChangesWhenTornDown`, where only moves happen to the node, one at a time |
| `JudgedNodesAreComplete` | `JudgedNodeIsComplete`, likewise |
| `PlaceholderIsAlone`, `ListsStayFilled` | `PlaceholderAlone`, `NeverEmptied` |
| `ListsWithoutRollback`, `ListsWithRollbacks` | `NoDuplicates`, under the two sets of hypotheses above |
| `MovesStayListed` | `MovesOnlyListedNodes`, without rollbacks, removals by users and lag (refuted otherwise by `v_rolled_back_moved`) |
| `SuccessMeansWritten`, `SetLabelsStay`, `OldMapsOnly` | `WrittenOnSuccess`, `AcknowledgedStays`, `OnlyOldMapsOverwrite` |
| `OperationalMeansMarked`, `NoPolicyForgotten` | `OperationalIsEarned`, `NothingForgotten` |
| `VersionsStayApart` | `VersionsApart` (what `AssetsStand` rests on) |
| `AssetsStayStanding` | `AssetsStand`, with an up-to-date cache and versions that are not edited |

Only model-checked: what relates labels to pods beyond those hypotheses, such as
`JudgedNodeIsComplete` with reboots (runs `faults`), which section 4 shows to
depend on the events allowed and on their number; the refinement of
`VersionHistory` where crashes and rollbacks meet, which holds in the budgets
tried (up to three moves with two crashes), but whose inductive invariant the
write of `StatusDropped` breaks, after a crash between reading a status and
judging it, so that nothing is claimed for every budget; and liveness, which the
prover does not do.

## 6. Not modelled

- Manifest templating, `main.go`, API deep copies, images, deployment files: no
  state, or no decisions.
- The VF configuration script copies files once and then sleeps for ever.
- The contents of the objects of `resource_control.go`, and the assets that
  differ from another in content only.
- Of the predicates: `CreateFunc`, and the branch of `UpdateFunc` for isolated
  nodes.
- The branch of the retry loop that finds the policy to be deleted: it looks at
  the policy object read at the start of the reconcile, which had no deletion
  timestamp then, and so never runs.
- Leader election: one operator process is assumed, as the deployment has it.

## Running

    tlc -workers 2 -config upgrade.cfg MCNodeLifecycle
    tlc -workers 2 -config lists.cfg MCPolicyLists
    tlc -workers 2 -config node_update.cfg MCNodeUpdate
    tlc -workers 2 -config reconciler.cfg MCPolicyReconciler
    tlc -workers 2 -config resources.cfg MCPolicyResources
    tlapm LifecycleProofs.tla

and likewise for the other configurations and proof modules.
