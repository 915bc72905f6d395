------------------------------ MODULE NodeProofs ------------------------------
(***************************************************************************)
(* Types.  The labels, timers and the worker's stack keep their types      *)
(* through every write, which TypeOK alone cannot show: a rollback makes   *)
(* op.prior the active policy and an adoption op.policy, and PlaceOK says  *)
(* that each is a policy at the places where it is used.  First each write *)
(* of a label map, then each action (the lemmas ...Types), then Spec.      *)
(***************************************************************************)
EXTENDS NodeProperties, TLAPS

LEMMA CleanTypes ==
    ASSUME NEW l \in NodeLabels
    PROVE  /\ cleanupStaleCRLabels(l) \in NodeLabels
           /\ cleanupStaleSelectorLabels(l) \in NodeLabels
           /\ StatusCleaned(l) \in NodeLabels
           /\ cleanupLabelsOnReboot(l) \in NodeLabels
BY DEF NodeLabels, PolicyOrNone, cleanupStaleCRLabels, cleanupStaleSelectorLabels, StatusCleaned, cleanupLabelsOnReboot

LEMMA WriteTypes ==
    ASSUME NEW l \in NodeLabels, NEW p \in PolicyOrNone
    PROVE  /\ Adopted(l, p) \in NodeLabels
           /\ Switched(l, p) \in NodeLabels
           /\ Restored(l, p) \in NodeLabels
           /\ UpgradeBegun(l) \in NodeLabels
           /\ RollbackBegun(l) \in NodeLabels
           /\ Verdict(l) \in NodeLabels
           /\ Withdrawn(l) \in NodeLabels
<1>1. Adopted(l, p) \in NodeLabels /\ Switched(l, p) \in NodeLabels /\ Restored(l, p) \in NodeLabels
  <2>1. Adopted(l, p) \in NodeLabels BY DEF NodeLabels, PolicyOrNone, Adopted, Flags
  <2>2. Switched(l, p) \in NodeLabels BY DEF NodeLabels, PolicyOrNone, Switched, Flags
  <2>3. Restored(l, p) \in NodeLabels BY DEF NodeLabels, PolicyOrNone, Restored, Flags
  <2>. QED BY <2>1, <2>2, <2>3
<1>2. UpgradeBegun(l) \in NodeLabels /\ RollbackBegun(l) \in NodeLabels
  <2>1. UpgradeBegun(l) \in NodeLabels
    BY DEF NodeLabels, PolicyOrNone, UpgradeBegun, StatusCleaned, Flags
  <2>2. RollbackBegun(l) \in NodeLabels
    BY DEF NodeLabels, PolicyOrNone, RollbackBegun, StatusCleaned, Flags
  <2>. QED BY <2>1, <2>2
<1>3. Verdict(l) \in NodeLabels
  <2>1. Verdict(l).boot \in {"absent", "unknown", "true", "false"} /\ Verdict(l).flags \subseteq Flags
    BY DEF NodeLabels, Verdict, Flags
  <2>2. PICK b \in {"absent", "unknown", "true", "false"}, f \in SUBSET Flags :
           Verdict(l) = [l EXCEPT !.boot = b, !.flags = f]
    BY <2>1 DEF NodeLabels, Verdict
  <2>. QED BY <2>2 DEF NodeLabels
<1>4. Withdrawn(l) \in NodeLabels
  <2> DEFINE bare == cleanupStaleSelectorLabels(cleanupStaleCRLabels(l))
  <2>1. bare \in NodeLabels BY CleanTypes
  <2>2. Withdrawn(l) = [bare EXCEPT !.present = "false"] BY DEF Withdrawn
  <2>. HIDE DEF bare
  <2>. QED BY <2>1, <2>2 DEF NodeLabels
<1>. QED BY <1>1, <1>2, <1>3, <1>4

LEMMA BareTypes == BareLabels \in NodeLabels
BY DEF BareLabels, NodeLabels, PolicyOrNone

LEMMA IdleTypes == Idle \in Workers
BY BareTypes DEF Idle, Workers, PCs, Flows, PolicyOrNone, Comps

(* What a worker holds that has given the node up.                         *)
LEMMA RestFields ==
    /\ Idle.pc = "idle" /\ Idle.flow = "upgrade" /\ Idle.then = "status"
    /\ Idle.snap = BareLabels /\ Idle.rsnap = BareLabels /\ Idle.prior = None
    /\ AtStatus.pc = "status" /\ AtStatus.flow = "upgrade" /\ AtStatus.then = "status"
    /\ AtStatus.snap = BareLabels /\ AtStatus.rsnap = BareLabels /\ AtStatus.prior = None
    /\ AtStatus.policy = op.policy
<1>. DEFINE i == Idle
<1>1. /\ i.pc = "idle" /\ i.flow = "upgrade" /\ i.then = "status"
      /\ i.snap = BareLabels /\ i.rsnap = BareLabels /\ i.prior = None
  BY DEF Idle
<1>2. AtStatus = [Idle EXCEPT !.pc = "status", !.policy = op.policy] BY DEF AtStatus, Me
<1>3. /\ AtStatus.pc = "status" /\ AtStatus.flow = "upgrade" /\ AtStatus.then = "status"
      /\ AtStatus.snap = BareLabels /\ AtStatus.rsnap = BareLabels /\ AtStatus.prior = None
      /\ AtStatus.policy = op.policy
  BY <1>2 DEF Idle
<1>. QED BY <1>1, <1>3

LEMMA AtStatusTypes ==
    ASSUME op \in Workers
    PROVE  AtStatus \in Workers
<1>1. op.policy \in PolicyOrNone BY DEF Workers
<1>. QED BY IdleTypes, <1>1 DEF AtStatus, Me, Workers, PCs

LEMMA GotoTypes ==
    ASSUME op \in Workers, NEW pc \in PCs, Goto(pc)
    PROVE  op' \in Workers
<1>1. [op EXCEPT !.pc = pc] \in Workers BY DEF Workers
<1>. QED BY <1>1, AtStatusTypes DEF Goto

LEMMA EndPassTypes ==
    ASSUME op \in Workers, EndPass
    PROVE  op' \in Workers
<1>1. op.policy \in PolicyOrNone BY DEF Workers
<1>2. [Idle EXCEPT !.pc = "isolate", !.policy = Me] \in Workers
  BY IdleTypes, <1>1 DEF Me, Workers, PCs
<1>. QED BY <1>2, IdleTypes DEF EndPass

(* What Goto and EndPass leave in each field of the worker.                *)
LEMMA GotoFields ==
    ASSUME op \in Workers, NEW pc \in PCs, Goto(pc)
    PROVE  /\ op'.pc = pc /\ op'.policy = op.policy
           /\ pc # "status" => /\ op'.flow = op.flow /\ op'.then = op.then
                               /\ op'.snap = op.snap /\ op'.rsnap = op.rsnap
                               /\ op'.prior = op.prior /\ op'.at = op.at
           /\ pc = "status" => /\ op'.snap = BareLabels /\ op'.rsnap = BareLabels
                               /\ op'.then = "status"
BY DEF Goto, AtStatus, Me, Idle, Workers

LEMMA EndPassFields ==
    ASSUME op \in Workers, EndPass
    PROVE  /\ \/ op' = Idle
              \/ op'.pc = "isolate" /\ op'.policy = op.policy
           /\ op'.snap = BareLabels /\ op'.rsnap = BareLabels /\ op'.then = "status"
BY DEF EndPass, Me, Idle, Workers

(* A fresh worker at some place, for some policy.                          *)
LEMMA FreshTypes ==
    ASSUME NEW pc \in PCs, NEW p \in PolicyOrNone, op' = [Idle EXCEPT !.pc = pc, !.policy = p]
    PROVE  /\ op' \in Workers
           /\ op'.pc = pc /\ op'.policy = p /\ op'.flow = "upgrade"
           /\ op'.snap = BareLabels /\ op'.rsnap = BareLabels /\ op'.then = "status"
<1>1. op' \in Workers BY IdleTypes DEF Workers
<1>. QED BY <1>1 DEF Idle

(* What the type invariant says of each part of the state.                 *)
LEMMA Parts ==
    ASSUME TypeInv
    PROVE  /\ TypeOK /\ PlaceOK /\ op \in Workers /\ labels \in NodeLabels
           /\ timers \in [proc : TimerStates, health : TimerStates]
           /\ policies \subseteq Policies /\ listedBy \subseteq policies
           /\ deleting \subseteq policies /\ budget \in [Faults -> Nat]
           /\ op.pc \in PCs /\ op.flow \in Flows /\ op.policy \in PolicyOrNone
           /\ op.snap \in NodeLabels /\ op.rsnap \in NodeLabels
           /\ op.prior \in PolicyOrNone /\ op.at \in Comps
           /\ op.todo \subseteq Policies /\ op.found \subseteq Comps
           /\ op.then \in {"status", "adopt", "loop", "rolledBack"}
BY DEF TypeInv, TypeOK, Workers

LEMMA SpendTypes ==
    ASSUME TypeInv, NEW f, Spend(f)
    PROVE  budget' \in [Faults -> Nat]
<1>1. CASE f \in Faults
  <2>1. budget[f] - 1 \in Nat BY Parts, <1>1 DEF Spend
  <2>. QED BY Parts, <2>1 DEF Spend
<1>2. CASE f \notin Faults BY Parts, <1>2 DEF Spend
<1>. QED BY <1>1, <1>2

(* Writing the timers, or failing to.                                      *)
LEMMA SetTimersTypes ==
    ASSUME TypeInv, NEW t \in [proc : TimerStates, health : TimerStates], SetTimers(t)
    PROVE  /\ timers' \in [proc : TimerStates, health : TimerStates]
           /\ budget' \in [Faults -> Nat]
BY Parts, SpendTypes DEF SetTimers

(* A worker step leaves the cluster alone.                                 *)
LEMMA FrameTypes ==
    ASSUME TypeOK, op' \in Workers, labels' \in NodeLabels, listedBy' \subseteq policies,
           timers' \in [proc : TimerStates, health : TimerStates],
           UNCHANGED <<policies, deleting, nodeReady, pods>>, budget' \in [Faults -> Nat]
    PROVE  TypeOK'
BY DEF TypeOK

LEMMA GotoStep ==
    ASSUME TypeInv, op.pc # "idle", labels' \in NodeLabels, listedBy' \subseteq policies,
           timers' \in [proc : TimerStates, health : TimerStates],
           UNCHANGED <<policies, deleting, nodeReady, pods>>, budget' \in [Faults -> Nat],
           NEW pc \in PCs \ {"list", "drain", "torn", "toPrior", "fromPolicy", "restore",
                             "rolledBackLabel"},
           Goto(pc)
    PROVE  TypeInv'
<1>1. op' \in Workers /\ op'.pc = pc /\ op'.policy = op.policy
  BY Parts, GotoTypes, GotoFields
<1>2. TypeOK' BY Parts, <1>1, FrameTypes
<1>3. PlaceOK' BY Parts, <1>1 DEF Me, PlaceOK, RollingBack
<1>. QED BY <1>2, <1>3 DEF TypeInv

LEMMA StopStep ==
    ASSUME TypeInv, op' = Idle, labels' \in NodeLabels, listedBy' \subseteq policies,
           timers' \in [proc : TimerStates, health : TimerStates],
           UNCHANGED <<policies, deleting, nodeReady, pods>>, budget' \in [Faults -> Nat]
    PROVE  TypeInv'
<1>1. op' \in Workers /\ op'.pc = "idle" BY IdleTypes DEF Idle
<1>2. TypeOK' BY Parts, <1>1, FrameTypes
<1>3. PlaceOK' BY <1>1 DEF PlaceOK, RollingBack
<1>. QED BY <1>2, <1>3 DEF TypeInv

LEMMA EndPassStep ==
    ASSUME TypeInv, op.pc # "idle", EndPass, UNCHANGED <<others, listedBy, labels>>,
           timers' \in [proc : TimerStates, health : TimerStates], budget' \in [Faults -> Nat]
    PROVE  TypeInv'
<1>1. op' \in Workers BY Parts, EndPassTypes
<1>2. op'.pc \in {"idle", "isolate"} /\ (op'.pc = "isolate" => op'.policy = op.policy)
  BY Parts, EndPassFields DEF Idle
<1>3. TypeOK' BY Parts, <1>1, FrameTypes DEF cluster, others
<1>4. PlaceOK' BY Parts, <1>2 DEF Me, PlaceOK, RollingBack, cluster, others
<1>. QED BY <1>3, <1>4 DEF TypeInv

-----------------------------------------------------------------------------
(* One lemma for each action of the worker: it keeps the types and the     *)
(* worker in its place.                                                    *)

LEMMA ReconcileTypes ==
    ASSUME TypeInv, NEW p \in Policies, Reconcile(p)
    PROVE  TypeInv'
<1>1. p \in PolicyOrNone BY DEF PolicyOrNone
<1>2. op' \in Workers /\ op'.pc = "scan" /\ op'.policy = p
  BY <1>1, FreshTypes DEF Reconcile, PCs
<1>3. TypeOK'
  BY Parts, <1>2, FrameTypes DEF Reconcile, cluster, others
<1>4. PlaceOK'
  BY <1>2 DEF Reconcile, Me, PlaceOK, RollingBack, cluster, others
<1>. QED BY <1>3, <1>4 DEF TypeInv

LEMMA ReconcileDeletionTypes ==
    ASSUME TypeInv, NEW p \in Policies, ReconcileDeletion(p)
    PROVE  TypeInv'
<1> DEFINE pc == IF ~isX100RunningWithPolicy(labels, p) THEN "finalize"
                 ELSE IF Has("teardownCompleted") THEN "clean" ELSE "list"
<1>1. pc \in {"finalize", "clean", "list"} /\ pc \in PCs BY DEF PCs
<1>2. op' = [Idle EXCEPT !.pc = pc, !.policy = p, !.flow = "delete", !.snap = labels]
  BY DEF ReconcileDeletion
<1>. HIDE DEF pc
<1>3. op' \in Workers
  BY Parts, IdleTypes, <1>1, <1>2 DEF Workers, Flows, PolicyOrNone
<1>4. op'.pc = pc /\ op'.policy = p /\ op'.flow = "delete"
  BY <1>2 DEF Idle
<1>5. TypeOK'
  BY Parts, <1>3, FrameTypes DEF ReconcileDeletion, cluster, others
<1>6. PlaceOK'
  BY Parts, <1>1, <1>4 DEF ReconcileDeletion, Me, PlaceOK, RollingBack, cluster, others
<1>. QED BY <1>5, <1>6 DEF TypeInv

LEMMA NoRebootTypes ==
    ASSUME TypeInv, NoReboot
    PROVE  TypeInv'
BY Parts, GotoStep DEF NoReboot, cluster, others, PCs

LEMMA HoldRebootTypes ==
    ASSUME TypeInv, HoldReboot
    PROVE  TypeInv'
<1>1. op' \in Workers /\ op'.pc = "idle" BY IdleTypes DEF HoldReboot, Idle
<1>2. TypeOK' BY Parts, <1>1, FrameTypes DEF HoldReboot, cluster, others
<1>3. PlaceOK' BY <1>1 DEF PlaceOK, RollingBack
<1>. QED BY <1>2, <1>3 DEF TypeInv

LEMMA RebootScanTypes ==
    ASSUME TypeInv, RebootScan
    PROVE  TypeInv'
<1>1. labels' \in NodeLabels
  BY Parts, CleanTypes, WriteTypes DEF RebootScan, NodeLabels, PolicyOrNone, Flags, Me
<1>2. op' \in Workers
  BY Parts, GotoTypes, IdleTypes DEF RebootScan, Me, Workers, PCs, Flows
<1>. budget' \in [Faults -> Nat] BY Parts, SpendTypes DEF RebootScan
<1>3. TypeOK'
  BY Parts, <1>1, <1>2, FrameTypes DEF RebootScan, others, TypeOK, Me, PlaceOK, RollingBack, NoTimers, TimerStates
<1>4. PlaceOK'
  BY Parts, <1>2, GotoFields DEF RebootScan, Me, PlaceOK, RollingBack, cluster, others, PCs, Workers, Idle
<1>. QED BY <1>3, <1>4 DEF TypeInv

LEMMA AutoIsolateTypes ==
    ASSUME TypeInv, AutoIsolate
    PROVE  TypeInv'
<1> DEFINE l == cleanupStaleSelectorLabels(cleanupStaleCRLabels(labels))
<1>1. l \in NodeLabels BY Parts, CleanTypes
<1>2. labels' \in {labels, [l EXCEPT !.isolate = TRUE]} BY DEF AutoIsolate
<1>3. labels' \in NodeLabels
  <2>. HIDE DEF l
  <2>. QED BY Parts, <1>1, <1>2 DEF NodeLabels
<1>4. timers' \in [proc : TimerStates, health : TimerStates] /\ budget' \in [Faults -> Nat]
  BY Parts, SetTimersTypes DEF AutoIsolate, NoTimers, TimerStates
<1>. QED BY Parts, GotoStep, <1>3, <1>4 DEF AutoIsolate, others, PCs

LEMMA labelX100NodesTypes ==
    ASSUME TypeInv, labelX100Nodes
    PROVE  TypeInv'
<1> DEFINE custom == labels.present = "true"
           seen == IF custom /\ ~labels.pci THEN "absent"
                   ELSE IF labels.pci THEN "true" ELSE labels.present
<1>1. Withdrawn(labels) \in NodeLabels BY Parts, WriteTypes DEF PolicyOrNone
<1>2. seen \in {"absent", "true", "false"} BY Parts DEF NodeLabels
<1>3. labels' \in {Withdrawn(labels), [labels EXCEPT !.present = seen]}
  BY DEF labelX100Nodes
<1>4. labels' \in NodeLabels
  <2>. HIDE DEF seen
  <2>. QED BY Parts, <1>1, <1>2, <1>3 DEF NodeLabels
<1>5. timers' \in [proc : TimerStates, health : TimerStates]
  <2>1. timers' \in {NoTimers, [timers EXCEPT !.proc = "running"], timers}
    BY DEF labelX100Nodes
  <2>. QED BY Parts, <2>1 DEF NoTimers, TimerStates
<1>6. budget' \in [Faults -> Nat] BY Parts, SpendTypes DEF labelX100Nodes
<1>7. CASE Goto("aggregate")
  BY Parts, GotoStep, <1>4, <1>5, <1>6, <1>7 DEF labelX100Nodes, others, PCs
<1>8. CASE op' = Idle
  BY Parts, StopStep, <1>4, <1>5, <1>6, <1>8 DEF labelX100Nodes, others
<1>. QED BY <1>7, <1>8 DEF labelX100Nodes

LEMMA AggregateTypes ==
    ASSUME TypeInv, Aggregate
    PROVE  TypeInv'
<1>1. listedBy' \subseteq policies BY Parts DEF Aggregate, PlaceOK, Me
<1>. QED BY Parts, GotoStep, <1>1 DEF Aggregate, cluster, others, PCs

LEMMA PassOverTypes ==
    ASSUME TypeInv, PassOver
    PROVE  TypeInv'
BY Parts, GotoStep DEF PassOver, cluster, others, PCs

LEMMA StartAdoptionTypes ==
    ASSUME TypeInv, StartAdoption
    PROVE  TypeInv'
<1>1. labels' \in NodeLabels
  BY Parts DEF StartAdoption, Me
<1>2. op' \in Workers
  BY Parts, <1>1, CleanTypes, WriteTypes DEF StartAdoption, Me, Workers, PCs, Flows
<1>3. TypeOK'
  BY Parts, <1>1, <1>2, FrameTypes DEF StartAdoption, cluster, others, TypeOK, Me, PlaceOK, RollingBack
<1>4. PlaceOK'
  BY Parts, <1>2 DEF StartAdoption, Me, PlaceOK, RollingBack, cluster, others, PCs, Workers
<1>. QED BY <1>3, <1>4 DEF TypeInv

LEMMA StartEnablingTypes ==
    ASSUME TypeInv, StartEnabling
    PROVE  TypeInv'
<1>1. labels' \in NodeLabels
  BY Parts DEF StartEnabling, Me
<1>2. op' \in Workers
  BY Parts DEF StartEnabling, Me, Workers, PCs, Flows
<1>3. TypeOK'
  BY Parts, <1>1, <1>2, FrameTypes DEF StartEnabling, cluster, others, TypeOK, Me, PlaceOK, RollingBack
<1>4. PlaceOK'
  BY Parts, <1>2 DEF StartEnabling, Me, PlaceOK, RollingBack, cluster, others, PCs, Workers
<1>. QED BY <1>3, <1>4 DEF TypeInv

LEMMA StartRebootTypes ==
    ASSUME TypeInv, StartReboot
    PROVE  TypeInv'
<1>1. labels' \in NodeLabels
  BY Parts DEF StartReboot, Me
<1>2. op' \in Workers
  BY Parts DEF StartReboot, Me, Workers, PCs, Flows
<1>3. TypeOK'
  BY Parts, <1>1, <1>2, FrameTypes DEF StartReboot, cluster, others, TypeOK, Me, PlaceOK, RollingBack
<1>4. PlaceOK'
  BY Parts, <1>2 DEF StartReboot, Me, PlaceOK, RollingBack, cluster, others, PCs, Workers
<1>. QED BY <1>3, <1>4 DEF TypeInv

LEMMA StartLoopTypes ==
    ASSUME TypeInv, StartLoop
    PROVE  TypeInv'
<1>1. labels' \in NodeLabels
  BY Parts DEF StartLoop, Me
<1>2. op' \in Workers
  BY Parts, <1>1, CleanTypes, WriteTypes DEF StartLoop, Me, Workers, PCs, Flows
<1>3. TypeOK'
  BY Parts, <1>1, <1>2, FrameTypes DEF StartLoop, cluster, others, TypeOK, Me, PlaceOK, RollingBack
<1>4. PlaceOK'
  BY Parts, <1>2 DEF StartLoop, Me, PlaceOK, RollingBack, cluster, others, PCs, Workers
<1>. QED BY <1>3, <1>4 DEF TypeInv

LEMMA EnableNextTypes ==
    ASSUME TypeInv, EnableNext
    PROVE  TypeInv'
<1>1. labels' \in NodeLabels BY Parts DEF EnableNext, NodeLabels
<1>. QED BY Parts, GotoStep, <1>1 DEF EnableNext, cluster, others, PCs

LEMMA AllEnabledTypes ==
    ASSUME TypeInv, AllEnabled
    PROVE  TypeInv'
BY Parts, GotoStep DEF AllEnabled, cluster, others, PCs

LEMMA EnableFailsTypes ==
    ASSUME TypeInv, EnableFails
    PROVE  TypeInv'
BY Parts, GotoStep DEF EnableFails, cluster, others, PCs

LEMMA AdoptFirstPolicyTypes ==
    ASSUME TypeInv, AdoptFirstPolicy
    PROVE  TypeInv'
<1>1. labels' \in NodeLabels BY Parts, WriteTypes DEF AdoptFirstPolicy, Me
<1>. QED BY Parts, GotoStep, <1>1 DEF AdoptFirstPolicy, cluster, others, PCs

LEMMA ListPodsTypes ==
    ASSUME TypeInv, ListPods
    PROVE  TypeInv'
<1>1. PodsFound \in SUBSET Comps BY DEF PodsFound
<1>2. op' = [op EXCEPT !.pc = "drain", !.found = PodsFound, !.at = "devicePlugin"]
  BY DEF ListPods
<1>3. op' \in Workers
  BY Parts, <1>1, <1>2 DEF Workers, PCs, Comps
<1>4. op'.pc = "drain" /\ op'.policy = op.policy /\ op'.flow = op.flow /\ op'.prior = op.prior
  BY Parts, <1>2 DEF Workers
<1>5. TypeOK'
  BY Parts, <1>3, FrameTypes DEF ListPods, cluster, others
<1>6. PlaceOK'
  BY Parts, <1>4 DEF ListPods, Me, PlaceOK, RollingBack, cluster, others
<1>. QED BY <1>5, <1>6 DEF TypeInv

LEMMA NothingToDrainTypes ==
    ASSUME TypeInv, NothingToDrain
    PROVE  TypeInv'
<1>1. labels' \in NodeLabels
  BY Parts DEF NothingToDrain, AfterTeardown, PodsFound, Me
<1>2. op' \in Workers
  BY Parts, GotoTypes DEF NothingToDrain, AfterTeardown, PodsFound, Me, Workers, PCs, Flows
<1>3. TypeOK'
  BY Parts, <1>1, <1>2, FrameTypes DEF NothingToDrain, AfterTeardown, PodsFound, cluster, others, TypeOK, Me, PlaceOK, RollingBack
<1>4. PlaceOK'
  BY Parts, <1>2, GotoFields DEF NothingToDrain, AfterTeardown, PodsFound, Me, PlaceOK, RollingBack, cluster, others, PCs, Workers
<1>. QED BY <1>3, <1>4 DEF TypeInv

LEMMA DrainTypes ==
    ASSUME TypeInv, Drain
    PROVE  TypeInv'
<1>1. labels' \in NodeLabels
  BY Parts, CleanTypes, WriteTypes DEF Drain, DrainsSelector, DrainNext, NodeLabels, PolicyOrNone, Flags, Me
<1>2. op' \in Workers
  BY Parts DEF Drain, DrainsSelector, DrainNext, Comps, Me, Workers, PCs, Flows
<1>3. TypeOK'
  BY Parts, <1>1, <1>2, FrameTypes DEF Drain, DrainsSelector, DrainNext, Comps, cluster, others, TypeOK, Me, PlaceOK, RollingBack
<1>4. PlaceOK'
  BY Parts, <1>2 DEF Drain, DrainsSelector, DrainNext, Comps, Me, PlaceOK, RollingBack, cluster, others, PCs, Workers
<1>. QED BY <1>3, <1>4 DEF TypeInv

LEMMA DrainLastTypes ==
    ASSUME TypeInv, DrainLast
    PROVE  TypeInv'
<1>1. labels' \in NodeLabels
  BY Parts, CleanTypes, WriteTypes DEF DrainLast, AfterTeardown, DrainsSelector, NodeLabels, PolicyOrNone, Flags, Me
<1>2. op' \in Workers
  BY Parts, GotoTypes DEF DrainLast, AfterTeardown, DrainsSelector, Me, Workers, PCs, Flows
<1>3. TypeOK'
  BY Parts, <1>1, <1>2, FrameTypes DEF DrainLast, AfterTeardown, DrainsSelector, cluster, others, TypeOK, Me, PlaceOK, RollingBack
<1>4. PlaceOK'
  BY Parts, <1>2, GotoFields DEF DrainLast, AfterTeardown, DrainsSelector, Me, PlaceOK, RollingBack, cluster, others, PCs, Workers
<1>. QED BY <1>3, <1>4 DEF TypeInv

LEMMA DrainPendingTypes ==
    ASSUME TypeInv, DrainPending
    PROVE  TypeInv'
<1>1. labels' \in NodeLabels
  BY Parts, CleanTypes, WriteTypes DEF DrainPending, DrainsSelector, NodeLabels, PolicyOrNone, Flags, Me
<1>2. op' \in Workers
  BY Parts, GotoTypes, IdleTypes DEF DrainPending, DrainsSelector, Me, Workers, PCs, Flows
<1>3. TypeOK'
  BY Parts, <1>1, <1>2, FrameTypes DEF DrainPending, DrainsSelector, cluster, others, TypeOK, Me, PlaceOK, RollingBack
<1>4. PlaceOK'
  BY Parts, <1>2, GotoFields DEF DrainPending, DrainsSelector, Me, PlaceOK, RollingBack, cluster, others, PCs, Workers, Idle
<1>. QED BY <1>3, <1>4 DEF TypeInv

LEMMA MarkTornDownTypes ==
    ASSUME TypeInv, MarkTornDown
    PROVE  TypeInv'
<1> DEFINE pc == CASE op.flow = "rollback" -> "toPrior"
                   [] op.flow = "reboot" -> "enable"
                   [] op.flow = "delete" -> "clean"
<1>1. labels' \in NodeLabels
  BY Parts DEF MarkTornDown, NodeLabels, Flags
<1>2. op.flow \in {"rollback", "reboot", "delete"} BY Parts DEF MarkTornDown, PlaceOK, Flows
<1>3. pc \in {"toPrior", "enable", "clean"} /\ (pc = "toPrior" <=> op.flow = "rollback")
  BY <1>2
<1>4. Goto(pc) BY DEF MarkTornDown
<1>. HIDE DEF pc
<1>5. pc \in PCs BY <1>3 DEF PCs
<1>6. op' \in Workers /\ op'.pc = pc /\ op'.policy = op.policy /\ op'.prior = op.prior
  BY Parts, <1>3, <1>4, <1>5, GotoTypes, GotoFields
<1>7. TypeOK'
  BY Parts, <1>1, <1>6, FrameTypes DEF MarkTornDown, cluster, others
<1>8. PlaceOK'
  BY Parts, <1>3, <1>6 DEF MarkTornDown, Me, PlaceOK, RollingBack, cluster, others
<1>. QED BY <1>7, <1>8 DEF TypeInv

LEMMA LoopDoneTypes ==
    ASSUME TypeInv, LoopDone
    PROVE  TypeInv'
BY Parts, GotoStep DEF LoopDone, cluster, others, PCs

LEMMA LeaveOldPolicyTypes ==
    ASSUME TypeInv, NEW cr \in Policies, LeaveOldPolicy(cr)
    PROVE  TypeInv'
<1>1. labels' \in NodeLabels
  BY Parts DEF LeaveOldPolicy, Spend, Me
<1>2. op' \in Workers
  BY Parts DEF LeaveOldPolicy, Spend, Me, Workers, PCs, Flows
<1>3. TypeOK'
  BY Parts, <1>1, <1>2, FrameTypes DEF LeaveOldPolicy, Spend, cluster, others, TypeOK, Me, PlaceOK, RollingBack
<1>4. PlaceOK'
  BY Parts, <1>2 DEF LeaveOldPolicy, Spend, Me, PlaceOK, RollingBack, cluster, others, PCs, Workers
<1>. QED BY <1>3, <1>4 DEF TypeInv

LEMMA KeepMovingTypes ==
    ASSUME TypeInv, NEW cr \in Policies, KeepMoving(cr)
    PROVE  TypeInv'
<1>1. labels' \in NodeLabels
  BY Parts DEF KeepMoving, Me
<1>2. op' \in Workers
  BY Parts DEF KeepMoving, Me, Workers, PCs, Flows
<1>3. TypeOK'
  BY Parts, <1>1, <1>2, FrameTypes DEF KeepMoving, cluster, others, TypeOK, Me, PlaceOK, RollingBack
<1>4. PlaceOK'
  BY Parts, <1>2 DEF KeepMoving, Me, PlaceOK, RollingBack, cluster, others, PCs, Workers
<1>. QED BY <1>3, <1>4 DEF TypeInv

LEMMA ResumeUnfinishedTypes ==
    ASSUME TypeInv, NEW cr \in Policies, ResumeUnfinished(cr)
    PROVE  TypeInv'
<1>1. labels' \in NodeLabels
  BY Parts DEF ResumeUnfinished, Me
<1>2. op' \in Workers
  <2>1. PICK pc \in {"upgrading", "rolledBack", "loop"}, then \in {"rolledBack", "loop"} :
            op' = [op EXCEPT !.pc = pc, !.then = then, !.todo = @ \ {cr}, !.flow = "upgrade"]
    BY DEF ResumeUnfinished
  <2>2. op.todo \ {cr} \in SUBSET Policies BY Parts
  <2>3. pc \in PCs BY <2>1 DEF PCs
  <2>. QED BY Parts, <2>1, <2>2, <2>3 DEF Workers, Flows
<1>3. TypeOK'
  BY Parts, <1>1, <1>2, FrameTypes DEF ResumeUnfinished, cluster, others, TypeOK, Me, PlaceOK, RollingBack
<1>4. PlaceOK'
  BY Parts, <1>2 DEF ResumeUnfinished, Me, PlaceOK, RollingBack, cluster, others, PCs, Workers
<1>. QED BY <1>3, <1>4 DEF TypeInv

LEMMA BlockAggregationTypes ==
    ASSUME TypeInv, BlockAggregation
    PROVE  TypeInv'
<1>1. labels' \in NodeLabels
  BY Parts, CleanTypes, WriteTypes DEF BlockAggregation, NodeLabels, PolicyOrNone, Flags, Me
<1>2. op' \in Workers
  BY Parts, <1>1, CleanTypes, WriteTypes DEF BlockAggregation, Me, Workers, PCs, Flows
<1>3. TypeOK'
  BY Parts, <1>1, <1>2, FrameTypes DEF BlockAggregation, cluster, others, TypeOK, Me, PlaceOK, RollingBack
<1>4. PlaceOK'
  BY Parts, <1>2 DEF BlockAggregation, Me, PlaceOK, RollingBack, cluster, others, PCs, Workers
<1>. QED BY <1>3, <1>4 DEF TypeInv

LEMMA transitionToUpgradingStateTypes ==
    ASSUME TypeInv, transitionToUpgradingState
    PROVE  TypeInv'
<1>1. labels' \in NodeLabels
  BY Parts, CleanTypes, WriteTypes DEF transitionToUpgradingState, NodeLabels, PolicyOrNone, Flags, Me
<1>2. op' \in Workers
  BY Parts DEF transitionToUpgradingState, Me, Workers, PCs, Flows
<1>3. TypeOK'
  BY Parts, <1>1, <1>2, FrameTypes DEF transitionToUpgradingState, cluster, others, TypeOK, Me, PlaceOK, RollingBack
<1>4. PlaceOK'
  BY Parts, <1>2 DEF transitionToUpgradingState, Me, PlaceOK, RollingBack, cluster, others, PCs, Workers
<1>. QED BY <1>3, <1>4 DEF TypeInv

LEMMA updateSwVersionLabelsTypes ==
    ASSUME TypeInv, updateSwVersionLabels
    PROVE  TypeInv'
<1>1. labels' \in NodeLabels BY Parts, WriteTypes DEF updateSwVersionLabels, Me
<1>. QED BY Parts, GotoStep, <1>1 DEF updateSwVersionLabels, cluster, others, PCs

LEMMA AlreadySwitchedTypes ==
    ASSUME TypeInv, AlreadySwitched
    PROVE  TypeInv'
BY Parts, GotoStep DEF AlreadySwitched, cluster, others, PCs

LEMMA IncorrectPolicyTypes ==
    ASSUME TypeInv, IncorrectPolicy
    PROVE  TypeInv'
BY Parts, GotoStep DEF IncorrectPolicy, cluster, others, PCs

LEMMA RolledBackTypes ==
    ASSUME TypeInv, RolledBack
    PROVE  TypeInv'
<1>1. labels' \in NodeLabels
  BY Parts, CleanTypes, WriteTypes DEF RolledBack, NodeLabels, PolicyOrNone, Flags, Me
<1>2. op' \in Workers
  <2>1. op' = Idle \/ op' = [op EXCEPT !.pc = "enable", !.then = "loop"]
    BY DEF RolledBack
  <2>2. [op EXCEPT !.pc = "enable", !.then = "loop"] \in Workers
    BY Parts DEF Workers, PCs
  <2>. QED BY <2>1, <2>2, IdleTypes
<1>3. TypeOK'
  BY Parts, <1>1, <1>2, FrameTypes DEF RolledBack, cluster, others, TypeOK, Me, PlaceOK, RollingBack
<1>4. op'.pc = "idle" \/ (op'.pc = "enable" /\ op'.policy = op.policy)
  <2>1. CASE op.snap.boot = "true" BY <2>1 DEF RolledBack, Idle
  <2>2. CASE op.snap.boot # "true"
    <3>1. op' = [op EXCEPT !.pc = "enable", !.then = "loop"] BY <2>2 DEF RolledBack
    <3>. QED BY <3>1, Parts DEF Workers
  <2>. QED BY <2>1, <2>2
<1>5. PlaceOK'
  BY Parts, <1>4 DEF RolledBack, Me, PlaceOK, RollingBack, cluster, others
<1>. QED BY <1>3, <1>5 DEF TypeInv

LEMMA SkipRollbackTypes ==
    ASSUME TypeInv, SkipRollback
    PROVE  TypeInv'
BY Parts, GotoStep DEF SkipRollback, cluster, others, PCs

LEMMA BeginRollbackTypes ==
    ASSUME TypeInv, BeginRollback
    PROVE  TypeInv'
<1> DEFINE l == IF Has("rollingBackUpgrade") THEN labels ELSE RollbackBegun(labels)
           pc == IF "teardownCompleted" \in l.flags THEN "toPrior" ELSE "list"
<1>1. l \in NodeLabels BY Parts, WriteTypes DEF PolicyOrNone
<1>2. pc \in {"toPrior", "list"} /\ pc \in PCs BY DEF PCs
<1>3. labels' = l
      /\ op' = [op EXCEPT !.prior = labels.prior, !.rsnap = l, !.flow = "rollback", !.pc = pc]
  BY DEF BeginRollback
<1>. HIDE DEF l, pc
<1>4. labels.prior \in policies BY DEF BeginRollback, MayRollBack
<1>5. op' \in Workers
  BY Parts, <1>1, <1>2, <1>3, <1>4 DEF Workers, Flows, PolicyOrNone
<1>6. op'.pc = pc /\ op'.policy = op.policy /\ op'.prior = labels.prior
  BY Parts, <1>3 DEF Workers
<1>7. TypeOK'
  BY Parts, <1>1, <1>3, <1>5, FrameTypes DEF BeginRollback, cluster, others
<1>8. PlaceOK'
  BY Parts, <1>2, <1>4, <1>6 DEF BeginRollback, Me, PlaceOK, RollingBack, cluster, others
<1>. QED BY <1>7, <1>8 DEF TypeInv

LEMMA ListUnderPriorTypes ==
    ASSUME TypeInv, ListUnderPrior
    PROVE  TypeInv'
<1>1. labels' \in NodeLabels
  BY Parts DEF ListUnderPrior, Spend, Me
<1>2. op' \in Workers
  BY Parts, GotoTypes DEF ListUnderPrior, Spend, Me, Workers, PCs, Flows
<1>3. TypeOK'
  BY Parts, <1>1, <1>2, FrameTypes DEF ListUnderPrior, Spend, cluster, others, TypeOK, Me, PlaceOK, RollingBack
<1>4. PlaceOK'
  BY Parts, <1>2, GotoFields DEF ListUnderPrior, Spend, Me, PlaceOK, RollingBack, cluster, others, PCs, Workers
<1>. QED BY <1>3, <1>4 DEF TypeInv

LEMMA UnlistFromPolicyTypes ==
    ASSUME TypeInv, UnlistFromPolicy
    PROVE  TypeInv'
<1>1. labels' \in NodeLabels
  BY Parts DEF UnlistFromPolicy, Spend, Me
<1>2. op' \in Workers
  BY Parts, GotoTypes DEF UnlistFromPolicy, Spend, Me, Workers, PCs, Flows
<1>3. TypeOK'
  BY Parts, <1>1, <1>2, FrameTypes DEF UnlistFromPolicy, Spend, cluster, others, TypeOK, Me, PlaceOK, RollingBack
<1>4. PlaceOK'
  BY Parts, <1>2, GotoFields DEF UnlistFromPolicy, Spend, Me, PlaceOK, RollingBack, cluster, others, PCs, Workers
<1>. QED BY <1>3, <1>4 DEF TypeInv

LEMMA RestorePriorTypes ==
    ASSUME TypeInv, RestorePrior
    PROVE  TypeInv'
<1>1. labels' \in NodeLabels
  BY Parts, WriteTypes DEF RestorePrior
<1>2. op' \in Workers
  BY Parts, <1>1, CleanTypes, WriteTypes DEF RestorePrior, Me, Workers, PCs, Flows
<1>3. TypeOK'
  BY Parts, <1>1, <1>2, FrameTypes DEF RestorePrior, cluster, others, TypeOK, Me, PlaceOK, RollingBack
<1>4. PlaceOK'
  BY Parts, <1>2 DEF RestorePrior, Me, PlaceOK, RollingBack, cluster, others, PCs, Workers
<1>. QED BY <1>3, <1>4 DEF TypeInv

LEMMA LabelRolledBackTypes ==
    ASSUME TypeInv, LabelRolledBack
    PROVE  TypeInv'
<1>1. labels' \in NodeLabels
  BY Parts DEF LabelRolledBack, NodeLabels, Flags
<1>2. op' = [op EXCEPT !.pc = "loop", !.rsnap = BareLabels, !.prior = None]
  BY DEF LabelRolledBack
<1>3. op' \in Workers
  BY Parts, BareTypes, <1>2 DEF Workers, PCs, PolicyOrNone
<1>4. op'.pc = "loop" /\ op'.policy = op.policy
  BY Parts, <1>2 DEF Workers
<1>5. TypeOK'
  BY Parts, <1>1, <1>3, FrameTypes DEF LabelRolledBack, cluster, others
<1>6. PlaceOK'
  BY Parts, <1>4 DEF LabelRolledBack, Me, PlaceOK, RollingBack, cluster, others
<1>. QED BY <1>5, <1>6 DEF TypeInv

LEMMA AfterLabelsTypes ==
    ASSUME TypeInv, AfterLabels
    PROVE  TypeInv'
<1>1. CASE EndPass BY Parts, EndPassStep, <1>1 DEF AfterLabels, cluster
<1>2. CASE op' = [Idle EXCEPT !.pc = "boot", !.policy = Me]
  <2>1. op' \in Workers /\ op'.pc = "boot" /\ op'.policy = op.policy
    BY Parts, FreshTypes, <1>2 DEF Me, PCs
  <2>2. TypeOK' BY Parts, <2>1, FrameTypes DEF AfterLabels, cluster, others
  <2>3. PlaceOK' BY Parts, <2>1 DEF AfterLabels, Me, PlaceOK, RollingBack, cluster, others
  <2>. QED BY <2>2, <2>3 DEF TypeInv
<1>. QED BY <1>1, <1>2 DEF AfterLabels

LEMMA ReadBootStatusTypes ==
    ASSUME TypeInv, ReadBootStatus
    PROVE  TypeInv'
<1>1. labels' \in NodeLabels BY Parts DEF ReadBootStatus, NodeLabels
<1>2. timers' \in [proc : TimerStates, health : TimerStates]
  BY Parts DEF ReadBootStatus, TimerStates
<1>. QED BY Parts, GotoStep, <1>1, <1>2 DEF ReadBootStatus, cluster, others, PCs

LEMMA SkipBootStatusTypes ==
    ASSUME TypeInv, SkipBootStatus
    PROVE  TypeInv'
BY Parts, GotoStep DEF SkipBootStatus, cluster, others, PCs

LEMMA MarkVerdictTypes ==
    ASSUME TypeInv, MarkVerdict
    PROVE  TypeInv'
<1>1. labels' \in NodeLabels BY Parts, WriteTypes DEF MarkVerdict, PolicyOrNone
<1>. QED BY Parts, GotoStep, <1>1 DEF MarkVerdict, cluster, others, PCs

LEMMA NoVerdictTypes ==
    ASSUME TypeInv, NoVerdict
    PROVE  TypeInv'
BY Parts, EndPassStep DEF NoVerdict, cluster, others

LEMMA ClearTimersTypes ==
    ASSUME TypeInv, ClearTimers
    PROVE  TypeInv'
<1>1. NoTimers \in [proc : TimerStates, health : TimerStates] BY DEF NoTimers, TimerStates
<1>. QED BY Parts, EndPassStep, SetTimersTypes, <1>1 DEF ClearTimers

LEMMA CleanOnDeletionTypes ==
    ASSUME TypeInv, CleanOnDeletion
    PROVE  TypeInv'
<1> DEFINE l == cleanupStaleSelectorLabels(cleanupStaleCRLabels(op.snap))
<1>1. l \in NodeLabels BY Parts, CleanTypes
<1>2. labels' = [l EXCEPT !.present = IF op.snap.isolate THEN "false" ELSE "true",
                          !.flags = {"ownerPolicyDeleted"}]
  BY DEF CleanOnDeletion
<1>3. labels' \in NodeLabels
  <2>. HIDE DEF l
  <2>. QED BY <1>1, <1>2 DEF NodeLabels, Flags
<1>4. timers' \in [proc : TimerStates, health : TimerStates] /\ budget' \in [Faults -> Nat]
  BY Parts, SpendTypes DEF CleanOnDeletion, NoTimers, TimerStates
<1>5. CASE op' = [Idle EXCEPT !.pc = "finalize", !.policy = Me]
  <2>1. op' \in Workers /\ op'.pc = "finalize" /\ op'.policy = op.policy
    BY <1>5, Parts, FreshTypes DEF Me, PCs
  <2>2. TypeOK' BY Parts, <1>3, <1>4, <2>1, FrameTypes DEF CleanOnDeletion, others
  <2>3. PlaceOK'
    BY Parts, <2>1 DEF CleanOnDeletion, Me, PlaceOK, RollingBack, others
  <2>. QED BY <2>2, <2>3 DEF TypeInv
<1>6. CASE op' = Idle
  BY Parts, StopStep, <1>3, <1>4, <1>6 DEF CleanOnDeletion, others
<1>. QED BY <1>5, <1>6 DEF CleanOnDeletion

LEMMA FinalizePolicyTypes ==
    ASSUME TypeInv, FinalizePolicy
    PROVE  TypeInv'
<1>1. labels' \in NodeLabels
  <2> DEFINE pr == IF labels.isolate THEN labels.present ELSE "absent"
  <2>1. pr \in {"absent", "true", "false"} BY Parts DEF NodeLabels
  <2>2. labels' \in {labels, [labels EXCEPT !.flags = @ \ {"ownerPolicyDeleted"}, !.present = pr]}
    BY DEF FinalizePolicy
  <2>. HIDE DEF pr
  <2>3. [labels EXCEPT !.flags = @ \ {"ownerPolicyDeleted"}, !.present = pr] \in NodeLabels
    BY Parts, <2>1 DEF NodeLabels
  <2>. QED BY Parts, <2>2, <2>3
<1>2. op' \in Workers /\ op'.pc = "idle" BY IdleTypes DEF FinalizePolicy, Idle
<1>3. TypeOK'
  <2>1. budget' \in [Faults -> Nat] BY Parts, SpendTypes DEF FinalizePolicy
  <2>. QED BY <1>1, <1>2, <2>1 DEF FinalizePolicy, TypeInv, TypeOK
<1>4. PlaceOK' BY <1>2 DEF PlaceOK, RollingBack
<1>. QED BY <1>3, <1>4 DEF TypeInv

(* A failed call touches the worker only: it ends, gives the node up, or   *)
(* goes on to the next place with all it holds.                            *)
LoggedAt == {"label", "mark", "clearTimers", "adopt", "clean"}

LEMMA CallFailsFields ==
    ASSUME TypeInv, CallFails
    PROVE  /\ UNCHANGED <<policies, deleting, listedBy, labels, timers, nodeReady, pods>>
           /\ op.pc # "idle"
           /\ \/ op' = Idle
              \/ op' = AtStatus
              \/ \E pc \in LoggedAt : LogsError(pc) /\ op' = [op EXCEPT !.pc = pc]
              \/ /\ op.pc = "rolledBackLabel"
                 /\ op' = [op EXCEPT !.pc = "loop", !.rsnap = BareLabels, !.prior = None]
<1>1. ASSUME NEW pc \in PCs, LogsError(pc), Goto(pc)
      PROVE  pc \in LoggedAt /\ op' = [op EXCEPT !.pc = pc]
  BY <1>1 DEF LogsError, Goto, LoggedAt
<1>2. op.pc # "idle"
  BY DEF CallFails, EndsRequest, LeavesNode, LogsError, Deleting, AdoptsAnyway
<1>. QED BY <1>1, <1>2 DEF CallFails

LEMMA CallFailsTypes ==
    ASSUME TypeInv, CallFails
    PROVE  TypeInv'
<1>1. budget' \in [Faults -> Nat] BY Parts, SpendTypes DEF CallFails
<1>2. op' \in Workers
  <2>1. ASSUME NEW pc \in LoggedAt, op' = [op EXCEPT !.pc = pc] PROVE op' \in Workers
    BY <2>1, Parts DEF Workers, PCs, LoggedAt
  <2>2. [op EXCEPT !.pc = "loop", !.rsnap = BareLabels, !.prior = None] \in Workers
    BY Parts, BareTypes DEF Workers, PCs, PolicyOrNone
  <2>. QED BY <2>1, <2>2, Parts, CallFailsFields, IdleTypes, AtStatusTypes
<1>3. op'.pc \in {"idle", "status", "loop"} \cup LoggedAt /\ (op'.pc # "idle" => op'.policy = op.policy)
  BY RestFields, Parts, CallFailsFields DEF Workers
<1>4. TypeOK' BY Parts, <1>1, <1>2, CallFailsFields, FrameTypes
<1>5. PlaceOK' BY Parts, <1>3, CallFailsFields DEF Me, PlaceOK, RollingBack, LoggedAt
<1>. QED BY <1>4, <1>5 DEF TypeInv

(* Outside events leave the worker where it is and the policies in place,  *)
(* or stop it.                                                             *)
LEMMA OutsideTypes ==
    ASSUME TypeInv, Outside
    PROVE  TypeInv'
<1>1. CASE \E p \in Policies : UserAssigns(p) \/ UserDeletes(p)
  BY <1>1 DEF UserAssigns, UserDeletes, Spend, TypeInv, TypeOK, PlaceOK, RollingBack, Me
<1>2. CASE UserTogglesIsolate \/ PciLabelFlaps
  <2>1. labels' \in NodeLabels
    <3>1. [labels EXCEPT !.isolate = ~@] \in NodeLabels BY Parts DEF NodeLabels
    <3>2. [labels EXCEPT !.pci = ~@] \in NodeLabels BY Parts DEF NodeLabels
    <3>. QED BY <1>2, <3>1, <3>2 DEF UserTogglesIsolate, PciLabelFlaps
  <2>. QED BY <1>2, <2>1
    DEF UserTogglesIsolate, PciLabelFlaps, Spend, TypeInv, TypeOK, PlaceOK, RollingBack, Me
<1>3. CASE NodeReboots \/ NodeComesUp
  <2>1. pods' \in [Comps -> [Policies -> PodStates]]
    BY <1>3 DEF NodeReboots, NodeComesUp, TypeInv, TypeOK, PodStates
  <2>2. budget' \in [Faults -> Nat] BY Parts, SpendTypes, <1>3 DEF NodeReboots, NodeComesUp
  <2>3. TypeOK' BY Parts, <1>3, <2>1, <2>2 DEF NodeReboots, NodeComesUp, TypeOK
  <2>4. PlaceOK' BY Parts, <1>3 DEF NodeReboots, NodeComesUp, PlaceOK, RollingBack, Me
  <2>. QED BY <2>3, <2>4 DEF TypeInv
<1>4. CASE \E c \in Comps, q \in Policies : PodStep(c, q) \/ PodFails(c, q)
  <2>1. PICK c \in Comps, q \in Policies : PodStep(c, q) \/ PodFails(c, q) BY <1>4
  <2>2. PICK s \in PodStates : PodBecomes(c, q, s)
    BY <2>1 DEF PodStep, PodCreated, PodUp, PodGone, PodFails, PodStates
  <2>3. pods' \in [Comps -> [Policies -> PodStates]]
    BY <2>2 DEF PodBecomes, TypeInv, TypeOK
  <2>4. budget' \in [Faults -> Nat]
    BY <2>1 DEF PodStep, PodCreated, PodUp, PodGone, PodFails, Spend, TypeInv, TypeOK
  <2>. QED BY <2>2, <2>3, <2>4 DEF PodBecomes, TypeInv, TypeOK, PlaceOK, RollingBack, Me
<1>5. CASE \E t \in {"proc", "health"} : TimerExpires(t)
  <2>1. timers' \in [proc : TimerStates, health : TimerStates]
    BY <1>5 DEF TimerExpires, TypeInv, TypeOK, TimerStates
  <2>2. budget' \in [Faults -> Nat] BY Parts, SpendTypes, <1>5 DEF TimerExpires
  <2>3. TypeOK' BY Parts, <1>5, <2>1, <2>2 DEF TimerExpires, TypeOK
  <2>4. PlaceOK' BY Parts, <1>5 DEF TimerExpires, PlaceOK, RollingBack, Me
  <2>. QED BY <2>3, <2>4 DEF TypeInv
<1>6. CASE OperatorCrashes
  <2>1. op' \in Workers /\ op'.pc = "idle" BY IdleTypes, <1>6 DEF OperatorCrashes, Idle
  <2>2. budget' \in [Faults -> Nat] BY Parts, SpendTypes, <1>6 DEF OperatorCrashes
  <2>3. TypeOK' BY Parts, <1>6, <2>1, <2>2 DEF OperatorCrashes, TypeOK
  <2>4. PlaceOK' BY <2>1 DEF PlaceOK, RollingBack
  <2>. QED BY <2>3, <2>4 DEF TypeInv
<1>7. CASE CallFails BY <1>7, CallFailsTypes
<1>. QED BY <1>1, <1>2, <1>3, <1>4, <1>5, <1>6, <1>7 DEF Outside

(* An outside event removes no policy and writes no label of the           *)
(* operator's; a crash or a failed call moves the worker, nothing else does.*)
LEMMA OutsideParts ==
    ASSUME Outside
    PROVE  /\ policies' = policies
           /\ op' = op \/ OperatorCrashes \/ CallFails
           /\ \/ labels' = labels
              \/ labels' = [labels EXCEPT !.isolate = ~@]
              \/ labels' = [labels EXCEPT !.pci = ~@]
<1>1. CASE OperatorCrashes \/ CallFails BY <1>1 DEF OperatorCrashes, CallFails
<1>. QED BY <1>1
  DEF Outside, UserAssigns, UserDeletes, UserTogglesIsolate, PciLabelFlaps, NodeReboots,
      NodeComesUp, PodStep, PodCreated, PodUp, PodGone, PodFails, PodBecomes, TimerExpires

LEMMA InitTypes == Init => TypeInv
<1>1. Init => PlaceOK BY DEF Init, Idle, PlaceOK, RollingBack
<1>2. Init => TypeOK
  BY BareTypes, IdleTypes, ConstantsAssumption
  DEF Init, TypeOK, NoTimers, TimerStates, PodStates
<1>. QED BY <1>1, <1>2 DEF TypeInv

LEMMA NextTypes == TypeInv /\ [Next]_vars => TypeInv'
<1>. SUFFICES ASSUME TypeInv, [Next]_vars PROVE TypeInv'
  OBVIOUS
<1>1. CASE OperatorStep
  BY <1>1, NoRebootTypes, HoldRebootTypes, RebootScanTypes, AutoIsolateTypes,
     labelX100NodesTypes, AggregateTypes, PassOverTypes, StartAdoptionTypes,
     StartEnablingTypes, StartRebootTypes, StartLoopTypes, EnableNextTypes,
     AllEnabledTypes, EnableFailsTypes, AdoptFirstPolicyTypes, ListPodsTypes,
     NothingToDrainTypes, DrainTypes, DrainLastTypes, DrainPendingTypes,
     MarkTornDownTypes, LoopDoneTypes, LeaveOldPolicyTypes, KeepMovingTypes,
     ResumeUnfinishedTypes, BlockAggregationTypes,
     transitionToUpgradingStateTypes, updateSwVersionLabelsTypes,
     AlreadySwitchedTypes, IncorrectPolicyTypes, RolledBackTypes,
     SkipRollbackTypes, BeginRollbackTypes, ListUnderPriorTypes,
     UnlistFromPolicyTypes, RestorePriorTypes, LabelRolledBackTypes,
     AfterLabelsTypes, ReadBootStatusTypes, SkipBootStatusTypes,
     MarkVerdictTypes, NoVerdictTypes, ClearTimersTypes, CleanOnDeletionTypes,
     FinalizePolicyTypes
  DEF OperatorStep
<1>2. CASE \E p \in Policies : Reconcile(p) \/ ReconcileDeletion(p)
  BY <1>2, ReconcileTypes, ReconcileDeletionTypes
<1>3. CASE Outside BY <1>3, OutsideTypes
<1>4. CASE UNCHANGED vars
  BY <1>4 DEF vars, TypeInv, TypeOK, PlaceOK, RollingBack, Me
<1>. QED BY <1>1, <1>2, <1>3, <1>4 DEF Next

(* Every reachable state is well typed; in particular a label map, however *)
(* old, that a handler writes back is one a node can carry.                *)
THEOREM TypeCorrect == Spec => []TypeOK
<1>1. TypeInv => TypeOK BY DEF TypeInv
<1>. QED BY InitTypes, NextTypes, <1>1, PTL DEF Spec
=============================================================================
