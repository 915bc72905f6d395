--------------------------- MODULE LifecycleProofs ---------------------------
(***************************************************************************)
(* The labels of a node stay consistent, whatever map is written back and  *)
(* however old it is.  First each write is shown to keep MapOK; then each  *)
(* action is shown to keep LifecycleInv, which adds what holds at the      *)
(* worker's place; the theorems are read off at the end.                   *)
(***************************************************************************)
EXTENDS NodeProofs

LEMMA NoneIsNotIn == \A p \in Policies : p # None
BY NoneIsNoPolicy

LEMMA BareMap == MapOK(BareLabels)
BY DEF BareLabels, MapOK, VersionOK, VerdictOK, FlowsOK, BareOK

(* The clean-ups.                                                          *)
LEMMA CleanMap ==
    ASSUME NEW l \in NodeLabels
    PROVE  /\ MapOK(cleanupStaleSelectorLabels(cleanupStaleCRLabels(l)))
           /\ MapOK(Withdrawn(l))
           /\ cleanupStaleSelectorLabels(cleanupStaleCRLabels(l)).sel = {}
           /\ cleanupStaleSelectorLabels(cleanupStaleCRLabels(l)).active = None
           /\ cleanupStaleSelectorLabels(cleanupStaleCRLabels(l)).blocked = None
           /\ cleanupStaleSelectorLabels(cleanupStaleCRLabels(l)).flags = {}
BY DEF NodeLabels, MapOK, VersionOK, VerdictOK, FlowsOK, BareOK, Withdrawn,
       cleanupStaleSelectorLabels, cleanupStaleCRLabels

LEMMA StatusCleanedMap ==
    ASSUME NEW l \in NodeLabels, MapOK(l)
    PROVE  /\ MapOK(StatusCleaned(l))
           /\ StatusCleaned(l).boot = "absent"
           /\ StatusCleaned(l).flags = l.flags \ {"bootStatusMarked", "swUpgradeFailed", "teardownCompleted"}
           /\ StatusCleaned(l).active = l.active /\ StatusCleaned(l).present = l.present
BY DEF NodeLabels, MapOK, VersionOK, VerdictOK, FlowsOK, BareOK, StatusCleaned, InProgress

LEMMA RebootMap ==
    ASSUME NEW l \in NodeLabels, MapOK(l)
    PROVE  MapOK([cleanupLabelsOnReboot(l) EXCEPT !.flags = @ \cup {"rebooted"}])
BY DEF NodeLabels, MapOK, VersionOK, VerdictOK, FlowsOK, BareOK, cleanupLabelsOnReboot, InProgress

(* The writes of the flows, each under what its handler checks or keeps.   *)
LEMMA AdoptedMap ==
    ASSUME NEW l \in NodeLabels, MapOK(l), l.active = None, l.present = "true", NEW p \in Policies
    PROVE  MapOK(Adopted(l, p))
BY NoneIsNotIn DEF NodeLabels, MapOK, VersionOK, VerdictOK, FlowsOK, BareOK, Adopted, InProgress

LEMMA SwitchedMap ==
    ASSUME NEW l \in NodeLabels, MapOK(l), l.present = "true", NEW p \in Policies, l.active # p
    PROVE  MapOK(Switched(l, p)) /\ Switched(l, p).present = "true"
           /\ ("rebooted" \in Switched(l, p).flags => "rebooted" \in l.flags)
BY NoneIsNotIn DEF NodeLabels, MapOK, VersionOK, VerdictOK, FlowsOK, BareOK, Switched, InProgress

LEMMA RestoredMap ==
    ASSUME NEW l \in NodeLabels, MapOK(l), l.present = "true", NEW p \in Policies
    PROVE  MapOK(Restored(l, p)) /\ Restored(l, p).present = "true"
           /\ Restored(l, p).flags = l.flags
BY NoneIsNotIn DEF NodeLabels, MapOK, VersionOK, VerdictOK, FlowsOK, BareOK, Restored, InProgress

LEMMA UpgradeBegunMap ==
    ASSUME NEW l \in NodeLabels, MapOK(l), "rebooted" \notin l.flags
    PROVE  MapOK(UpgradeBegun(l)) /\ UpgradeBegun(l).present = l.present
           /\ "rebooted" \notin UpgradeBegun(l).flags
BY DEF NodeLabels, MapOK, VersionOK, VerdictOK, FlowsOK, BareOK, StatusCleaned, UpgradeBegun, InProgress

LEMMA RollbackBegunMap ==
    ASSUME NEW l \in NodeLabels, MapOK(l), "swUpgradeFailed" \in l.flags
    PROVE  MapOK(RollbackBegun(l)) /\ RollbackBegun(l).present = l.present
           /\ ("rebooted" \in RollbackBegun(l).flags => "rebooted" \in l.flags)
BY DEF NodeLabels, MapOK, VersionOK, VerdictOK, FlowsOK, BareOK, StatusCleaned, RollbackBegun, InProgress

LEMMA VerdictMap ==
    ASSUME NEW l \in NodeLabels, MapOK(l), l.boot # "absent", l.active # None
    PROVE  MapOK(Verdict(l))
BY DEF NodeLabels, MapOK, VersionOK, VerdictOK, FlowsOK, BareOK, Verdict, InProgress

-----------------------------------------------------------------------------
(* Two kinds of step that need no argument of their own.  A step to a      *)
(* place where nothing is claimed of the worker:                           *)
LEMMA QuietStep ==
    ASSUME LifecycleInv, TypeInv', MapOK(labels'), ~Working', op'.pc # "drain", op'.then # "adopt",
           op'.snap \in {BareLabels, labels, op.snap}, op'.rsnap \in {BareLabels, op.rsnap}
    PROVE  LifecycleInv'
<1>1. MapOK(op'.snap) /\ MapOK(op'.rsnap) BY BareMap DEF LifecycleInv
<1>2. "rebooted" \notin op'.rsnap.flags BY DEF LifecycleInv, WorkerOK, BareLabels
<1>3. WorkerOK' BY <1>2 DEF WorkerOK, Working
<1>. QED BY <1>1, <1>3 DEF LifecycleInv

(* ... and a step that stays in its flow and only moves on.                *)
LEMMA CarryStep ==
    ASSUME LifecycleInv, TypeInv', UNCHANGED labels, op'.snap = op.snap, op'.rsnap = op.rsnap,
           op'.pc # "drain", op'.then = "adopt" => op'.pc \in {"enable", "adopt"},
           Working' => Working, Adopting' => Adopting, RollingBack' => RollingBack,
           (RollingBack \/ Looping)' => (RollingBack \/ Looping),
           Recovering' => op'.then = "status"
    PROVE  LifecycleInv'
<1>1. WorkerOK' BY DEF LifecycleInv, WorkerOK
<1>. QED BY <1>1 DEF LifecycleInv

LEMMA EndPassQuiet ==
    ASSUME LifecycleInv, TypeInv', EndPass, UNCHANGED labels
    PROVE  LifecycleInv'
<1>1. op \in Workers BY Parts DEF LifecycleInv
<1>2. op'.pc \in {"idle", "isolate"} BY <1>1, EndPassFields DEF Idle
<1>3. op'.snap = BareLabels /\ op'.rsnap = BareLabels /\ op'.then = "status"
  BY <1>1, EndPassFields
<1>4. ~Working' BY <1>2 DEF Working, Adopting, RollingBack, Looping, Recovering
<1>. QED BY <1>2, <1>3, <1>4, QuietStep DEF LifecycleInv

LEMMA NoRebootKeeps ==
    ASSUME LifecycleInv, NoReboot
    PROVE  LifecycleInv'
<1>1. TypeInv' BY NoRebootTypes DEF LifecycleInv
<1>. QED BY <1>1, Parts, GotoFields, QuietStep DEF NoReboot, LifecycleInv, WorkerOK, Working, Adopting, RollingBack, Looping, Recovering, PCs


LEMMA PassOverKeeps ==
    ASSUME LifecycleInv, PassOver
    PROVE  LifecycleInv'
<1>1. TypeInv' BY PassOverTypes DEF LifecycleInv
<1>. QED BY <1>1, Parts, GotoFields, QuietStep DEF PassOver, LifecycleInv, WorkerOK, Working, Adopting, RollingBack, Looping, Recovering, PCs


LEMMA LoopDoneKeeps ==
    ASSUME LifecycleInv, LoopDone
    PROVE  LifecycleInv'
<1>1. TypeInv' BY LoopDoneTypes DEF LifecycleInv
<1>. QED BY <1>1, Parts, GotoFields, QuietStep DEF LoopDone, LifecycleInv, WorkerOK, Working, Adopting, RollingBack, Looping, Recovering, PCs


LEMMA IncorrectPolicyKeeps ==
    ASSUME LifecycleInv, IncorrectPolicy
    PROVE  LifecycleInv'
<1>1. TypeInv' BY IncorrectPolicyTypes DEF LifecycleInv
<1>. QED BY <1>1, Parts, GotoFields, QuietStep DEF IncorrectPolicy, LifecycleInv, WorkerOK, Working, Adopting, RollingBack, Looping, Recovering, PCs


LEMMA SkipBootStatusKeeps ==
    ASSUME LifecycleInv, SkipBootStatus
    PROVE  LifecycleInv'
<1>1. TypeInv' BY SkipBootStatusTypes DEF LifecycleInv
<1>. QED BY <1>1, Parts, GotoFields, QuietStep DEF SkipBootStatus, LifecycleInv, WorkerOK, Working, Adopting, RollingBack, Looping, Recovering, PCs


LEMMA AggregateKeeps ==
    ASSUME LifecycleInv, Aggregate
    PROVE  LifecycleInv'
<1>1. TypeInv' BY AggregateTypes DEF LifecycleInv
<1>. QED BY <1>1, Parts, GotoFields, QuietStep DEF Aggregate, LifecycleInv, WorkerOK, Working, Adopting, RollingBack, Looping, Recovering, PCs


LEMMA AfterLabelsKeeps ==
    ASSUME LifecycleInv, AfterLabels
    PROVE  LifecycleInv'
<1>1. TypeInv' BY AfterLabelsTypes DEF LifecycleInv
<1>2. CASE EndPass BY <1>1, <1>2, EndPassQuiet DEF AfterLabels
<1>3. CASE op' = [Idle EXCEPT !.pc = "boot", !.policy = Me]
  <2>1. op'.pc = "boot" /\ op'.snap = BareLabels /\ op'.rsnap = BareLabels /\ op'.then = "status"
    BY <1>3 DEF Idle
  <2>2. ~Working' BY <2>1 DEF Working, Adopting, RollingBack, Looping, Recovering
  <2>. QED BY <1>1, <2>1, <2>2, QuietStep DEF AfterLabels, LifecycleInv
<1>. QED BY <1>2, <1>3 DEF AfterLabels


LEMMA NoVerdictKeeps ==
    ASSUME LifecycleInv, NoVerdict
    PROVE  LifecycleInv'
<1>1. TypeInv' BY NoVerdictTypes DEF LifecycleInv
<1>. QED BY <1>1, EndPassQuiet DEF NoVerdict


LEMMA ClearTimersKeeps ==
    ASSUME LifecycleInv, ClearTimers
    PROVE  LifecycleInv'
<1>1. TypeInv' BY ClearTimersTypes DEF LifecycleInv
<1>. QED BY <1>1, EndPassQuiet DEF ClearTimers


LEMMA HoldRebootKeeps ==
    ASSUME LifecycleInv, HoldReboot
    PROVE  LifecycleInv'
<1>1. TypeInv' BY HoldRebootTypes DEF LifecycleInv
<1>. QED BY <1>1, QuietStep DEF HoldReboot, LifecycleInv, Idle, Working, Adopting, RollingBack, Looping, Recovering


LEMMA ReconcileKeeps ==
    ASSUME LifecycleInv, NEW p \in Policies, Reconcile(p)
    PROVE  LifecycleInv'
<1>1. TypeInv' BY ReconcileTypes DEF LifecycleInv
<1>. QED BY <1>1, QuietStep DEF Reconcile, LifecycleInv, Idle, Working, Adopting, RollingBack, Looping, Recovering


LEMMA ReconcileDeletionKeeps ==
    ASSUME LifecycleInv, NEW p \in Policies, ReconcileDeletion(p)
    PROVE  LifecycleInv'
<1>1. TypeInv' BY ReconcileDeletionTypes DEF LifecycleInv
<1>. QED BY <1>1, QuietStep DEF ReconcileDeletion, LifecycleInv, Idle, Working, Adopting, RollingBack, Looping, Recovering


LEMMA AllEnabledKeeps ==
    ASSUME LifecycleInv, AllEnabled
    PROVE  LifecycleInv'
<1>1. TypeInv' BY AllEnabledTypes DEF LifecycleInv
<1>. QED BY <1>1, Parts, GotoFields, QuietStep, CarryStep
    DEF AllEnabled, LifecycleInv, WorkerOK, Working, Adopting, RollingBack, Looping, Recovering, PCs, AfterTeardown


LEMMA EnableFailsKeeps ==
    ASSUME LifecycleInv, EnableFails
    PROVE  LifecycleInv'
<1>1. TypeInv' BY EnableFailsTypes DEF LifecycleInv
<1>. QED BY <1>1, Parts, GotoFields, QuietStep, CarryStep
    DEF EnableFails, LifecycleInv, WorkerOK, Working, Adopting, RollingBack, Looping, Recovering, PCs, AfterTeardown


LEMMA AlreadySwitchedKeeps ==
    ASSUME LifecycleInv, AlreadySwitched
    PROVE  LifecycleInv'
<1>1. TypeInv' BY AlreadySwitchedTypes DEF LifecycleInv
<1>. QED BY <1>1, Parts, GotoFields, QuietStep, CarryStep
    DEF AlreadySwitched, LifecycleInv, WorkerOK, Working, Adopting, RollingBack, Looping, Recovering, PCs, AfterTeardown


LEMMA SkipRollbackKeeps ==
    ASSUME LifecycleInv, SkipRollback
    PROVE  LifecycleInv'
<1>1. TypeInv' BY SkipRollbackTypes DEF LifecycleInv
<1>. QED BY <1>1, Parts, GotoFields, QuietStep, CarryStep
    DEF SkipRollback, LifecycleInv, WorkerOK, Working, Adopting, RollingBack, Looping, Recovering, PCs, AfterTeardown


LEMMA ListUnderPriorKeeps ==
    ASSUME LifecycleInv, ListUnderPrior
    PROVE  LifecycleInv'
<1>1. TypeInv' BY ListUnderPriorTypes DEF LifecycleInv
<1>. QED BY <1>1, Parts, GotoFields, QuietStep, CarryStep
    DEF ListUnderPrior, LifecycleInv, WorkerOK, Working, Adopting, RollingBack, Looping, Recovering, PCs, AfterTeardown


LEMMA UnlistFromPolicyKeeps ==
    ASSUME LifecycleInv, UnlistFromPolicy
    PROVE  LifecycleInv'
<1>1. TypeInv' BY UnlistFromPolicyTypes DEF LifecycleInv
<1>. QED BY <1>1, Parts, GotoFields, QuietStep, CarryStep
    DEF UnlistFromPolicy, LifecycleInv, WorkerOK, Working, Adopting, RollingBack, Looping, Recovering, PCs, AfterTeardown


LEMMA NothingToDrainKeeps ==
    ASSUME LifecycleInv, NothingToDrain
    PROVE  LifecycleInv'
<1>1. TypeInv' BY NothingToDrainTypes DEF LifecycleInv
<1>. QED BY <1>1, Parts, GotoFields, QuietStep, CarryStep
    DEF NothingToDrain, LifecycleInv, WorkerOK, Working, Adopting, RollingBack, Looping, Recovering, PCs, AfterTeardown


LEMMA LeaveOldPolicyKeeps ==
    ASSUME LifecycleInv, NEW cr \in Policies, LeaveOldPolicy(cr)
    PROVE  LifecycleInv'
<1>1. TypeInv' BY LeaveOldPolicyTypes DEF LifecycleInv
<1>. QED BY <1>1, Parts, CarryStep
    DEF LeaveOldPolicy, LifecycleInv, WorkerOK, Workers, Working, Adopting, RollingBack, Looping, Recovering


LEMMA KeepMovingKeeps ==
    ASSUME LifecycleInv, NEW cr \in Policies, KeepMoving(cr)
    PROVE  LifecycleInv'
<1>1. TypeInv' BY KeepMovingTypes DEF LifecycleInv
<1>. QED BY <1>1, Parts, CarryStep
    DEF KeepMoving, LifecycleInv, WorkerOK, Workers, Working, Adopting, RollingBack, Looping, Recovering


LEMMA ResumeUnfinishedKeeps ==
    ASSUME LifecycleInv, NEW cr \in Policies, ResumeUnfinished(cr)
    PROVE  LifecycleInv'
<1>1. TypeInv' BY ResumeUnfinishedTypes DEF LifecycleInv
<1>. QED BY <1>1, Parts, CarryStep
    DEF ResumeUnfinished, LifecycleInv, WorkerOK, Workers, Working, Adopting, RollingBack, Looping, Recovering


LEMMA AutoIsolateKeeps ==
    ASSUME LifecycleInv, AutoIsolate
    PROVE  LifecycleInv'
<1>1. TypeInv' /\ TypeInv BY AutoIsolateTypes DEF LifecycleInv
<1>2. MapOK(labels')
  <2> DEFINE l == cleanupStaleSelectorLabels(cleanupStaleCRLabels(labels))
  <2>1. l \in NodeLabels /\ MapOK(l) BY <1>1, Parts, CleanTypes, CleanMap
  <2>2. labels' \in {labels, [l EXCEPT !.isolate = TRUE]} BY DEF AutoIsolate
  <2>. HIDE DEF l
  <2>. QED BY <2>1, <2>2 DEF LifecycleInv, NodeLabels, MapOK, VersionOK, VerdictOK, FlowsOK, BareOK
<1>. QED BY <1>1, <1>2, Parts, GotoFields, QuietStep DEF AutoIsolate, LifecycleInv, WorkerOK, Working, Adopting, RollingBack, Looping, Recovering, PCs

LEMMA labelX100NodesKeeps ==
    ASSUME LifecycleInv, labelX100Nodes
    PROVE  LifecycleInv'
<1>1. TypeInv' /\ TypeInv BY labelX100NodesTypes DEF LifecycleInv
<1>2. MapOK(labels')
  <2> DEFINE custom == labels.present = "true"
             seen == IF custom /\ ~labels.pci THEN "absent"
                     ELSE IF labels.pci THEN "true" ELSE labels.present
  <2>1. MapOK(Withdrawn(labels)) BY <1>1, Parts, CleanMap
  <2>2. seen = "false" => labels.present = "false" OBVIOUS
  <2>3. labels' \in {Withdrawn(labels), [labels EXCEPT !.present = seen]}
    BY DEF labelX100Nodes
  <2>. HIDE DEF seen
  <2>4. MapOK([labels EXCEPT !.present = seen])
    BY <1>1, Parts, <2>2 DEF LifecycleInv, NodeLabels, MapOK, VersionOK, VerdictOK, FlowsOK, BareOK
  <2>. QED BY <2>1, <2>3, <2>4
<1>3. CASE Goto("aggregate")
  BY <1>1, <1>2, <1>3, Parts, GotoFields, QuietStep DEF labelX100Nodes, LifecycleInv, WorkerOK, Working, Adopting, RollingBack, Looping, Recovering, PCs
<1>4. CASE op' = Idle
  BY <1>1, <1>2, <1>4, QuietStep DEF Idle, Working, Adopting, RollingBack, Looping, Recovering
<1>. QED BY <1>3, <1>4 DEF labelX100Nodes

LEMMA ReadBootStatusKeeps ==
    ASSUME LifecycleInv, ReadBootStatus
    PROVE  LifecycleInv'
<1>1. TypeInv' /\ TypeInv BY ReadBootStatusTypes DEF LifecycleInv
<1>2. MapOK(labels')
  BY <1>1, Parts DEF ReadBootStatus, LabelsEligibleForBootStatusCheck, LifecycleInv, NodeLabels, MapOK, VersionOK, VerdictOK, FlowsOK, BareOK
<1>. QED BY <1>1, <1>2, Parts, GotoFields, QuietStep DEF ReadBootStatus, LifecycleInv, WorkerOK, Working, Adopting, RollingBack, Looping, Recovering, PCs

LEMMA MarkVerdictKeeps ==
    ASSUME LifecycleInv, MarkVerdict
    PROVE  LifecycleInv'
<1>1. TypeInv' /\ TypeInv BY MarkVerdictTypes DEF LifecycleInv
<1>2. MapOK(labels')
  <2>1. Me \in Policies BY <1>1, Parts DEF MarkVerdict, PlaceOK
  <2>2. labels.active # None
    BY <2>1, NoneIsNotIn DEF MarkVerdict, VerdictDue, isX100RunningWithPolicy, LifecycleInv, MapOK, BareOK
  <2>. QED BY <1>1, Parts, <2>2, VerdictMap DEF MarkVerdict, VerdictDue, LifecycleInv
<1>. QED BY <1>1, <1>2, Parts, GotoFields, QuietStep DEF MarkVerdict, LifecycleInv, WorkerOK, Working, Adopting, RollingBack, Looping, Recovering, PCs

LEMMA AdoptFirstPolicyKeeps ==
    ASSUME LifecycleInv, AdoptFirstPolicy
    PROVE  LifecycleInv'
<1>1. TypeInv' /\ TypeInv BY AdoptFirstPolicyTypes DEF LifecycleInv
<1>2. MapOK(labels')
  <2>1. op.snap.active = None /\ op.snap.present = "true" /\ MapOK(op.snap) /\ Me \in Policies
    BY <1>1, Parts DEF AdoptFirstPolicy, LifecycleInv, WorkerOK, Adopting, PlaceOK
  <2>. QED BY <1>1, Parts, <2>1, AdoptedMap DEF AdoptFirstPolicy
<1>. QED BY <1>1, <1>2, Parts, GotoFields, QuietStep DEF AdoptFirstPolicy, LifecycleInv, WorkerOK, Working, Adopting, RollingBack, Looping, Recovering, PCs

LEMMA RebootScanKeeps ==
    ASSUME LifecycleInv, RebootScan
    PROVE  LifecycleInv'
<1>1. TypeInv' /\ TypeInv BY RebootScanTypes DEF LifecycleInv
<1>2. MapOK(labels')
  <2>1. MapOK([labels EXCEPT !.flags = @ \ {"teardownCompleted"}])
    BY <1>1, Parts DEF LifecycleInv, NodeLabels, MapOK, VersionOK, VerdictOK, FlowsOK, BareOK, InProgress
  <2>. QED BY <1>1, <2>1, Parts, RebootMap DEF RebootScan, LifecycleInv
<1>. QED BY <1>1, <1>2, Parts, GotoFields, QuietStep
    DEF RebootScan, LifecycleInv, WorkerOK, Idle, Working, Adopting, RollingBack, Looping, Recovering, PCs

LEMMA CleanOnDeletionKeeps ==
    ASSUME LifecycleInv, CleanOnDeletion
    PROVE  LifecycleInv'
<1>1. TypeInv' /\ TypeInv BY CleanOnDeletionTypes DEF LifecycleInv
<1>2. MapOK(labels')
  <2> DEFINE l == cleanupStaleSelectorLabels(cleanupStaleCRLabels(op.snap))
  <2>1. l \in NodeLabels /\ MapOK(l) /\ l.sel = {} /\ l.active = None /\ l.blocked = None
    BY <1>1, Parts, CleanTypes, CleanMap
  <2>2. labels' = [l EXCEPT !.present = IF op.snap.isolate THEN "false" ELSE "true",
                            !.flags = {"ownerPolicyDeleted"}]
    BY DEF CleanOnDeletion
  <2>. HIDE DEF l
  <2>. QED BY <2>1, <2>2 DEF NodeLabels, MapOK, VersionOK, VerdictOK, FlowsOK, BareOK
<1>3. /\ op'.pc \in {"idle", "finalize"} /\ op'.then = "status"
      /\ op'.snap = BareLabels /\ op'.rsnap = BareLabels
  <2>1. op' = Idle \/ op' = [Idle EXCEPT !.pc = "finalize", !.policy = Me] BY DEF CleanOnDeletion
  <2>2. CASE op' = [Idle EXCEPT !.pc = "finalize", !.policy = Me] BY <2>2 DEF Idle
  <2>. QED BY <2>1, <2>2, RestFields
<1>. QED BY <1>1, <1>2, <1>3, QuietStep DEF Working, Adopting, RollingBack, Looping, Recovering

LEMMA FinalizePolicyKeeps ==
    ASSUME LifecycleInv, FinalizePolicy
    PROVE  LifecycleInv'
<1>1. TypeInv' /\ TypeInv BY FinalizePolicyTypes DEF LifecycleInv
<1>2. MapOK(labels')
  <2> DEFINE pr == IF labels.isolate THEN labels.present ELSE "absent"
  <2>1. pr \in {"absent", labels.present} OBVIOUS
  <2>2. labels' \in {labels, [labels EXCEPT !.flags = @ \ {"ownerPolicyDeleted"}, !.present = pr]}
    BY DEF FinalizePolicy
  <2>. HIDE DEF pr
  <2>3. MapOK([labels EXCEPT !.flags = @ \ {"ownerPolicyDeleted"}, !.present = pr])
    BY <1>1, Parts, <2>1 DEF LifecycleInv, NodeLabels, MapOK, VersionOK, VerdictOK, FlowsOK, BareOK, InProgress
  <2>. QED BY <2>2, <2>3 DEF LifecycleInv
<1>. QED BY <1>1, <1>2, QuietStep DEF FinalizePolicy, LifecycleInv, Idle, Working, Adopting, RollingBack, Looping, Recovering

(* A selector removed by a drain is the last one left of those after it,   *)
(* so the firmware selector goes when it is alone.                         *)
LEMMA DrainMap ==
    ASSUME LifecycleInv, DrainsSelector
    PROVE  /\ MapOK(labels') /\ labels'.present = labels.present /\ labels'.flags = labels.flags
           /\ labels'.sel = labels.sel \ {op.at}
           /\ "firmware" \in labels.sel \ labels'.sel => labels'.sel = {}
<1>1. op \in Workers /\ labels \in NodeLabels BY Parts DEF LifecycleInv
<1>2. labels' = [labels EXCEPT !.sel = @ \ {op.at}] BY DEF DrainsSelector
<1>3. \A c \in labels.sel : Position[c] <= Position[op.at]
  BY DEF DrainsSelector, LifecycleInv, WorkerOK
<1>4. op.at = "firmware" => labels.sel \ {op.at} = {}
  BY <1>1, <1>3 DEF NodeLabels, Comps, Position
<1>5. labels'.sel = labels.sel \ {op.at} /\ labels'.present = labels.present /\ labels'.flags = labels.flags
  BY <1>1, <1>2 DEF NodeLabels
<1>6. MapOK(labels')
  BY <1>1, <1>2, <1>4 DEF LifecycleInv, NodeLabels, MapOK, VersionOK, VerdictOK, FlowsOK, BareOK
<1>. QED BY <1>1, <1>4, <1>5, <1>6 DEF NodeLabels

LEMMA StartAdoptionKeeps ==
    ASSUME LifecycleInv, StartAdoption
    PROVE  LifecycleInv'
<1>1. TypeInv' /\ TypeInv BY StartAdoptionTypes DEF LifecycleInv
<1>2. MapOK(op'.snap) /\ op'.rsnap = op.rsnap
  BY <1>1, Parts DEF StartAdoption, LifecycleInv, Workers
<1>3. WorkerOK'
  BY <1>1, Parts DEF StartAdoption, MayProcess, Has, LifecycleInv, WorkerOK, Workers, Working, Adopting, RollingBack, Looping, Recovering
<1>. QED BY <1>1, <1>2, <1>3 DEF StartAdoption, LifecycleInv

LEMMA StartEnablingKeeps ==
    ASSUME LifecycleInv, StartEnabling
    PROVE  LifecycleInv'
<1>1. TypeInv' /\ TypeInv BY StartEnablingTypes DEF LifecycleInv
<1>2. MapOK(op'.snap) /\ op'.rsnap = op.rsnap
  BY <1>1, Parts DEF StartEnabling, LifecycleInv, Workers
<1>3. WorkerOK'
  BY <1>1, Parts DEF StartEnabling, MayProcess, Has, LifecycleInv, WorkerOK, Workers, Working, Adopting, RollingBack, Looping, Recovering
<1>. QED BY <1>1, <1>2, <1>3 DEF StartEnabling, LifecycleInv

LEMMA StartRebootKeeps ==
    ASSUME LifecycleInv, StartReboot
    PROVE  LifecycleInv'
<1>1. TypeInv' /\ TypeInv BY StartRebootTypes DEF LifecycleInv
<1>2. MapOK(op'.snap) /\ op'.rsnap = op.rsnap
  BY <1>1, Parts DEF StartReboot, LifecycleInv, Workers
<1>3. WorkerOK'
  BY <1>1, Parts DEF StartReboot, MayProcess, Has, LifecycleInv, WorkerOK, Workers, Working, Adopting, RollingBack, Looping, Recovering
<1>. QED BY <1>1, <1>2, <1>3 DEF StartReboot, LifecycleInv

LEMMA StartLoopKeeps ==
    ASSUME LifecycleInv, StartLoop
    PROVE  LifecycleInv'
<1>1. TypeInv' /\ TypeInv BY StartLoopTypes DEF LifecycleInv
<1>2. MapOK(op'.snap) /\ op'.rsnap = op.rsnap
  BY <1>1, Parts DEF StartLoop, LifecycleInv, Workers
<1>3. WorkerOK'
  BY <1>1, Parts DEF StartLoop, MayProcess, Has, LifecycleInv, WorkerOK, Workers, Working, Adopting, RollingBack, Looping, Recovering
<1>. QED BY <1>1, <1>2, <1>3 DEF StartLoop, LifecycleInv

LEMMA EnableNextKeeps ==
    ASSUME LifecycleInv, EnableNext
    PROVE  LifecycleInv'
<1>1. TypeInv' /\ TypeInv BY EnableNextTypes DEF LifecycleInv
<1>2. PICK c \in Comps : IsNextSelector(c, labels) /\ labels' = [labels EXCEPT !.sel = @ \cup {c}]
  BY DEF EnableNext
<1>3. "firmware" \in labels'.sel
  BY <1>1, <1>2, Parts DEF IsNextSelector, Earlier, Position, Comps, NodeLabels
<1>4. labels.present = "true" BY DEF EnableNext, LifecycleInv, WorkerOK, Working
<1>5. MapOK(labels') /\ labels'.present = labels.present /\ labels'.flags = labels.flags
  BY <1>1, <1>2, <1>3, <1>4, Parts DEF LifecycleInv, NodeLabels, MapOK, VersionOK, VerdictOK, FlowsOK, BareOK
<1>6. op.then \in PCs /\ Goto(op.then) BY <1>1, Parts DEF EnableNext, PCs
<1>7. WorkerOK'
  BY <1>1, <1>4, <1>5, <1>6, Parts, GotoFields DEF EnableNext, LifecycleInv, WorkerOK, BareLabels, Working, Adopting, RollingBack, Looping, Recovering
<1>8. MapOK(op'.snap) /\ MapOK(op'.rsnap)
  BY <1>1, <1>6, Parts, GotoFields, BareMap DEF LifecycleInv
<1>. QED BY <1>1, <1>5, <1>7, <1>8 DEF LifecycleInv

LEMMA ListPodsKeeps ==
    ASSUME LifecycleInv, ListPods
    PROVE  LifecycleInv'
<1>1. TypeInv' /\ TypeInv BY ListPodsTypes DEF LifecycleInv
<1>2. WorkerOK'
  BY <1>1, Parts DEF ListPods, LifecycleInv, WorkerOK, Workers, Working, Adopting, RollingBack, Looping, Recovering, NodeLabels, Comps, Position
<1>3. op'.snap = op.snap /\ op'.rsnap = op.rsnap BY <1>1, Parts DEF ListPods, Workers
<1>. QED BY <1>1, <1>2, <1>3 DEF ListPods, LifecycleInv

LEMMA DrainKeeps ==
    ASSUME LifecycleInv, Drain
    PROVE  LifecycleInv'
<1>1. TypeInv' /\ TypeInv BY DrainTypes DEF LifecycleInv
<1>2. op' = [op EXCEPT !.at = DrainNext[@]] BY DEF Drain
<1>3. \A c \in labels'.sel : Position[c] <= Position[DrainNext[op.at]]
  BY <1>1, Parts, DrainMap
  DEF Drain, DrainsSelector, LifecycleInv, WorkerOK, NodeLabels, Comps, Position, DrainNext
<1>4. /\ op'.pc = op.pc /\ op'.flow = op.flow /\ op'.then = op.then /\ op'.at = DrainNext[op.at]
      /\ op'.snap = op.snap /\ op'.rsnap = op.rsnap
  BY <1>1, <1>2, Parts DEF Workers
<1>5. WorkerOK'
  BY <1>1, <1>3, <1>4, DrainMap DEF Drain, DrainsSelector, LifecycleInv, WorkerOK, Working, Adopting, RollingBack, Looping, Recovering
<1>. QED BY <1>1, <1>4, <1>5, DrainMap DEF Drain, LifecycleInv

LEMMA DrainLastKeeps ==
    ASSUME LifecycleInv, DrainLast
    PROVE  LifecycleInv'
<1>1. TypeInv' /\ TypeInv BY DrainLastTypes DEF LifecycleInv
<1>2. AfterTeardown \in {"switch", "torn"} /\ (AfterTeardown = "switch" <=> op.flow = "upgrade")
  BY DEF AfterTeardown
<1>3. /\ op'.pc = AfterTeardown /\ op'.flow = op.flow /\ op'.then = op.then
      /\ op'.snap = op.snap /\ op'.rsnap = op.rsnap
  BY <1>1, <1>2, Parts, GotoFields DEF DrainLast, PCs
<1>4. WorkerOK'
  BY <1>1, <1>2, <1>3, DrainMap DEF DrainLast, DrainsSelector, LifecycleInv, WorkerOK, Working, Adopting, RollingBack, Looping, Recovering
<1>. QED BY <1>1, <1>3, <1>4, DrainMap DEF DrainLast, LifecycleInv

LEMMA DrainPendingKeeps ==
    ASSUME LifecycleInv, DrainPending
    PROVE  LifecycleInv'
<1>1. TypeInv' /\ TypeInv BY DrainPendingTypes DEF LifecycleInv
<1>. QED BY <1>1, Parts, GotoFields, DrainMap, QuietStep
    DEF DrainPending, DrainsSelector, LifecycleInv, WorkerOK, Idle, Working, Adopting, RollingBack, Looping, Recovering, PCs

LEMMA MarkTornDownKeeps ==
    ASSUME LifecycleInv, MarkTornDown
    PROVE  LifecycleInv'
<1>1. TypeInv' /\ TypeInv BY MarkTornDownTypes DEF LifecycleInv
<1> DEFINE base == IF op.flow = "rollback" THEN op.rsnap ELSE labels
           pc == CASE op.flow = "rollback" -> "toPrior"
                   [] op.flow = "reboot" -> "enable"
                   [] op.flow = "delete" -> "clean"
<1>2. base \in NodeLabels /\ MapOK(base) BY <1>1, Parts DEF LifecycleInv
<1>3. op.flow \in {"rollback", "reboot", "delete"} BY <1>1, Parts DEF MarkTornDown, PlaceOK, Flows
<1>4. op.flow \in {"rollback", "reboot"} => base.present = "true"
  BY DEF MarkTornDown, LifecycleInv, WorkerOK, Working, RollingBack, Recovering
<1>5. op.flow = "rollback" => "rebooted" \notin base.flags
  BY DEF LifecycleInv, WorkerOK
<1>6. pc \in {"toPrior", "enable", "clean"} /\ (pc = "toPrior" <=> op.flow = "rollback")
      /\ (pc = "enable" <=> op.flow = "reboot")
  BY <1>3
<1>7. labels' = [base EXCEPT !.flags = @ \cup {"teardownCompleted"}] /\ Goto(pc)
  BY DEF MarkTornDown
<1>. HIDE DEF base, pc
<1>8. MapOK(labels') /\ labels'.present = base.present
      /\ ("rebooted" \in labels'.flags => "rebooted" \in base.flags)
  BY <1>2, <1>7 DEF NodeLabels, MapOK, VersionOK, VerdictOK, FlowsOK, BareOK, InProgress
<1>9. /\ op'.pc = pc /\ op'.flow = op.flow /\ op'.then = op.then
      /\ op'.snap = op.snap /\ op'.rsnap = op.rsnap
  BY <1>1, <1>6, <1>7, Parts, GotoFields DEF PCs
<1>10. WorkerOK'
  <2>1. op.pc = "torn" BY DEF MarkTornDown
  <2>2. op.then # "adopt" BY <2>1 DEF LifecycleInv, WorkerOK
  <2>3. CASE op.flow = "rollback"
    <3>1. op.snap.active # None /\ op.snap.present = "true" /\ "rebooted" \notin op.snap.flags
      BY <2>1, <2>3 DEF LifecycleInv, WorkerOK, RollingBack
    <3>2. op.rsnap.present = "true" /\ "rebooted" \notin op.rsnap.flags
      BY <2>1, <2>3 DEF LifecycleInv, WorkerOK, RollingBack
    <3>. QED BY <1>4, <1>5, <1>6, <1>8, <1>9, <2>2, <2>3, <3>1, <3>2
      DEF WorkerOK, Working, Adopting, RollingBack, Looping, Recovering
  <2>4. CASE op.flow # "rollback"
    <3>1. "rebooted" \notin op.rsnap.flags BY DEF LifecycleInv, WorkerOK
    <3>2. op.flow = "reboot" => op.then = "status" BY <2>1 DEF LifecycleInv, WorkerOK, Recovering
    <3>. QED BY <1>3, <1>4, <1>6, <1>8, <1>9, <2>1, <2>2, <2>4, <3>1, <3>2
      DEF WorkerOK, Working, Adopting, RollingBack, Looping, Recovering
  <2>. QED BY <2>3, <2>4
<1>. QED BY <1>1, <1>8, <1>9, <1>10 DEF LifecycleInv

LEMMA BlockAggregationKeeps ==
    ASSUME LifecycleInv, BlockAggregation
    PROVE  LifecycleInv'
<1>1. TypeInv' /\ TypeInv BY BlockAggregationTypes DEF LifecycleInv
<1> DEFINE l == [op.snap EXCEPT !.blocked = Me]
<1>2. op.snap.active # None /\ op.snap.present = "true" /\ "rebooted" \notin op.snap.flags
  BY DEF BlockAggregation, LifecycleInv, WorkerOK, Looping
<1>3. MapOK(l) /\ l.active # None /\ l.present = "true" /\ "rebooted" \notin l.flags
  BY <1>1, <1>2, Parts DEF LifecycleInv, NodeLabels, MapOK, VersionOK, VerdictOK, FlowsOK, BareOK
<1>4. labels' = l /\ op' = [op EXCEPT !.pc = "upgrading", !.snap = l] BY DEF BlockAggregation
<1>. HIDE DEF l
<1>5. WorkerOK'
  BY <1>1, <1>3, <1>4, Parts DEF BlockAggregation, LifecycleInv, WorkerOK, Workers, Working, Adopting, RollingBack, Looping, Recovering
<1>6. op'.snap = l /\ op'.rsnap = op.rsnap BY <1>1, <1>4, Parts DEF Workers
<1>. QED BY <1>1, <1>3, <1>4, <1>5, <1>6 DEF LifecycleInv

LEMMA transitionToUpgradingStateKeeps ==
    ASSUME LifecycleInv, transitionToUpgradingState
    PROVE  LifecycleInv'
<1>1. TypeInv' /\ TypeInv BY transitionToUpgradingStateTypes DEF LifecycleInv
<1> DEFINE l == IF Has("upgrading") THEN labels ELSE UpgradeBegun(labels)
           pc == IF "teardownCompleted" \in l.flags THEN "switch" ELSE "list"
<1>2. labels.present = "true" /\ "rebooted" \notin labels.flags
  BY DEF transitionToUpgradingState, LifecycleInv, WorkerOK, Working, Looping
<1>3. MapOK(l) /\ l.present = "true" /\ "rebooted" \notin l.flags
  BY <1>1, <1>2, Parts, UpgradeBegunMap DEF LifecycleInv
<1>4. pc \in {"switch", "list"} OBVIOUS
<1>5. labels' = l /\ op' = [op EXCEPT !.flow = "upgrade", !.pc = pc] BY DEF transitionToUpgradingState
<1>. HIDE DEF l, pc
<1>6. /\ op'.pc = pc /\ op'.flow = "upgrade" /\ op'.then = op.then
      /\ op'.snap = op.snap /\ op'.rsnap = op.rsnap
  BY <1>1, <1>5, Parts DEF Workers
<1>7. WorkerOK'
  BY <1>3, <1>4, <1>5, <1>6 DEF transitionToUpgradingState, LifecycleInv, WorkerOK, Working, Adopting, RollingBack, Looping, Recovering
<1>. QED BY <1>1, <1>3, <1>5, <1>6, <1>7 DEF LifecycleInv

LEMMA updateSwVersionLabelsKeeps ==
    ASSUME LifecycleInv, updateSwVersionLabels
    PROVE  LifecycleInv'
<1>1. TypeInv' /\ TypeInv BY updateSwVersionLabelsTypes DEF LifecycleInv
<1>2. labels.present = "true" /\ "rebooted" \notin labels.flags /\ Me \in Policies
  BY <1>1, Parts DEF updateSwVersionLabels, LifecycleInv, WorkerOK, Working, Looping, PlaceOK
<1>3. MapOK(labels') /\ labels'.present = "true" /\ "rebooted" \notin labels'.flags
  BY <1>1, <1>2, Parts, SwitchedMap DEF updateSwVersionLabels, LifecycleInv
<1>4. /\ op'.pc = "enable" /\ op'.flow = op.flow /\ op'.then = op.then
      /\ op'.snap = op.snap /\ op'.rsnap = op.rsnap
  BY <1>1, Parts, GotoFields DEF updateSwVersionLabels, PCs
<1>5. WorkerOK'
  BY <1>1, <1>3, <1>4, Parts DEF updateSwVersionLabels, LifecycleInv, WorkerOK, Working, Adopting, RollingBack, Looping, Recovering
<1>. QED BY <1>1, <1>3, <1>4, <1>5 DEF LifecycleInv

LEMMA RolledBackKeeps ==
    ASSUME LifecycleInv, RolledBack
    PROVE  LifecycleInv'
<1>1. TypeInv' /\ TypeInv BY RolledBackTypes DEF LifecycleInv
<1>2. CASE op.snap.boot = "true"
  <2>1. labels' = StatusCleaned(op.snap) /\ op' = Idle BY <1>2 DEF RolledBack
  <2>2. MapOK(labels') BY <1>1, <2>1, Parts, StatusCleanedMap DEF LifecycleInv
  <2>3. op'.pc = "idle" /\ op'.snap = BareLabels /\ op'.rsnap = BareLabels /\ op'.then = "status"
    BY <2>1 DEF Idle
  <2>4. ~Working' BY <2>3 DEF Working, Adopting, RollingBack, Looping, Recovering
  <2>. QED BY <1>1, <2>2, <2>3, <2>4, QuietStep
<1>3. CASE op.snap.boot # "true"
  <2>1. UNCHANGED labels /\ op' = [op EXCEPT !.pc = "enable", !.then = "loop"]
    BY <1>3 DEF RolledBack
  <2>2. /\ op.snap.active # None /\ op.snap.present = "true" /\ "rebooted" \notin op.snap.flags
        /\ labels.present = "true" /\ "rebooted" \notin labels.flags
    BY DEF RolledBack, LifecycleInv, WorkerOK, Working, Looping
  <2>3. /\ op'.pc = "enable" /\ op'.then = "loop" /\ op'.snap = op.snap /\ op'.rsnap = op.rsnap
    BY <1>1, <2>1, Parts DEF Workers
  <2>4. WorkerOK'
    BY <2>1, <2>2, <2>3 DEF LifecycleInv, WorkerOK, Working, Adopting, RollingBack, Looping, Recovering
  <2>. QED BY <1>1, <2>1, <2>3, <2>4 DEF LifecycleInv
<1>. QED BY <1>2, <1>3

LEMMA BeginRollbackKeeps ==
    ASSUME LifecycleInv, BeginRollback
    PROVE  LifecycleInv'
<1>1. TypeInv' /\ TypeInv BY BeginRollbackTypes DEF LifecycleInv
<1> DEFINE l == IF Has("rollingBackUpgrade") THEN labels ELSE RollbackBegun(labels)
           pc == IF "teardownCompleted" \in l.flags THEN "toPrior" ELSE "list"
<1>2. /\ labels.present = "true" /\ "rebooted" \notin labels.flags
      /\ op.snap.active # None /\ op.snap.present = "true" /\ "rebooted" \notin op.snap.flags
      /\ op.then # "adopt"
  BY DEF BeginRollback, LifecycleInv, WorkerOK, Working, Looping
<1>3. MapOK(l) /\ l.present = "true" /\ "rebooted" \notin l.flags
  BY <1>1, <1>2, Parts, RollbackBegunMap DEF BeginRollback, MayRollBack, Has, LifecycleInv
<1>4. pc \in {"toPrior", "list"} OBVIOUS
<1>5. labels' = l
      /\ op' = [op EXCEPT !.prior = labels.prior, !.rsnap = l, !.flow = "rollback", !.pc = pc]
  BY DEF BeginRollback
<1>. HIDE DEF l, pc
<1>6. /\ op'.pc = pc /\ op'.flow = "rollback" /\ op'.then = op.then
      /\ op'.snap = op.snap /\ op'.rsnap = l
  BY <1>1, <1>5, Parts DEF Workers
<1>7. WorkerOK'
  BY <1>2, <1>3, <1>4, <1>5, <1>6 DEF WorkerOK, Working, Adopting, RollingBack, Looping, Recovering
<1>. QED BY <1>1, <1>3, <1>5, <1>6, <1>7 DEF LifecycleInv

LEMMA RestorePriorKeeps ==
    ASSUME LifecycleInv, RestorePrior
    PROVE  LifecycleInv'
<1>1. TypeInv' /\ TypeInv BY RestorePriorTypes DEF LifecycleInv
<1>2. labels.present = "true" /\ "rebooted" \notin labels.flags /\ op.prior \in Policies
  BY <1>1, Parts DEF RestorePrior, LifecycleInv, WorkerOK, Working, RollingBack, PlaceOK
<1>3. MapOK(labels') /\ labels'.present = "true" /\ "rebooted" \notin labels'.flags
  BY <1>1, <1>2, Parts, RestoredMap DEF RestorePrior, LifecycleInv
<1>4. op' = [op EXCEPT !.pc = "rolledBackLabel", !.rsnap = labels'] BY DEF RestorePrior
<1>5. /\ op'.pc = "rolledBackLabel" /\ op'.then = op.then
      /\ op'.snap = op.snap /\ op'.rsnap = labels'
  BY <1>1, <1>4, Parts DEF Workers
<1>6. WorkerOK'
  BY <1>1, <1>3, <1>5, Parts DEF RestorePrior, LifecycleInv, WorkerOK, Working, Adopting, RollingBack, Looping, Recovering
<1>. QED BY <1>1, <1>3, <1>5, <1>6 DEF LifecycleInv

LEMMA LabelRolledBackKeeps ==
    ASSUME LifecycleInv, LabelRolledBack
    PROVE  LifecycleInv'
<1>1. TypeInv' /\ TypeInv BY LabelRolledBackTypes DEF LifecycleInv
<1>2. /\ op.rsnap.present = "true" /\ "rebooted" \notin op.rsnap.flags /\ labels.present = "true"
      /\ "rebooted" \notin labels.flags
      /\ op.snap.active # None /\ op.snap.present = "true" /\ "rebooted" \notin op.snap.flags
      /\ op.then # "adopt"
  BY DEF LabelRolledBack, LifecycleInv, WorkerOK, Working, RollingBack
<1>3. MapOK(labels') /\ labels'.present = "true" /\ "rebooted" \notin labels'.flags
  <2>1. CASE "rollingBackUpgrade" \in op.rsnap.flags
    <3>1. labels' = [op.rsnap EXCEPT !.flags = (@ \ {"rollingBackUpgrade"}) \cup {"rolledBack"}]
      BY <2>1 DEF LabelRolledBack
    <3>. QED BY <1>1, <1>2, <2>1, <3>1, Parts DEF LifecycleInv, NodeLabels, MapOK, VersionOK, VerdictOK, FlowsOK, BareOK, InProgress
  <2>2. CASE "rollingBackUpgrade" \notin op.rsnap.flags
    BY <1>2, <2>2 DEF LabelRolledBack, LifecycleInv
  <2>. QED BY <2>1, <2>2
<1>4. op' = [op EXCEPT !.pc = "loop", !.rsnap = BareLabels, !.prior = None] BY DEF LabelRolledBack
<1>5. /\ op'.pc = "loop" /\ op'.then = op.then
      /\ op'.snap = op.snap /\ op'.rsnap = BareLabels
  BY <1>1, <1>4, Parts DEF Workers
<1>6. WorkerOK' BY <1>2, <1>3, <1>5 DEF WorkerOK, BareLabels, Working, Adopting, RollingBack, Looping, Recovering
<1>. QED BY <1>1, <1>3, <1>5, <1>6, BareMap DEF LifecycleInv

(* A worker whose call fails gives up, or goes on with what it holds.      *)
LEMMA CallFailsKeeps ==
    ASSUME LifecycleInv, CallFails
    PROVE  LifecycleInv'
<1>1. TypeInv' /\ TypeInv /\ op \in Workers BY CallFailsTypes, Parts DEF LifecycleInv
<1>2. UNCHANGED labels /\ MapOK(labels') BY <1>1, CallFailsFields DEF LifecycleInv
<1>3. CASE op' = Idle
  BY <1>1, <1>2, <1>3, QuietStep DEF Idle, Working, Adopting, RollingBack, Looping, Recovering
<1>4. CASE op' = AtStatus
  BY <1>1, <1>2, <1>4, QuietStep DEF AtStatus, Idle, Working, Adopting, RollingBack, Looping, Recovering
<1>5. ASSUME NEW pc \in LoggedAt, LogsError(pc), op' = [op EXCEPT !.pc = pc]
      PROVE  LifecycleInv'
  <2>1. /\ op'.pc = pc /\ op'.snap = op.snap /\ op'.rsnap = op.rsnap /\ op'.then = op.then
        /\ op'.flow = op.flow
    BY <1>1, <1>5 DEF Workers
  <2>2. CASE pc = "adopt"
    BY <1>1, <1>2, <1>5, <2>1, <2>2, CarryStep
    DEF LogsError, AdoptsAnyway, Working, Adopting, RollingBack, Looping, Recovering
  <2>3. CASE pc # "adopt"
    <3>1. op.then # "adopt"
      BY <1>5, <2>3 DEF LogsError, LoggedAt, AdoptsAnyway, Deleting, LifecycleInv, WorkerOK
    <3>. QED BY <1>1, <1>2, <2>1, <2>3, <3>1, QuietStep
      DEF LoggedAt, Working, Adopting, RollingBack, Looping, Recovering
  <2>. QED BY <2>2, <2>3
<1>6. CASE op.pc = "rolledBackLabel" /\ op' = [op EXCEPT !.pc = "loop", !.rsnap = BareLabels, !.prior = None]
  <2>1. /\ op'.pc = "loop" /\ op'.then = op.then
        /\ op'.snap = op.snap /\ op'.rsnap = BareLabels
    BY <1>1, <1>6 DEF Workers
  <2>2. WorkerOK'
    BY <1>2, <1>6, <2>1 DEF LifecycleInv, WorkerOK, BareLabels, Working, Adopting, RollingBack, Looping, Recovering
  <2>. QED BY <1>1, <1>2, <2>1, <2>2, BareMap DEF LifecycleInv
<1>. QED BY <1>1, <1>3, <1>4, <1>5, <1>6, CallFailsFields

(* No outside event writes a label that MapOK speaks of, and a crash only   *)
(* makes the worker forget.                                                *)
LEMMA OutsideKeeps ==
    ASSUME LifecycleInv, Outside
    PROVE  LifecycleInv'
<1>1. TypeInv' /\ TypeInv BY OutsideTypes DEF LifecycleInv
<1>2. MapOK(labels') /\ labels'.present = labels.present /\ labels'.flags = labels.flags
      /\ labels'.sel = labels.sel
  <2>. QED BY <1>1, OutsideParts, Parts DEF LifecycleInv, NodeLabels, MapOK, VersionOK, VerdictOK, FlowsOK, BareOK
<1>3. CASE op' = op
  <2>1. WorkerOK' BY <1>2, <1>3 DEF LifecycleInv, WorkerOK, Working, Adopting, RollingBack, Looping, Recovering
  <2>. QED BY <1>1, <1>2, <1>3, <2>1 DEF LifecycleInv
<1>4. CASE OperatorCrashes
  BY <1>1, <1>2, <1>4, QuietStep DEF OperatorCrashes, Idle, Working, Adopting, RollingBack, Looping, Recovering
<1>5. CASE CallFails BY <1>5, CallFailsKeeps
<1>. QED BY <1>3, <1>4, <1>5, OutsideParts

LEMMA InitKeeps == Init => LifecycleInv
<1>. SUFFICES ASSUME Init PROVE LifecycleInv
  OBVIOUS
<1>1. MapOK(labels) /\ MapOK(op.snap) /\ MapOK(op.rsnap)
  BY BareMap DEF Init, Idle
<1>2. WorkerOK BY DEF Init, Idle, BareLabels, WorkerOK, Working, Adopting, RollingBack, Looping, Recovering
<1>. QED BY <1>1, <1>2, InitTypes DEF LifecycleInv

LEMMA NextKeeps == LifecycleInv /\ [Next]_vars => LifecycleInv'
<1>. SUFFICES ASSUME LifecycleInv, [Next]_vars PROVE LifecycleInv'
  OBVIOUS
<1>1. CASE OperatorStep
  BY <1>1, NoRebootKeeps, HoldRebootKeeps, RebootScanKeeps, AutoIsolateKeeps,
     labelX100NodesKeeps, AggregateKeeps, PassOverKeeps, StartAdoptionKeeps,
     StartEnablingKeeps, StartRebootKeeps, StartLoopKeeps, EnableNextKeeps,
     AllEnabledKeeps, EnableFailsKeeps, AdoptFirstPolicyKeeps, ListPodsKeeps,
     NothingToDrainKeeps, DrainKeeps, DrainLastKeeps, DrainPendingKeeps,
     MarkTornDownKeeps, LoopDoneKeeps, LeaveOldPolicyKeeps, KeepMovingKeeps,
     ResumeUnfinishedKeeps, BlockAggregationKeeps,
     transitionToUpgradingStateKeeps, updateSwVersionLabelsKeeps,
     AlreadySwitchedKeeps, IncorrectPolicyKeeps, RolledBackKeeps,
     SkipRollbackKeeps, BeginRollbackKeeps, ListUnderPriorKeeps,
     UnlistFromPolicyKeeps, RestorePriorKeeps, LabelRolledBackKeeps,
     AfterLabelsKeeps, ReadBootStatusKeeps, SkipBootStatusKeeps,
     MarkVerdictKeeps, NoVerdictKeeps, ClearTimersKeeps, CleanOnDeletionKeeps,
     FinalizePolicyKeeps
  DEF OperatorStep
<1>2. CASE \E p \in Policies : Reconcile(p) \/ ReconcileDeletion(p)
  BY <1>2, ReconcileKeeps, ReconcileDeletionKeeps
<1>3. CASE Outside BY <1>3, OutsideKeeps
<1>4. CASE UNCHANGED vars
  <2>1. TypeInv' BY <1>4, NextTypes DEF LifecycleInv
  <2>2. WorkerOK' BY <1>4 DEF vars, LifecycleInv, WorkerOK, Working, Adopting, RollingBack, Looping, Recovering
  <2>. QED BY <1>4, <2>1, <2>2 DEF vars, LifecycleInv
<1>. QED BY <1>1, <1>2, <1>3, <1>4 DEF Next

-----------------------------------------------------------------------------
(* The labels, and every label map the worker holds, are consistent, and   *)
(* the worker's place in the code is backed by what the labels say.        *)
THEOREM LabelsConsistent == Spec => []LifecycleInv
BY InitKeeps, NextKeeps, PTL DEF Spec

(* The version label names the version of activeCR, whichever of adoption, *)
(* updateSwVersionLabels, rollbackHandler and the clean-ups wrote last.    *)
THEOREM VersionAlwaysFollows == Spec => []VersionFollowsPolicy
<1>1. LifecycleInv => VersionFollowsPolicy
  BY DEF LifecycleInv, MapOK, VersionOK, VersionFollowsPolicy
<1>. QED BY LabelsConsistent, <1>1, PTL

(* A rollback never has the version on the node to roll back to.           *)
THEOREM PriorDiffers == Spec => []PriorNeverActive
<1>1. LifecycleInv => PriorNeverActive
  BY DEF LifecycleInv, MapOK, VersionOK, PriorNeverActive
<1>. QED BY LabelsConsistent, <1>1, PTL

(* markHealthCheckedforCurrentCR ends every flow, and no stale label map   *)
(* written later brings one back beside the mark.                          *)
THEOREM VerdictEnds == Spec => []VerdictEndsWork
<1>1. LifecycleInv => VerdictEndsWork
  BY DEF LifecycleInv, MapOK, VerdictOK, VerdictEndsWork, Has
<1>. QED BY LabelsConsistent, <1>1, PTL

(* swUpgradeFailed, which sends a node to rollback, is only ever found     *)
(* with the mark and a boot status of "false".                             *)
THEOREM FailureIsJudged == Spec => []FailureIsAVerdict
<1>1. LifecycleInv => FailureIsAVerdict
  BY DEF LifecycleInv, MapOK, VerdictOK, FailureIsAVerdict, Has
<1>. QED BY LabelsConsistent, <1>1, PTL

(* During a rollback there is no boot status to be taken for the prior     *)
(* version's.                                                              *)
THEOREM RollbackIsClean == Spec => []RollbackStartsClean
<1>1. LifecycleInv => RollbackStartsClean
  BY DEF LifecycleInv, MapOK, VerdictOK, RollbackStartsClean, Has
<1>. QED BY LabelsConsistent, <1>1, PTL

(* A reboot recovery is never also an upgrade, nor a rolled-back node one  *)
(* that is still to be rolled back.                                        *)
THEOREM FlowsApart == Spec => []OneFlowAtATime
<1>1. LifecycleInv => OneFlowAtATime
  BY DEF LifecycleInv, MapOK, FlowsOK, OneFlowAtATime, Has
<1>. QED BY LabelsConsistent, <1>1, PTL

(* An isolated node has no policy, no move and no pod selector, and no     *)
(* flow gives it one.                                                      *)
THEOREM WithdrawnStaysBare == Spec => []WithdrawnIsBare
<1>1. LifecycleInv => WithdrawnIsBare
  BY DEF LifecycleInv, MapOK, BareOK, WithdrawnIsBare
<1>. QED BY LabelsConsistent, <1>1, PTL

(* Selectors are removed one step at a time by the drains, in the middle   *)
(* by a reboot, and all at once by the clean-ups: in none of them does a   *)
(* component outlive the firmware selector it depends on.                  *)
THEOREM FirmwareIsLast == Spec => FirmwareLeavesLast
<1>1. LifecycleInv' => ("firmware" \in labels.sel \ labels'.sel => labels'.sel = {})
  BY DEF LifecycleInv, MapOK, BareOK
<1>. QED BY LabelsConsistent, <1>1, PTL DEF FirmwareLeavesLast

-----------------------------------------------------------------------------
(* The deletion of a policy releases every node that is not moving away:   *)
(* for any policies, moves, crashes, reboots, isolations and failures.     *)
(*                                                                         *)
(* The argument: only the worker removes a policy, at a place where it has *)
(* seen the node under another one or has just cleaned it, and it holds no *)
(* label map there.  At every other place the policies stay, and what is   *)
(* written has the policy of labels that were released, or a policy that   *)
(* exists because the worker is working for it.                            *)

(* A label map whose policy is there, or that is moving to another one.    *)
Released(l) == l.active \in policies \cup {None} \/ l.blocked # None

(* Where the policy is removed, the node is not under it.                  *)
FinalizeOK == op.pc = "finalize" => ~isX100RunningWithPolicy(labels, op.policy)

ReleaseInv == Released(labels) /\ Released(op.snap) /\ Released(op.rsnap) /\ FinalizeOK

SameMove(l, m) == l.active = m.active /\ l.blocked = m.blocked

LEMMA BareReleased == Released(BareLabels)
BY DEF Released, BareLabels

(* A step of the worker that removes no policy and writes a map that is    *)
(* released.                                                               *)
LEMMA ReleaseStep ==
    ASSUME ReleaseInv, policies' = policies, Released(labels'), op'.pc # "finalize",
           op'.snap \in {BareLabels, labels, op.snap, labels'},
           op'.rsnap \in {BareLabels, op.rsnap, labels'}
    PROVE  ReleaseInv'
<1>1. Released(op'.snap) /\ Released(op'.rsnap) BY BareReleased DEF ReleaseInv
<1>. QED BY <1>1 DEF ReleaseInv, Released, FinalizeOK

LEMMA SameMoveReleased ==
    ASSUME NEW l, NEW m, Released(m), SameMove(l, m)
    PROVE  Released(l)
BY DEF Released, SameMove

(* Steps that go on to another place, with the labels as they are ...      *)
LEMMA GotoReleases ==
    ASSUME LifecycleInv, ReleaseInv, policies' = policies, Released(labels'),
           NEW pc \in PCs \ {"finalize"}, Goto(pc)
    PROVE  ReleaseInv'
<1>1. op \in Workers BY Parts DEF LifecycleInv
<1>2. /\ op'.pc # "finalize"
      /\ op'.snap \in {BareLabels, op.snap} /\ op'.rsnap \in {BareLabels, op.rsnap}
  BY <1>1, GotoFields
<1>. QED BY <1>2, ReleaseStep

LEMMA MovingOnReleases ==
    ASSUME LifecycleInv, ReleaseInv,
           \/ NoReboot \/ Aggregate \/ PassOver \/ AllEnabled \/ EnableFails
           \/ NothingToDrain \/ LoopDone \/ AlreadySwitched \/ IncorrectPolicy
           \/ SkipRollback \/ ListUnderPrior \/ UnlistFromPolicy \/ SkipBootStatus
    PROVE  ReleaseInv'
<1>1. op.then \in PCs \ {"finalize"} BY Parts DEF LifecycleInv, PCs
<1>2. AfterTeardown \in PCs \ {"finalize"} BY DEF AfterTeardown, PCs
<1>3. /\ UNCHANGED <<labels, policies>>
      /\ \E pc \in PCs \ {"finalize"} : Goto(pc)
  <2>1. CASE NoReboot \/ Aggregate \/ PassOver \/ LoopDone \/ AlreadySwitched \/ IncorrectPolicy
    BY <2>1 DEF NoReboot, Aggregate, PassOver, LoopDone, AlreadySwitched, IncorrectPolicy,
                cluster, others, PCs
  <2>2. CASE AllEnabled \/ EnableFails
    BY <1>1, <2>2 DEF AllEnabled, EnableFails, cluster, others, PCs
  <2>3. CASE NothingToDrain
    BY <1>2, <2>3 DEF NothingToDrain, cluster, others
  <2>4. CASE SkipRollback \/ ListUnderPrior \/ UnlistFromPolicy \/ SkipBootStatus
    BY <2>4 DEF SkipRollback, ListUnderPrior, UnlistFromPolicy, SkipBootStatus, cluster, others, PCs
  <2>. QED BY <2>1, <2>2, <2>3, <2>4
<1>. QED BY <1>3, GotoReleases DEF ReleaseInv

(* ... or enter a flow, keeping the labels read now ...                    *)
LEMMA StartingReleases ==
    ASSUME LifecycleInv, ReleaseInv,
           \/ StartAdoption \/ StartEnabling \/ StartReboot \/ StartLoop \/ ListPods
           \/ \E cr \in Policies : LeaveOldPolicy(cr) \/ KeepMoving(cr) \/ ResumeUnfinished(cr)
    PROVE  ReleaseInv'
<1>1. op \in Workers /\ labels \in NodeLabels BY Parts DEF LifecycleInv
<1>2. /\ UNCHANGED <<labels, policies>> /\ op'.pc # "finalize"
      /\ op'.snap \in {labels, op.snap} /\ op'.rsnap = op.rsnap
  <2>1. CASE StartAdoption \/ StartEnabling \/ StartReboot
    BY <1>1, <2>1 DEF StartAdoption, StartEnabling, StartReboot, cluster, others, Workers
  <2>2. CASE StartLoop \/ ListPods
    BY <1>1, <2>2 DEF StartLoop, ListPods, cluster, others, Workers
  <2>3. ASSUME NEW cr \in Policies, LeaveOldPolicy(cr) \/ KeepMoving(cr)
        PROVE  /\ UNCHANGED <<labels, policies>> /\ op'.pc # "finalize"
               /\ op'.snap \in {labels, op.snap} /\ op'.rsnap = op.rsnap
    BY <1>1, <2>3 DEF LeaveOldPolicy, KeepMoving, cluster, others, Workers
  <2>4. ASSUME NEW cr \in Policies, ResumeUnfinished(cr)
        PROVE  /\ UNCHANGED <<labels, policies>> /\ op'.pc # "finalize"
               /\ op'.snap \in {labels, op.snap} /\ op'.rsnap = op.rsnap
    BY <1>1, <2>4 DEF ResumeUnfinished, cluster, others, Workers
  <2>. QED BY <2>1, <2>2, <2>3, <2>4
<1>. QED BY <1>2, ReleaseStep DEF ReleaseInv

(* ... or end the pass.                                                    *)
LEMMA EndingReleases ==
    ASSUME LifecycleInv, ReleaseInv, HoldReboot \/ AfterLabels \/ NoVerdict \/ ClearTimers
    PROVE  ReleaseInv'
<1>1. op \in Workers BY Parts DEF LifecycleInv
<1>2. UNCHANGED <<labels, policies>>
  BY DEF HoldReboot, AfterLabels, NoVerdict, ClearTimers, cluster, others
<1>3. op' = Idle \/ op' = [Idle EXCEPT !.pc = "boot", !.policy = Me] \/ EndPass
  BY DEF HoldReboot, AfterLabels, NoVerdict, ClearTimers
<1>4. op'.pc # "finalize" /\ op'.snap = BareLabels /\ op'.rsnap = BareLabels
  <2>1. CASE EndPass BY <1>1, <2>1, EndPassFields DEF Idle
  <2>2. CASE op' = Idle BY <2>2 DEF Idle
  <2>3. CASE op' = [Idle EXCEPT !.pc = "boot", !.policy = Me] BY <2>3 DEF Idle
  <2>. QED BY <1>3, <2>1, <2>2, <2>3
<1>. QED BY <1>2, <1>4, ReleaseStep DEF ReleaseInv

(* Writes over the labels read in the same step leave the policy and the   *)
(* move alone ...                                                          *)
LEMMA TouchingReleases ==
    ASSUME LifecycleInv, ReleaseInv,
           \/ EnableNext \/ Drain \/ DrainLast \/ DrainPending \/ ReadBootStatus
           \/ RebootScan \/ MarkVerdict \/ transitionToUpgradingState \/ BeginRollback
    PROVE  ReleaseInv'
<1>1. op \in Workers /\ labels \in NodeLabels BY Parts DEF LifecycleInv
<1>2. op.then \in PCs \ {"finalize"} BY Parts DEF LifecycleInv, PCs
<1>3. AfterTeardown \in PCs \ {"finalize"} BY DEF AfterTeardown, PCs
<1>4. SameMove(labels', labels) /\ policies' = policies
  <2>1. CASE EnableNext \/ Drain \/ DrainLast \/ DrainPending \/ ReadBootStatus
    BY <1>1, <2>1 DEF EnableNext, Drain, DrainLast, DrainPending, DrainsSelector,
                      ReadBootStatus, cluster, others, NodeLabels, SameMove
  <2>2. CASE RebootScan
    BY <1>1, <2>2 DEF RebootScan, cleanupLabelsOnReboot, cluster, others, NodeLabels, SameMove
  <2>3. CASE MarkVerdict
    BY <1>1, <2>3 DEF MarkVerdict, Verdict, cluster, others, NodeLabels, SameMove
  <2>4. CASE transitionToUpgradingState \/ BeginRollback
    BY <1>1, <2>4 DEF transitionToUpgradingState, BeginRollback, UpgradeBegun, RollbackBegun,
                      StatusCleaned, cluster, others, NodeLabels, SameMove
  <2>. QED BY <2>1, <2>2, <2>3, <2>4
<1>5. Released(labels')
  <2>1. Released(labels) BY DEF ReleaseInv
  <2>. QED BY <1>4, <2>1 DEF Released, SameMove
<1>6. CASE \/ EnableNext \/ DrainLast \/ ReadBootStatus \/ MarkVerdict
           \/ (DrainPending /\ op' # Idle) \/ (RebootScan /\ op' # Idle)
  <2>1. \E pc \in PCs \ {"finalize"} : Goto(pc)
    BY <1>2, <1>3, <1>6 DEF EnableNext, DrainLast, ReadBootStatus, MarkVerdict, DrainPending,
                            RebootScan, PCs
  <2>. QED BY <1>4, <1>5, <2>1, GotoReleases
<1>7. CASE op' = Idle
  BY <1>4, <1>5, <1>7, ReleaseStep DEF Idle
<1>8. CASE Drain \/ transitionToUpgradingState \/ BeginRollback
  <2>1. /\ op'.pc # "finalize" /\ op'.snap = op.snap
        /\ op'.rsnap \in {op.rsnap, labels'}
    BY <1>1, <1>8 DEF Drain, DrainsSelector, transitionToUpgradingState, BeginRollback, Workers
  <2>. QED BY <1>4, <1>5, <2>1, ReleaseStep
<1>. QED BY <1>6, <1>7, <1>8

(* ... or take the node from every policy.                                 *)
LEMMA WithdrawingReleases ==
    ASSUME LifecycleInv, ReleaseInv, AutoIsolate \/ labelX100Nodes
    PROVE  ReleaseInv'
<1> DEFINE bare == cleanupStaleSelectorLabels(cleanupStaleCRLabels(labels))
<1>1. op \in Workers /\ labels \in NodeLabels /\ Released(labels)
  BY Parts DEF LifecycleInv, ReleaseInv
<1>2. bare \in NodeLabels /\ bare.active = None
  BY <1>1 DEF cleanupStaleSelectorLabels, cleanupStaleCRLabels, NodeLabels, PolicyOrNone
<1>3. policies' = policies BY DEF AutoIsolate, labelX100Nodes, cluster, others
<1>4. labels'.active = None \/ SameMove(labels', labels)
  <2>1. CASE AutoIsolate
    <3>1. labels' = labels \/ labels' = [bare EXCEPT !.isolate = TRUE] BY <2>1 DEF AutoIsolate
    <3>. HIDE DEF bare
    <3>. QED BY <1>2, <3>1 DEF NodeLabels, SameMove
  <2>2. CASE labelX100Nodes
    <3>1. \/ labels' = [bare EXCEPT !.present = "false"]
          \/ \E s \in {"absent", "true", labels.present} : labels' = [labels EXCEPT !.present = s]
      BY <2>2 DEF labelX100Nodes, Withdrawn
    <3>. HIDE DEF bare
    <3>. QED BY <1>1, <1>2, <3>1 DEF NodeLabels, SameMove
  <2>. QED BY <2>1, <2>2
<1>5. Released(labels') BY <1>1, <1>3, <1>4 DEF Released, SameMove
<1>6. op' = Idle \/ \E pc \in PCs \ {"finalize"} : Goto(pc)
  BY DEF AutoIsolate, labelX100Nodes, PCs
<1>7. CASE op' = Idle BY <1>3, <1>5, <1>7, ReleaseStep DEF Idle
<1>. QED BY <1>3, <1>5, <1>6, <1>7, GotoReleases

(* Writes that give the node a policy, which exists.                       *)
LEMMA AssigningReleases ==
    ASSUME LifecycleInv, ReleaseInv, AdoptFirstPolicy \/ updateSwVersionLabels \/ RestorePrior
    PROVE  ReleaseInv'
<1>1. op \in Workers /\ labels \in NodeLabels /\ op.snap \in NodeLabels BY Parts DEF LifecycleInv
<1>2. op.pc # "idle" => Me \in policies BY Parts DEF LifecycleInv, PlaceOK
<1>3. op.pc = "restore" => op.prior \in policies BY Parts DEF LifecycleInv, PlaceOK, RollingBack
<1>4. policies' = policies /\ labels'.active \in policies
  BY <1>1, <1>2, <1>3 DEF AdoptFirstPolicy, Adopted, updateSwVersionLabels, Switched,
                          RestorePrior, Restored, cluster, others, NodeLabels
<1>5. Released(labels') BY <1>4 DEF Released
<1>6. CASE AdoptFirstPolicy \/ updateSwVersionLabels
  <2>1. \E pc \in PCs \ {"finalize"} : Goto(pc)
    BY <1>6 DEF AdoptFirstPolicy, updateSwVersionLabels, PCs
  <2>. QED BY <1>4, <1>5, <2>1, GotoReleases
<1>7. CASE RestorePrior
  <2>1. op'.pc # "finalize" /\ op'.snap = op.snap /\ op'.rsnap = labels'
    BY <1>1, <1>7 DEF RestorePrior, Workers
  <2>. QED BY <1>4, <1>5, <2>1, ReleaseStep
<1>. QED BY <1>6, <1>7

(* Writes of a map read earlier, which was released then and still is: no  *)
(* policy went away while the worker held it.                              *)
LEMMA HeldMapReleases ==
    ASSUME LifecycleInv, ReleaseInv,
           MarkTornDown \/ RolledBack \/ LabelRolledBack \/ BlockAggregation
    PROVE  ReleaseInv'
<1>1. /\ op \in Workers /\ labels \in NodeLabels
      /\ op.snap \in NodeLabels /\ op.rsnap \in NodeLabels
  BY Parts DEF LifecycleInv
<1>2. policies' = policies
  BY DEF MarkTornDown, RolledBack, LabelRolledBack, BlockAggregation, cluster, others
<1>3. CASE MarkTornDown
  <2>1. \E m \in {labels, op.rsnap} : SameMove(labels', m)
    BY <1>1, <1>3 DEF MarkTornDown, NodeLabels, SameMove
  <2>2. Released(labels') BY <1>2, <2>1 DEF ReleaseInv, Released, SameMove
  <2>3. op.flow \in {"rollback", "reboot", "delete"}
    BY <1>3, Parts DEF MarkTornDown, LifecycleInv, PlaceOK, Flows
  <2>4. \E pc \in PCs \ {"finalize"} : Goto(pc)
    BY <1>3, <2>3 DEF MarkTornDown, PCs
  <2>. QED BY <1>2, <2>2, <2>4, GotoReleases
<1>4. CASE RolledBack
  <2>1. \E m \in {labels, op.snap} : SameMove(labels', m)
    BY <1>1, <1>4 DEF RolledBack, StatusCleaned, NodeLabels, SameMove
  <2>2. Released(labels') BY <1>2, <2>1 DEF ReleaseInv, Released, SameMove
  <2>3. /\ op'.pc # "finalize"
        /\ op'.snap \in {BareLabels, op.snap} /\ op'.rsnap \in {BareLabels, op.rsnap}
    <3>1. op' = Idle \/ op' = [op EXCEPT !.pc = "enable", !.then = "loop"]
      BY <1>4 DEF RolledBack
    <3>2. CASE op' = Idle BY <3>2 DEF Idle
    <3>3. CASE op' = [op EXCEPT !.pc = "enable", !.then = "loop"]
      BY <1>1, <3>3 DEF Workers
    <3>. QED BY <3>1, <3>2, <3>3
  <2>. QED BY <1>2, <2>2, <2>3, ReleaseStep
<1>5. CASE LabelRolledBack
  <2>1. \E m \in {labels, op.rsnap} : SameMove(labels', m)
    BY <1>1, <1>5 DEF LabelRolledBack, NodeLabels, SameMove
  <2>2. Released(labels') BY <1>2, <2>1 DEF ReleaseInv, Released, SameMove
  <2>3. op'.pc # "finalize" /\ op'.snap = op.snap /\ op'.rsnap = BareLabels
    BY <1>1, <1>5 DEF LabelRolledBack, Workers
  <2>. QED BY <1>2, <2>2, <2>3, ReleaseStep
<1>6. CASE BlockAggregation
  <2>1. Me # None
    BY <1>6, Parts, NoneIsNotIn DEF BlockAggregation, LifecycleInv, PlaceOK
  <2>2. labels'.blocked = Me BY <1>1, <1>6 DEF BlockAggregation, NodeLabels
  <2>3. Released(labels') BY <2>1, <2>2 DEF Released
  <2>4. op'.pc # "finalize" /\ op'.snap = labels' /\ op'.rsnap = op.rsnap
    BY <1>1, <1>6 DEF BlockAggregation, Workers
  <2>. QED BY <1>2, <2>3, <2>4, ReleaseStep
<1>. QED BY <1>3, <1>4, <1>5, <1>6

-----------------------------------------------------------------------------
(* The deletion of a policy: it looks at the node, cleans it, and goes.    *)
LEMMA ReconcileReleases ==
    ASSUME LifecycleInv, ReleaseInv, NEW p \in Policies, Reconcile(p) \/ ReconcileDeletion(p)
    PROVE  ReleaseInv'
<1>1. UNCHANGED <<labels, policies>> BY DEF Reconcile, ReconcileDeletion, cluster, others
<1>2. CASE Reconcile(p)
  <2>1. op'.pc # "finalize" /\ op'.snap = BareLabels /\ op'.rsnap = BareLabels
    BY <1>2 DEF Reconcile, Idle
  <2>. QED BY <1>1, <2>1, ReleaseStep DEF ReleaseInv
<1>3. CASE ReconcileDeletion(p)
  <2>1. /\ op'.policy = p /\ op'.snap = labels /\ op'.rsnap = BareLabels
        /\ op'.pc = "finalize" => ~isX100RunningWithPolicy(labels, p)
    BY <1>3 DEF ReconcileDeletion, Idle
  <2>. QED BY <1>1, <2>1, BareReleased DEF ReleaseInv, Released, FinalizeOK
<1>. QED BY <1>2, <1>3

LEMMA CleanOnDeletionReleases ==
    ASSUME LifecycleInv, ReleaseInv, CleanOnDeletion
    PROVE  ReleaseInv'
<1> DEFINE bare == cleanupStaleSelectorLabels(cleanupStaleCRLabels(op.snap))
<1>1. op.snap \in NodeLabels /\ Me \in Policies
  BY Parts DEF LifecycleInv, CleanOnDeletion, PlaceOK
<1>2. bare \in NodeLabels /\ bare.active = None /\ bare.blocked = None
  BY <1>1 DEF cleanupStaleSelectorLabels, cleanupStaleCRLabels, NodeLabels, PolicyOrNone
<1>3. labels'.active = None /\ labels'.blocked = None
  <2>1. \E s \in {"true", "false"} :
           labels' = [bare EXCEPT !.present = s, !.flags = {"ownerPolicyDeleted"}]
    BY DEF CleanOnDeletion
  <2>. HIDE DEF bare
  <2>. QED BY <1>2, <2>1 DEF NodeLabels
<1>4. /\ op'.snap = BareLabels /\ op'.rsnap = BareLabels
      /\ op'.pc = "finalize" => op'.policy = Me
  <2>1. op' = Idle \/ op' = [Idle EXCEPT !.pc = "finalize", !.policy = Me] BY DEF CleanOnDeletion
  <2>2. CASE op' = [Idle EXCEPT !.pc = "finalize", !.policy = Me] BY <2>2 DEF Idle
  <2>. QED BY <2>1, <2>2, RestFields
<1>5. op'.pc = "finalize" => ~isX100RunningWithPolicy(labels', op'.policy)
  BY <1>1, <1>3, <1>4, NoneIsNotIn DEF isX100RunningWithPolicy
<1>. QED BY <1>3, <1>4, <1>5 DEF ReleaseInv, Released, FinalizeOK, BareLabels

(* The policy goes while the worker holds no map.                          *)
LEMMA FinalizePolicyReleases ==
    ASSUME LifecycleInv, ReleaseInv, FinalizePolicy
    PROVE  ReleaseInv'
<1>1. labels \in NodeLabels BY Parts DEF LifecycleInv
<1>2. SameMove(labels', labels) BY <1>1 DEF FinalizePolicy, NodeLabels, SameMove
<1>3. labels.active \in (policies \ {Me}) \cup {None} \/ labels.blocked # None
  BY DEF FinalizePolicy, ReleaseInv, Released, FinalizeOK, isX100RunningWithPolicy, Me
<1>4. Released(labels)' BY <1>2, <1>3 DEF FinalizePolicy, Released, SameMove
<1>5. op' = Idle BY DEF FinalizePolicy
<1>. QED BY <1>4, <1>5 DEF ReleaseInv, Released, FinalizeOK, Idle, BareLabels

(* A failed call leaves the worker with no other map than it had, and not  *)
(* at the place where a policy is removed.                                 *)
LEMMA CallFailsReleases ==
    ASSUME LifecycleInv, ReleaseInv, CallFails
    PROVE  ReleaseInv'
<1>1. TypeInv /\ op \in Workers BY Parts DEF LifecycleInv
<1>2. /\ op'.pc # "finalize"
      /\ op'.snap \in {BareLabels, op.snap} /\ op'.rsnap \in {BareLabels, op.rsnap}
  <2>1. ASSUME NEW pc \in LoggedAt, op' = [op EXCEPT !.pc = pc]
        PROVE  op'.pc # "finalize" /\ op'.snap = op.snap /\ op'.rsnap = op.rsnap
    BY <1>1, <2>1 DEF Workers, LoggedAt
  <2>2. CASE op' = Idle \/ op' = AtStatus BY <2>2, RestFields
  <2>3. CASE op' = [op EXCEPT !.pc = "loop", !.rsnap = BareLabels, !.prior = None]
    BY <1>1, <2>3 DEF Workers
  <2>. QED BY <1>1, <2>1, <2>2, <2>3, CallFailsFields
<1>. QED BY <1>1, <1>2, CallFailsFields, ReleaseStep DEF ReleaseInv

(* Nobody else removes a policy or writes the labels of one.               *)
LEMMA OutsideReleases ==
    ASSUME LifecycleInv, ReleaseInv, Outside
    PROVE  ReleaseInv'
<1>1. labels \in NodeLabels BY Parts DEF LifecycleInv
<1>2. policies' = policies /\ SameMove(labels', labels)
  BY <1>1, OutsideParts DEF NodeLabels, SameMove
<1>3. CASE op' = op
  BY <1>2, <1>3 DEF ReleaseInv, Released, FinalizeOK, isX100RunningWithPolicy, SameMove
<1>4. CASE OperatorCrashes
  BY <1>2, <1>4 DEF OperatorCrashes, ReleaseInv, Released, FinalizeOK, SameMove, Idle, BareLabels
<1>5. CASE CallFails BY <1>5, CallFailsReleases
<1>. QED BY <1>3, <1>4, <1>5, OutsideParts

LEMMA InitReleases == Init => ReleaseInv
BY DEF Init, Idle, BareLabels, ReleaseInv, Released, FinalizeOK

LEMMA NextReleases == LifecycleInv /\ ReleaseInv /\ [Next]_vars => ReleaseInv'
<1>. SUFFICES ASSUME LifecycleInv, ReleaseInv, [Next]_vars PROVE ReleaseInv'
  OBVIOUS
<1>1. CASE OperatorStep
  BY <1>1, MovingOnReleases, StartingReleases, EndingReleases, TouchingReleases,
     WithdrawingReleases, AssigningReleases, HeldMapReleases, CleanOnDeletionReleases,
     FinalizePolicyReleases
  DEF OperatorStep
<1>2. CASE \E p \in Policies : Reconcile(p) \/ ReconcileDeletion(p)
  BY <1>2, ReconcileReleases
<1>3. CASE Outside BY <1>3, OutsideReleases
<1>4. CASE UNCHANGED vars
  BY <1>4 DEF vars, ReleaseInv, Released, FinalizeOK, isX100RunningWithPolicy
<1>. QED BY <1>1, <1>2, <1>3, <1>4 DEF Next

(* A node whose policy is gone is on its way to another one: the finalizer *)
(* removes a policy only after it has let go of the node, and no map that  *)
(* the worker kept brings the policy back.                                 *)
THEOREM DeletedPolicyReleases == Spec => []DeletedPolicyReleasesNode
<1>1. ReleaseInv => DeletedPolicyReleasesNode
  BY DEF ReleaseInv, Released, DeletedPolicyReleasesNode
<1>. QED BY LabelsConsistent, InitReleases, NextReleases, <1>1, PTL DEF Spec
=============================================================================
