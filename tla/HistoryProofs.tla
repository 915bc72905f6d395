--------------------------- MODULE HistoryProofs ---------------------------
(***************************************************************************)
(* What holds of a node's labels over time as long as certain faults do    *)
(* not occur.  Every write of the worker starts from a map read in some    *)
(* earlier step, so the first lemmas say once and for all where the maps   *)
(* it holds come from; then what is shown of the labels carries over.      *)
(***************************************************************************)
EXTENDS LifecycleProofs

(* The maps the worker holds were on the node, or are bare.                *)
HeldMapsRead ==
    /\ op'.snap \in {BareLabels, labels, op.snap, labels'}
    /\ op'.rsnap \in {BareLabels, op.rsnap, labels'}

LEMMA GotoHolds ==
    ASSUME TypeInv, NEW pc \in PCs, Goto(pc)
    PROVE  HeldMapsRead
<1>1. op \in Workers BY Parts
<1>. QED BY <1>1, GotoFields DEF HeldMapsRead

(* What the reboot scan writes, if its call does not fail.                 *)
LEMMA RebootWrites ==
    ASSUME labels \in NodeLabels, RebootScan
    PROVE  \/ labels' = labels
           \/ /\ labels'.active = labels.active /\ labels'.prior = labels.prior
              /\ labels'.blocked = labels.blocked
              /\ \/ labels'.flags = {"rebooted"}
                 \/ /\ "rebooted" \in labels.flags /\ labels'.boot = labels.boot
                    /\ labels'.flags = labels.flags \ {"teardownCompleted"}
<1> DEFINE l == cleanupLabelsOnReboot(labels)
<1>1. /\ l \in NodeLabels /\ l.active = labels.active /\ l.prior = labels.prior
      /\ l.blocked = labels.blocked /\ l.flags = labels.flags \cap {"rebooted"}
  BY CleanTypes DEF cleanupLabelsOnReboot, NodeLabels
<1>2. \/ labels' = labels
      \/ Has("rebooted") /\ labels' = [labels EXCEPT !.flags = @ \ {"teardownCompleted"}]
      \/ labels' = [l EXCEPT !.flags = @ \cup {"rebooted"}]
  BY DEF RebootScan
<1>. HIDE DEF l
<1>3. CASE Has("rebooted") /\ labels' = [labels EXCEPT !.flags = @ \ {"teardownCompleted"}]
  BY <1>3 DEF NodeLabels, Has
<1>4. CASE labels' = [l EXCEPT !.flags = @ \cup {"rebooted"}]
  <2>1. labels'.flags = {"rebooted"} BY <1>1, <1>4 DEF NodeLabels
  <2>. QED BY <1>1, <1>4, <2>1 DEF NodeLabels
<1>. QED BY <1>2, <1>3, <1>4

LEMMA MovingOnHolds ==
    ASSUME TypeInv,
           \/ NoReboot \/ AutoIsolate \/ labelX100Nodes \/ Aggregate \/ PassOver
           \/ EnableNext \/ AllEnabled \/ EnableFails \/ AdoptFirstPolicy
           \/ NothingToDrain \/ DrainLast \/ MarkTornDown \/ LoopDone
           \/ updateSwVersionLabels \/ AlreadySwitched \/ IncorrectPolicy
           \/ SkipRollback \/ ListUnderPrior \/ UnlistFromPolicy
           \/ ReadBootStatus \/ SkipBootStatus \/ MarkVerdict
    PROVE  HeldMapsRead
<1>1. op.then \in PCs BY Parts DEF PCs
<1>2. AfterTeardown \in PCs BY DEF AfterTeardown, PCs
<1>3. op' = Idle \/ \E pc \in PCs : Goto(pc)
  <2>1. CASE \/ NoReboot \/ AutoIsolate \/ labelX100Nodes \/ Aggregate \/ PassOver
             \/ LoopDone \/ updateSwVersionLabels \/ AlreadySwitched \/ IncorrectPolicy
    BY <2>1 DEF NoReboot, AutoIsolate, labelX100Nodes, Aggregate, PassOver, LoopDone,
                updateSwVersionLabels, AlreadySwitched, IncorrectPolicy, PCs
  <2>2. CASE EnableNext \/ AllEnabled \/ EnableFails \/ AdoptFirstPolicy
    BY <1>1, <2>2 DEF EnableNext, AllEnabled, EnableFails, AdoptFirstPolicy, PCs
  <2>3. CASE NothingToDrain \/ DrainLast
    BY <1>2, <2>3 DEF NothingToDrain, DrainLast
  <2>4. CASE MarkTornDown
    <3>1. op.flow \in {"rollback", "reboot", "delete"}
      BY <2>4, Parts DEF MarkTornDown, PlaceOK, Flows
    <3>. QED BY <2>4, <3>1 DEF MarkTornDown, PCs
  <2>5. CASE \/ SkipRollback \/ ListUnderPrior \/ UnlistFromPolicy
             \/ ReadBootStatus \/ SkipBootStatus \/ MarkVerdict
    BY <2>5 DEF SkipRollback, ListUnderPrior, UnlistFromPolicy, ReadBootStatus,
                SkipBootStatus, MarkVerdict, PCs
  <2>. QED BY <2>1, <2>2, <2>3, <2>4, <2>5
<1>4. op' = Idle => HeldMapsRead BY RestFields DEF HeldMapsRead
<1>. QED BY <1>3, <1>4, GotoHolds

LEMMA RestartingHolds ==
    ASSUME TypeInv,
           \/ HoldReboot \/ AfterLabels \/ NoVerdict \/ ClearTimers
           \/ CleanOnDeletion \/ FinalizePolicy \/ OperatorCrashes
           \/ RebootScan \/ DrainPending \/ RolledBack
    PROVE  HeldMapsRead
<1>1. op \in Workers BY Parts
<1>2. \/ op' = Idle \/ EndPass \/ \E pc \in PCs : Goto(pc)
      \/ \E pc \in PCs : op' = [Idle EXCEPT !.pc = pc, !.policy = Me]
      \/ op' = [op EXCEPT !.pc = "enable", !.then = "loop"]
  BY DEF HoldReboot, AfterLabels, NoVerdict, ClearTimers, CleanOnDeletion, FinalizePolicy,
         OperatorCrashes, RebootScan, DrainPending, RolledBack, PCs
<1>3. CASE op' = Idle BY <1>3 DEF Idle, HeldMapsRead
<1>4. CASE EndPass BY <1>1, <1>4, EndPassFields DEF HeldMapsRead
<1>5. CASE \E pc \in PCs : Goto(pc) BY <1>5, GotoHolds
<1>6. CASE \E pc \in PCs : op' = [Idle EXCEPT !.pc = pc, !.policy = Me]
  BY <1>6 DEF Idle, HeldMapsRead
<1>7. CASE op' = [op EXCEPT !.pc = "enable", !.then = "loop"]
  BY <1>1, <1>7 DEF Workers, HeldMapsRead
<1>. QED BY <1>2, <1>3, <1>4, <1>5, <1>6, <1>7

LEMMA CallFailsHolds ==
    ASSUME TypeInv, CallFails
    PROVE  HeldMapsRead
<1>1. op \in Workers BY Parts
<1>2. ASSUME NEW pc \in LoggedAt, op' = [op EXCEPT !.pc = pc] PROVE HeldMapsRead
  BY <1>1, <1>2 DEF Workers, HeldMapsRead
<1>3. CASE op' = [op EXCEPT !.pc = "loop", !.rsnap = BareLabels, !.prior = None]
  BY <1>1, <1>3 DEF Workers, HeldMapsRead
<1>4. CASE op' = Idle \/ op' = AtStatus BY <1>4, RestFields DEF HeldMapsRead
<1>. QED BY <1>2, <1>3, <1>4, CallFailsFields

LEMMA WithinPassHolds ==
    ASSUME TypeInv,
           \/ StartAdoption \/ StartEnabling \/ StartReboot \/ StartLoop
           \/ ListPods \/ Drain
           \/ (\E cr \in Policies : LeaveOldPolicy(cr) \/ KeepMoving(cr) \/ ResumeUnfinished(cr))
           \/ BlockAggregation \/ transitionToUpgradingState
           \/ BeginRollback \/ RestorePrior \/ LabelRolledBack
    PROVE  HeldMapsRead
<1>1. op \in Workers BY Parts
<1>2. CASE StartAdoption \/ StartEnabling \/ StartReboot \/ StartLoop \/ ListPods \/ Drain
  BY <1>1, <1>2 DEF StartAdoption, StartEnabling, StartReboot, StartLoop, ListPods, Drain,
                    Workers, HeldMapsRead
<1>3. CASE \E cr \in Policies : LeaveOldPolicy(cr) \/ KeepMoving(cr) \/ ResumeUnfinished(cr)
  BY <1>1, <1>3 DEF LeaveOldPolicy, KeepMoving, ResumeUnfinished, Workers, HeldMapsRead
<1>4. CASE BlockAggregation \/ transitionToUpgradingState
  BY <1>1, <1>4 DEF BlockAggregation, transitionToUpgradingState, Workers, HeldMapsRead
<1>5. CASE BeginRollback \/ RestorePrior \/ LabelRolledBack
  BY <1>1, <1>5 DEF BeginRollback, RestorePrior, LabelRolledBack, Workers, HeldMapsRead
<1>. QED BY <1>2, <1>3, <1>4, <1>5

LEMMA HeldMaps ==
    ASSUME TypeInv, [Next]_vars
    PROVE  HeldMapsRead
<1>1. CASE OperatorStep
  BY <1>1, MovingOnHolds, RestartingHolds, WithinPassHolds DEF OperatorStep
<1>2. CASE \E p \in Policies : Reconcile(p) \/ ReconcileDeletion(p)
  BY <1>2 DEF Reconcile, ReconcileDeletion, Idle, HeldMapsRead
<1>3. CASE Outside
  <2>1. CASE op' = op BY <2>1 DEF HeldMapsRead
  <2>. QED BY <1>3, <2>1, OutsideParts, RestartingHolds, CallFailsHolds
<1>4. CASE UNCHANGED vars BY <1>4 DEF vars, HeldMapsRead
<1>. QED BY <1>1, <1>2, <1>3, <1>4 DEF Next

(* A fault that does not occur any more never does: no step gives it back. *)
LEMMA FaultsStayOut ==
    ASSUME TypeInv, [Next]_vars, NEW f \in Faults, budget[f] = 0
    PROVE  budget'[f] = 0
<1>1. budget' = budget \/ \E g \in Faults : Spend(g)
  <2>1. CASE OperatorStep
    BY <2>1 DEF OperatorStep, NoReboot, HoldReboot, RebootScan, AutoIsolate, labelX100Nodes,
       Aggregate, PassOver, StartAdoption, StartEnabling, StartReboot, StartLoop, EnableNext,
       AllEnabled, EnableFails, AdoptFirstPolicy, ListPods, NothingToDrain, Drain, DrainLast,
       DrainPending, DrainsSelector, MarkTornDown, LoopDone, LeaveOldPolicy, KeepMoving,
       ResumeUnfinished, BlockAggregation, transitionToUpgradingState, updateSwVersionLabels,
       AlreadySwitched, IncorrectPolicy, RolledBack, SkipRollback, BeginRollback,
       ListUnderPrior, UnlistFromPolicy, RestorePrior, LabelRolledBack, AfterLabels,
       ReadBootStatus, SkipBootStatus, MarkVerdict, NoVerdict, ClearTimers, CleanOnDeletion,
       FinalizePolicy, SetTimers, cluster, others, Faults
  <2>2. CASE \E p \in Policies : Reconcile(p) \/ ReconcileDeletion(p)
    BY <2>2 DEF Reconcile, ReconcileDeletion, cluster, others
  <2>3. CASE Outside
    BY <2>3 DEF Outside, UserAssigns, UserDeletes, UserTogglesIsolate, PciLabelFlaps,
       NodeReboots, NodeComesUp, PodStep, PodCreated, PodUp, PodGone, PodFails,
       TimerExpires, OperatorCrashes, CallFails, Faults
  <2>4. CASE UNCHANGED vars BY <2>4 DEF vars
  <2>. QED BY <2>1, <2>2, <2>3, <2>4 DEF Next
<1>2. CASE budget' = budget BY <1>2
<1>3. ASSUME NEW g \in Faults, Spend(g) PROVE budget'[f] = 0
  <2>1. budget \in [Faults -> Nat] BY Parts
  <2>2. g # f BY <1>3 DEF Spend
  <2>. QED BY <1>3, <2>1, <2>2 DEF Spend
<1>. QED BY <1>1, <1>2, <1>3

-----------------------------------------------------------------------------
(* Selectors, as long as the node does not reboot: a drain removes the     *)
(* last one there is, enabling adds the next one, and the maps written     *)
(* over them have selectors of an earlier moment, in order as well.        *)
OrderOK(l) == \A c \in l.sel : Earlier(c) \subseteq l.sel

NeverDown == nodeReady /\ budget["reboot"] = 0

OrderInv == NeverDown /\ OrderOK(labels) /\ OrderOK(op.snap) /\ OrderOK(op.rsnap)

LEMMA BareOrder == OrderOK(BareLabels)
BY DEF OrderOK, BareLabels

LEMMA NextSelectorOrder ==
    ASSUME NEW l \in NodeLabels, OrderOK(l), NEW c \in Comps, IsNextSelector(c, l)
    PROVE  \A d \in l.sel \cup {c} : Earlier(d) \subseteq l.sel \cup {c}
BY DEF OrderOK, IsNextSelector

(* A selector goes after all those of later components.                    *)
LEMMA LastSelectorOrder ==
    ASSUME NEW l \in NodeLabels, OrderOK(l), NEW c \in Comps,
           \A d \in l.sel : Position[d] <= Position[c]
    PROVE  \A d \in l.sel \ {c} : Earlier(d) \subseteq l.sel \ {c}
<1>1. \A d \in Comps : Position[d] \in Nat BY DEF Comps, Position
<1>2. ASSUME NEW d \in l.sel PROVE c \notin Earlier(d)
  <2>1. d \in Comps BY <1>2 DEF NodeLabels
  <2>. QED BY <1>1, <2>1 DEF Earlier
<1>. QED BY <1>2 DEF OrderOK

(* The steps that write selectors; all others leave them alone.            *)
LEMMA SelectorWrites ==
    ASSUME LifecycleInv, NeverDown, [Next]_vars
    PROVE  \/ labels'.sel \in {labels.sel, op.snap.sel, op.rsnap.sel, {}}
           \/ \E c \in Comps : IsNextSelector(c, labels) /\ labels'.sel = labels.sel \cup {c}
           \/ op.pc = "drain" /\ labels'.sel = labels.sel \ {op.at}
<1>1. op \in Workers /\ labels \in NodeLabels /\ op.snap \in NodeLabels /\ op.rsnap \in NodeLabels
  BY Parts DEF LifecycleInv
<1>2. ~RebootScan BY DEF RebootScan, Rebooting, NeverDown
<1>3. CASE \/ NoReboot \/ HoldReboot \/ Aggregate \/ PassOver
           \/ StartAdoption \/ StartEnabling \/ StartReboot \/ StartLoop
           \/ AllEnabled \/ EnableFails \/ ListPods \/ NothingToDrain \/ LoopDone
           \/ (\E cr \in Policies : LeaveOldPolicy(cr) \/ KeepMoving(cr) \/ ResumeUnfinished(cr))
           \/ AlreadySwitched \/ IncorrectPolicy \/ SkipRollback \/ ListUnderPrior
           \/ UnlistFromPolicy \/ AfterLabels \/ SkipBootStatus \/ NoVerdict \/ ClearTimers
  BY <1>3 DEF NoReboot, HoldReboot, Aggregate, PassOver, StartAdoption, StartEnabling,
       StartReboot, StartLoop, AllEnabled, EnableFails, ListPods, NothingToDrain, LoopDone,
       LeaveOldPolicy, KeepMoving, ResumeUnfinished, AlreadySwitched, IncorrectPolicy,
       SkipRollback, ListUnderPrior, UnlistFromPolicy, AfterLabels, SkipBootStatus,
       NoVerdict, ClearTimers
<1>4. CASE EnableNext \/ Drain \/ DrainLast \/ DrainPending
  BY <1>1, <1>4 DEF EnableNext, Drain, DrainLast, DrainPending, DrainsSelector, NodeLabels
<1>5. CASE AutoIsolate \/ labelX100Nodes \/ CleanOnDeletion
  BY <1>1, <1>5 DEF AutoIsolate, labelX100Nodes, Withdrawn, CleanOnDeletion,
       cleanupStaleSelectorLabels, cleanupStaleCRLabels, NodeLabels
<1>6. CASE \/ AdoptFirstPolicy \/ MarkTornDown \/ BlockAggregation \/ RolledBack
           \/ LabelRolledBack
  BY <1>1, <1>6 DEF AdoptFirstPolicy, Adopted, MarkTornDown, BlockAggregation, RolledBack,
       StatusCleaned, LabelRolledBack, NodeLabels
<1>7. CASE transitionToUpgradingState \/ updateSwVersionLabels \/ BeginRollback \/ RestorePrior
  BY <1>1, <1>7 DEF transitionToUpgradingState, UpgradeBegun, updateSwVersionLabels, Switched,
       BeginRollback, RollbackBegun, StatusCleaned, RestorePrior, Restored, NodeLabels
<1>8. CASE ReadBootStatus \/ MarkVerdict \/ FinalizePolicy
  BY <1>1, <1>8 DEF ReadBootStatus, MarkVerdict, Verdict, FinalizePolicy, NodeLabels
<1>9. CASE \E p \in Policies : Reconcile(p) \/ ReconcileDeletion(p)
  BY <1>9 DEF Reconcile, ReconcileDeletion
<1>10. CASE Outside
  <2>1. labels' \in {labels, [labels EXCEPT !.isolate = ~@], [labels EXCEPT !.pci = ~@]}
    BY <1>10 DEF Outside, UserAssigns, UserDeletes, UserTogglesIsolate, PciLabelFlaps,
         NodeReboots, NodeComesUp, PodStep, PodCreated, PodUp, PodGone, PodFails, PodBecomes,
         TimerExpires, OperatorCrashes, CallFails
  <2>. QED BY <1>1, <2>1 DEF NodeLabels
<1>11. CASE UNCHANGED vars BY <1>11 DEF vars
<1>. QED BY <1>2, <1>3, <1>4, <1>5, <1>6, <1>7, <1>8, <1>9, <1>10, <1>11 DEF Next, OperatorStep

LEMMA NeverDownStays ==
    ASSUME TypeInv, NeverDown, [Next]_vars
    PROVE  NeverDown'
<1>1. budget'["reboot"] = 0 BY FaultsStayOut DEF NeverDown, Faults
<1>2. nodeReady'
  <2>1. ~NodeReboots BY DEF NodeReboots, Spend, NeverDown
  <2>2. CASE OperatorStep
    BY <2>2 DEF NeverDown, OperatorStep, NoReboot, HoldReboot, RebootScan, AutoIsolate, labelX100Nodes,
       Aggregate, PassOver, StartAdoption, StartEnabling, StartReboot, StartLoop, EnableNext,
       AllEnabled, EnableFails, AdoptFirstPolicy, ListPods, NothingToDrain, Drain, DrainLast,
       DrainPending, DrainsSelector, MarkTornDown, LoopDone, LeaveOldPolicy, KeepMoving,
       ResumeUnfinished, BlockAggregation, transitionToUpgradingState, updateSwVersionLabels,
       AlreadySwitched, IncorrectPolicy, RolledBack, SkipRollback, BeginRollback,
       ListUnderPrior, UnlistFromPolicy, RestorePrior, LabelRolledBack, AfterLabels,
       ReadBootStatus, SkipBootStatus, MarkVerdict, NoVerdict, ClearTimers, CleanOnDeletion,
       FinalizePolicy, cluster, others
  <2>3. CASE \E p \in Policies : Reconcile(p) \/ ReconcileDeletion(p)
    BY <2>3 DEF NeverDown, Reconcile, ReconcileDeletion, cluster, others
  <2>4. CASE Outside
    BY <2>1, <2>4 DEF NeverDown, Outside, UserAssigns, UserDeletes, UserTogglesIsolate, PciLabelFlaps,
       NodeComesUp, PodStep, PodCreated, PodUp, PodGone, PodFails, PodBecomes,
       TimerExpires, OperatorCrashes, CallFails
  <2>5. CASE UNCHANGED vars BY <2>5 DEF vars, NeverDown
  <2>. QED BY <2>2, <2>3, <2>4, <2>5 DEF Next
<1>. QED BY <1>1, <1>2 DEF NeverDown

LEMMA NextOrder ==
    ASSUME LifecycleInv, OrderInv, [Next]_vars
    PROVE  OrderInv'
<1>1. TypeInv /\ labels \in NodeLabels /\ op.at \in Comps BY Parts DEF LifecycleInv
<1>2. NeverDown' BY <1>1, NeverDownStays DEF OrderInv
<1>3. OrderOK(labels')
  <2>1. CASE labels'.sel \in {labels.sel, op.snap.sel, op.rsnap.sel, {}}
    BY <2>1 DEF OrderInv, OrderOK
  <2>2. ASSUME NEW c \in Comps, IsNextSelector(c, labels), labels'.sel = labels.sel \cup {c}
        PROVE  OrderOK(labels')
    BY <1>1, <2>2, NextSelectorOrder DEF OrderInv, OrderOK
  <2>3. CASE op.pc = "drain" /\ labels'.sel = labels.sel \ {op.at}
    <3>1. \A d \in labels.sel : Position[d] <= Position[op.at]
      BY <2>3 DEF LifecycleInv, WorkerOK
    <3>2. OrderOK(labels) BY DEF OrderInv
    <3>3. \A d \in labels.sel \ {op.at} : Earlier(d) \subseteq labels.sel \ {op.at}
      BY <1>1, <3>1, <3>2, LastSelectorOrder
    <3>. QED BY <2>3, <3>3 DEF OrderOK
  <2>. QED BY <2>1, <2>2, <2>3, SelectorWrites DEF OrderInv
<1>4. HeldMapsRead BY <1>1, HeldMaps
<1>5. OrderOK(op'.snap) /\ OrderOK(op'.rsnap)
  BY <1>3, <1>4, BareOrder DEF OrderInv, HeldMapsRead
<1>. QED BY <1>2, <1>3, <1>5 DEF OrderInv

(* On a node that does not reboot no component is ever selected without    *)
(* those before it, whatever crashes, moves, deletions and isolations do   *)
(* and however old the label map is that is written back.                  *)
THEOREM SelectorsStayInOrder == Spec /\ budget["reboot"] = 0 => []SelectorsInOrder
<1>1. Init /\ budget["reboot"] = 0 => OrderInv
  BY BareOrder DEF Init, Idle, OrderInv, NeverDown
<1>2. LifecycleInv /\ OrderInv /\ [Next]_vars => OrderInv' BY NextOrder
<1>3. OrderInv => SelectorsInOrder BY DEF OrderInv, OrderOK, SelectorsInOrder
<1>. QED BY LabelsConsistent, <1>1, <1>2, <1>3, PTL DEF Spec

-----------------------------------------------------------------------------
(* The timers, unless the step that is to remove them leaves without: the  *)
(* verdict and the removal of the timers are two writes, with nothing      *)
(* between them but outside events, and a processing timer starts only on  *)
(* a node without a verdict, at a place where the worker holds no older    *)
(* map.                                                                    *)

(* The timers outlive the step after the verdict: the write that removes   *)
(* them fails, which is only logged, or the operator crashes before it.    *)
TimersLeft == op.pc = "clearTimers" /\ op'.pc # "clearTimers" /\ timers' # NoTimers

Untimed(l) == "bootStatusMarked" \in l.flags => timers.proc = "none"

(* Where the worker has read no label map yet.                             *)
Early == {"scan", "isolate", "label"}

UntimedInv ==
    /\ op.pc # "clearTimers" => Untimed(labels)
    /\ Untimed(op.snap) /\ Untimed(op.rsnap)
    /\ op.pc \in Early => op.snap = BareLabels /\ op.rsnap = BareLabels

LEMMA BareUntimed == "bootStatusMarked" \notin BareLabels.flags
BY DEF BareLabels

(* The mark comes from the verdict, or from a map that had it.             *)
LEMMA MarkWrites ==
    ASSUME LifecycleInv, [Next]_vars, "bootStatusMarked" \in labels'.flags
    PROVE  \/ "bootStatusMarked" \in labels.flags
           \/ MarkVerdict
           \/ "bootStatusMarked" \in op.snap.flags
           \/ "bootStatusMarked" \in op.rsnap.flags
<1>1. op \in Workers /\ labels \in NodeLabels /\ op.snap \in NodeLabels /\ op.rsnap \in NodeLabels
  BY Parts DEF LifecycleInv
<1>2. CASE \/ NoReboot \/ HoldReboot \/ Aggregate \/ PassOver
           \/ StartAdoption \/ StartEnabling \/ StartReboot \/ StartLoop
           \/ AllEnabled \/ EnableFails \/ ListPods \/ NothingToDrain \/ LoopDone
           \/ (\E cr \in Policies : LeaveOldPolicy(cr) \/ KeepMoving(cr) \/ ResumeUnfinished(cr))
           \/ AlreadySwitched \/ IncorrectPolicy \/ SkipRollback \/ ListUnderPrior
           \/ UnlistFromPolicy \/ AfterLabels \/ SkipBootStatus \/ NoVerdict \/ ClearTimers
  BY <1>2 DEF NoReboot, HoldReboot, Aggregate, PassOver, StartAdoption, StartEnabling,
       StartReboot, StartLoop, AllEnabled, EnableFails, ListPods, NothingToDrain, LoopDone,
       LeaveOldPolicy, KeepMoving, ResumeUnfinished, AlreadySwitched, IncorrectPolicy,
       SkipRollback, ListUnderPrior, UnlistFromPolicy, AfterLabels, SkipBootStatus,
       NoVerdict, ClearTimers
<1>3. CASE EnableNext \/ Drain \/ DrainLast \/ DrainPending \/ ReadBootStatus
  BY <1>1, <1>3 DEF EnableNext, Drain, DrainLast, DrainPending, DrainsSelector,
                    ReadBootStatus, NodeLabels
<1>4. CASE AutoIsolate \/ labelX100Nodes \/ CleanOnDeletion \/ RebootScan
  <2>1. CASE AutoIsolate \/ labelX100Nodes
    BY <1>1, <2>1 DEF AutoIsolate, labelX100Nodes, Withdrawn, cleanupStaleSelectorLabels,
                      cleanupStaleCRLabels, NodeLabels
  <2>2. CASE CleanOnDeletion
    BY <1>1, <2>2 DEF CleanOnDeletion, cleanupStaleSelectorLabels, cleanupStaleCRLabels, NodeLabels
  <2>3. CASE RebootScan
    BY <1>1, <2>3, RebootWrites
  <2>. QED BY <1>4, <2>1, <2>2, <2>3
<1>5. CASE \/ AdoptFirstPolicy \/ MarkTornDown \/ BlockAggregation \/ RolledBack
           \/ LabelRolledBack
  <2>1. CASE AdoptFirstPolicy BY <1>1, <2>1 DEF AdoptFirstPolicy, Adopted, NodeLabels
  <2>2. CASE MarkTornDown BY <1>1, <2>2 DEF MarkTornDown, NodeLabels
  <2>3. CASE BlockAggregation BY <1>1, <2>3 DEF BlockAggregation, NodeLabels
  <2>4. CASE RolledBack
    BY <1>1, <2>4, StatusCleanedMap DEF RolledBack, LifecycleInv
  <2>5. CASE LabelRolledBack BY <1>1, <2>5 DEF LabelRolledBack, NodeLabels
  <2>. QED BY <1>5, <2>1, <2>2, <2>3, <2>4, <2>5
<1>6. CASE transitionToUpgradingState \/ updateSwVersionLabels \/ BeginRollback \/ RestorePrior
  <2>1. CASE transitionToUpgradingState
    BY <1>1, <2>1 DEF transitionToUpgradingState, UpgradeBegun, StatusCleaned, NodeLabels
  <2>2. CASE updateSwVersionLabels BY <1>1, <2>2 DEF updateSwVersionLabels, Switched, NodeLabels
  <2>3. CASE BeginRollback
    BY <1>1, <2>3 DEF BeginRollback, RollbackBegun, StatusCleaned, NodeLabels
  <2>4. CASE RestorePrior BY <1>1, <2>4 DEF RestorePrior, Restored, NodeLabels
  <2>. QED BY <1>6, <2>1, <2>2, <2>3, <2>4
<1>7. CASE MarkVerdict BY <1>7
<1>8. CASE FinalizePolicy BY <1>1, <1>8 DEF FinalizePolicy, NodeLabels
<1>9. CASE \E p \in Policies : Reconcile(p) \/ ReconcileDeletion(p)
  BY <1>9 DEF Reconcile, ReconcileDeletion
<1>10. CASE Outside
  <2>1. labels' \in {labels, [labels EXCEPT !.isolate = ~@], [labels EXCEPT !.pci = ~@]}
    BY <1>10 DEF Outside, UserAssigns, UserDeletes, UserTogglesIsolate, PciLabelFlaps,
         NodeReboots, NodeComesUp, PodStep, PodCreated, PodUp, PodGone, PodFails, PodBecomes,
         TimerExpires, OperatorCrashes, CallFails
  <2>. QED BY <1>1, <2>1 DEF NodeLabels
<1>11. CASE UNCHANGED vars BY <1>11 DEF vars
<1>. QED BY <1>2, <1>3, <1>4, <1>5, <1>6, <1>7, <1>8, <1>9, <1>10, <1>11 DEF Next, OperatorStep

(* The processing timer starts in one place only.                          *)
LEMMA TimerStarts ==
    ASSUME LifecycleInv, [Next]_vars, timers.proc = "none", timers'.proc # "none"
    PROVE  labelX100Nodes /\ "bootStatusMarked" \notin labels.flags
<1>1. timers \in [proc : TimerStates, health : TimerStates] BY Parts DEF LifecycleInv
<1>2. CASE OperatorStep
  <2>1. \/ labelX100Nodes
        \/ timers' = timers \/ timers' = NoTimers
        \/ timers' = [timers EXCEPT !.health = "none"]
        \/ timers' = [timers EXCEPT !.health = IF @ = "none" THEN "running" ELSE @]
    <3>1. CASE AutoIsolate \/ ClearTimers \/ CleanOnDeletion \/ RebootScan
      BY <3>1 DEF AutoIsolate, ClearTimers, CleanOnDeletion, RebootScan, SetTimers
    <3>2. CASE ~(AutoIsolate \/ ClearTimers \/ CleanOnDeletion \/ RebootScan)
      BY <1>2, <3>2 DEF OperatorStep, NoReboot, HoldReboot,
       Aggregate, PassOver, StartAdoption, StartEnabling, StartReboot, StartLoop, EnableNext,
       AllEnabled, EnableFails, AdoptFirstPolicy, ListPods, NothingToDrain, Drain, DrainLast,
       DrainPending, DrainsSelector, MarkTornDown, LoopDone, LeaveOldPolicy, KeepMoving,
       ResumeUnfinished, BlockAggregation, transitionToUpgradingState, updateSwVersionLabels,
       AlreadySwitched, IncorrectPolicy, RolledBack, SkipRollback, BeginRollback,
       ListUnderPrior, UnlistFromPolicy, RestorePrior, LabelRolledBack, AfterLabels,
       ReadBootStatus, SkipBootStatus, MarkVerdict, NoVerdict, FinalizePolicy
    <3>. QED BY <3>1, <3>2
  <2>2. labelX100Nodes BY <1>1, <2>1 DEF NoTimers
  <2>. QED BY <2>2 DEF labelX100Nodes, NoTimers, Has
<1>3. CASE \E p \in Policies : Reconcile(p) \/ ReconcileDeletion(p)
  BY <1>3 DEF Reconcile, ReconcileDeletion
<1>4. CASE Outside
  <2>1. timers' = timers \/ \E t \in {"proc", "health"} : TimerExpires(t)
    BY <1>4 DEF Outside, UserAssigns, UserDeletes, UserTogglesIsolate, PciLabelFlaps,
         NodeReboots, NodeComesUp, PodStep, PodCreated, PodUp, PodGone, PodFails, PodBecomes,
         OperatorCrashes, CallFails
  <2>2. PICK t \in {"proc", "health"} : TimerExpires(t) BY <2>1
  <2>3. t = "health" BY <2>2 DEF TimerExpires
  <2>. QED BY <1>1, <2>2, <2>3 DEF TimerExpires
<1>5. CASE UNCHANGED vars BY <1>5 DEF vars
<1>. QED BY <1>2, <1>3, <1>4, <1>5 DEF Next

(* The steps that lead to the first places of a pass.                      *)
LEMMA EarlySteps ==
    ASSUME LifecycleInv, [Next]_vars, op'.pc \in Early
    PROVE  \/ op'.snap = BareLabels /\ op'.rsnap = BareLabels
           \/ op.pc \in Early /\ \E pc \in PCs \ {"status"} : Goto(pc)
           \/ op' = op
<1>1. op \in Workers /\ op.then \notin Early /\ AfterTeardown \notin Early
  BY Parts DEF LifecycleInv, Early, AfterTeardown
<1>2. CASE NoReboot \/ AutoIsolate \/ RebootScan
  BY <1>2 DEF NoReboot, AutoIsolate, RebootScan, Early, PCs, Idle
<1>3. CASE \/ HoldReboot \/ AfterLabels \/ NoVerdict \/ ClearTimers \/ CleanOnDeletion
           \/ FinalizePolicy \/ OperatorCrashes
           \/ \E p \in Policies : Reconcile(p)
  <2>1. \/ op' = Idle \/ EndPass
        \/ \E pc \in PCs, p \in PolicyOrNone : op' = [Idle EXCEPT !.pc = pc, !.policy = p]
    BY <1>3, Parts DEF LifecycleInv, HoldReboot, AfterLabels, NoVerdict, ClearTimers,
       CleanOnDeletion, FinalizePolicy, OperatorCrashes, Reconcile, Me, PCs, PolicyOrNone
  <2>2. CASE op' = Idle BY <2>2 DEF Idle
  <2>3. CASE EndPass BY <1>1, <2>3, EndPassFields
  <2>4. CASE \E pc \in PCs, p \in PolicyOrNone : op' = [Idle EXCEPT !.pc = pc, !.policy = p]
    BY <2>4, FreshTypes
  <2>. QED BY <2>1, <2>2, <2>3, <2>4
<1>4. ASSUME \/ labelX100Nodes \/ Aggregate \/ PassOver
             \/ EnableNext \/ AllEnabled \/ EnableFails \/ AdoptFirstPolicy
             \/ NothingToDrain \/ DrainLast \/ MarkTornDown \/ LoopDone
             \/ updateSwVersionLabels \/ AlreadySwitched \/ IncorrectPolicy
             \/ SkipRollback \/ ListUnderPrior \/ UnlistFromPolicy
             \/ ReadBootStatus \/ SkipBootStatus \/ MarkVerdict
             \/ DrainPending \/ RolledBack
      PROVE  \/ op' = Idle
             \/ op' = [op EXCEPT !.pc = "enable", !.then = "loop"]
             \/ \E pc \in PCs \ Early : Goto(pc)
  <2>1. op.then \in PCs /\ AfterTeardown \in PCs
    BY Parts DEF LifecycleInv, PCs, AfterTeardown
  <2>2. op.pc = "torn" => op.flow \in {"rollback", "reboot", "delete"}
    BY Parts DEF LifecycleInv, PlaceOK, Flows
  <2>3. CASE EnableNext \/ AllEnabled \/ EnableFails \/ NothingToDrain \/ DrainLast
    BY <1>1, <2>1, <2>3 DEF EnableNext, AllEnabled, EnableFails, NothingToDrain, DrainLast,
                            PCs, Early
  <2>4. CASE MarkTornDown
    BY <2>2, <2>4 DEF MarkTornDown, PCs, Early
  <2>5. CASE DrainPending \/ RolledBack
    BY <2>5 DEF DrainPending, RolledBack, PCs, Early
  <2>6. CASE \/ labelX100Nodes \/ Aggregate \/ PassOver \/ AdoptFirstPolicy \/ LoopDone
             \/ updateSwVersionLabels \/ AlreadySwitched \/ IncorrectPolicy
             \/ SkipRollback \/ ListUnderPrior \/ UnlistFromPolicy
             \/ ReadBootStatus \/ SkipBootStatus \/ MarkVerdict
    BY <2>6 DEF labelX100Nodes, Aggregate, PassOver, AdoptFirstPolicy, LoopDone,
       updateSwVersionLabels, AlreadySwitched, IncorrectPolicy, SkipRollback, ListUnderPrior,
       UnlistFromPolicy, ReadBootStatus, SkipBootStatus, MarkVerdict, PCs, Early
  <2>. QED BY <1>4, <2>3, <2>4, <2>5, <2>6
<1>5. CASE \/ op' = Idle
           \/ op' = [op EXCEPT !.pc = "enable", !.then = "loop"]
           \/ \E pc \in PCs \ Early : Goto(pc)
  <2>1. CASE op' = Idle BY <2>1 DEF Idle
  <2>2. CASE op' = [op EXCEPT !.pc = "enable", !.then = "loop"]
    BY <1>1, <2>2 DEF Workers, Early
  <2>3. ASSUME NEW pc \in PCs \ Early, Goto(pc) PROVE FALSE
    BY <1>1, <2>3, GotoFields
  <2>. QED BY <1>5, <2>1, <2>2, <2>3
<1>6. CASE \/ StartAdoption \/ StartEnabling \/ StartReboot \/ StartLoop \/ ListPods \/ Drain
  BY <1>1, <1>6 DEF StartAdoption, StartEnabling, StartReboot, StartLoop, ListPods, Drain,
                    DrainsSelector, Workers, Early
<1>7. CASE \/ \E cr \in Policies : LeaveOldPolicy(cr) \/ KeepMoving(cr) \/ ResumeUnfinished(cr)
           \/ BlockAggregation \/ transitionToUpgradingState
           \/ BeginRollback \/ RestorePrior \/ LabelRolledBack
  <2>1. CASE \E cr \in Policies : LeaveOldPolicy(cr) \/ KeepMoving(cr)
    BY <1>1, <2>1 DEF LeaveOldPolicy, KeepMoving, Workers, Early
  <2>2. CASE \E cr \in Policies : ResumeUnfinished(cr)
    BY <1>1, <2>2 DEF ResumeUnfinished, Workers, Early
  <2>3. CASE BlockAggregation \/ transitionToUpgradingState
    BY <1>1, <2>3 DEF BlockAggregation, transitionToUpgradingState, Workers, Early
  <2>4. CASE BeginRollback \/ RestorePrior \/ LabelRolledBack
    BY <1>1, <2>4 DEF BeginRollback, RestorePrior, LabelRolledBack, Workers, Early
  <2>. QED BY <1>7, <2>1, <2>2, <2>3, <2>4
<1>8. CASE \E p \in Policies : ReconcileDeletion(p)
  BY <1>8 DEF ReconcileDeletion, Idle, Early
<1>9. CASE Outside
  <2>1. CASE OperatorCrashes BY <1>3, <2>1
  <2>2. CASE CallFails
    <3>1. CASE op' = Idle \/ op' = AtStatus BY <3>1, RestFields
    <3>2. ASSUME NEW pc \in LoggedAt, LogsError(pc), op' = [op EXCEPT !.pc = pc]
          PROVE  op.pc \in Early /\ \E q \in PCs \ {"status"} : Goto(q)
      <4>1. op'.pc = pc BY <1>1, <3>2 DEF Workers
      <4>2. pc = "label" BY <3>2, <4>1 DEF LoggedAt, Early
      <4>3. op.pc = "isolate" BY <3>2, <4>2 DEF LogsError
      <4>. QED BY <3>2, <4>2, <4>3 DEF Early, Goto, PCs
    <3>3. op' # [op EXCEPT !.pc = "loop", !.rsnap = BareLabels, !.prior = None]
      BY <1>1 DEF Workers, Early
    <3>. QED BY <2>2, <3>1, <3>2, <3>3, CallFailsFields DEF LifecycleInv
  <2>. QED BY <1>9, <2>1, <2>2, OutsideParts
<1>10. CASE UNCHANGED vars BY <1>10 DEF vars
<1>. QED BY <1>2, <1>3, <1>4, <1>5, <1>6, <1>7, <1>8, <1>9, <1>10 DEF Next, OperatorStep

LEMMA EarlyStays ==
    ASSUME LifecycleInv, UntimedInv, [Next]_vars, op'.pc \in Early
    PROVE  op'.snap = BareLabels /\ op'.rsnap = BareLabels
<1>1. op \in Workers BY Parts DEF LifecycleInv
<1>2. op.pc \in Early => op.snap = BareLabels /\ op.rsnap = BareLabels BY DEF UntimedInv
<1>3. ASSUME NEW pc \in PCs \ {"status"}, Goto(pc)
      PROVE  op'.snap = op.snap /\ op'.rsnap = op.rsnap
  BY <1>1, <1>3, GotoFields
<1>. QED BY <1>2, <1>3, EarlySteps

(* The timers go in the step after the verdict.                            *)
LEMMA VerdictStep ==
    ASSUME LifecycleInv, MarkVerdict
    PROVE  /\ op'.pc = "clearTimers" /\ op'.snap = op.snap /\ op'.rsnap = op.rsnap
           /\ timers' = timers
BY Parts, GotoFields DEF LifecycleInv, MarkVerdict, PCs

LEMMA TimersCleared ==
    ASSUME LifecycleInv, ~TimersLeft, [Next]_vars, op.pc = "clearTimers"
    PROVE  op' = op \/ timers'.proc = "none"
<1>1. CASE ClearTimers
  <2>1. op'.pc # "clearTimers"
    BY <1>1, Parts, EndPassFields, RestFields DEF ClearTimers, LifecycleInv
  <2>. QED BY <2>1 DEF TimersLeft, NoTimers
<1>2. CASE OperatorStep /\ ~ClearTimers
  BY <1>2 DEF OperatorStep, NoReboot, HoldReboot, RebootScan, AutoIsolate, labelX100Nodes,
     Aggregate, PassOver, StartAdoption, StartEnabling, StartReboot, StartLoop, EnableNext,
     AllEnabled, EnableFails, AdoptFirstPolicy, ListPods, NothingToDrain, Drain, DrainLast,
     DrainPending, DrainsSelector, MarkTornDown, LoopDone, LeaveOldPolicy, KeepMoving,
     ResumeUnfinished, BlockAggregation, transitionToUpgradingState, updateSwVersionLabels,
     AlreadySwitched, IncorrectPolicy, RolledBack, SkipRollback, BeginRollback,
     ListUnderPrior, UnlistFromPolicy, RestorePrior, LabelRolledBack, AfterLabels,
     ReadBootStatus, SkipBootStatus, MarkVerdict, NoVerdict, CleanOnDeletion, FinalizePolicy
<1>3. CASE \E p \in Policies : Reconcile(p) \/ ReconcileDeletion(p)
  BY <1>3 DEF Reconcile, ReconcileDeletion
<1>4. CASE Outside
  <2>1. CASE OperatorCrashes
    <3>1. op'.pc = "idle" BY <2>1, RestFields DEF OperatorCrashes
    <3>. QED BY <3>1 DEF TimersLeft, NoTimers
  <2>2. ~CallFails BY DEF CallFails, EndsRequest, LeavesNode, LogsError, Deleting, AdoptsAnyway
  <2>. QED BY <1>4, <2>1, <2>2, OutsideParts
<1>5. CASE UNCHANGED vars BY <1>5 DEF vars
<1>. QED BY <1>1, <1>2, <1>3, <1>4, <1>5 DEF Next

LEMMA NextUntimed ==
    ASSUME LifecycleInv, UntimedInv, ~TimersLeft, [Next]_vars
    PROVE  UntimedInv'
<1>1. TypeInv BY DEF LifecycleInv
<1>2. HeldMapsRead BY <1>1, HeldMaps
<1>3. op'.pc \in Early => op'.snap = BareLabels /\ op'.rsnap = BareLabels
  BY EarlyStays
(* A map that was marked, where the timers had gone.                       *)
<1>4. ASSUME NEW l \in {labels, op.snap, op.rsnap}, Untimed(l), "bootStatusMarked" \in l.flags
      PROVE  timers'.proc = "none"
  <2>1. timers.proc = "none" BY <1>4 DEF Untimed
  <2>2. CASE labelX100Nodes
    <3>1. op.snap = BareLabels /\ op.rsnap = BareLabels
      BY <2>2 DEF labelX100Nodes, UntimedInv, Early
    <3>2. "bootStatusMarked" \in labels.flags BY <1>4, <3>1, BareUntimed
    <3>. QED BY <2>1, <3>2, TimerStarts
  <2>. QED BY <2>1, <2>2, TimerStarts
<1>5. CASE op.pc = "clearTimers"
  <2>1. op' = op \/ timers'.proc = "none" BY <1>5, TimersCleared
  <2>2. CASE op' = op
    BY <1>3, <1>4, <1>5, <2>2 DEF UntimedInv, Untimed
  <2>3. CASE timers'.proc = "none"
    BY <1>3, <2>3 DEF UntimedInv, Untimed
  <2>. QED BY <2>1, <2>2, <2>3
<1>6. CASE MarkVerdict
  <2>1. Untimed(op.snap)' /\ Untimed(op.rsnap)'
    BY <1>6, VerdictStep DEF UntimedInv, Untimed
  <2>. QED BY <1>3, <1>6, <2>1, VerdictStep DEF UntimedInv
<1>7. CASE op.pc # "clearTimers" /\ ~MarkVerdict
  <2>1. Untimed(labels)' BY <1>4, <1>7, MarkWrites DEF UntimedInv, Untimed
  <2>2. Untimed(op.snap)' BY <1>2, <1>4, <1>7, <2>1, BareUntimed DEF UntimedInv, Untimed, HeldMapsRead
  <2>3. Untimed(op.rsnap)' BY <1>2, <1>4, <1>7, <2>1, BareUntimed DEF UntimedInv, Untimed, HeldMapsRead
  <2>. QED BY <1>3, <2>1, <2>2, <2>3 DEF UntimedInv
<1>. QED BY <1>5, <1>6, <1>7

(* AutoIsolation looks at the timer alone, and yet takes no node away that *)
(* has been judged, as long as the timers go in the step after the verdict:*)
(* a stale map that brings the mark back was itself read when no timer ran.*)
THEOREM JudgedNodesStayInService == Spec /\ [][~TimersLeft]_vars => JudgedNodeNotIsolated
<1>1. Init => UntimedInv BY BareUntimed DEF Init, Idle, UntimedInv, Untimed, Early
<1>2. LifecycleInv /\ UntimedInv /\ [Next]_vars /\ [~TimersLeft]_vars => UntimedInv'
  <2>. SUFFICES ASSUME LifecycleInv, UntimedInv, [Next]_vars, [~TimersLeft]_vars PROVE UntimedInv'
    OBVIOUS
  <2>1. TimersLeft => ~UNCHANGED vars BY DEF TimersLeft, vars
  <2>. QED BY <2>1, NextUntimed
<1>3. UntimedInv /\ [Next]_vars
        => [ op.pc = "isolate" /\ op'.pc = "label" /\ ~labels.isolate /\ labels'.isolate
                => ~Has("bootStatusMarked") ]_vars
  <2>. SUFFICES ASSUME UntimedInv, Next, op.pc = "isolate", op'.pc = "label",
                       ~labels.isolate, labels'.isolate
                PROVE  ~Has("bootStatusMarked")
    OBVIOUS
  <2>1. AutoIsolate \/ ~OperatorStep
    BY DEF OperatorStep, NoReboot, HoldReboot, RebootScan, labelX100Nodes,
     Aggregate, PassOver, StartAdoption, StartEnabling, StartReboot, StartLoop, EnableNext,
     AllEnabled, EnableFails, AdoptFirstPolicy, ListPods, NothingToDrain, Drain, DrainLast,
     DrainPending, DrainsSelector, MarkTornDown, LoopDone, LeaveOldPolicy, KeepMoving,
     ResumeUnfinished, BlockAggregation, transitionToUpgradingState, updateSwVersionLabels,
     AlreadySwitched, IncorrectPolicy, RolledBack, SkipRollback, BeginRollback,
     ListUnderPrior, UnlistFromPolicy, RestorePrior, LabelRolledBack, AfterLabels,
     ReadBootStatus, SkipBootStatus, MarkVerdict, NoVerdict, ClearTimers, CleanOnDeletion,
     FinalizePolicy
  <2>2. ~(\E p \in Policies : Reconcile(p) \/ ReconcileDeletion(p))
    BY DEF Reconcile, ReconcileDeletion
  <2>3. ~Outside
    <3>1. OperatorCrashes => op'.pc = "idle" BY RestFields DEF OperatorCrashes
    <3>2. CallFails => labels' = labels BY DEF CallFails
    <3>. QED BY <3>1, <3>2, OutsideParts
  <2>4. AutoIsolate BY <2>1, <2>2, <2>3 DEF Next
  <2>5. timers.proc = "expired" BY <2>4 DEF AutoIsolate
  <2>. QED BY <2>5 DEF UntimedInv, Untimed, Has
<1>. QED BY LabelsConsistent, <1>1, <1>2, <1>3, PTL DEF Spec, JudgedNodeNotIsolated

-----------------------------------------------------------------------------
(* The history of versions.  The steps that write an older map over the    *)
(* labels must not undo what has been written since: what is known of the  *)
(* held maps at those places is HistoryInv.                                *)

(* Two maps with the same history, whether or not the teardown is done.    *)
Agree(l, m) ==
    /\ l.active = m.active /\ l.prior = m.prior /\ l.blocked = m.blocked /\ l.boot = m.boot
    /\ l.flags \ {"teardownCompleted"} = m.flags \ {"teardownCompleted"}

(* A node without a policy has none to go back to; an upgrade that has let *)
(* go of the old policy has torn down its pods.                            *)
HistoryOK(l) ==
    /\ l.active = None => l.prior = None
    /\ "upgrading" \in l.flags /\ l.blocked = None => "teardownCompleted" \in l.flags

(* The worker is past the choice of a branch, and not adopting.            *)
AtWork ==
    \/ op.pc \in {"rollback", "toPrior", "fromPolicy", "restore", "rolledBackLabel", "loop",
                  "block", "upgrading", "rolledBack", "list", "drain", "torn", "switch"}
    \/ op.pc = "enable" /\ op.then # "adopt"

(* The map of the loop has the node at another policy, with no move begun. *)
Elsewhere == op.snap.blocked = None /\ op.snap.active # Me

Upgrading == op.pc \in {"list", "drain"} /\ op.flow = "upgrade"

(* A rollback: its map is the labels, and the loop had the node here.      *)
BackOK == RollingBack =>
    /\ Agree(labels, op.rsnap) /\ ~Elsewhere
    /\ op.pc # "rolledBackLabel" => labels.prior = op.prior /\ Has("rollingBackUpgrade")

(* The loop: a move that the map knows of is still under way or over, and  *)
(* as long as this pass has not begun one the map is the labels.           *)
LoopOK == Looping \/ RollingBack =>
    /\ "upgrading" \in op.snap.flags => Has("upgrading")
    /\ op.snap.blocked # None => labels.blocked # None \/ Has("upgrading")
    /\ Elsewhere => Agree(labels, op.snap)

MoveOK ==
    /\ op.pc = "block" => Elsewhere
    /\ op.pc = "upgrading" => op.snap.blocked # None \/ "upgrading" \in op.snap.flags
    /\ op.pc = "switch" \/ Upgrading => Has("upgrading")
    /\ Upgrading => ~Elsewhere

StageOK ==
    /\ Adopting => labels.active = None
    /\ AtWork => labels.active # None

PlacesOK == StageOK /\ BackOK /\ LoopOK /\ MoveOK

HistoryInv ==
    /\ HistoryOK(labels) /\ HistoryOK(op.snap) /\ HistoryOK(op.rsnap)
    /\ PlacesOK

(* The write of RolledBack that drops a status found in the map.           *)
StatusDropped == op.pc = "rolledBack" /\ op.snap.boot = "true"

LEMMA BareHistory == HistoryOK(BareLabels)
BY DEF HistoryOK, BareLabels

(* Where the worker is not at work on a node nothing is claimed of it.     *)
LEMMA RestingHistory ==
    ASSUME ~Adopting', ~AtWork'
    PROVE  PlacesOK'
BY DEF PlacesOK, StageOK, BackOK, LoopOK, MoveOK, AtWork, Adopting, Looping, RollingBack, Upgrading

(* Steps that move on within a flow and leave the history alone.           *)
LEMMA CarriedHistory ==
    ASSUME HistoryInv,
           Agree(labels', labels),
           op'.snap = op.snap, op'.rsnap = op.rsnap, op'.prior = op.prior, op'.policy = op.policy,
           Adopting' => Adopting, AtWork' => AtWork,
           RollingBack' => RollingBack /\ op.pc # "rolledBackLabel" /\ op'.pc # "rolledBackLabel",
           (Looping \/ RollingBack)' => Looping \/ RollingBack,
           MoveOK'
    PROVE  PlacesOK'
<1>1. \A f \in Flags \ {"teardownCompleted"} : f \in labels'.flags <=> f \in labels.flags
  BY DEF Agree
<1>2. StageOK' BY DEF HistoryInv, PlacesOK, StageOK, Agree
<1>3. BackOK'
  BY <1>1 DEF HistoryInv, PlacesOK, BackOK, Agree, Elsewhere, Me, Has, Flags
<1>4. LoopOK'
  BY <1>1 DEF HistoryInv, PlacesOK, LoopOK, Agree, Elsewhere, Me, Has, Flags
<1>. QED BY <1>2, <1>3, <1>4 DEF PlacesOK

LEMMA AgreesWithItself ==
    ASSUME NEW l, NEW m, l.active = m.active, l.prior = m.prior, l.blocked = m.blocked,
           l.boot = m.boot, l.flags = m.flags
    PROVE  Agree(l, m)
BY DEF Agree

(* Every write leaves a map of which HistoryOK holds.                      *)
LEMMA CleanHistory ==
    ASSUME NEW l \in NodeLabels
    PROVE  /\ HistoryOK(cleanupStaleSelectorLabels(cleanupStaleCRLabels(l)))
           /\ HistoryOK(Withdrawn(l))
BY DEF HistoryOK, Withdrawn, cleanupStaleSelectorLabels, cleanupStaleCRLabels, NodeLabels

LEMMA WrittenHistory ==
    ASSUME LifecycleInv, HistoryInv, ~StatusDropped, [Next]_vars
    PROVE  HistoryOK(labels')
<1>1. /\ op \in Workers /\ labels \in NodeLabels /\ op.snap \in NodeLabels /\ op.rsnap \in NodeLabels
      /\ op.pc # "idle" => Me \in Policies
  BY Parts DEF LifecycleInv, PlaceOK
<1>2. HistoryOK(labels) /\ HistoryOK(op.snap) /\ HistoryOK(op.rsnap) BY DEF HistoryInv
<1>3. MapOK(labels) /\ MapOK(op.snap) /\ MapOK(op.rsnap) BY DEF LifecycleInv
<1>4. CASE \/ NoReboot \/ HoldReboot \/ Aggregate \/ PassOver
           \/ StartAdoption \/ StartEnabling \/ StartReboot \/ StartLoop
           \/ AllEnabled \/ EnableFails \/ ListPods \/ NothingToDrain \/ LoopDone
           \/ (\E cr \in Policies : LeaveOldPolicy(cr) \/ KeepMoving(cr) \/ ResumeUnfinished(cr))
           \/ AlreadySwitched \/ IncorrectPolicy \/ SkipRollback \/ ListUnderPrior
           \/ UnlistFromPolicy \/ AfterLabels \/ SkipBootStatus \/ NoVerdict \/ ClearTimers
  BY <1>2, <1>4 DEF NoReboot, HoldReboot, Aggregate, PassOver, StartAdoption, StartEnabling,
       StartReboot, StartLoop, AllEnabled, EnableFails, ListPods, NothingToDrain, LoopDone,
       LeaveOldPolicy, KeepMoving, ResumeUnfinished, AlreadySwitched, IncorrectPolicy,
       SkipRollback, ListUnderPrior, UnlistFromPolicy, AfterLabels, SkipBootStatus,
       NoVerdict, ClearTimers
<1>5. CASE EnableNext \/ Drain \/ DrainLast \/ DrainPending \/ ReadBootStatus
  BY <1>1, <1>2, <1>5 DEF EnableNext, Drain, DrainLast, DrainPending, DrainsSelector,
                    ReadBootStatus, NodeLabels, HistoryOK
<1>6. CASE AutoIsolate \/ labelX100Nodes \/ CleanOnDeletion
  <2> DEFINE bare(l) == cleanupStaleSelectorLabels(cleanupStaleCRLabels(l))
  <2>1. \A l \in NodeLabels : bare(l) \in NodeLabels /\ HistoryOK(bare(l)) /\ HistoryOK(Withdrawn(l))
    BY CleanTypes, CleanHistory
  <2>2. \A l \in NodeLabels : bare(l).blocked = None /\ bare(l).active = None /\ bare(l).prior = None
    BY DEF cleanupStaleSelectorLabels, cleanupStaleCRLabels, NodeLabels
  <2>3. \/ labels' \in {labels, Withdrawn(labels), [bare(labels) EXCEPT !.isolate = TRUE]}
        \/ \E s \in {"absent", "true", labels.present} : labels' = [labels EXCEPT !.present = s]
        \/ \E s \in {"true", "false"} :
              labels' = [bare(op.snap) EXCEPT !.present = s, !.flags = {"ownerPolicyDeleted"}]
    BY <1>6 DEF AutoIsolate, labelX100Nodes, CleanOnDeletion
  <2>. HIDE DEF bare
  <2>4. CASE labels' \in {labels, Withdrawn(labels), [bare(labels) EXCEPT !.isolate = TRUE]}
    BY <1>1, <1>2, <2>1, <2>4 DEF NodeLabels, HistoryOK
  <2>5. CASE \E s \in {"absent", "true", labels.present} : labels' = [labels EXCEPT !.present = s]
    BY <1>1, <1>2, <2>5 DEF NodeLabels, HistoryOK
  <2>6. CASE \E s \in {"true", "false"} :
               labels' = [bare(op.snap) EXCEPT !.present = s, !.flags = {"ownerPolicyDeleted"}]
    BY <1>1, <2>1, <2>2, <2>6 DEF NodeLabels, HistoryOK
  <2>. QED BY <2>3, <2>4, <2>5, <2>6
<1>7. CASE RebootScan
  <2>1. FlowsOK(labels) BY <1>3 DEF MapOK
  <2>. QED BY <1>1, <1>2, <1>7, <2>1, RebootWrites DEF HistoryOK, FlowsOK
<1>8. CASE AdoptFirstPolicy
  <2>1. BareOK(op.snap) /\ op.snap.active = None
    BY <1>3, <1>8 DEF AdoptFirstPolicy, MapOK, LifecycleInv, WorkerOK, Adopting
  <2>2. Me # None BY <1>1, <1>8, NoneIsNotIn DEF AdoptFirstPolicy
  <2>. QED BY <1>1, <1>2, <1>8, <2>1, <2>2 DEF AdoptFirstPolicy, Adopted, NodeLabels, HistoryOK, BareOK
<1>9. CASE MarkTornDown \/ LabelRolledBack
  BY <1>1, <1>2, <1>9 DEF MarkTornDown, LabelRolledBack, NodeLabels, HistoryOK
<1>10. CASE BlockAggregation
  <2>1. Me # None BY <1>1, <1>10, NoneIsNotIn DEF BlockAggregation
  <2>. QED BY <1>1, <1>2, <1>10, <2>1 DEF BlockAggregation, NodeLabels, HistoryOK
<1>11. CASE RolledBack
  BY <1>2, <1>11 DEF RolledBack, StatusDropped
<1>12. CASE transitionToUpgradingState
  <2>1. Has("upgrading") \/ labels.blocked # None
    BY <1>12 DEF transitionToUpgradingState, HistoryInv, PlacesOK, MoveOK, LoopOK, Looping
  <2>. QED BY <1>1, <1>2, <1>12, <2>1 DEF transitionToUpgradingState, UpgradeBegun, StatusCleaned,
                                          NodeLabels, HistoryOK, Has
<1>13. CASE updateSwVersionLabels
  <2>1. Me # None BY <1>1, <1>13, NoneIsNotIn DEF updateSwVersionLabels
  <2>. QED BY <1>1, <1>13, <2>1 DEF updateSwVersionLabels, Switched, NodeLabels, HistoryOK
<1>14. CASE BeginRollback
  <2>1. "swUpgradeFailed" \in labels.flags => "upgrading" \notin labels.flags
    BY <1>3 DEF MapOK, VerdictOK, InProgress
  <2>. QED BY <1>1, <1>2, <1>14, <2>1 DEF BeginRollback, MayRollBack, RollbackBegun, StatusCleaned,
                                          NodeLabels, HistoryOK, Has
<1>15. CASE RestorePrior
  BY <1>1, <1>2, <1>15 DEF RestorePrior, Restored, NodeLabels, HistoryOK
<1>16. CASE MarkVerdict
  BY <1>1, <1>2, <1>16 DEF MarkVerdict, Verdict, InProgress, NodeLabels, HistoryOK
<1>17. CASE FinalizePolicy
  BY <1>1, <1>2, <1>17 DEF FinalizePolicy, NodeLabels, HistoryOK
<1>18. CASE \E p \in Policies : Reconcile(p) \/ ReconcileDeletion(p)
  BY <1>2, <1>18 DEF Reconcile, ReconcileDeletion
<1>19. CASE Outside
  <2>1. labels' \in {labels, [labels EXCEPT !.isolate = ~@], [labels EXCEPT !.pci = ~@]}
    BY <1>19 DEF Outside, UserAssigns, UserDeletes, UserTogglesIsolate, PciLabelFlaps,
         NodeReboots, NodeComesUp, PodStep, PodCreated, PodUp, PodGone, PodFails, PodBecomes,
         TimerExpires, OperatorCrashes, CallFails
  <2>. QED BY <1>1, <1>2, <2>1 DEF NodeLabels, HistoryOK
<1>20. CASE UNCHANGED vars BY <1>2, <1>20 DEF vars
<1>. QED BY <1>4, <1>5, <1>6, <1>7, <1>8, <1>9, <1>10, <1>11, <1>12, <1>13, <1>14, <1>15, <1>16,
            <1>17, <1>18, <1>19, <1>20
         DEF Next, OperatorStep

(* Steps after which the worker is not at work on the node.                *)
Resting == {"idle", "scan", "isolate", "label", "aggregate", "pass", "status", "boot", "mark",
            "clearTimers", "clean", "finalize"}

LEMMA RestingPlace ==
    ASSUME op'.pc \in Resting
    PROVE  PlacesOK'
<1>1. ~Adopting' /\ ~AtWork' BY DEF Resting, Adopting, AtWork
<1>. QED BY <1>1, RestingHistory

LEMMA RestingPcs ==
    ASSUME LifecycleInv,
           \/ NoReboot \/ HoldReboot \/ RebootScan \/ AutoIsolate \/ labelX100Nodes \/ Aggregate
           \/ PassOver \/ AdoptFirstPolicy \/ DrainPending \/ LoopDone \/ IncorrectPolicy
           \/ AfterLabels \/ ReadBootStatus \/ SkipBootStatus \/ MarkVerdict \/ NoVerdict
           \/ ClearTimers \/ CleanOnDeletion \/ FinalizePolicy
           \/ (\E p \in Policies : Reconcile(p)) \/ OperatorCrashes
    PROVE  op'.pc \in Resting
<1>1. op \in Workers BY Parts DEF LifecycleInv
<1>2. \/ op' = Idle \/ EndPass
      \/ \E pc \in Resting, p \in PolicyOrNone : op' = [Idle EXCEPT !.pc = pc, !.policy = p]
      \/ \E pc \in Resting : Goto(pc)
  <2>1. CASE \/ NoReboot \/ RebootScan \/ AutoIsolate \/ labelX100Nodes \/ Aggregate
             \/ PassOver \/ AdoptFirstPolicy \/ DrainPending \/ LoopDone \/ IncorrectPolicy
             \/ ReadBootStatus \/ SkipBootStatus \/ MarkVerdict
    BY <2>1 DEF NoReboot, RebootScan, AutoIsolate, labelX100Nodes, Aggregate, PassOver,
       AdoptFirstPolicy, DrainPending, LoopDone, IncorrectPolicy, ReadBootStatus,
       SkipBootStatus, MarkVerdict, Resting
  <2>2. CASE \/ HoldReboot \/ AfterLabels \/ NoVerdict \/ ClearTimers \/ CleanOnDeletion
             \/ FinalizePolicy \/ (\E p \in Policies : Reconcile(p)) \/ OperatorCrashes
    BY <2>2, Parts DEF LifecycleInv, HoldReboot, AfterLabels, NoVerdict, ClearTimers,
       CleanOnDeletion, FinalizePolicy, Reconcile, OperatorCrashes, Me, Resting, PolicyOrNone
  <2>. QED BY <2>1, <2>2
<1>3. CASE op' = Idle BY <1>3 DEF Idle, Resting
<1>4. CASE EndPass
  <2>1. op'.pc \in {"idle", "isolate"} BY <1>1, <1>4, EndPassFields DEF Idle
  <2>. QED BY <2>1 DEF Resting
<1>5. CASE \E pc \in Resting, p \in PolicyOrNone : op' = [Idle EXCEPT !.pc = pc, !.policy = p]
  <2>1. PICK pc \in Resting, p \in PolicyOrNone : op' = [Idle EXCEPT !.pc = pc, !.policy = p]
    BY <1>5
  <2>2. pc \in PCs BY DEF Resting, PCs
  <2>3. op'.pc = pc BY <2>1, <2>2, FreshTypes
  <2>. QED BY <2>3
<1>6. CASE \E pc \in Resting : Goto(pc)
  <2>1. PICK pc \in Resting : Goto(pc) BY <1>6
  <2>2. pc \in PCs BY DEF Resting, PCs
  <2>3. op'.pc = pc BY <1>1, <2>1, <2>2, GotoFields
  <2>. QED BY <2>3
<1>. QED BY <1>2, <1>3, <1>4, <1>5, <1>6

LEMMA RestingSteps ==
    ASSUME LifecycleInv,
           \/ NoReboot \/ HoldReboot \/ RebootScan \/ AutoIsolate \/ labelX100Nodes \/ Aggregate
           \/ PassOver \/ AdoptFirstPolicy \/ DrainPending \/ LoopDone \/ IncorrectPolicy
           \/ AfterLabels \/ ReadBootStatus \/ SkipBootStatus \/ MarkVerdict \/ NoVerdict
           \/ ClearTimers \/ CleanOnDeletion \/ FinalizePolicy
           \/ (\E p \in Policies : Reconcile(p)) \/ OperatorCrashes
    PROVE  PlacesOK'
BY RestingPcs, RestingPlace

(* Enabling selectors goes back to where it was called.                    *)
LEMMA EnablingHistory ==
    ASSUME LifecycleInv, HistoryInv, EnableNext \/ AllEnabled \/ EnableFails
    PROVE  PlacesOK'
<1>1. op \in Workers /\ labels \in NodeLabels /\ op.then \in {"status", "adopt", "loop", "rolledBack"}
  BY Parts DEF LifecycleInv
<1>2. PICK pc \in {"status", "adopt", "loop", "rolledBack"} :
           /\ op.pc = "enable" /\ Goto(pc) /\ (pc = op.then \/ pc = "status")
  BY <1>1 DEF EnableNext, AllEnabled, EnableFails
<1>3. Agree(labels', labels)
  BY <1>1 DEF EnableNext, AllEnabled, EnableFails, Agree, NodeLabels
<1>4. CASE pc = "status"
  <2>1. op'.pc \in Resting BY <1>1, <1>2, <1>4, GotoFields DEF Resting, PCs
  <2>. QED BY <2>1, RestingPlace
<1>5. CASE pc # "status"
  <2>1. /\ op'.pc = pc /\ pc = op.then /\ op'.then = op.then /\ op'.flow = op.flow
        /\ op'.snap = op.snap /\ op'.rsnap = op.rsnap /\ op'.prior = op.prior
        /\ op'.policy = op.policy
    BY <1>1, <1>2, <1>5, GotoFields DEF PCs
  <2>2. MoveOK' BY <1>2, <1>5, <2>1 DEF MoveOK, Upgrading
  <2>. QED BY <1>2, <1>3, <1>5, <2>1, <2>2, CarriedHistory
           DEF Adopting, AtWork, RollingBack, Looping
<1>. QED BY <1>4, <1>5

(* The teardown, up to its record.                                         *)
LEMMA DrainingHistory ==
    ASSUME LifecycleInv, HistoryInv, ListPods \/ NothingToDrain \/ Drain \/ DrainLast
    PROVE  PlacesOK'
<1>1. op \in Workers /\ labels \in NodeLabels /\ op.flow \in Flows
  BY Parts DEF LifecycleInv
<1>2. Agree(labels', labels)
  BY <1>1 DEF ListPods, NothingToDrain, Drain, DrainLast, DrainsSelector, Agree, NodeLabels
<1>3. /\ op.pc \in {"list", "drain"}
      /\ op'.pc \in IF op.flow = "upgrade" THEN {"drain", "switch"} ELSE {"drain", "torn"}
      /\ op'.then = op.then /\ op'.flow = op.flow
      /\ op'.snap = op.snap /\ op'.rsnap = op.rsnap /\ op'.prior = op.prior
      /\ op'.policy = op.policy
  <2>1. CASE ListPods \/ Drain BY <1>1, <2>1 DEF ListPods, Drain, DrainsSelector, Workers
  <2>2. CASE NothingToDrain \/ DrainLast
    <3>1. AfterTeardown \in PCs \ {"status"} /\ Goto(AfterTeardown) /\ op.pc \in {"list", "drain"}
      BY <2>2 DEF NothingToDrain, DrainLast, DrainsSelector, AfterTeardown, PCs
    <3>. QED BY <1>1, <3>1, GotoFields DEF AfterTeardown
  <2>. QED BY <2>1, <2>2
<1>4. MoveOK'
  BY <1>2, <1>3 DEF HistoryInv, PlacesOK, MoveOK, Upgrading, Elsewhere, Me, Has, Agree
<1>. QED BY <1>2, <1>3, <1>4, CarriedHistory DEF Adopting, AtWork, RollingBack, Looping

(* The loop, where it writes nothing.                                      *)
LEMMA LoopingHistory ==
    ASSUME LifecycleInv, HistoryInv, ~StatusDropped,
           \/ SkipRollback \/ AlreadySwitched \/ RolledBack
           \/ \E cr \in Policies : LeaveOldPolicy(cr) \/ KeepMoving(cr) \/ ResumeUnfinished(cr)
    PROVE  PlacesOK'
<1>1. op \in Workers /\ labels \in NodeLabels BY Parts DEF LifecycleInv
<1>2. labels' = labels
  BY DEF SkipRollback, AlreadySwitched, RolledBack, LeaveOldPolicy, KeepMoving,
         ResumeUnfinished, StatusDropped
<1>3. Agree(labels', labels) BY <1>2, AgreesWithItself
<1>4. /\ op'.snap = op.snap /\ op'.rsnap = op.rsnap /\ op'.prior = op.prior
      /\ op'.policy = op.policy
      /\ op.pc \in {"rollback", "loop", "rolledBack"} \/ (op.pc = "switch" /\ op'.pc = "enable")
      /\ op'.pc \in {"loop", "block", "upgrading", "rolledBack", "enable"}
      /\ op'.pc = "enable" => (op'.then = op.then /\ op.pc = "switch") \/ op'.then = "loop"
      /\ op'.pc = "block" => Elsewhere
      /\ op'.pc = "upgrading" => op.snap.blocked # None \/ "upgrading" \in op.snap.flags
  <2>1. CASE SkipRollback \/ AlreadySwitched
    BY <1>1, <2>1, GotoFields DEF SkipRollback, AlreadySwitched, PCs
  <2>2. CASE RolledBack
    <3>1. op' = [op EXCEPT !.pc = "enable", !.then = "loop"] /\ op.pc = "rolledBack"
      BY <2>2 DEF RolledBack, StatusDropped
    <3>. QED BY <1>1, <3>1 DEF Workers
  <2>3. CASE \E cr \in Policies : LeaveOldPolicy(cr)
    BY <1>1, <2>3 DEF LeaveOldPolicy, Elsewhere, Workers
  <2>4. CASE \E cr \in Policies : KeepMoving(cr)
    BY <1>1, <2>4 DEF KeepMoving, Workers
  <2>5. CASE \E cr \in Policies : ResumeUnfinished(cr)
    <3>1. PICK pc \in {"upgrading", "rolledBack", "loop"}, then \in {"rolledBack", "loop"},
               todo \in SUBSET op.todo :
             /\ op.pc = "loop" /\ (pc = "upgrading" => "upgrading" \in op.snap.flags)
             /\ op' = [op EXCEPT !.pc = pc, !.then = then, !.todo = todo, !.flow = "upgrade"]
      BY <2>5 DEF ResumeUnfinished
    <3>. QED BY <1>1, <3>1 DEF Workers
  <2>. QED BY <2>1, <2>2, <2>3, <2>4, <2>5
<1>5. MoveOK' BY <1>4 DEF MoveOK, Upgrading, Elsewhere, Me
<1>6. op.then # "adopt" \/ op.pc # "switch" BY DEF LifecycleInv, WorkerOK
<1>7. /\ (Looping \/ RollingBack)' => Looping \/ RollingBack
      /\ AtWork' => AtWork
      /\ ~Adopting' /\ ~RollingBack'
  BY <1>4, <1>6 DEF Adopting, AtWork, RollingBack, Looping
<1>. QED BY <1>3, <1>4, <1>5, <1>7, CarriedHistory

LEMMA ListingHistory ==
    ASSUME LifecycleInv, HistoryInv, ListUnderPrior \/ UnlistFromPolicy
    PROVE  PlacesOK'
<1>1. op \in Workers /\ labels \in NodeLabels BY Parts DEF LifecycleInv
<1>2. PICK pc \in {"status", "fromPolicy", "restore"} : Goto(pc)
  BY DEF ListUnderPrior, UnlistFromPolicy
<1>3. op.pc \in {"toPrior", "fromPolicy"} /\ labels' = labels
  BY DEF ListUnderPrior, UnlistFromPolicy
<1>4. CASE pc = "status"
  <2>1. op'.pc \in Resting BY <1>1, <1>2, <1>4, GotoFields DEF Resting, PCs
  <2>. QED BY <2>1, RestingPlace
<1>5. CASE pc # "status"
  <2>1. /\ op'.pc = pc /\ op'.flow = op.flow /\ op'.then = op.then
        /\ op'.snap = op.snap /\ op'.rsnap = op.rsnap /\ op'.prior = op.prior
        /\ op'.policy = op.policy
    BY <1>1, <1>2, <1>5, GotoFields DEF PCs
  <2>2. Agree(labels', labels) BY <1>3, AgreesWithItself
  <2>3. MoveOK' BY <1>5, <2>1 DEF MoveOK, Upgrading
  <2>. QED BY <1>3, <1>5, <2>1, <2>2, <2>3, CarriedHistory DEF Adopting, AtWork, RollingBack, Looping
<1>. QED BY <1>4, <1>5

(* The branches of a pass.                                                 *)
LEMMA StartingHistory ==
    ASSUME LifecycleInv, HistoryInv, StartAdoption \/ StartEnabling \/ StartReboot \/ StartLoop
    PROVE  PlacesOK'
<1>1. op \in Workers /\ op.pc = "pass"
  BY Parts DEF LifecycleInv, StartAdoption, StartEnabling, StartReboot, StartLoop
<1>2. labels' = labels BY DEF StartAdoption, StartEnabling, StartReboot, StartLoop
<1>3. CASE StartAdoption
  <2>1. op'.pc = "enable" /\ op'.then = "adopt" /\ labels.active = None
    BY <1>1, <1>3 DEF StartAdoption, Workers
  <2>. QED BY <1>2, <2>1 DEF PlacesOK, StageOK, BackOK, LoopOK, MoveOK, AtWork, Adopting, Looping,
                             RollingBack, Upgrading
<1>4. CASE StartEnabling
  <2>1. op'.pc = "enable" /\ op'.then = "status" /\ labels.active # None
    BY <1>1, <1>4 DEF StartEnabling, Workers
  <2>. QED BY <1>2, <2>1 DEF PlacesOK, StageOK, BackOK, LoopOK, MoveOK, AtWork, Adopting, Looping,
                             RollingBack, Upgrading
<1>5. CASE StartReboot
  <2>1. op'.pc = "list" /\ op'.flow = "reboot" /\ labels.active # None
    BY <1>1, <1>5 DEF StartReboot, Workers
  <2>. QED BY <1>2, <2>1 DEF PlacesOK, StageOK, BackOK, LoopOK, MoveOK, AtWork, Adopting, Looping,
                             RollingBack, Upgrading
<1>6. CASE StartLoop
  <2>1. /\ op'.pc \in {"rollback", "loop"} /\ op'.snap = labels /\ labels.active # None
    BY <1>1, <1>6 DEF StartLoop, Workers
  <2>2. Agree(labels, labels) BY AgreesWithItself
  <2>3. BackOK' /\ MoveOK' /\ StageOK'
    BY <1>2, <2>1 DEF StageOK, BackOK, MoveOK, AtWork, Adopting, RollingBack, Upgrading
  <2>4. LoopOK' BY <1>2, <2>1, <2>2 DEF LoopOK, Has
  <2>. QED BY <2>3, <2>4 DEF PlacesOK
<1>. QED BY <1>3, <1>4, <1>5, <1>6

(* A deletion starts on a node that runs with the policy.                  *)
LEMMA DeletingHistory ==
    ASSUME LifecycleInv, HistoryInv, NEW p \in Policies, ReconcileDeletion(p)
    PROVE  PlacesOK'
<1>1. /\ op'.pc \in {"finalize", "clean", "list"} /\ op'.flow = "delete" /\ labels' = labels
      /\ op'.pc = "list" => isX100RunningWithPolicy(labels, p)
  BY DEF ReconcileDeletion, Idle
<1>2. labels.active = None => labels.blocked = None BY DEF LifecycleInv, MapOK, BareOK
<1>3. isX100RunningWithPolicy(labels, p) => labels.active # None
  BY <1>2, NoneIsNotIn DEF isX100RunningWithPolicy
<1>. QED BY <1>1, <1>3 DEF PlacesOK, StageOK, BackOK, LoopOK, MoveOK, AtWork, Adopting, Looping,
                           RollingBack, Upgrading

(* The record of the teardown: for a rollback, on the map of its start.    *)
LEMMA TornDownHistory ==
    ASSUME LifecycleInv, HistoryInv, MarkTornDown
    PROVE  PlacesOK'
<1>1. op \in Workers /\ labels \in NodeLabels /\ op.rsnap \in NodeLabels BY Parts DEF LifecycleInv
<1>2. op.pc = "torn" /\ op.flow \in {"rollback", "reboot", "delete"}
  BY Parts DEF MarkTornDown, LifecycleInv, PlaceOK, Flows
<1>3. CASE op.flow = "rollback"
  <2>1. op'.pc = "toPrior" /\ op'.flow = op.flow
        /\ op'.snap = op.snap /\ op'.rsnap = op.rsnap /\ op'.prior = op.prior
        /\ op'.policy = op.policy
    BY <1>1, <1>2, <1>3, GotoFields DEF MarkTornDown, PCs
  <2>2. Agree(labels, op.rsnap)
    BY <1>2, <1>3 DEF HistoryInv, PlacesOK, BackOK, RollingBack
  <2>3. labels' = [op.rsnap EXCEPT !.flags = @ \cup {"teardownCompleted"}]
    BY <1>3 DEF MarkTornDown
  <2>4. Agree(labels', labels) BY <1>1, <2>2, <2>3 DEF Agree, NodeLabels
  <2>5. MoveOK' BY <2>1 DEF MoveOK, Upgrading
  <2>. QED BY <1>2, <1>3, <2>1, <2>4, <2>5, CarriedHistory DEF Adopting, AtWork, RollingBack, Looping
<1>4. CASE op.flow = "reboot"
  <2>1. op.then = "status" BY <1>2, <1>4 DEF LifecycleInv, WorkerOK, Recovering
  <2>2. op'.pc = "enable" /\ op'.then = "status"
    BY <1>1, <1>2, <1>4, <2>1, GotoFields DEF MarkTornDown, PCs
  <2>3. labels'.active = labels.active /\ labels.active # None
    BY <1>1, <1>2, <1>4 DEF MarkTornDown, NodeLabels, HistoryInv, PlacesOK, StageOK, AtWork
  <2>. QED BY <2>2, <2>3 DEF PlacesOK, StageOK, BackOK, LoopOK, MoveOK, AtWork, Adopting, Looping,
                             RollingBack, Upgrading
<1>5. CASE op.flow = "delete"
  <2>1. op'.pc = "clean" BY <1>1, <1>2, <1>5, GotoFields DEF MarkTornDown, PCs
  <2>. QED BY <2>1, RestingPlace DEF Resting
<1>. QED BY <1>2, <1>3, <1>4, <1>5

LEMMA BlockingHistory ==
    ASSUME LifecycleInv, HistoryInv, BlockAggregation
    PROVE  PlacesOK'
<1>1. op \in Workers /\ op.snap \in NodeLabels /\ Me \in Policies
  BY Parts DEF LifecycleInv, PlaceOK, BlockAggregation
<1>2. Me # None BY <1>1, NoneIsNotIn
<1>3. op.snap.active # None BY DEF BlockAggregation, LifecycleInv, WorkerOK, Looping
<1>4. op'.pc = "upgrading" /\ op'.snap = labels' /\ op'.policy = op.policy
  BY <1>1 DEF BlockAggregation, Workers
<1>5. labels'.blocked = Me /\ labels'.active = op.snap.active
  BY <1>1 DEF BlockAggregation, NodeLabels
<1>6. ~Elsewhere' BY <1>2, <1>4, <1>5 DEF Elsewhere, Me
<1>7. StageOK' /\ BackOK' /\ MoveOK'
  BY <1>2, <1>3, <1>4, <1>5, <1>6 DEF StageOK, BackOK, MoveOK, AtWork, Adopting, RollingBack,
                                      Upgrading
<1>8. LoopOK' BY <1>2, <1>4, <1>5, <1>6 DEF LoopOK, Has
<1>. QED BY <1>7, <1>8 DEF PlacesOK

LEMMA UpgradingHistory ==
    ASSUME LifecycleInv, HistoryInv, transitionToUpgradingState
    PROVE  PlacesOK'
<1> DEFINE l == IF Has("upgrading") THEN labels ELSE UpgradeBegun(labels)
           pc == IF "teardownCompleted" \in l.flags THEN "switch" ELSE "list"
<1>1. op \in Workers /\ labels \in NodeLabels BY Parts DEF LifecycleInv
<1>2. op.pc = "upgrading" /\ labels' = l /\ op' = [op EXCEPT !.flow = "upgrade", !.pc = pc]
  BY DEF transitionToUpgradingState
<1>3. l.active = labels.active /\ l.blocked = labels.blocked /\ "upgrading" \in l.flags
  BY <1>1 DEF UpgradeBegun, StatusCleaned, NodeLabels, Has
<1>4. pc \in {"switch", "list"} /\ (pc = "switch" <=> "teardownCompleted" \in l.flags) OBVIOUS
<1>5. Has("upgrading") => l = labels OBVIOUS
<1>. HIDE DEF l, pc
<1>6. /\ op'.pc = pc /\ op'.flow = "upgrade" /\ op'.snap = op.snap /\ op'.policy = op.policy
  BY <1>1, <1>2 DEF Workers
<1>7. LoopOK /\ labels.active # None /\ (op.snap.blocked # None \/ "upgrading" \in op.snap.flags)
  BY <1>2 DEF HistoryInv, PlacesOK, StageOK, AtWork, MoveOK
(* A move that is not begun in this pass goes on from where it was.        *)
<1>8. Elsewhere => Agree(labels, op.snap) /\ l = labels /\ pc = "switch"
  <2>. SUFFICES ASSUME Elsewhere PROVE Agree(labels, op.snap) /\ l = labels /\ pc = "switch"
    OBVIOUS
  <2>1. Has("upgrading") /\ Agree(labels, op.snap)
    BY <1>2, <1>7 DEF LoopOK, Looping, Elsewhere
  <2>2. labels.blocked = None BY <2>1 DEF Agree, Elsewhere
  <2>3. "teardownCompleted" \in labels.flags
    BY <2>1, <2>2 DEF HistoryInv, HistoryOK, Has
  <2>. QED BY <1>4, <1>5, <2>1, <2>3
<1>9. StageOK' BY <1>2, <1>3, <1>4, <1>6, <1>7 DEF StageOK, Adopting
<1>10. MoveOK' BY <1>2, <1>3, <1>4, <1>6, <1>8 DEF MoveOK, Upgrading, Elsewhere, Me, Has
<1>11. BackOK' BY <1>4, <1>6 DEF BackOK, RollingBack
<1>12. LoopOK' BY <1>2, <1>3, <1>6, <1>8 DEF LoopOK, Elsewhere, Me, Has
<1>. QED BY <1>9, <1>10, <1>11, <1>12 DEF PlacesOK

LEMMA SwitchingHistory ==
    ASSUME LifecycleInv, HistoryInv, updateSwVersionLabels
    PROVE  PlacesOK' /\ ~Elsewhere
<1>1. op \in Workers /\ labels \in NodeLabels /\ Me \in Policies
  BY Parts DEF LifecycleInv, PlaceOK, updateSwVersionLabels
<1>2. Me # None BY <1>1, NoneIsNotIn
<1>3. op.pc = "switch" /\ "teardownCompleted" \notin labels.flags BY DEF updateSwVersionLabels, Has
<1>4. Has("upgrading") /\ LoopOK BY <1>3 DEF HistoryInv, PlacesOK, MoveOK
<1>5. ~Elsewhere
  <2>1. labels.blocked # None BY <1>3, <1>4 DEF HistoryInv, HistoryOK, Has
  <2>. QED BY <1>3, <1>4, <2>1 DEF LoopOK, Looping, Elsewhere, Agree
<1>6. labels'.active = Me /\ "upgrading" \in labels'.flags
  BY <1>1, <1>4 DEF updateSwVersionLabels, Switched, NodeLabels, Has
<1>7. op'.pc = "enable" /\ op'.then = op.then /\ op'.snap = op.snap /\ op'.policy = op.policy
  BY <1>1, GotoFields DEF updateSwVersionLabels, PCs
<1>8. op.then # "adopt" BY <1>3 DEF LifecycleInv, WorkerOK
<1>9. StageOK' /\ BackOK' /\ MoveOK'
  BY <1>2, <1>6, <1>7, <1>8 DEF StageOK, BackOK, MoveOK, Adopting, RollingBack, Upgrading
<1>10. LoopOK' BY <1>5, <1>6, <1>7 DEF LoopOK, Elsewhere, Me, Has
<1>. QED BY <1>5, <1>9, <1>10 DEF PlacesOK

(* A rollback begins on a node that is here, or on its way here.           *)
LEMMA RollbackHistory ==
    ASSUME LifecycleInv, HistoryInv, BeginRollback
    PROVE  PlacesOK'
<1> DEFINE l == IF Has("rollingBackUpgrade") THEN labels ELSE RollbackBegun(labels)
           pc == IF "teardownCompleted" \in l.flags THEN "toPrior" ELSE "list"
<1>1. op \in Workers /\ labels \in NodeLabels /\ Me \in Policies
  BY Parts DEF LifecycleInv, PlaceOK, BeginRollback
<1>2. /\ op.pc = "rollback" /\ labels' = l
      /\ op' = [op EXCEPT !.prior = labels.prior, !.rsnap = l, !.flow = "rollback", !.pc = pc]
  BY DEF BeginRollback
<1>3. /\ l.active = labels.active /\ l.blocked = labels.blocked /\ l.prior = labels.prior
      /\ "upgrading" \in labels.flags => "upgrading" \in l.flags
      /\ "rollingBackUpgrade" \in l.flags
  BY <1>1 DEF RollbackBegun, StatusCleaned, NodeLabels, Has
<1>4. pc \in {"toPrior", "list"} OBVIOUS
<1>. HIDE DEF l, pc
<1>5. /\ op'.pc = pc /\ op'.flow = "rollback" /\ op'.snap = op.snap /\ op'.rsnap = l
      /\ op'.prior = labels.prior /\ op'.policy = op.policy
  BY <1>1, <1>2 DEF Workers
<1>6. LoopOK /\ labels.active # None BY <1>2 DEF HistoryInv, PlacesOK, StageOK, AtWork
<1>7. ~Elsewhere
  <2>1. isX100RunningWithPolicy(labels, Me) BY DEF BeginRollback, MayRollBack
  <2>. QED BY <1>2, <1>6, <2>1 DEF LoopOK, Looping, Elsewhere, Agree, isX100RunningWithPolicy
<1>8. Agree(labels', op'.rsnap) BY <1>2, <1>5, AgreesWithItself
<1>9. StageOK' BY <1>2, <1>3, <1>4, <1>5, <1>6 DEF StageOK, Adopting
<1>10. BackOK'
  BY <1>2, <1>3, <1>4, <1>5, <1>7, <1>8 DEF BackOK, Elsewhere, Me, Has
<1>11. MoveOK' BY <1>4, <1>5 DEF MoveOK, Upgrading
<1>12. LoopOK'
  BY <1>2, <1>3, <1>5, <1>6, <1>7 DEF LoopOK, Looping, Elsewhere, Me, Has
<1>. QED BY <1>9, <1>10, <1>11, <1>12 DEF PlacesOK

LEMMA RestoringHistory ==
    ASSUME LifecycleInv, HistoryInv, RestorePrior
    PROVE  PlacesOK'
<1>1. op \in Workers /\ labels \in NodeLabels /\ op.prior \in Policies
  BY Parts DEF LifecycleInv, PlaceOK, RestorePrior, RollingBack
<1>2. op.prior # None BY <1>1, NoneIsNotIn
<1>3. /\ op'.pc = "rolledBackLabel" /\ op'.snap = op.snap /\ op'.rsnap = labels'
      /\ op'.policy = op.policy
  BY <1>1 DEF RestorePrior, Workers
<1>4. /\ labels'.active = op.prior /\ labels'.flags = labels.flags
      /\ labels'.blocked = labels.blocked
  BY <1>1 DEF RestorePrior, Restored, NodeLabels
<1>5. Agree(labels', op'.rsnap) BY <1>3, AgreesWithItself
<1>6. LoopOK /\ ~Elsewhere BY DEF RestorePrior, HistoryInv, PlacesOK, BackOK, RollingBack
<1>7. StageOK' /\ BackOK' /\ MoveOK'
  BY <1>2, <1>3, <1>4, <1>5, <1>6 DEF StageOK, BackOK, MoveOK, Adopting, Upgrading, Elsewhere, Me
<1>8. LoopOK'
  BY <1>3, <1>4, <1>6 DEF RestorePrior, LoopOK, RollingBack, Elsewhere, Me, Has
<1>. QED BY <1>7, <1>8 DEF PlacesOK

LEMMA LabellingHistory ==
    ASSUME LifecycleInv, HistoryInv, LabelRolledBack
    PROVE  PlacesOK'
<1>1. op \in Workers /\ labels \in NodeLabels /\ op.rsnap \in NodeLabels BY Parts DEF LifecycleInv
<1>2. /\ op'.pc = "loop" /\ op'.snap = op.snap /\ op'.policy = op.policy /\ op.pc = "rolledBackLabel"
  BY <1>1 DEF LabelRolledBack, Workers
<1>3. Agree(labels, op.rsnap) /\ ~Elsewhere /\ LoopOK /\ labels.active # None
  BY <1>2 DEF HistoryInv, PlacesOK, BackOK, RollingBack, StageOK, AtWork
<1>4. "upgrading" \in op.rsnap.flags <=> "upgrading" \in labels.flags
  BY <1>3 DEF Agree
<1>5. /\ labels'.active = labels.active /\ labels'.blocked = labels.blocked
      /\ "upgrading" \in labels.flags => "upgrading" \in labels'.flags
  BY <1>1, <1>3, <1>4 DEF LabelRolledBack, Agree, NodeLabels
<1>6. StageOK' /\ BackOK' /\ MoveOK'
  BY <1>2, <1>3, <1>5 DEF StageOK, BackOK, MoveOK, Adopting, RollingBack, Upgrading
<1>7. LoopOK' BY <1>2, <1>3, <1>5 DEF LoopOK, RollingBack, Elsewhere, Me, Has
<1>. QED BY <1>6, <1>7 DEF PlacesOK

(* A call that fails leaves the node, or the flow it was in.               *)
LEMMA FailingHistory ==
    ASSUME LifecycleInv, HistoryInv, CallFails
    PROVE  PlacesOK'
<1>1. op \in Workers /\ labels' = labels BY Parts DEF LifecycleInv, CallFails
<1>2. CASE op' = Idle \/ op' = AtStatus BY <1>2, RestFields, RestingPlace DEF Resting
<1>3. ASSUME NEW pc \in LoggedAt, LogsError(pc), op' = [op EXCEPT !.pc = pc]
      PROVE  PlacesOK'
  <2>1. /\ op'.pc = pc /\ op'.snap = op.snap /\ op'.policy = op.policy BY <1>1, <1>3 DEF Workers
  <2>2. CASE pc # "adopt" BY <1>3, <2>1, <2>2, RestingPlace DEF LoggedAt, Resting
  <2>3. CASE pc = "adopt"
    <3>1. Adopting BY <1>3, <2>3 DEF LogsError, AdoptsAnyway, Adopting
    <3>2. labels'.active = None BY <1>1, <3>1 DEF HistoryInv, PlacesOK, StageOK
    <3>. QED BY <2>1, <2>3, <3>2 DEF PlacesOK, StageOK, BackOK, LoopOK, MoveOK, AtWork, Looping,
                                     RollingBack, Upgrading
  <2>. QED BY <2>2, <2>3
<1>4. CASE /\ op.pc = "rolledBackLabel"
           /\ op' = [op EXCEPT !.pc = "loop", !.rsnap = BareLabels, !.prior = None]
  <2>1. op'.pc = "loop" /\ op'.snap = op.snap /\ op'.policy = op.policy BY <1>1, <1>4 DEF Workers
  <2>2. ~Elsewhere /\ LoopOK /\ labels.active # None
    BY <1>4 DEF HistoryInv, PlacesOK, BackOK, RollingBack, StageOK, AtWork
  <2>3. StageOK' /\ BackOK' /\ MoveOK'
    BY <1>1, <2>1, <2>2 DEF StageOK, BackOK, MoveOK, Adopting, RollingBack, Upgrading
  <2>4. LoopOK' BY <1>1, <1>4, <2>1, <2>2 DEF LoopOK, RollingBack, Elsewhere, Me, Has
  <2>. QED BY <2>3, <2>4 DEF PlacesOK
<1>. QED BY <1>2, <1>3, <1>4, CallFailsFields DEF LifecycleInv

LEMMA OutsideHistory ==
    ASSUME LifecycleInv, HistoryInv, Outside
    PROVE  PlacesOK'
<1>1. labels \in NodeLabels BY Parts DEF LifecycleInv
<1>2. labels' \in {labels, [labels EXCEPT !.isolate = ~@], [labels EXCEPT !.pci = ~@]}
  BY DEF Outside, UserAssigns, UserDeletes, UserTogglesIsolate, PciLabelFlaps,
         NodeReboots, NodeComesUp, PodStep, PodCreated, PodUp, PodGone, PodFails, PodBecomes,
         TimerExpires, OperatorCrashes, CallFails
<1>3. OperatorCrashes \/ CallFails \/ op' = op BY OutsideParts
<1>4. CASE OperatorCrashes BY <1>4, RestingSteps
<1>6. CASE CallFails BY <1>6, FailingHistory
<1>5. CASE op' = op
  <2>1. labels'.active = labels.active /\ labels'.prior = labels.prior
        /\ labels'.blocked = labels.blocked /\ labels'.boot = labels.boot
        /\ labels'.flags = labels.flags
    BY <1>1, <1>2 DEF NodeLabels
  <2>2. Agree(labels', op.rsnap) <=> Agree(labels, op.rsnap) BY <2>1 DEF Agree
  <2>3. Agree(labels', op.snap) <=> Agree(labels, op.snap) BY <2>1 DEF Agree
  <2>. QED BY <1>5, <2>1, <2>2, <2>3
           DEF HistoryInv, PlacesOK, StageOK, BackOK, LoopOK, MoveOK, AtWork, Adopting, Looping,
               RollingBack, Upgrading, Elsewhere, Me, Has
<1>. QED BY <1>3, <1>4, <1>5, <1>6

LEMMA NextHistory ==
    ASSUME LifecycleInv, HistoryInv, ~StatusDropped, [Next]_vars
    PROVE  HistoryInv'
<1>1. HistoryOK(labels') BY WrittenHistory
<1>2. HeldMapsRead BY HeldMaps DEF LifecycleInv
<1>3. HistoryOK(op'.snap) /\ HistoryOK(op'.rsnap)
  BY <1>1, <1>2, BareHistory DEF HistoryInv, HeldMapsRead
<1>4. PlacesOK'
  <2>1. CASE OperatorStep
    BY <2>1, RestingSteps, EnablingHistory, DrainingHistory, LoopingHistory, ListingHistory,
       StartingHistory, TornDownHistory, BlockingHistory, UpgradingHistory, SwitchingHistory,
       RollbackHistory, RestoringHistory, LabellingHistory
    DEF OperatorStep
  <2>2. CASE \E p \in Policies : Reconcile(p) \/ ReconcileDeletion(p)
    BY <2>2, RestingSteps, DeletingHistory
  <2>3. CASE Outside BY <2>3, OutsideHistory
  <2>4. CASE UNCHANGED vars
    BY <2>4 DEF vars, HistoryInv, PlacesOK, StageOK, BackOK, LoopOK, MoveOK, AtWork, Adopting,
                Looping, RollingBack, Upgrading, Elsewhere, Me, Has
  <2>. QED BY <2>1, <2>2, <2>3, <2>4 DEF Next
<1>. QED BY <1>1, <1>3, <1>4 DEF HistoryInv

(* What a label map says of the node's version, as VersionHistory has it.  *)
VerdictOf(l) ==
    IF "bootStatusMarked" \notin l.flags THEN "pending"
    ELSE IF l.boot = "true" THEN "good" ELSE "bad"

SameVersion(l, m) == l.active = m.active /\ l.prior = m.prior /\ VerdictOf(l) = VerdictOf(m)

LEMMA StutterStep ==
    ASSUME SameVersion(labels', labels)
    PROVE  [History!Next]_(History!historyVars)
BY DEF SameVersion, VerdictOf, History!historyVars, Has

(* A write that takes the policy away, if there was one.                   *)
LEMMA WithdrawStep ==
    ASSUME LifecycleInv, HistoryInv, labels'.active = None, labels'.prior = None,
           "bootStatusMarked" \notin labels'.flags
    PROVE  [History!Next]_(History!historyVars)
<1>1. CASE labels.active = None
  <2>1. labels.prior = None BY <1>1 DEF HistoryInv, HistoryOK
  <2>2. "bootStatusMarked" \notin labels.flags BY <1>1 DEF LifecycleInv, MapOK, BareOK
  <2>. QED BY <1>1, <2>1, <2>2, StutterStep DEF SameVersion, VerdictOf
<1>2. CASE labels.active # None
  BY <1>2 DEF History!Next, History!Withdraw, Has
<1>. QED BY <1>1, <1>2

(* A write that takes the mark away, if there was one.                     *)
LEMMA ReopenStep ==
    ASSUME labels'.active = labels.active, labels'.prior = labels.prior,
           "bootStatusMarked" \notin labels'.flags
    PROVE  [History!Next]_(History!historyVars)
<1>1. CASE VerdictOf(labels) = "pending"
  BY <1>1, StutterStep DEF SameVersion, VerdictOf
<1>2. CASE VerdictOf(labels) # "pending"
  BY <1>2 DEF VerdictOf, History!Next, History!Reopen, Has
<1>. QED BY <1>1, <1>2

(* The steps of VersionHistory, in the order of the handlers.              *)
LEMMA AdoptionIsAdopt ==
    ASSUME LifecycleInv, HistoryInv, AdoptFirstPolicy
    PROVE  [History!Next]_(History!historyVars)
<1>1. op.snap \in NodeLabels /\ Me \in Policies
  BY Parts DEF LifecycleInv, PlaceOK, AdoptFirstPolicy
<1>2. labels.active = None /\ op.snap.active = None
  BY DEF AdoptFirstPolicy, HistoryInv, PlacesOK, StageOK, LifecycleInv, WorkerOK, Adopting
<1>3. "bootStatusMarked" \notin labels.flags /\ "bootStatusMarked" \notin op.snap.flags
  BY <1>2 DEF LifecycleInv, MapOK, BareOK
<1>4. /\ labels'.active = Me /\ labels'.prior = None
      /\ labels'.flags = (op.snap.flags \ {"ownerPolicyDeleted"}) \cup {"enablingFirstPolicy"}
  BY <1>1 DEF AdoptFirstPolicy, Adopted, NodeLabels
<1>5. "bootStatusMarked" \notin labels'.flags BY <1>3, <1>4
<1>6. History!Adopt(Me) BY <1>2, <1>3, <1>4, <1>5 DEF History!Adopt, Has
<1>. QED BY <1>1, <1>6 DEF History!Next

LEMMA SwitchIsUpgrade ==
    ASSUME LifecycleInv, HistoryInv, updateSwVersionLabels
    PROVE  [History!Next]_(History!historyVars)
<1>1. labels \in NodeLabels /\ Me \in Policies
  BY Parts DEF LifecycleInv, PlaceOK, updateSwVersionLabels
<1>2. labels.active # None /\ labels.active # Me /\ Has("upgrading")
  BY DEF updateSwVersionLabels, HistoryInv, PlacesOK, StageOK, AtWork, MoveOK
<1>3. "bootStatusMarked" \notin labels.flags
  BY <1>2 DEF LifecycleInv, MapOK, VerdictOK, InProgress, Has
<1>4. /\ labels'.active = Me /\ labels'.prior = labels.active
      /\ labels'.flags = labels.flags \cup {"teardownCompleted"}
  BY <1>1 DEF updateSwVersionLabels, Switched, NodeLabels
<1>5. "bootStatusMarked" \notin labels'.flags BY <1>3, <1>4
<1>6. History!Upgrade(Me) BY <1>2, <1>3, <1>4, <1>5 DEF History!Upgrade, Has
<1>. QED BY <1>1, <1>6 DEF History!Next

LEMMA RestoreIsRollBack ==
    ASSUME LifecycleInv, HistoryInv, RestorePrior
    PROVE  [History!Next]_(History!historyVars)
<1>1. labels \in NodeLabels /\ op.prior \in Policies
  BY Parts DEF LifecycleInv, PlaceOK, RestorePrior, RollingBack
<1>2. op.prior # None BY <1>1, NoneIsNotIn
<1>3. labels.active # None /\ labels.prior = op.prior /\ Has("rollingBackUpgrade")
  BY DEF RestorePrior, HistoryInv, PlacesOK, StageOK, AtWork, BackOK, RollingBack
<1>4. "bootStatusMarked" \notin labels.flags
  BY <1>3 DEF LifecycleInv, MapOK, VerdictOK, Has
<1>5. labels'.active = op.prior /\ labels'.prior = None /\ labels'.flags = labels.flags
  BY <1>1 DEF RestorePrior, Restored, NodeLabels
<1>6. History!RollBack BY <1>2, <1>3, <1>4, <1>5 DEF History!RollBack, Has
<1>. QED BY <1>6 DEF History!Next

LEMMA VerdictIsJudge ==
    ASSUME LifecycleInv, MarkVerdict
    PROVE  [History!Next]_(History!historyVars)
<1>1. labels \in NodeLabels /\ Me \in Policies
  BY Parts DEF LifecycleInv, PlaceOK, MarkVerdict
<1>2. labels.active # None
  BY <1>1, NoneIsNotIn DEF MarkVerdict, VerdictDue, isX100RunningWithPolicy, LifecycleInv,
                           MapOK, BareOK
<1>3. /\ labels'.active = labels.active /\ labels'.prior = labels.prior
      /\ "bootStatusMarked" \in labels'.flags
      /\ labels'.boot = "true" <=> labels.boot = "true"
  BY <1>1 DEF MarkVerdict, Verdict, NodeLabels
<1>4. CASE VerdictOf(labels) = "pending"
  BY <1>2, <1>3, <1>4 DEF VerdictOf, History!Next, History!Judge, Has
<1>5. CASE VerdictOf(labels) # "pending"
  BY <1>3, <1>5, StutterStep DEF SameVersion, VerdictOf
<1>. QED BY <1>4, <1>5

LEMMA ReopeningSteps ==
    ASSUME LifecycleInv, RebootScan \/ transitionToUpgradingState \/ BeginRollback
    PROVE  [History!Next]_(History!historyVars)
<1>1. labels \in NodeLabels /\ MapOK(labels) BY Parts DEF LifecycleInv
<1>2. CASE RebootScan
  <2>1. \/ SameVersion(labels', labels)
        \/ /\ labels'.active = labels.active /\ labels'.prior = labels.prior
           /\ "bootStatusMarked" \notin labels'.flags
    BY <1>1, <1>2, RebootWrites DEF SameVersion, VerdictOf
  <2>. QED BY <2>1, StutterStep, ReopenStep
<1>3. CASE transitionToUpgradingState
  <2>1. labels' = labels \/ labels' = UpgradeBegun(labels) BY <1>3 DEF transitionToUpgradingState
  <2>2. /\ UpgradeBegun(labels).active = labels.active /\ UpgradeBegun(labels).prior = labels.prior
        /\ "bootStatusMarked" \notin UpgradeBegun(labels).flags
    BY <1>1 DEF UpgradeBegun, StatusCleaned, NodeLabels
  <2>. QED BY <2>1, <2>2, StutterStep, ReopenStep DEF SameVersion
<1>4. CASE BeginRollback
  <2>1. labels' = labels \/ labels' = RollbackBegun(labels) BY <1>4 DEF BeginRollback
  <2>2. /\ RollbackBegun(labels).active = labels.active /\ RollbackBegun(labels).prior = labels.prior
        /\ "bootStatusMarked" \notin RollbackBegun(labels).flags
    BY <1>1 DEF RollbackBegun, StatusCleaned, NodeLabels
  <2>. QED BY <2>1, <2>2, StutterStep, ReopenStep DEF SameVersion
<1>. QED BY <1>2, <1>3, <1>4

LEMMA WithdrawingSteps ==
    ASSUME LifecycleInv, HistoryInv, AutoIsolate \/ labelX100Nodes \/ CleanOnDeletion
    PROVE  [History!Next]_(History!historyVars)
<1> DEFINE bare(l) == cleanupStaleSelectorLabels(cleanupStaleCRLabels(l))
<1>1. labels \in NodeLabels /\ op.snap \in NodeLabels BY Parts DEF LifecycleInv
<1>2. \A l \in NodeLabels : bare(l) \in NodeLabels BY CleanTypes
<1>3. \A l \in NodeLabels : bare(l).active = None /\ bare(l).prior = None /\ bare(l).flags = {}
  BY DEF cleanupStaleSelectorLabels, cleanupStaleCRLabels, NodeLabels
<1>4. \/ labels' \in {labels, [bare(labels) EXCEPT !.present = "false"],
                      [bare(labels) EXCEPT !.isolate = TRUE]}
      \/ \E s \in {"absent", "true", labels.present} : labels' = [labels EXCEPT !.present = s]
      \/ \E s \in {"true", "false"} :
              labels' = [bare(op.snap) EXCEPT !.present = s, !.flags = {"ownerPolicyDeleted"}]
  BY DEF AutoIsolate, labelX100Nodes, Withdrawn, CleanOnDeletion
<1>. HIDE DEF bare
<1>5. CASE labels' = labels BY <1>5, StutterStep DEF SameVersion
<1>6. CASE \E s \in {"absent", "true", labels.present} : labels' = [labels EXCEPT !.present = s]
  <2>1. SameVersion(labels', labels) BY <1>1, <1>6 DEF NodeLabels, SameVersion, VerdictOf
  <2>. QED BY <2>1, StutterStep
<1>7. CASE labels' \in {[bare(labels) EXCEPT !.present = "false"], [bare(labels) EXCEPT !.isolate = TRUE]}
  <2>1. labels'.active = None /\ labels'.prior = None /\ labels'.flags = {}
    BY <1>1, <1>2, <1>3, <1>7 DEF NodeLabels
  <2>. QED BY <2>1, WithdrawStep
<1>8. CASE \E s \in {"true", "false"} :
              labels' = [bare(op.snap) EXCEPT !.present = s, !.flags = {"ownerPolicyDeleted"}]
  <2>1. labels'.active = None /\ labels'.prior = None /\ labels'.flags = {"ownerPolicyDeleted"}
    BY <1>1, <1>2, <1>3, <1>8 DEF NodeLabels
  <2>. QED BY <2>1, WithdrawStep
<1>. QED BY <1>4, <1>5, <1>6, <1>7, <1>8

(* The writes of older maps, none of which may change the version.         *)
LEMMA StaleWritesStutter ==
    ASSUME LifecycleInv, HistoryInv, ~StatusDropped,
           MarkTornDown \/ BlockAggregation \/ RolledBack \/ LabelRolledBack
    PROVE  SameVersion(labels', labels)
<1>1. /\ op \in Workers /\ labels \in NodeLabels
      /\ op.snap \in NodeLabels /\ op.rsnap \in NodeLabels
  BY Parts DEF LifecycleInv
<1>2. \A l, m : Agree(l, m) => ("bootStatusMarked" \in l.flags <=> "bootStatusMarked" \in m.flags)
  BY DEF Agree
<1>3. CASE MarkTornDown /\ op.flow = "rollback"
  <2>1. Agree(labels, op.rsnap)
    BY <1>3 DEF MarkTornDown, HistoryInv, PlacesOK, BackOK, RollingBack
  <2>2. labels' = [op.rsnap EXCEPT !.flags = @ \cup {"teardownCompleted"}]
    BY <1>3 DEF MarkTornDown
  <2>3. Agree(labels', labels) BY <1>1, <2>1, <2>2 DEF Agree, NodeLabels
  <2>. QED BY <1>2, <2>3 DEF SameVersion, VerdictOf, Agree
<1>4. CASE MarkTornDown /\ op.flow # "rollback"
  <2>1. labels' = [labels EXCEPT !.flags = @ \cup {"teardownCompleted"}]
    BY <1>4 DEF MarkTornDown
  <2>. QED BY <1>1, <2>1 DEF NodeLabels, SameVersion, VerdictOf
<1>5. CASE BlockAggregation
  <2>1. Agree(labels, op.snap)
    BY <1>5 DEF BlockAggregation, HistoryInv, PlacesOK, MoveOK, LoopOK, Looping
  <2>2. labels' = [op.snap EXCEPT !.blocked = Me] BY <1>5 DEF BlockAggregation
  <2>3. /\ labels'.active = labels.active /\ labels'.prior = labels.prior
        /\ labels'.boot = labels.boot /\ labels'.flags = op.snap.flags
    BY <1>1, <2>1, <2>2 DEF Agree, NodeLabels
  <2>. QED BY <1>2, <2>1, <2>3 DEF SameVersion, VerdictOf
<1>6. CASE RolledBack BY <1>6 DEF RolledBack, StatusDropped, SameVersion
<1>7. CASE LabelRolledBack
  <2>1. Agree(labels, op.rsnap)
    BY <1>7 DEF LabelRolledBack, HistoryInv, PlacesOK, BackOK, RollingBack
  <2>2. CASE "rollingBackUpgrade" \in op.rsnap.flags
    <3>1. labels' = [op.rsnap EXCEPT !.flags = (@ \ {"rollingBackUpgrade"}) \cup {"rolledBack"}]
      BY <1>7, <2>2 DEF LabelRolledBack
    <3>2. /\ labels'.active = labels.active /\ labels'.prior = labels.prior
          /\ labels'.boot = labels.boot
          /\ "bootStatusMarked" \in labels'.flags <=> "bootStatusMarked" \in op.rsnap.flags
      BY <1>1, <2>1, <3>1 DEF Agree, NodeLabels
    <3>. QED BY <1>2, <2>1, <3>2 DEF SameVersion, VerdictOf
  <2>3. CASE "rollingBackUpgrade" \notin op.rsnap.flags
    BY <1>7, <2>3 DEF LabelRolledBack, SameVersion
  <2>. QED BY <2>2, <2>3
<1>. QED BY <1>3, <1>4, <1>5, <1>6, <1>7

LEMMA OtherStepsStutter ==
    ASSUME LifecycleInv,
           \/ NoReboot \/ HoldReboot \/ Aggregate \/ PassOver
           \/ StartAdoption \/ StartEnabling \/ StartReboot \/ StartLoop
           \/ EnableNext \/ AllEnabled \/ EnableFails
           \/ ListPods \/ NothingToDrain \/ Drain \/ DrainLast \/ DrainPending \/ LoopDone
           \/ (\E cr \in Policies : LeaveOldPolicy(cr) \/ KeepMoving(cr) \/ ResumeUnfinished(cr))
           \/ AlreadySwitched \/ IncorrectPolicy \/ SkipRollback \/ ListUnderPrior
           \/ UnlistFromPolicy \/ AfterLabels \/ ReadBootStatus \/ SkipBootStatus \/ NoVerdict
           \/ ClearTimers \/ FinalizePolicy
           \/ (\E p \in Policies : Reconcile(p) \/ ReconcileDeletion(p))
           \/ Outside
    PROVE  SameVersion(labels', labels)
<1>1. labels \in NodeLabels BY Parts DEF LifecycleInv
<1>2. CASE \/ NoReboot \/ HoldReboot \/ Aggregate \/ PassOver
           \/ StartAdoption \/ StartEnabling \/ StartReboot \/ StartLoop
           \/ AllEnabled \/ EnableFails \/ ListPods \/ NothingToDrain \/ LoopDone
           \/ (\E cr \in Policies : LeaveOldPolicy(cr) \/ KeepMoving(cr) \/ ResumeUnfinished(cr))
           \/ AlreadySwitched \/ IncorrectPolicy \/ SkipRollback \/ ListUnderPrior
           \/ UnlistFromPolicy \/ AfterLabels \/ SkipBootStatus \/ NoVerdict \/ ClearTimers
           \/ (\E p \in Policies : Reconcile(p) \/ ReconcileDeletion(p))
  <2>1. labels' = labels
    BY <1>2 DEF NoReboot, HoldReboot, Aggregate, PassOver, StartAdoption, StartEnabling,
       StartReboot, StartLoop, AllEnabled, EnableFails, ListPods, NothingToDrain, LoopDone,
       LeaveOldPolicy, KeepMoving, ResumeUnfinished, AlreadySwitched, IncorrectPolicy,
       SkipRollback, ListUnderPrior, UnlistFromPolicy, AfterLabels, SkipBootStatus,
       NoVerdict, ClearTimers, Reconcile, ReconcileDeletion
  <2>. QED BY <2>1 DEF SameVersion
<1>3. CASE EnableNext \/ Drain \/ DrainLast \/ DrainPending
  BY <1>1, <1>3 DEF EnableNext, Drain, DrainLast, DrainPending, DrainsSelector, NodeLabels,
                    SameVersion, VerdictOf
<1>4. CASE ReadBootStatus
  <2>1. "bootStatusMarked" \notin labels.flags
    BY <1>4 DEF ReadBootStatus, LabelsEligibleForBootStatusCheck
  <2>2. /\ labels'.active = labels.active /\ labels'.prior = labels.prior
        /\ labels'.flags = labels.flags
    BY <1>1, <1>4 DEF ReadBootStatus, NodeLabels
  <2>. QED BY <2>1, <2>2 DEF SameVersion, VerdictOf
<1>5. CASE FinalizePolicy
  BY <1>1, <1>5 DEF FinalizePolicy, NodeLabels, SameVersion, VerdictOf
<1>6. CASE Outside
  <2>1. labels' \in {labels, [labels EXCEPT !.isolate = ~@], [labels EXCEPT !.pci = ~@]}
    BY <1>6 DEF Outside, UserAssigns, UserDeletes, UserTogglesIsolate, PciLabelFlaps,
         NodeReboots, NodeComesUp, PodStep, PodCreated, PodUp, PodGone, PodFails, PodBecomes,
         TimerExpires, OperatorCrashes, CallFails
  <2>. QED BY <1>1, <2>1 DEF NodeLabels, SameVersion, VerdictOf
<1>. QED BY <1>2, <1>3, <1>4, <1>5, <1>6

LEMMA HistoryStep ==
    ASSUME LifecycleInv, HistoryInv, ~StatusDropped, [Next]_vars
    PROVE  [History!Next]_(History!historyVars)
<1>1. CASE UNCHANGED vars BY <1>1, StutterStep DEF vars, SameVersion
<1>2. CASE Next
  BY <1>2, AdoptionIsAdopt, SwitchIsUpgrade, RestoreIsRollBack, VerdictIsJudge, ReopeningSteps,
     WithdrawingSteps, StaleWritesStutter, OtherStepsStutter, StutterStep
  DEF Next, OperatorStep
<1>. QED BY <1>1, <1>2

LEMMA InitHistory == Init => HistoryInv /\ History!Init
<1>. SUFFICES ASSUME Init PROVE HistoryInv /\ History!Init
  OBVIOUS
<1>1. HistoryOK(labels) /\ HistoryOK(op.snap) /\ HistoryOK(op.rsnap)
  BY BareHistory DEF Init, Idle
<1>2. PlacesOK BY DEF Init, Idle, PlacesOK, StageOK, BackOK, LoopOK, MoveOK, AtWork, Adopting,
                      Looping, RollingBack, Upgrading
<1>3. History!Init BY DEF Init, BareLabels, History!Init, Has
<1>. QED BY <1>1, <1>2, <1>3 DEF HistoryInv

(* One write stands between the code and the history: the one that drops a *)
(* boot status found on a rolled-back node, which writes a whole older map *)
(* without a look at what the pass has done since.                         *)
THEOREM HistoryUnlessDropped == Spec /\ []~StatusDropped => ImplementsHistory
<1>1. Init => HistoryInv /\ History!Init BY InitHistory
<1>2. LifecycleInv /\ HistoryInv /\ ~StatusDropped /\ [Next]_vars => HistoryInv' BY NextHistory
<1>3. LifecycleInv /\ HistoryInv /\ ~StatusDropped /\ [Next]_vars
        => [History!Next]_(History!historyVars)
  BY HistoryStep
<1>. QED BY LabelsConsistent, <1>1, <1>2, <1>3, PTL DEF Spec, ImplementsHistory, History!Spec

-----------------------------------------------------------------------------
(* When RolledBack has no status to drop.  It resumes on the mark of a     *)
(* rollback in the map of the loop, which a map with a verdict never has.  *)
(* So what it drops is a status that was read and not yet judged, and the  *)
(* pass that reads a status judges it: only a crash, or the failure of the *)
(* write of the verdict, comes in between.                                 *)
ResumesOnMark ==
    op.pc = "rolledBack" \/ op.then = "rolledBack" =>
        "rolledBack" \in op.snap.flags /\ (Looping \/ RollingBack)

LEMMA FreshResumes ==
    ASSUME op'.pc # "rolledBack", op'.then # "rolledBack"
    PROVE  ResumesOnMark'
BY DEF ResumesOnMark

LEMMA RestingResumes ==
    ASSUME LifecycleInv, ResumesOnMark,
           \/ NoReboot \/ HoldReboot \/ RebootScan \/ AutoIsolate \/ labelX100Nodes \/ Aggregate
           \/ PassOver \/ AdoptFirstPolicy \/ DrainPending \/ LoopDone \/ IncorrectPolicy
           \/ AfterLabels \/ ReadBootStatus \/ SkipBootStatus \/ MarkVerdict \/ NoVerdict
           \/ ClearTimers \/ CleanOnDeletion \/ FinalizePolicy
           \/ (\E p \in Policies : Reconcile(p)) \/ OperatorCrashes
    PROVE  ResumesOnMark'
<1>1. op \in Workers BY Parts DEF LifecycleInv
<1>2. \/ op' = Idle \/ EndPass
      \/ \E pc \in Resting, p \in PolicyOrNone : op' = [Idle EXCEPT !.pc = pc, !.policy = p]
      \/ Goto("status")
      \/ op.then # "rolledBack" /\ \E pc \in Resting : Goto(pc)
  <2>1. CASE \/ NoReboot \/ RebootScan \/ AutoIsolate \/ labelX100Nodes \/ Aggregate
             \/ ReadBootStatus \/ SkipBootStatus \/ MarkVerdict
    <3>1. op.pc \in {"scan", "isolate", "label", "aggregate", "boot", "mark"}
      BY <2>1 DEF NoReboot, RebootScan, AutoIsolate, labelX100Nodes, Aggregate, ReadBootStatus,
                  SkipBootStatus, MarkVerdict
    <3>2. op.then # "rolledBack" BY <3>1 DEF ResumesOnMark, Looping, RollingBack
    <3>. QED BY <2>1, <3>2 DEF NoReboot, RebootScan, AutoIsolate, labelX100Nodes, Aggregate,
                  ReadBootStatus, SkipBootStatus, MarkVerdict, Resting
  <2>2. CASE PassOver \/ AdoptFirstPolicy \/ DrainPending \/ LoopDone \/ IncorrectPolicy
    BY <2>2 DEF PassOver, AdoptFirstPolicy, DrainPending, LoopDone, IncorrectPolicy
  <2>3. CASE \/ HoldReboot \/ AfterLabels \/ NoVerdict \/ ClearTimers \/ CleanOnDeletion
             \/ FinalizePolicy \/ (\E p \in Policies : Reconcile(p)) \/ OperatorCrashes
    BY <2>3, Parts DEF LifecycleInv, HoldReboot, AfterLabels, NoVerdict, ClearTimers,
       CleanOnDeletion, FinalizePolicy, Reconcile, OperatorCrashes, Me, Resting, PolicyOrNone
  <2>. QED BY <2>1, <2>2, <2>3
<1>3. CASE op' = Idle BY <1>3, FreshResumes DEF Idle
<1>4. CASE EndPass
  <2>1. op'.pc \in {"idle", "isolate"} /\ op'.then = "status" BY <1>1, <1>4, EndPassFields DEF Idle
  <2>. QED BY <2>1, FreshResumes
<1>5. CASE \E pc \in Resting, p \in PolicyOrNone : op' = [Idle EXCEPT !.pc = pc, !.policy = p]
  <2>1. op'.pc \in Resting /\ op'.then = "status" BY <1>5, FreshTypes DEF Resting, PCs
  <2>. QED BY <2>1, FreshResumes DEF Resting
<1>6. CASE Goto("status")
  <2>1. op'.pc = "status" /\ op'.then = "status" BY <1>1, <1>6, GotoFields DEF PCs
  <2>. QED BY <2>1, FreshResumes
<1>7. CASE op.then # "rolledBack" /\ \E pc \in Resting : Goto(pc)
  <2>1. op'.pc \in Resting /\ op'.then \in {op.then, "status"}
    BY <1>1, <1>7, GotoFields DEF Resting, PCs
  <2>. QED BY <1>7, <2>1, FreshResumes DEF Resting
<1>. QED BY <1>2, <1>3, <1>4, <1>5, <1>6, <1>7

(* Steps of the loop and of the rollback, which keep the map's flags.      *)
LEMMA CarriedResumes ==
    ASSUME ResumesOnMark, op'.snap.flags = op.snap.flags,
           op'.then = op.then, op'.pc = "rolledBack" => op.then = "rolledBack",
           op.then = "rolledBack" => (Looping \/ RollingBack)'
    PROVE  ResumesOnMark'
<1>1. op'.pc = "rolledBack" \/ op'.then = "rolledBack" => op.then = "rolledBack" OBVIOUS
<1>2. op.then = "rolledBack" => "rolledBack" \in op'.snap.flags BY DEF ResumesOnMark
<1>. QED BY <1>1, <1>2 DEF ResumesOnMark

LEMMA FlowResumes ==
    ASSUME LifecycleInv, ResumesOnMark,
           \/ EnableNext \/ AllEnabled \/ EnableFails
           \/ ListPods \/ NothingToDrain \/ Drain \/ DrainLast \/ MarkTornDown
           \/ StartAdoption \/ StartEnabling \/ StartReboot \/ StartLoop
    PROVE  ResumesOnMark'
<1>1. op \in Workers /\ op.then \in {"status", "adopt", "loop", "rolledBack"} /\ op.flow \in Flows
  BY Parts DEF LifecycleInv
<1>2. CASE EnableNext \/ AllEnabled \/ EnableFails
  <2>1. PICK pc \in {"status", "adopt", "loop", "rolledBack"} :
             op.pc = "enable" /\ Goto(pc) /\ (pc = op.then \/ pc = "status" \/ (pc = "adopt" /\ op.then = "adopt"))
    BY <1>1, <1>2 DEF EnableNext, AllEnabled, EnableFails
  <2>2. CASE pc = "status"
    BY <1>1, <2>1, <2>2, GotoFields, FreshResumes DEF PCs
  <2>3. CASE pc # "status"
    <3>1. op'.pc = pc /\ op'.then = op.then /\ op'.snap = op.snap /\ pc = op.then
      BY <1>1, <2>1, <2>3, GotoFields DEF PCs
    <3>. QED BY <3>1, CarriedResumes DEF Looping
  <2>. QED BY <2>2, <2>3
<1>3. CASE ListPods \/ NothingToDrain \/ Drain \/ DrainLast
  <2>1. /\ op.pc \in {"list", "drain"} /\ op'.then = op.then /\ op'.snap = op.snap
        /\ op'.flow = op.flow
        /\ op'.pc \in IF op.flow = "upgrade" THEN {"drain", "switch"} ELSE {"drain", "torn"}
    <3>1. CASE ListPods \/ Drain BY <1>1, <3>1 DEF ListPods, Drain, DrainsSelector, Workers
    <3>2. CASE NothingToDrain \/ DrainLast
      <4>1. AfterTeardown \in PCs \ {"status"} /\ Goto(AfterTeardown) /\ op.pc \in {"list", "drain"}
        BY <3>2 DEF NothingToDrain, DrainLast, DrainsSelector, AfterTeardown, PCs
      <4>. QED BY <1>1, <4>1, GotoFields DEF AfterTeardown
    <3>. QED BY <1>3, <3>1, <3>2
  <2>2. op.then = "rolledBack" => op.flow \in {"upgrade", "rollback"}
    BY <2>1 DEF ResumesOnMark, Looping, RollingBack
  <2>3. op.then = "rolledBack" => (Looping \/ RollingBack)'
    BY <2>1, <2>2 DEF Looping, RollingBack
  <2>. QED BY <2>1, <2>3, CarriedResumes
<1>4. CASE MarkTornDown
  <2>1. op.pc = "torn" /\ op.flow \in {"rollback", "reboot", "delete"}
    BY <1>4, Parts DEF MarkTornDown, LifecycleInv, PlaceOK, Flows
  <2>2. PICK pc \in {"toPrior", "enable", "clean"} :
             Goto(pc) /\ (op.flow = "rollback" => pc = "toPrior")
    BY <1>4, <2>1 DEF MarkTornDown
  <2>3. op'.pc = pc /\ op'.then = op.then /\ op'.snap = op.snap
    BY <1>1, <2>2, GotoFields DEF PCs
  <2>4. op.then = "rolledBack" => op.flow = "rollback"
    BY <2>1 DEF ResumesOnMark, Looping, RollingBack
  <2>. QED BY <2>2, <2>3, <2>4, CarriedResumes DEF RollingBack
<1>5. CASE StartAdoption \/ StartEnabling \/ StartReboot \/ StartLoop
  <2>1. op.pc = "pass" BY <1>5 DEF StartAdoption, StartEnabling, StartReboot, StartLoop
  <2>2. op.then # "rolledBack" BY <2>1 DEF ResumesOnMark, Looping, RollingBack
  <2>3. op'.pc # "rolledBack" /\ op'.then # "rolledBack"
    BY <1>1, <1>5, <2>2 DEF StartAdoption, StartEnabling, StartReboot, StartLoop, Workers
  <2>. QED BY <2>3, FreshResumes
<1>. QED BY <1>2, <1>3, <1>4, <1>5

LEMMA LoopResumes ==
    ASSUME LifecycleInv, ResumesOnMark,
           \/ (\E cr \in Policies : LeaveOldPolicy(cr) \/ KeepMoving(cr) \/ ResumeUnfinished(cr))
           \/ BlockAggregation \/ transitionToUpgradingState
           \/ updateSwVersionLabels \/ AlreadySwitched \/ RolledBack
           \/ SkipRollback \/ BeginRollback \/ ListUnderPrior \/ UnlistFromPolicy
           \/ RestorePrior \/ LabelRolledBack
    PROVE  ResumesOnMark'
<1>1. op \in Workers /\ op.snap \in NodeLabels BY Parts DEF LifecycleInv
<1>2. CASE \E cr \in Policies : LeaveOldPolicy(cr) \/ KeepMoving(cr)
  <2>1. op'.pc # "rolledBack" /\ op'.then = "loop"
    BY <1>1, <1>2 DEF LeaveOldPolicy, KeepMoving, Workers
  <2>. QED BY <2>1, FreshResumes
<1>3. CASE \E cr \in Policies : ResumeUnfinished(cr)
  <2>1. /\ op'.pc \in {"upgrading", "rolledBack", "loop"} /\ op'.snap = op.snap
        /\ op'.pc = "rolledBack" \/ op'.then = "rolledBack" => "rolledBack" \in op.snap.flags
    BY <1>1, <1>3 DEF ResumeUnfinished, Workers
  <2>. QED BY <2>1 DEF ResumesOnMark, Looping
<1>4. CASE BlockAggregation
  <2>1. op'.pc = "upgrading" /\ op'.then = op.then /\ op'.snap = [op.snap EXCEPT !.blocked = Me]
    BY <1>1, <1>4 DEF BlockAggregation, Workers
  <2>2. op'.snap.flags = op.snap.flags BY <1>1, <2>1 DEF NodeLabels
  <2>. QED BY <2>1, <2>2, CarriedResumes DEF Looping
<1>5. CASE transitionToUpgradingState
  <2>1. op'.pc \in {"switch", "list"} /\ op'.flow = "upgrade" /\ op'.then = op.then
        /\ op'.snap = op.snap
    BY <1>1, <1>5 DEF transitionToUpgradingState, Workers
  <2>. QED BY <2>1, CarriedResumes DEF Looping
<1>6. CASE updateSwVersionLabels \/ AlreadySwitched \/ SkipRollback
  <2>1. PICK pc \in {"enable", "loop"} : Goto(pc)
    BY <1>6 DEF updateSwVersionLabels, AlreadySwitched, SkipRollback
  <2>2. op'.pc = pc /\ op'.then = op.then /\ op'.snap = op.snap
    BY <1>1, <2>1, GotoFields DEF PCs
  <2>. QED BY <2>2, CarriedResumes DEF Looping
<1>7. CASE RolledBack
  <2>1. CASE op' = Idle BY <2>1, FreshResumes DEF Idle
  <2>2. CASE op' = [op EXCEPT !.pc = "enable", !.then = "loop"]
    BY <1>1, <2>2, FreshResumes DEF Workers
  <2>. QED BY <1>7, <2>1, <2>2 DEF RolledBack
<1>8. CASE BeginRollback
  <2>1. op'.pc \in {"toPrior", "list"} /\ op'.flow = "rollback" /\ op'.then = op.then
        /\ op'.snap = op.snap
    BY <1>1, <1>8 DEF BeginRollback, Workers
  <2>. QED BY <2>1, CarriedResumes DEF RollingBack
<1>9. CASE ListUnderPrior \/ UnlistFromPolicy
  <2>1. PICK pc \in {"status", "fromPolicy", "restore"} : Goto(pc)
    BY <1>9 DEF ListUnderPrior, UnlistFromPolicy
  <2>2. CASE pc = "status" BY <1>1, <2>1, <2>2, GotoFields, FreshResumes DEF PCs
  <2>3. CASE pc # "status"
    <3>1. op'.pc = pc /\ op'.then = op.then /\ op'.snap = op.snap
      BY <1>1, <2>1, <2>3, GotoFields DEF PCs
    <3>. QED BY <2>3, <3>1, CarriedResumes DEF RollingBack
  <2>. QED BY <2>2, <2>3
<1>10. CASE RestorePrior \/ LabelRolledBack
  <2>1. op'.pc \in {"rolledBackLabel", "loop"} /\ op'.then = op.then /\ op'.snap = op.snap
    BY <1>1, <1>10 DEF RestorePrior, LabelRolledBack, Workers
  <2>. QED BY <2>1, CarriedResumes DEF RollingBack, Looping
<1>. QED BY <1>2, <1>3, <1>4, <1>5, <1>6, <1>7, <1>8, <1>9, <1>10

LEMMA FailingResumes ==
    ASSUME LifecycleInv, ResumesOnMark, CallFails
    PROVE  ResumesOnMark'
<1>1. op \in Workers BY Parts DEF LifecycleInv
<1>2. CASE op' = Idle \/ op' = AtStatus BY <1>2, RestFields, FreshResumes
<1>3. ASSUME NEW pc \in LoggedAt, LogsError(pc), op' = [op EXCEPT !.pc = pc]
      PROVE  ResumesOnMark'
  <2>1. op'.pc = pc /\ op'.then = op.then BY <1>1, <1>3 DEF Workers
  <2>2. op.then # "rolledBack"
    BY <1>3 DEF LogsError, AdoptsAnyway, Deleting, ResumesOnMark, Looping, RollingBack
  <2>. QED BY <2>1, <2>2, FreshResumes DEF LoggedAt
<1>4. CASE op' = [op EXCEPT !.pc = "loop", !.rsnap = BareLabels, !.prior = None]
  <2>1. op'.pc = "loop" /\ op'.then = op.then /\ op'.snap = op.snap BY <1>1, <1>4 DEF Workers
  <2>. QED BY <2>1, CarriedResumes DEF Looping
<1>. QED BY <1>2, <1>3, <1>4, CallFailsFields DEF LifecycleInv

LEMMA NextResumes ==
    ASSUME LifecycleInv, ResumesOnMark, [Next]_vars
    PROVE  ResumesOnMark'
<1>1. CASE OperatorStep BY <1>1, RestingResumes, FlowResumes, LoopResumes DEF OperatorStep
<1>2. CASE \E p \in Policies : Reconcile(p) BY <1>2, RestingResumes
<1>3. CASE \E p \in Policies : ReconcileDeletion(p)
  BY <1>3, FreshResumes DEF ReconcileDeletion, Idle
<1>4. CASE Outside
  <2>1. OperatorCrashes \/ CallFails \/ op' = op BY <1>4, OutsideParts
  <2>. QED BY <2>1, RestingResumes, FailingResumes DEF ResumesOnMark, Looping, RollingBack
<1>5. CASE UNCHANGED vars BY <1>5 DEF vars, ResumesOnMark, Looping, RollingBack
<1>. QED BY <1>1, <1>2, <1>3, <1>4, <1>5 DEF Next

(* A verdict that is due is not written: its call fails, which is only     *)
(* logged, or the operator crashes before it.                              *)
VerdictLost == op.pc = "mark" /\ VerdictDue /\ (OperatorCrashes \/ CallFails)

(* A good status is either judged or about to be, by the pass that read it.*)
Known(l) == l.boot = "true" => "bootStatusMarked" \in l.flags

KnownInv ==
    /\ op.pc # "mark" => Known(labels)
    /\ op.pc = "mark" => Known(labels) \/ isX100RunningWithPolicy(labels, Me)
    /\ Known(op.snap) /\ Known(op.rsnap)
    /\ ResumesOnMark

LEMMA BareKnown == Known(BareLabels)
BY DEF Known, BareLabels

LEMMA KnownWrites ==
    ASSUME LifecycleInv, Known(labels), Known(op.snap), Known(op.rsnap), [Next]_vars
    PROVE  Known(labels') \/ ReadBootStatus
<1>1. op \in Workers /\ labels \in NodeLabels /\ op.snap \in NodeLabels /\ op.rsnap \in NodeLabels
  BY Parts DEF LifecycleInv
<1>2. CASE \/ NoReboot \/ HoldReboot \/ Aggregate \/ PassOver
           \/ StartAdoption \/ StartEnabling \/ StartReboot \/ StartLoop
           \/ AllEnabled \/ EnableFails \/ ListPods \/ NothingToDrain \/ LoopDone
           \/ (\E cr \in Policies : LeaveOldPolicy(cr) \/ KeepMoving(cr) \/ ResumeUnfinished(cr))
           \/ AlreadySwitched \/ IncorrectPolicy \/ SkipRollback \/ ListUnderPrior
           \/ UnlistFromPolicy \/ AfterLabels \/ SkipBootStatus \/ NoVerdict \/ ClearTimers
  BY <1>2 DEF NoReboot, HoldReboot, Aggregate, PassOver, StartAdoption, StartEnabling,
       StartReboot, StartLoop, AllEnabled, EnableFails, ListPods, NothingToDrain, LoopDone,
       LeaveOldPolicy, KeepMoving, ResumeUnfinished, AlreadySwitched, IncorrectPolicy,
       SkipRollback, ListUnderPrior, UnlistFromPolicy, AfterLabels, SkipBootStatus,
       NoVerdict, ClearTimers
<1>3. CASE EnableNext \/ Drain \/ DrainLast \/ DrainPending
  BY <1>1, <1>3 DEF EnableNext, Drain, DrainLast, DrainPending, DrainsSelector, NodeLabels, Known
<1>4. CASE AutoIsolate \/ labelX100Nodes
  BY <1>1, <1>4 DEF AutoIsolate, labelX100Nodes, Withdrawn, cleanupStaleSelectorLabels,
                    cleanupStaleCRLabels, NodeLabels, Known
<1>5. CASE CleanOnDeletion
  BY <1>1, <1>5 DEF CleanOnDeletion, cleanupStaleSelectorLabels, cleanupStaleCRLabels, NodeLabels,
                    Known
<1>6. CASE RebootScan BY <1>1, <1>6 DEF RebootScan, cleanupLabelsOnReboot, NodeLabels, Known
<1>7. CASE AdoptFirstPolicy BY <1>1, <1>7 DEF AdoptFirstPolicy, Adopted, NodeLabels, Known
<1>8. CASE MarkTornDown BY <1>1, <1>8 DEF MarkTornDown, NodeLabels, Known
<1>9. CASE BlockAggregation BY <1>1, <1>9 DEF BlockAggregation, NodeLabels, Known
<1>10. CASE RolledBack BY <1>1, <1>10 DEF RolledBack, StatusCleaned, NodeLabels, Known
<1>11. CASE LabelRolledBack BY <1>1, <1>11 DEF LabelRolledBack, NodeLabels, Known
<1>12. CASE transitionToUpgradingState
  BY <1>1, <1>12 DEF transitionToUpgradingState, UpgradeBegun, StatusCleaned, NodeLabels, Known
<1>13. CASE updateSwVersionLabels
  BY <1>1, <1>13 DEF updateSwVersionLabels, Switched, NodeLabels, Known
<1>14. CASE BeginRollback
  BY <1>1, <1>14 DEF BeginRollback, RollbackBegun, StatusCleaned, NodeLabels, Known
<1>15. CASE RestorePrior BY <1>1, <1>15 DEF RestorePrior, Restored, NodeLabels, Known
<1>16. CASE MarkVerdict BY <1>1, <1>16 DEF MarkVerdict, Verdict, NodeLabels, Known
<1>17. CASE FinalizePolicy BY <1>1, <1>17 DEF FinalizePolicy, NodeLabels, Known
<1>18. CASE \E p \in Policies : Reconcile(p) \/ ReconcileDeletion(p)
  BY <1>18 DEF Reconcile, ReconcileDeletion
<1>19. CASE Outside
  <2>1. labels' \in {labels, [labels EXCEPT !.isolate = ~@], [labels EXCEPT !.pci = ~@]}
    BY <1>19 DEF Outside, UserAssigns, UserDeletes, UserTogglesIsolate, PciLabelFlaps,
         NodeReboots, NodeComesUp, PodStep, PodCreated, PodUp, PodGone, PodFails, PodBecomes,
         TimerExpires, OperatorCrashes, CallFails
  <2>. QED BY <1>1, <2>1 DEF NodeLabels, Known
<1>20. CASE UNCHANGED vars BY <1>20 DEF vars
<1>. QED BY <1>2, <1>3, <1>4, <1>5, <1>6, <1>7, <1>8, <1>9, <1>10, <1>11, <1>12, <1>13, <1>14,
            <1>15, <1>16, <1>17, <1>18, <1>19, <1>20
         DEF Next, OperatorStep

(* Between the reading of a status and the verdict come outside events only.*)
LEMMA AtMark ==
    ASSUME LifecycleInv, ~VerdictLost, [Next]_vars, op.pc = "mark"
    PROVE  \/ MarkVerdict \/ NoVerdict
           \/ ~VerdictDue /\ labels' = labels
           \/ op' = op /\ labels' \in {labels, [labels EXCEPT !.isolate = ~@], [labels EXCEPT !.pci = ~@]}
<1>1. CASE OperatorStep
  BY <1>1 DEF OperatorStep, NoReboot, HoldReboot, RebootScan, AutoIsolate, labelX100Nodes,
     Aggregate, PassOver, StartAdoption, StartEnabling, StartReboot, StartLoop, EnableNext,
     AllEnabled, EnableFails, AdoptFirstPolicy, ListPods, NothingToDrain, Drain, DrainLast,
     DrainPending, DrainsSelector, MarkTornDown, LoopDone, LeaveOldPolicy, KeepMoving,
     ResumeUnfinished, BlockAggregation, transitionToUpgradingState, updateSwVersionLabels,
     AlreadySwitched, IncorrectPolicy, RolledBack, SkipRollback, BeginRollback,
     ListUnderPrior, UnlistFromPolicy, RestorePrior, LabelRolledBack, AfterLabels,
     ReadBootStatus, SkipBootStatus, ClearTimers, CleanOnDeletion, FinalizePolicy
<1>2. CASE \E p \in Policies : Reconcile(p) \/ ReconcileDeletion(p)
  BY <1>2 DEF Reconcile, ReconcileDeletion
<1>3. CASE Outside
  <2>1. OperatorCrashes \/ CallFails => ~VerdictDue /\ labels' = labels
    BY DEF VerdictLost, OperatorCrashes, CallFails
  <2>. QED BY <1>3, <2>1, OutsideParts
<1>4. CASE UNCHANGED vars BY <1>4 DEF vars
<1>. QED BY <1>1, <1>2, <1>3, <1>4 DEF Next

(* Neither is a stuttering step.                                           *)
LEMMA FaultsSpend ==
    ASSUME LifecycleInv, OperatorCrashes \/ CallFails
    PROVE  ~UNCHANGED vars
<1>1. budget \in [Faults -> Nat] BY Parts DEF LifecycleInv
<1>2. PICK f \in Faults : Spend(f) BY DEF OperatorCrashes, CallFails, Faults
<1>. QED BY <1>1, <1>2 DEF Spend, vars

LEMMA NextKnown ==
    ASSUME LifecycleInv, KnownInv, ~VerdictLost, [Next]_vars
    PROVE  KnownInv'
<1>1. /\ TypeInv /\ op \in Workers /\ labels \in NodeLabels
      /\ op.snap \in NodeLabels /\ op.rsnap \in NodeLabels
  BY Parts DEF LifecycleInv
<1>2. ResumesOnMark' BY NextResumes DEF KnownInv
<1>3. HeldMapsRead BY <1>1, HeldMaps
<1>4. CASE op.pc = "mark"
  <2>1. CASE MarkVerdict
    <3>1. Known(labels') BY <1>1, <2>1 DEF MarkVerdict, Verdict, NodeLabels, Known
    <3>2. op'.snap = op.snap /\ op'.rsnap = op.rsnap BY <2>1, VerdictStep
    <3>. QED BY <1>2, <3>1, <3>2 DEF KnownInv
  <2>2. CASE NoVerdict
    <3>1. Known(labels)
      BY <1>4, <2>2 DEF NoVerdict, VerdictDue, KnownInv, Known
    <3>2. op'.snap = BareLabels /\ op'.rsnap = BareLabels /\ labels' = labels
      BY <1>1, <2>2, EndPassFields DEF NoVerdict
    <3>. QED BY <1>2, <3>1, <3>2, BareKnown DEF KnownInv
  <2>3. CASE op' = op /\ labels' \in {labels, [labels EXCEPT !.isolate = ~@],
                                      [labels EXCEPT !.pci = ~@]}
    <3>1. /\ Known(labels) => Known(labels')
          /\ isX100RunningWithPolicy(labels', Me) <=> isX100RunningWithPolicy(labels, Me)
      BY <1>1, <2>3 DEF NodeLabels, Known, isX100RunningWithPolicy
    <3>. QED BY <1>2, <1>4, <2>3, <3>1 DEF KnownInv, Me
  <2>4. CASE ~VerdictDue /\ labels' = labels
    <3>1. Known(labels) BY <1>4, <2>4 DEF VerdictDue, KnownInv, Known
    <3>2. Known(op'.snap) /\ Known(op'.rsnap)
      BY <1>3, <2>4, <3>1, BareKnown DEF HeldMapsRead, KnownInv
    <3>. QED BY <1>2, <2>4, <3>1, <3>2 DEF KnownInv
  <2>. QED BY <1>4, <2>1, <2>2, <2>3, <2>4, AtMark
<1>5. CASE ReadBootStatus
  <2>1. op'.pc = "mark" /\ op'.snap = op.snap /\ op'.rsnap = op.rsnap /\ op'.policy = op.policy
    BY <1>1, <1>5, GotoFields DEF ReadBootStatus, PCs
  <2>2. isX100RunningWithPolicy(labels', Me)
    <3>1. isX100RunningWithPolicy(labels, Me)
      BY <1>5 DEF ReadBootStatus, LabelsEligibleForBootStatusCheck
    <3>2. labels'.active = labels.active /\ labels'.blocked = labels.blocked
      BY <1>1, <1>5 DEF ReadBootStatus, NodeLabels
    <3>. QED BY <3>1, <3>2 DEF isX100RunningWithPolicy
  <2>. QED BY <1>2, <2>1, <2>2 DEF KnownInv, Me
<1>6. CASE op.pc # "mark" /\ ~ReadBootStatus
  <2>1. Known(labels) /\ Known(op.snap) /\ Known(op.rsnap) BY <1>6 DEF KnownInv
  <2>2. Known(labels') BY <1>6, <2>1, KnownWrites
  <2>3. Known(op'.snap) /\ Known(op'.rsnap) BY <1>3, <2>1, <2>2, BareKnown DEF HeldMapsRead
  <2>. QED BY <1>2, <2>2, <2>3 DEF KnownInv
<1>. QED BY <1>4, <1>5, <1>6

LEMMA NothingToDrop ==
    ASSUME LifecycleInv, KnownInv
    PROVE  ~StatusDropped
<1>. SUFFICES ASSUME StatusDropped PROVE FALSE
  OBVIOUS
<1>1. "rolledBack" \in op.snap.flags BY DEF StatusDropped, KnownInv, ResumesOnMark
<1>2. "bootStatusMarked" \in op.snap.flags BY DEF StatusDropped, KnownInv, Known
<1>. QED BY <1>1, <1>2 DEF LifecycleInv, MapOK, VerdictOK, InProgress

(* As long as every verdict that is due is written, the labels of a node   *)
(* are a history of versions, over all moves, rollbacks, reboots,          *)
(* isolations, deletions and failures, and crashes of the operator and     *)
(* failed calls anywhere else.                                             *)
THEOREM HistoryWithVerdicts == Spec /\ [][~VerdictLost]_vars => ImplementsHistory
<1>1. Init => KnownInv BY BareKnown DEF Init, Idle, KnownInv, ResumesOnMark
<1>2. LifecycleInv /\ KnownInv /\ [Next]_vars /\ [~VerdictLost]_vars => KnownInv'
  BY NextKnown, FaultsSpend DEF VerdictLost
<1>3. LifecycleInv /\ KnownInv => ~StatusDropped BY NothingToDrop
<1>. QED BY LabelsConsistent, HistoryUnlessDropped, <1>1, <1>2, <1>3, PTL DEF Spec

-----------------------------------------------------------------------------
(* What the last policy leaves behind.  First, that a move leads to a      *)
(* policy that is there: blocked is written for the policy being worked    *)
(* for, and no map is held, nor does the node move to it, when it goes.    *)
LEMMA QuietLabels ==
    ASSUME \/ NoReboot \/ HoldReboot \/ Aggregate \/ PassOver
           \/ StartAdoption \/ StartEnabling \/ StartReboot \/ StartLoop
           \/ AllEnabled \/ EnableFails \/ ListPods \/ NothingToDrain \/ LoopDone
           \/ (\E cr \in Policies : LeaveOldPolicy(cr) \/ KeepMoving(cr) \/ ResumeUnfinished(cr))
           \/ AlreadySwitched \/ IncorrectPolicy \/ SkipRollback \/ ListUnderPrior
           \/ UnlistFromPolicy \/ AfterLabels \/ SkipBootStatus \/ NoVerdict \/ ClearTimers
           \/ (\E p \in Policies : Reconcile(p) \/ ReconcileDeletion(p))
           \/ UNCHANGED vars
    PROVE  labels' = labels
BY DEF NoReboot, HoldReboot, Aggregate, PassOver, StartAdoption, StartEnabling,
       StartReboot, StartLoop, AllEnabled, EnableFails, ListPods, NothingToDrain, LoopDone,
       LeaveOldPolicy, KeepMoving, ResumeUnfinished, AlreadySwitched, IncorrectPolicy,
       SkipRollback, ListUnderPrior, UnlistFromPolicy, AfterLabels, SkipBootStatus,
       NoVerdict, ClearTimers, Reconcile, ReconcileDeletion, vars

LEMMA OutsideLabels ==
    ASSUME Outside
    PROVE  /\ policies' = policies
           /\ op' = op \/ OperatorCrashes \/ CallFails
           /\ \/ labels' = labels
              \/ Spend("isolate") /\ labels' = [labels EXCEPT !.isolate = ~@]
              \/ Spend("flap") /\ labels' = [labels EXCEPT !.pci = ~@]
BY DEF Outside, UserAssigns, UserDeletes, UserTogglesIsolate, PciLabelFlaps, NodeReboots,
       NodeComesUp, PodStep, PodCreated, PodUp, PodGone, PodFails, PodBecomes,
       TimerExpires, OperatorCrashes, CallFails

KeptIn(l) == l.blocked \in policies \cup {None}

KeptInv == KeptIn(labels) /\ KeptIn(op.snap) /\ KeptIn(op.rsnap)

LEMMA MoveWrites ==
    ASSUME LifecycleInv, [Next]_vars
    PROVE  \/ labels'.blocked \in {labels.blocked, op.snap.blocked, op.rsnap.blocked, None}
           \/ BlockAggregation /\ labels'.blocked = Me
<1>1. op \in Workers /\ labels \in NodeLabels /\ op.snap \in NodeLabels /\ op.rsnap \in NodeLabels
  BY Parts DEF LifecycleInv
<1>2. CASE EnableNext \/ Drain \/ DrainLast \/ DrainPending \/ ReadBootStatus \/ RebootScan
  BY <1>1, <1>2 DEF EnableNext, Drain, DrainLast, DrainPending, DrainsSelector, ReadBootStatus,
                    RebootScan, cleanupLabelsOnReboot, NodeLabels
<1>3. CASE AutoIsolate \/ labelX100Nodes \/ CleanOnDeletion
  BY <1>1, <1>3 DEF AutoIsolate, labelX100Nodes, Withdrawn, CleanOnDeletion,
       cleanupStaleSelectorLabels, cleanupStaleCRLabels, NodeLabels
<1>4. CASE AdoptFirstPolicy \/ MarkTornDown \/ RolledBack \/ LabelRolledBack
  BY <1>1, <1>4 DEF AdoptFirstPolicy, Adopted, MarkTornDown, RolledBack, StatusCleaned,
                    LabelRolledBack, NodeLabels
<1>5. CASE BlockAggregation BY <1>1, <1>5 DEF BlockAggregation, NodeLabels
<1>6. CASE transitionToUpgradingState \/ updateSwVersionLabels \/ BeginRollback \/ RestorePrior
  BY <1>1, <1>6 DEF transitionToUpgradingState, UpgradeBegun, updateSwVersionLabels, Switched,
       BeginRollback, RollbackBegun, StatusCleaned, RestorePrior, Restored, NodeLabels
<1>7. CASE MarkVerdict \/ FinalizePolicy
  BY <1>1, <1>7 DEF MarkVerdict, Verdict, FinalizePolicy, NodeLabels
<1>8. CASE Outside BY <1>1, <1>8, OutsideLabels DEF NodeLabels
<1>. QED BY <1>2, <1>3, <1>4, <1>5, <1>6, <1>7, <1>8, QuietLabels DEF Next, OperatorStep

(* Only the finalizer of a policy takes it away.                           *)
LEMMA PoliciesStay ==
    ASSUME [Next]_vars
    PROVE  FinalizePolicy \/ policies' = policies
<1>1. CASE OperatorStep
  BY <1>1 DEF OperatorStep, NoReboot, HoldReboot, RebootScan, AutoIsolate, labelX100Nodes,
     Aggregate, PassOver, StartAdoption, StartEnabling, StartReboot, StartLoop, EnableNext,
     AllEnabled, EnableFails, AdoptFirstPolicy, ListPods, NothingToDrain, Drain, DrainLast,
     DrainPending, DrainsSelector, MarkTornDown, LoopDone, LeaveOldPolicy, KeepMoving,
     ResumeUnfinished, BlockAggregation, transitionToUpgradingState, updateSwVersionLabels,
     AlreadySwitched, IncorrectPolicy, RolledBack, SkipRollback, BeginRollback,
     ListUnderPrior, UnlistFromPolicy, RestorePrior, LabelRolledBack, AfterLabels,
     ReadBootStatus, SkipBootStatus, MarkVerdict, NoVerdict, ClearTimers, CleanOnDeletion, cluster, others
<1>2. CASE \E p \in Policies : Reconcile(p) \/ ReconcileDeletion(p)
  BY <1>2 DEF Reconcile, ReconcileDeletion, cluster, others
<1>3. CASE Outside BY <1>3, OutsideLabels
<1>4. CASE UNCHANGED vars BY <1>4 DEF vars
<1>. QED BY <1>1, <1>2, <1>3, <1>4 DEF Next

LEMMA BareKept == KeptIn(BareLabels)
BY DEF KeptIn, BareLabels

LEMMA NextKept ==
    ASSUME LifecycleInv, ReleaseInv, KeptInv, [Next]_vars
    PROVE  KeptInv'
<1>1. TypeInv /\ labels \in NodeLabels BY Parts DEF LifecycleInv
<1>2. CASE FinalizePolicy
  <2>1. labels'.blocked = labels.blocked BY <1>1, <1>2 DEF FinalizePolicy, NodeLabels
  <2>2. labels.blocked # Me \/ labels.blocked = None
    BY <1>2 DEF FinalizePolicy, ReleaseInv, FinalizeOK, isX100RunningWithPolicy, Me
  <2>3. labels'.blocked \in policies' \cup {None}
    BY <1>2, <2>1, <2>2 DEF FinalizePolicy, KeptInv, KeptIn
  <2>4. op'.snap.blocked = None /\ op'.rsnap.blocked = None
    BY <1>2 DEF FinalizePolicy, Idle, BareLabels
  <2>. QED BY <2>3, <2>4 DEF KeptInv, KeptIn
<1>3. CASE policies' = policies
  <2>1. BlockAggregation => Me \in policies BY <1>1, Parts DEF BlockAggregation, PlaceOK
  <2>2. labels'.blocked \in policies \cup {None}
    BY <2>1, MoveWrites DEF KeptInv, KeptIn
  <2>3. HeldMapsRead BY <1>1, HeldMaps
  <2>4. op'.snap.blocked \in policies \cup {None} /\ op'.rsnap.blocked \in policies \cup {None}
    BY <2>2, <2>3, BareKept DEF HeldMapsRead, KeptInv, KeptIn
  <2>. QED BY <1>3, <2>2, <2>4 DEF KeptInv, KeptIn
<1>. QED BY <1>2, <1>3, PoliciesStay

LEMMA InitKept == Init => KeptInv
BY BareKept DEF Init, Idle, KeptInv

(* A move that has begun leads to a policy that exists: a node is never    *)
(* held out of its old policy's list for one that has been deleted, for    *)
(* any faults.                                                             *)
THEOREM MoveHasDestination == Spec => [](labels.blocked \in policies \cup {None})
<1>1. KeptInv => labels.blocked \in policies \cup {None} BY DEF KeptInv, KeptIn
<1>2. Init => LifecycleInv /\ ReleaseInv /\ KeptInv BY InitKeeps, InitReleases, InitKept
<1>3. LifecycleInv /\ ReleaseInv /\ KeptInv /\ [Next]_vars => (LifecycleInv /\ ReleaseInv /\ KeptInv)'
  BY NextKeeps, NextReleases, NextKept
<1>. QED BY <1>1, <1>2, <1>3, PTL DEF Spec

(* A node without a policy keeps at most the mark of the one it lost.      *)
Untouched(l) ==
    l.active = None => l.prior = None /\ l.sel = {} /\ l.flags \subseteq {"ownerPolicyDeleted"}

(* The node has its cards; one that is isolated is not in service, and the *)
(* mark of a deleted policy is on a node that a pass has looked at.        *)
SeenOK(l) ==
    /\ l.pci /\ (l.isolate => l.present # "true")
    /\ l.present = "absent" => "ownerPolicyDeleted" \notin l.flags

(* No reboot, and nobody touches the isolate and PCI labels.               *)
Undisturbed == NeverDown /\ \A f \in {"isolate", "flap"} : budget[f] = 0

(* The first adoption has its selector and is not written: its call fails, *)
(* or the operator crashes before it.                                      *)
AdoptionCut == op.pc = "adopt" /\ (OperatorCrashes \/ CallFails)

LeftInv ==
    /\ Undisturbed
    /\ op.pc # "adopt" => Untouched(labels)
    /\ Untouched(op.snap) /\ Untouched(op.rsnap)
    /\ SeenOK(labels) /\ SeenOK(op.snap) /\ SeenOK(op.rsnap)
    /\ policies = {} => labels.present # "true" /\ labels.flags = {}

LEMMA BareLeft == Untouched(BareLabels) /\ SeenOK(BareLabels)
BY DEF Untouched, SeenOK, BareLabels

LEMMA UndisturbedStays ==
    ASSUME TypeInv, Undisturbed, [Next]_vars
    PROVE  /\ Undisturbed'
           /\ Outside => labels' = labels
<1>1. \A f \in {"isolate", "flap"} : budget'[f] = 0
  BY FaultsStayOut DEF Undisturbed, Faults
<1>2. NeverDown' BY NeverDownStays DEF Undisturbed
<1>3. ~Spend("isolate") /\ ~Spend("flap") BY DEF Undisturbed, Spend
<1>. QED BY <1>1, <1>2, <1>3, OutsideLabels DEF Undisturbed

LEMMA CleanLeft ==
    ASSUME NEW l \in NodeLabels
    PROVE  LET bare == cleanupStaleSelectorLabels(cleanupStaleCRLabels(l))
           IN  /\ bare \in NodeLabels /\ bare.active = None /\ bare.prior = None /\ bare.sel = {}
               /\ bare.flags = {} /\ bare.present = "absent"
               /\ bare.isolate = l.isolate /\ bare.pci = l.pci
BY DEF cleanupStaleSelectorLabels, cleanupStaleCRLabels, NodeLabels, PolicyOrNone

(* A node in service is not isolated, and every clean-up leaves it marked  *)
(* by none but the deletion.                                               *)
LEMMA SeenWrites ==
    ASSUME LifecycleInv, LeftInv, [Next]_vars
    PROVE  SeenOK(labels')
<1>1. /\ op \in Workers /\ labels \in NodeLabels /\ op.snap \in NodeLabels /\ op.rsnap \in NodeLabels
      /\ TypeInv
  BY Parts DEF LifecycleInv
<1>2. SeenOK(labels) /\ SeenOK(op.snap) /\ SeenOK(op.rsnap) BY DEF LeftInv
<1>3. CASE EnableNext \/ Drain \/ DrainLast \/ DrainPending \/ ReadBootStatus
  BY <1>1, <1>2, <1>3 DEF EnableNext, Drain, DrainLast, DrainPending, DrainsSelector,
                          ReadBootStatus, NodeLabels, SeenOK
<1>4. ~RebootScan BY DEF RebootScan, Rebooting, LeftInv, Undisturbed, NeverDown
<1>5. CASE AutoIsolate
  <2> DEFINE bare == cleanupStaleSelectorLabels(cleanupStaleCRLabels(labels))
  <2>1. bare \in NodeLabels /\ bare.present = "absent" /\ bare.flags = {} /\ bare.pci = labels.pci
    BY <1>1, CleanLeft
  <2>2. labels' = labels \/ labels' = [bare EXCEPT !.isolate = TRUE] BY <1>5 DEF AutoIsolate
  <2>. HIDE DEF bare
  <2>3. CASE labels' = labels BY <1>2, <2>3
  <2>4. CASE labels' = [bare EXCEPT !.isolate = TRUE]
    BY <1>2, <2>1, <2>4 DEF NodeLabels, SeenOK
  <2>. QED BY <2>2, <2>3, <2>4
<1>6. CASE labelX100Nodes
  <2> DEFINE bare == cleanupStaleSelectorLabels(cleanupStaleCRLabels(labels))
  <2>1. bare \in NodeLabels /\ bare.flags = {} /\ bare.pci = labels.pci
    BY <1>1, CleanLeft
  <2>2. labels.pci BY <1>2 DEF SeenOK
  <2>3. \/ labels' = [bare EXCEPT !.present = "false"]
        \/ ~labels.isolate /\ labels' = [labels EXCEPT !.present = "true"]
    BY <1>6, <2>2 DEF labelX100Nodes, Withdrawn
  <2>. HIDE DEF bare
  <2>4. CASE labels' = [bare EXCEPT !.present = "false"]
    BY <1>2, <2>1, <2>4 DEF NodeLabels, SeenOK
  <2>5. CASE ~labels.isolate /\ labels' = [labels EXCEPT !.present = "true"]
    BY <1>1, <1>2, <2>5 DEF NodeLabels, SeenOK
  <2>. QED BY <2>3, <2>4, <2>5
<1>7. CASE CleanOnDeletion
  <2> DEFINE bare == cleanupStaleSelectorLabels(cleanupStaleCRLabels(op.snap))
  <2>1. bare \in NodeLabels /\ bare.pci = op.snap.pci /\ bare.isolate = op.snap.isolate
    BY <1>1, CleanLeft
  <2>2. labels' = [bare EXCEPT !.present = IF op.snap.isolate THEN "false" ELSE "true",
                               !.flags = {"ownerPolicyDeleted"}]
    BY <1>7 DEF CleanOnDeletion
  <2>. HIDE DEF bare
  <2>. QED BY <1>2, <2>1, <2>2 DEF NodeLabels, SeenOK
<1>8. CASE AdoptFirstPolicy
  BY <1>1, <1>2, <1>8 DEF AdoptFirstPolicy, Adopted, NodeLabels, SeenOK
<1>9. CASE MarkTornDown BY <1>1, <1>2, <1>9 DEF MarkTornDown, NodeLabels, SeenOK
<1>10. CASE BlockAggregation BY <1>1, <1>2, <1>10 DEF BlockAggregation, NodeLabels, SeenOK
<1>11. CASE RolledBack
  <2>1. /\ StatusCleaned(op.snap).pci = op.snap.pci
        /\ StatusCleaned(op.snap).isolate = op.snap.isolate
        /\ StatusCleaned(op.snap).present = op.snap.present
        /\ StatusCleaned(op.snap).flags \subseteq op.snap.flags
    BY <1>1 DEF StatusCleaned, NodeLabels
  <2>2. labels' = labels \/ labels' = StatusCleaned(op.snap) BY <1>11 DEF RolledBack
  <2>. QED BY <1>2, <2>1, <2>2 DEF SeenOK
<1>12. CASE LabelRolledBack BY <1>1, <1>2, <1>12 DEF LabelRolledBack, NodeLabels, SeenOK
<1>13. CASE transitionToUpgradingState
  BY <1>1, <1>2, <1>13 DEF transitionToUpgradingState, UpgradeBegun, StatusCleaned, NodeLabels, SeenOK
<1>14. CASE updateSwVersionLabels \/ RestorePrior
  <2>1. labels'.pci = labels.pci /\ labels'.isolate = labels.isolate /\ labels'.present = labels.present
    BY <1>1, <1>14 DEF updateSwVersionLabels, Switched, RestorePrior, Restored, NodeLabels
  <2>2. labels'.flags \in {labels.flags, labels.flags \cup {"teardownCompleted"}}
    BY <1>1, <1>14 DEF updateSwVersionLabels, Switched, RestorePrior, Restored, NodeLabels
  <2>. QED BY <1>2, <2>1, <2>2 DEF SeenOK
<1>15. CASE BeginRollback
  BY <1>1, <1>2, <1>15 DEF BeginRollback, RollbackBegun, StatusCleaned, NodeLabels, SeenOK
<1>16. CASE MarkVerdict
  BY <1>1, <1>2, <1>16 DEF MarkVerdict, Verdict, NodeLabels, SeenOK
<1>17. CASE FinalizePolicy
  BY <1>1, <1>2, <1>17 DEF FinalizePolicy, NodeLabels, SeenOK
<1>18. CASE Outside BY <1>1, <1>2, <1>18, UndisturbedStays DEF LeftInv
<1>. QED BY <1>2, <1>3, <1>4, <1>5, <1>6, <1>7, <1>8, <1>9, <1>10, <1>11, <1>12, <1>13, <1>14,
            <1>15, <1>16, <1>17, <1>18, QuietLabels
         DEF Next, OperatorStep

(* Outside the first adoption every write either keeps a node's policy, or *)
(* gives it one, or takes everything.                                      *)
LEMMA UntouchedWrites ==
    ASSUME LifecycleInv, HistoryInv, ~StatusDropped, LeftInv, [Next]_vars, ~Adopting
    PROVE  Untouched(labels')
<1>1. /\ op \in Workers /\ labels \in NodeLabels /\ op.snap \in NodeLabels /\ op.rsnap \in NodeLabels
      /\ TypeInv
      /\ op.pc # "idle" => Me \in Policies
  BY Parts DEF LifecycleInv, PlaceOK
<1>2. Untouched(labels) BY DEF LeftInv, Adopting
<1>3. ~RebootScan BY DEF RebootScan, Rebooting, LeftInv, Undisturbed, NeverDown
<1>4. CASE \/ EnableNext \/ Drain \/ DrainLast \/ DrainPending
           \/ transitionToUpgradingState \/ BeginRollback
  <2>1. labels.active # None
    <3>1. AtWork
      BY <1>4 DEF AtWork, Adopting, EnableNext, Drain, DrainLast, DrainPending, DrainsSelector,
                  transitionToUpgradingState, BeginRollback
    <3>. QED BY <3>1 DEF HistoryInv, PlacesOK, StageOK
  <2>2. labels'.active = labels.active
    BY <1>1, <1>4 DEF EnableNext, Drain, DrainLast, DrainPending, DrainsSelector,
         transitionToUpgradingState, UpgradeBegun, BeginRollback, RollbackBegun, StatusCleaned,
         NodeLabels
  <2>. QED BY <2>1, <2>2 DEF Untouched
<1>5. CASE AdoptFirstPolicy BY <1>5 DEF AdoptFirstPolicy, Adopting
<1>6. CASE MarkTornDown
  <2>1. labels.active # None BY <1>6 DEF MarkTornDown, HistoryInv, PlacesOK, StageOK, AtWork
  <2>2. op.flow = "rollback" => op.rsnap.active = labels.active
    BY <1>6 DEF MarkTornDown, HistoryInv, PlacesOK, BackOK, RollingBack, Agree
  <2>3. labels'.active = labels.active
    BY <1>1, <1>6, <2>2 DEF MarkTornDown, NodeLabels
  <2>. QED BY <2>1, <2>3 DEF Untouched
<1>7. CASE BlockAggregation
  <2>1. op.snap.active # None BY <1>7 DEF BlockAggregation, LifecycleInv, WorkerOK, Looping
  <2>2. labels'.active = op.snap.active BY <1>1, <1>7 DEF BlockAggregation, NodeLabels
  <2>. QED BY <2>1, <2>2 DEF Untouched
<1>8. CASE RolledBack BY <1>2, <1>8 DEF RolledBack, StatusDropped
<1>9. CASE LabelRolledBack
  <2>1. labels.active # None /\ op.rsnap.active = labels.active
    BY <1>9 DEF LabelRolledBack, HistoryInv, PlacesOK, StageOK, AtWork, BackOK, RollingBack, Agree
  <2>2. labels'.active = labels.active
    BY <1>1, <1>9, <2>1 DEF LabelRolledBack, NodeLabels
  <2>. QED BY <2>1, <2>2 DEF Untouched
<1>10. CASE updateSwVersionLabels \/ RestorePrior
  <2>1. labels'.active \in Policies
    BY <1>1, <1>10, Parts DEF updateSwVersionLabels, Switched, RestorePrior, Restored, NodeLabels,
                              LifecycleInv, PlaceOK, RollingBack
  <2>. QED BY <2>1, NoneIsNotIn DEF Untouched
<1>11. CASE ReadBootStatus BY <1>1, <1>2, <1>11 DEF ReadBootStatus, NodeLabels, Untouched
<1>12. CASE MarkVerdict
  <2>1. labels.active # None
    BY <1>1, <1>12, NoneIsNotIn DEF MarkVerdict, VerdictDue, isX100RunningWithPolicy, LifecycleInv,
                             MapOK, BareOK
  <2>2. labels'.active = labels.active BY <1>1, <1>12 DEF MarkVerdict, Verdict, NodeLabels
  <2>. QED BY <2>1, <2>2 DEF Untouched
<1>13. CASE AutoIsolate \/ labelX100Nodes \/ CleanOnDeletion
  <2> DEFINE bare(l) == cleanupStaleSelectorLabels(cleanupStaleCRLabels(l))
  <2>1. \A l \in NodeLabels : /\ bare(l) \in NodeLabels /\ bare(l).prior = None
                              /\ bare(l).sel = {} /\ bare(l).flags = {}
    BY CleanLeft
  <2>2. \/ labels' \in {labels, [bare(labels) EXCEPT !.present = "false"],
                        [bare(labels) EXCEPT !.isolate = TRUE]}
        \/ \E s \in {"absent", "true", labels.present} : labels' = [labels EXCEPT !.present = s]
        \/ \E s \in {"true", "false"} :
              labels' = [bare(op.snap) EXCEPT !.present = s, !.flags = {"ownerPolicyDeleted"}]
    BY <1>13 DEF AutoIsolate, labelX100Nodes, Withdrawn, CleanOnDeletion
  <2>. HIDE DEF bare
  <2>3. CASE labels' \in {labels, [bare(labels) EXCEPT !.present = "false"],
                          [bare(labels) EXCEPT !.isolate = TRUE]}
    BY <1>1, <1>2, <2>1, <2>3 DEF NodeLabels, Untouched
  <2>4. CASE \E s \in {"absent", "true", labels.present} : labels' = [labels EXCEPT !.present = s]
    BY <1>1, <1>2, <2>4 DEF NodeLabels, Untouched
  <2>5. CASE \E s \in {"true", "false"} :
                labels' = [bare(op.snap) EXCEPT !.present = s, !.flags = {"ownerPolicyDeleted"}]
    BY <1>1, <2>1, <2>5 DEF NodeLabels, Untouched
  <2>. QED BY <2>2, <2>3, <2>4, <2>5
<1>14. CASE FinalizePolicy
  BY <1>1, <1>2, <1>14 DEF FinalizePolicy, NodeLabels, Untouched
<1>15. CASE Outside BY <1>1, <1>2, <1>15, UndisturbedStays DEF LeftInv
<1>. QED BY <1>2, <1>3, <1>4, <1>5, <1>6, <1>7, <1>8, <1>9, <1>10, <1>11, <1>12, <1>13, <1>14,
            <1>15, QuietLabels
         DEF Next, OperatorStep

(* The first adoption ends with the policy written, or not at all.         *)
LEMMA AdoptionSteps ==
    ASSUME LifecycleInv, LeftInv, ~AdoptionCut, [Next]_vars, Adopting
    PROVE  /\ op'.snap \in {BareLabels, op.snap} /\ op'.rsnap \in {BareLabels, op.rsnap}
           /\ op'.pc # "adopt" => Untouched(labels')
<1>1. /\ op \in Workers /\ TypeInv /\ op.snap \in NodeLabels
      /\ Me \in Policies
  BY Parts DEF LifecycleInv, PlaceOK, Adopting
<1>2. CASE EnableNext \/ AllEnabled \/ EnableFails
  <2>1. op.pc = "enable" /\ op.then = "adopt" /\ Goto("adopt")
    BY <1>2 DEF EnableNext, AllEnabled, EnableFails, Adopting
  <2>2. op'.pc = "adopt" /\ op'.snap = op.snap /\ op'.rsnap = op.rsnap
    BY <1>1, <2>1, GotoFields DEF PCs
  <2>. QED BY <2>2
<1>3. CASE AdoptFirstPolicy
  <2>1. labels'.active = Me BY <1>1, <1>3 DEF AdoptFirstPolicy, Adopted, NodeLabels
  <2>2. op'.snap = BareLabels /\ op'.rsnap = BareLabels
    BY <1>1, <1>3, GotoFields DEF AdoptFirstPolicy, PCs
  <2>. QED BY <1>1, <2>1, <2>2, NoneIsNotIn DEF Untouched
<1>4. CASE Outside
  <2>1. labels' = labels BY <1>1, <1>4, UndisturbedStays DEF LeftInv
  <2>2. op.pc = "adopt" => op' = op BY <1>4, OutsideParts DEF AdoptionCut
  <2>3. op' = op \/ OperatorCrashes \/ CallFails BY <1>4, OutsideParts
  <2>4. OperatorCrashes \/ CallFails =>
          op'.snap \in {BareLabels, op.snap} /\ op'.rsnap \in {BareLabels, op.rsnap}
    <3>1. OperatorCrashes => op' = Idle BY DEF OperatorCrashes
    <3>2. \A pc \in LoggedAt : /\ [op EXCEPT !.pc = pc].snap = op.snap
                               /\ [op EXCEPT !.pc = pc].rsnap = op.rsnap
      BY <1>1 DEF Workers
    <3>3. op.pc # "rolledBackLabel" BY DEF Adopting
    <3>. QED BY <1>1, <3>1, <3>2, <3>3, CallFailsFields, RestFields
  <2>. QED BY <2>1, <2>2, <2>3, <2>4 DEF LeftInv
<1>5. CASE UNCHANGED vars BY <1>5 DEF vars, LeftInv
<1>6. CASE \/ OperatorStep /\ ~EnableNext /\ ~AllEnabled /\ ~EnableFails /\ ~AdoptFirstPolicy
           \/ \E p \in Policies : Reconcile(p) \/ ReconcileDeletion(p)
  BY <1>6 DEF Adopting, OperatorStep, NoReboot, HoldReboot, RebootScan, AutoIsolate, labelX100Nodes,
     Aggregate, PassOver, StartAdoption, StartEnabling, StartReboot, StartLoop,
     ListPods, NothingToDrain, Drain, DrainLast,
     DrainPending, DrainsSelector, MarkTornDown, LoopDone, LeaveOldPolicy, KeepMoving,
     ResumeUnfinished, BlockAggregation, transitionToUpgradingState, updateSwVersionLabels,
     AlreadySwitched, IncorrectPolicy, RolledBack, SkipRollback, BeginRollback,
     ListUnderPrior, UnlistFromPolicy, RestorePrior, LabelRolledBack, AfterLabels,
     ReadBootStatus, SkipBootStatus, MarkVerdict, NoVerdict, ClearTimers, CleanOnDeletion,
     FinalizePolicy, Reconcile, ReconcileDeletion
<1>. QED BY <1>2, <1>3, <1>4, <1>5, <1>6 DEF Next

(* The finalizer of the last policy takes the rest.                        *)
LEMMA LastPolicyLeaves ==
    ASSUME LifecycleInv, ReleaseInv, KeptInv, LeftInv, [Next]_vars, policies' = {}
    PROVE  labels'.present # "true" /\ labels'.flags = {}
<1>1. TypeInv /\ labels \in NodeLabels /\ (op.pc # "idle" => Me \in policies)
  BY Parts DEF LifecycleInv, PlaceOK
<1>2. CASE FinalizePolicy
  <2>1. policies = {Me} BY <1>1, <1>2 DEF FinalizePolicy
  <2>2. labels.blocked = None /\ labels.active = None
    BY <1>2, <2>1 DEF FinalizePolicy, KeptInv, KeptIn, ReleaseInv, Released, FinalizeOK,
                      isX100RunningWithPolicy, Me
  <2>3. labels.flags \subseteq {"ownerPolicyDeleted"}
    BY <1>2, <2>2 DEF FinalizePolicy, LeftInv, Untouched, Adopting
  <2>4. SeenOK(labels) BY DEF LeftInv
  <2>5. CASE labels.present = "absent"
    BY <1>2, <2>3, <2>4, <2>5 DEF FinalizePolicy, SeenOK
  <2>6. CASE labels.present # "absent"
    BY <1>1, <1>2, <2>1, <2>3, <2>4, <2>6 DEF FinalizePolicy, SeenOK, NodeLabels
  <2>. QED BY <2>5, <2>6
<1>3. CASE policies' = policies
  <2>1. policies = {} /\ op.pc = "idle" BY <1>1, <1>3
  <2>2. ~OperatorStep
    BY <2>1 DEF OperatorStep, NoReboot, HoldReboot, RebootScan, AutoIsolate, labelX100Nodes,
     Aggregate, PassOver, StartAdoption, StartEnabling, StartReboot, StartLoop, EnableNext,
     AllEnabled, EnableFails, AdoptFirstPolicy, ListPods, NothingToDrain, Drain, DrainLast,
     DrainPending, DrainsSelector, MarkTornDown, LoopDone, LeaveOldPolicy, KeepMoving,
     ResumeUnfinished, BlockAggregation, transitionToUpgradingState, updateSwVersionLabels,
     AlreadySwitched, IncorrectPolicy, RolledBack, SkipRollback, BeginRollback,
     ListUnderPrior, UnlistFromPolicy, RestorePrior, LabelRolledBack, AfterLabels,
     ReadBootStatus, SkipBootStatus, MarkVerdict, NoVerdict, ClearTimers, CleanOnDeletion,
     FinalizePolicy
  <2>3. labels' = labels BY <1>1, <2>2, QuietLabels, UndisturbedStays DEF Next, LeftInv
  <2>. QED BY <2>1, <2>3 DEF LeftInv
<1>. QED BY <1>2, <1>3, PoliciesStay

LEMMA NextLeft ==
    ASSUME LifecycleInv, ReleaseInv, KeptInv, HistoryInv, ~StatusDropped, LeftInv,
           ~AdoptionCut, [Next]_vars
    PROVE  LeftInv'
<1>1. TypeInv BY DEF LifecycleInv
<1>2. Undisturbed' BY <1>1, UndisturbedStays DEF LeftInv
<1>3. SeenOK(labels') BY SeenWrites
<1>4. HeldMapsRead BY <1>1, HeldMaps
<1>5. SeenOK(op'.snap) /\ SeenOK(op'.rsnap)
  BY <1>3, <1>4, BareLeft DEF HeldMapsRead, LeftInv
<1>6. /\ op'.pc # "adopt" => Untouched(labels')
      /\ Untouched(op'.snap) /\ Untouched(op'.rsnap)
  <2>1. CASE Adopting BY <2>1, AdoptionSteps, BareLeft DEF LeftInv
  <2>2. CASE ~Adopting
    <3>1. Untouched(labels') /\ Untouched(labels) BY <2>2, UntouchedWrites DEF LeftInv, Adopting
    <3>. QED BY <1>4, <3>1, BareLeft DEF HeldMapsRead, LeftInv
  <2>. QED BY <2>1, <2>2
<1>7. policies' = {} => labels'.present # "true" /\ labels'.flags = {} BY LastPolicyLeaves
<1>. QED BY <1>2, <1>3, <1>5, <1>6, <1>7 DEF LeftInv

LEMMA InitLeft == Init /\ Undisturbed => LeftInv
BY BareLeft DEF Init, Idle, LeftInv, BareLabels

LEMMA LeftIsNothing ==
    ASSUME LifecycleInv, ReleaseInv, KeptInv, LeftInv
    PROVE  NothingLeftBehind
<1>. SUFFICES ASSUME policies = {}
              PROVE  /\ labels.active = None /\ labels.prior = None /\ labels.blocked = None
                     /\ labels.sel = {} /\ labels.flags = {} /\ labels.present # "true"
  BY DEF NothingLeftBehind
<1>1. op.pc = "idle" BY Parts DEF LifecycleInv, PlaceOK
<1>2. labels.blocked = None /\ labels.active = None
  BY DEF KeptInv, KeptIn, ReleaseInv, Released
<1>3. Untouched(labels) BY <1>1 DEF LeftInv, Adopting
<1>. QED BY <1>2, <1>3 DEF LeftInv, Untouched

(* On a node that is left alone, the deletion of the last policy takes     *)
(* everything the operator ever wrote, after any adoptions, upgrades,      *)
(* rollbacks and failures of pods, timers and API calls, as long as each   *)
(* first adoption that has its selector, and each verdict that is due, is  *)
(* written.                                                                *)
THEOREM LastDeletionLeavesNothing ==
    /\ Spec /\ \A f \in {"reboot", "isolate", "flap"} : budget[f] = 0
    /\ [][~AdoptionCut]_vars /\ [][~VerdictLost]_vars
    => []NothingLeftBehind
<1> DEFINE LeftAlone == \A f \in {"reboot", "isolate", "flap"} : budget[f] = 0
           Inv == LifecycleInv /\ ReleaseInv /\ KeptInv /\ KnownInv /\ HistoryInv /\ LeftInv
<1>1. Init /\ LeftAlone => Inv
  <2>. SUFFICES ASSUME Init, LeftAlone PROVE Inv
    OBVIOUS
  <2>1. LifecycleInv /\ ReleaseInv /\ KeptInv /\ HistoryInv
    BY InitKeeps, InitReleases, InitKept, InitHistory
  <2>2. KnownInv BY BareKnown DEF Init, Idle, KnownInv, ResumesOnMark
  <2>3. LeftInv BY InitLeft DEF Undisturbed, NeverDown, Init
  <2>. QED BY <2>1, <2>2, <2>3
<1>2. Inv /\ [Next]_vars /\ [~AdoptionCut]_vars /\ [~VerdictLost]_vars => Inv'
  <2>. SUFFICES ASSUME Inv, [Next]_vars, [~AdoptionCut]_vars, [~VerdictLost]_vars PROVE Inv'
    OBVIOUS
  <2>1. ~StatusDropped BY NothingToDrop
  <2>2. ~AdoptionCut /\ ~VerdictLost BY FaultsSpend DEF AdoptionCut, VerdictLost
  <2>3. LifecycleInv' /\ ReleaseInv' /\ KeptInv' BY NextKeeps, NextReleases, NextKept
  <2>4. KnownInv' /\ HistoryInv' /\ LeftInv' BY <2>1, <2>2, NextKnown, NextHistory, NextLeft
  <2>. QED BY <2>3, <2>4
<1>3. Inv => NothingLeftBehind BY LeftIsNothing
<1>. QED BY <1>1, <1>2, <1>3, PTL DEF Spec

-----------------------------------------------------------------------------
(* Nor is there a rollback to resume where no policy has rollback enabled: *)
(* no map ever has a mark of one.                                          *)
NotBack(l) == l.flags \cap {"rolledBack", "rollingBackUpgrade"} = {}

NeverBack == NotBack(labels) /\ NotBack(op.snap) /\ NotBack(op.rsnap)

LEMMA BareNotBack == NotBack(BareLabels)
BY DEF NotBack, BareLabels

LEMMA NotBackWrites ==
    ASSUME LifecycleInv, NeverBack, RollbackOn = {}, [Next]_vars
    PROVE  NotBack(labels')
<1>1. op \in Workers /\ labels \in NodeLabels /\ op.snap \in NodeLabels /\ op.rsnap \in NodeLabels
  BY Parts DEF LifecycleInv
<1>2. CASE \/ NoReboot \/ HoldReboot \/ Aggregate \/ PassOver
           \/ StartAdoption \/ StartEnabling \/ StartReboot \/ StartLoop
           \/ AllEnabled \/ EnableFails \/ ListPods \/ NothingToDrain \/ LoopDone
           \/ (\E cr \in Policies : LeaveOldPolicy(cr) \/ KeepMoving(cr) \/ ResumeUnfinished(cr))
           \/ AlreadySwitched \/ IncorrectPolicy \/ SkipRollback \/ ListUnderPrior
           \/ UnlistFromPolicy \/ AfterLabels \/ SkipBootStatus \/ NoVerdict \/ ClearTimers
  BY <1>2, QuietLabels DEF NeverBack
<1>3. CASE EnableNext \/ Drain \/ DrainLast \/ DrainPending
  BY <1>1, <1>3 DEF EnableNext, Drain, DrainLast, DrainPending, DrainsSelector, NodeLabels,
                    NeverBack, NotBack
<1>4. CASE AutoIsolate \/ labelX100Nodes
  BY <1>1, <1>4 DEF AutoIsolate, labelX100Nodes, Withdrawn, cleanupStaleSelectorLabels,
                    cleanupStaleCRLabels, NodeLabels, NeverBack, NotBack
<1>5. CASE CleanOnDeletion
  BY <1>1, <1>5 DEF CleanOnDeletion, cleanupStaleSelectorLabels, cleanupStaleCRLabels, NodeLabels,
                    NeverBack, NotBack
<1>6. CASE RebootScan
  BY <1>1, <1>6 DEF RebootScan, cleanupLabelsOnReboot, NodeLabels, NeverBack, NotBack
<1>7. CASE AdoptFirstPolicy
  BY <1>1, <1>7 DEF AdoptFirstPolicy, Adopted, NodeLabels, NeverBack, NotBack
<1>8. CASE MarkTornDown BY <1>1, <1>8 DEF MarkTornDown, NodeLabels, NeverBack, NotBack
<1>9. CASE BlockAggregation BY <1>1, <1>9 DEF BlockAggregation, NodeLabels, NeverBack, NotBack
<1>10. CASE RolledBack
  BY <1>1, <1>10 DEF RolledBack, StatusCleaned, NodeLabels, NeverBack, NotBack
<1>11. CASE LabelRolledBack BY <1>11 DEF LabelRolledBack, NeverBack, NotBack
<1>12. CASE transitionToUpgradingState
  BY <1>1, <1>12 DEF transitionToUpgradingState, UpgradeBegun, StatusCleaned, NodeLabels,
                     NeverBack, NotBack
<1>13. CASE updateSwVersionLabels
  BY <1>1, <1>13 DEF updateSwVersionLabels, Switched, NodeLabels, NeverBack, NotBack
<1>14. ~BeginRollback BY DEF BeginRollback, MayRollBack
<1>15. CASE RestorePrior
  BY <1>1, <1>15 DEF RestorePrior, Restored, NodeLabels, NeverBack, NotBack
<1>16. CASE MarkVerdict
  BY <1>1, <1>16 DEF MarkVerdict, Verdict, NodeLabels, NeverBack, NotBack, InProgress
<1>17. CASE FinalizePolicy BY <1>1, <1>17 DEF FinalizePolicy, NodeLabels, NeverBack, NotBack
<1>18. CASE \E p \in Policies : Reconcile(p) \/ ReconcileDeletion(p)
  BY <1>18 DEF Reconcile, ReconcileDeletion, NeverBack
<1>19. CASE Outside
  <2>1. labels' \in {labels, [labels EXCEPT !.isolate = ~@], [labels EXCEPT !.pci = ~@]}
    BY <1>19, OutsideLabels
  <2>. QED BY <1>1, <2>1 DEF NodeLabels, NeverBack, NotBack
<1>20. CASE ReadBootStatus
  BY <1>1, <1>20 DEF ReadBootStatus, NodeLabels, NeverBack, NotBack
<1>21. CASE UNCHANGED vars BY <1>21 DEF vars, NeverBack
<1>. QED BY <1>2, <1>3, <1>4, <1>5, <1>6, <1>7, <1>8, <1>9, <1>10, <1>11, <1>12, <1>13, <1>14,
            <1>15, <1>16, <1>17, <1>18, <1>19, <1>20, <1>21
         DEF Next, OperatorStep

LEMMA NextNotBack ==
    ASSUME LifecycleInv, NeverBack, RollbackOn = {}, [Next]_vars
    PROVE  NeverBack'
<1>1. NotBack(labels') BY NotBackWrites
<1>2. HeldMapsRead BY HeldMaps DEF LifecycleInv
<1>3. NotBack(op'.snap) /\ NotBack(op'.rsnap)
  BY <1>1, <1>2, BareNotBack DEF HeldMapsRead, NeverBack
<1>. QED BY <1>1, <1>3 DEF NeverBack

(* Where rollback is not enabled, the labels of a node are a history of    *)
(* versions whatever happens, crashes of the operator included.            *)
THEOREM HistoryWithoutRollback == ASSUME RollbackOn = {} PROVE Spec => ImplementsHistory
<1>1. Init => NeverBack /\ ResumesOnMark
  BY BareNotBack DEF Init, Idle, NeverBack, ResumesOnMark
<1>2. LifecycleInv /\ NeverBack /\ ResumesOnMark /\ [Next]_vars => NeverBack' /\ ResumesOnMark'
  BY NextNotBack, NextResumes
<1>3. NeverBack /\ ResumesOnMark => ~StatusDropped
  BY DEF NeverBack, NotBack, ResumesOnMark, StatusDropped
<1>. QED BY LabelsConsistent, HistoryUnlessDropped, <1>1, <1>2, <1>3, PTL DEF Spec
=============================================================================
