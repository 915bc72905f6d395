----------------------------- MODULE PodProofs -----------------------------
(***************************************************************************)
(* Versions do not meet on a node, pods come in their order, a version     *)
(* changes hands on an empty node, and a judged node is complete: where    *)
(* the labels decide and the pods follow some steps later.                 *)
(*                                                                         *)
(* The argument: while neither a reboot, nor a failing pod, nor a deletion,*)
(* nor the node's withdrawal takes pods away on its own, and no node is    *)
(* moved on before its last upgrade or rollback has come to a verdict, the *)
(* labels tell which pods may be there.  A node on its way up has pods of  *)
(* its version only, of selected components only, the earlier ones up; one *)
(* with a verdict has all of them up; one on its way down has no pod that  *)
(* is still starting, so that what a teardown does not find never comes.   *)
(***************************************************************************)
EXTENDS HistoryProofs

(* Nothing is done to the node or its policies but moves; the operator may *)
(* crash, its calls fail and its timers expire.                            *)
Kept == \A f \in {"reboot", "podfail", "delete", "isolate", "flap"} : budget[f] = 0

Calm ==
    /\ Kept /\ nodeReady
    /\ policies = Policies /\ deleting = {}
    /\ \A c \in Comps, q \in Policies : pods[c][q] # "failed"
    /\ op.pc \notin {"clean", "finalize"} /\ op.flow \in {"upgrade", "rollback"}

(* A node that has begun to move is neither past the teardown of another   *)
(* upgrade, nor on its way back, nor back and not yet judged.              *)
MoveAlone(l) ==
    l.blocked # None =>
        l.flags \cap {"teardownCompleted", "rollingBackUpgrade", "rolledBack"} = {}

OneMoveAtATime == MoveAlone(labels)

(* A node under a policy is in one of five stages.                         *)
Stages == {"enablingFirstPolicy", "upgrading", "rollingBackUpgrade", "rolledBack",
           "bootStatusMarked"}

OneStage(l) == \E f \in Stages : \A g \in Stages : g \in l.flags <=> g = f

StageMap(l) ==
    /\ "rebooted" \notin l.flags
    /\ l.pci /\ (l.isolate => l.active = None /\ l.present # "true")
    /\ l.active = None => l.flags = {} /\ l.boot = "absent" /\ l.sel \subseteq {"firmware"}
    /\ l.active # None => l.present = "true" /\ OneStage(l)
    /\ "upgrading" \in l.flags /\ "teardownCompleted" \notin l.flags => l.boot = "absent"
    /\ l.boot # "absent" \/ "bootStatusMarked" \in l.flags => l.sel = Comps
    /\ l.blocked # None => "enablingFirstPolicy" \notin l.flags
    /\ MoveAlone(l)

StageMaps == StageMap(labels) /\ StageMap(op.snap) /\ StageMap(op.rsnap)

(* On its way down; down, and on its way back.                             *)
Falling(l) ==
    /\ "upgrading" \in l.flags \/ "rollingBackUpgrade" \in l.flags
    /\ "teardownCompleted" \notin l.flags

Bottom(l) == "rollingBackUpgrade" \in l.flags /\ "teardownCompleted" \in l.flags

(* What the labels tell of the pods.                                       *)
OneVersion ==
    \A c, d \in Comps, q, r \in Policies :
        pods[c][q] # "none" /\ pods[d][r] # "none" => q = r

OfActive(l) ==
    ~l.isolate => \A c \in Comps, q \in Policies : pods[c][q] # "none" => q = l.active

EarlierUp(l) == \A c \in l.sel : \A d \in Earlier(c) : pods[d][l.active] = "up"

NoStray(l) ==
    ~l.isolate /\ ~Falling(l) =>
        \A c \in Comps, q \in Policies : pods[c][q] # "none" => c \in l.sel

NoneStarting(l) ==
    Falling(l) => \A c \in Comps : /\ pods[c][l.active] # "starting"
                                   /\ c \in l.sel => pods[c][l.active] = "up"

AllUp(l) ==
    l.boot # "absent" \/ "bootStatusMarked" \in l.flags =>
        \A c \in Comps : pods[c][l.active] = "up"

PodsFit(l) ==
    /\ OfActive(l) /\ EarlierUp(l) /\ NoStray(l) /\ NoneStarting(l) /\ AllUp(l)
    /\ Bottom(l) => l.sel = {}

NoPods == \A c \in Comps, q \in Policies : pods[c][q] = "none"

(* What holds at the worker's place.  A teardown sees all pods there are;  *)
(* what it has drained is gone, and was not selected when it began.        *)
DrainPlace ==
    /\ op.pc \in {"list", "drain"} => Falling(labels)
    /\ op.pc = "drain" => \A c \in Comps :
          /\ PodsOf(c) # {} => c \in op.found
          /\ Position[c] > Position[op.at] => PodsOf(c) = {}

BackPlace ==
    /\ op.pc = "list" /\ op.flow = "rollback" => op.rsnap.sel = labels.sel
    /\ op.pc = "drain" /\ op.flow = "rollback" => \A c \in op.rsnap.sel :
          c \in op.found /\ (Position[c] > Position[op.at] => c = "kmodules")
    /\ op.pc \in {"torn", "toPrior", "fromPolicy", "restore", "rolledBackLabel"} =>
          op.rsnap.sel = {}
    /\ op.pc \in {"toPrior", "fromPolicy", "restore", "rolledBackLabel"} => Bottom(labels)

LoopPlace ==
    /\ op.pc = "torn" \/ (op.pc = "switch" /\ ~Has("teardownCompleted")) =>
          labels.sel = {} /\ NoPods
    /\ op.pc = "enable" /\ op.then # "adopt" => ~Falling(labels) /\ ~Bottom(labels)
    /\ Looping \/ RollingBack => "enablingFirstPolicy" \notin op.snap.flags
    /\ Looping /\ "rolledBack" \in op.snap.flags => Agree(labels, op.snap)
    /\ RollingBack => "rolledBack" \notin op.snap.flags

PlaceFits == DrainPlace /\ BackPlace /\ LoopPlace

PodInv == Calm /\ StageMaps /\ OneVersion /\ PodsFit(labels) /\ PlaceFits

(* Everything the proofs below start from.                                 *)
NodeInv == LifecycleInv /\ OrderInv /\ HistoryInv /\ ResumesOnMark /\ PodInv

-----------------------------------------------------------------------------
(* Calm stays.                                                             *)
LEMMA QuietSteps ==
    ASSUME TypeInv, Calm, "rebooted" \notin labels.flags
    PROVE  /\ ~HoldReboot /\ ~RebootScan /\ ~StartReboot /\ ~CleanOnDeletion /\ ~FinalizePolicy
           /\ \A p \in Policies : ~ReconcileDeletion(p)
           /\ ~PciLabelFlaps /\ ~UserTogglesIsolate /\ ~NodeReboots
           /\ \A p \in Policies : ~UserDeletes(p)
           /\ \A c \in Comps, q \in Policies : ~PodFails(c, q)
<1>1. ~HoldReboot /\ ~RebootScan BY DEF HoldReboot, RebootScan, Rebooting, Calm
<1>2. ~StartReboot BY DEF StartReboot, Has
<1>3. ~CleanOnDeletion /\ ~FinalizePolicy BY DEF CleanOnDeletion, FinalizePolicy, Calm
<1>4. \A p \in Policies : ~ReconcileDeletion(p) BY DEF ReconcileDeletion, Calm
<1>0. ASSUME NEW f \in {"reboot", "podfail", "delete", "isolate", "flap"}, Spend(f)
      PROVE  FALSE
  <2>1. budget[f] = 0 BY DEF Calm, Kept
  <2>. QED BY <1>0, <2>1 DEF Spend
<1>5. ~PciLabelFlaps /\ ~UserTogglesIsolate /\ ~NodeReboots
  BY <1>0 DEF PciLabelFlaps, UserTogglesIsolate, NodeReboots
<1>6. /\ \A p \in Policies : ~UserDeletes(p)
      /\ \A c \in Comps, q \in Policies : ~PodFails(c, q)
  BY <1>0 DEF UserDeletes, PodFails
<1>. QED BY <1>1, <1>2, <1>3, <1>4, <1>5, <1>6

(* Pods change by single steps of their own.                               *)
LEMMA PodWrites ==
    ASSUME TypeInv, Calm, "rebooted" \notin labels.flags, [Next]_vars
    PROVE  \/ UNCHANGED <<pods, nodeReady>>
           \/ NodeComesUp
           \/ \E c \in Comps, q \in Policies : PodStep(c, q)
<1>1. CASE OperatorStep
  BY <1>1, QuietSteps DEF OperatorStep, NoReboot, AutoIsolate, labelX100Nodes,
     Aggregate, PassOver, StartAdoption, StartEnabling, StartLoop, EnableNext,
     AllEnabled, EnableFails, AdoptFirstPolicy, ListPods, NothingToDrain, Drain, DrainLast,
     DrainPending, DrainsSelector, MarkTornDown, LoopDone, LeaveOldPolicy, KeepMoving,
     ResumeUnfinished, BlockAggregation, transitionToUpgradingState, updateSwVersionLabels,
     AlreadySwitched, IncorrectPolicy, RolledBack, SkipRollback, BeginRollback,
     ListUnderPrior, UnlistFromPolicy, RestorePrior, LabelRolledBack, AfterLabels,
     ReadBootStatus, SkipBootStatus, MarkVerdict, NoVerdict, ClearTimers, cluster, others
<1>2. CASE \E p \in Policies : Reconcile(p) \/ ReconcileDeletion(p)
  BY <1>2 DEF Reconcile, ReconcileDeletion, cluster, others
<1>3. CASE Outside
  BY <1>3, QuietSteps DEF Outside, UserAssigns, TimerExpires, OperatorCrashes, CallFails
<1>4. CASE UNCHANGED vars BY <1>4 DEF vars
<1>. QED BY <1>1, <1>2, <1>3, <1>4 DEF Next

LEMMA NextCalm ==
    ASSUME TypeInv, Calm, "rebooted" \notin labels.flags, [Next]_vars
    PROVE  Calm'
<1>1. /\ op \in Workers /\ op.flow \in Flows
      /\ pods \in [Comps -> [Policies -> PodStates]] /\ (op.pc = "torn" => op.flow # "upgrade")
  BY Parts DEF TypeOK, PlaceOK
<1>2. Kept'
  <2>1. \A f \in {"reboot", "podfail", "delete", "isolate", "flap"} : f \in Faults BY DEF Faults
  <2>. QED BY <2>1, FaultsStayOut DEF Calm, Kept
<1>3. policies' = policies BY PoliciesStay, QuietSteps
<1>4. deleting' = {}
  <2>1. CASE OperatorStep
    BY <2>1, QuietSteps DEF Calm, OperatorStep, NoReboot, AutoIsolate, labelX100Nodes,
       Aggregate, PassOver, StartAdoption, StartEnabling, StartLoop, EnableNext,
       AllEnabled, EnableFails, AdoptFirstPolicy, ListPods, NothingToDrain, Drain, DrainLast,
       DrainPending, DrainsSelector, MarkTornDown, LoopDone, LeaveOldPolicy, KeepMoving,
       ResumeUnfinished, BlockAggregation, transitionToUpgradingState, updateSwVersionLabels,
       AlreadySwitched, IncorrectPolicy, RolledBack, SkipRollback, BeginRollback,
       ListUnderPrior, UnlistFromPolicy, RestorePrior, LabelRolledBack, AfterLabels,
       ReadBootStatus, SkipBootStatus, MarkVerdict, NoVerdict, ClearTimers, cluster, others
  <2>2. CASE \E p \in Policies : Reconcile(p) \/ ReconcileDeletion(p)
    BY <2>2 DEF Calm, Reconcile, ReconcileDeletion, cluster, others
  <2>3. CASE Outside
    BY <2>3, QuietSteps DEF Calm, Outside, UserAssigns, TimerExpires, OperatorCrashes,
       CallFails, NodeComesUp, PodStep, PodCreated, PodUp, PodGone, PodBecomes
  <2>4. CASE UNCHANGED vars BY <2>4 DEF vars, Calm
  <2>. QED BY <2>1, <2>2, <2>3, <2>4 DEF Next
<1>5. nodeReady' /\ \A c \in Comps, q \in Policies : pods'[c][q] # "failed"
  <2>1. CASE UNCHANGED <<pods, nodeReady>> BY <2>1 DEF Calm
  <2>2. CASE NodeComesUp BY <2>2 DEF NodeComesUp, Calm
  <2>3. ASSUME NEW c \in Comps, NEW q \in Policies, PodStep(c, q)
        PROVE  nodeReady' /\ \A d \in Comps, r \in Policies : pods'[d][r] # "failed"
    <3>1. PICK s \in {"starting", "up", "none"} : PodBecomes(c, q, s)
      BY <2>3 DEF PodStep, PodCreated, PodUp, PodGone
    <3>2. nodeReady' = nodeReady /\ pods' = [pods EXCEPT ![c][q] = s] BY <3>1 DEF PodBecomes
    <3>. QED BY <1>1, <3>2 DEF Calm
  <2>. QED BY <2>1, <2>2, <2>3, PodWrites
<1>6. op'.pc \notin {"clean", "finalize"} /\ op'.flow \in {"upgrade", "rollback"}
  <2>1. op.flow \in {"upgrade", "rollback"} /\ op.pc \notin {"clean", "finalize"} BY DEF Calm
  <2>2. CASE \E pc \in PCs \ {"clean", "finalize"} : Goto(pc)
    BY <1>1, <2>1, <2>2 DEF Goto, AtStatus, Idle, Workers
  <2>3. CASE EndPass BY <2>3 DEF EndPass, Idle
  <2>4. CASE op' \in {op, Idle} BY <2>1, <2>4 DEF Idle
  <2>5. CASE OperatorStep
    <3>0. CASE labelX100Nodes BY <2>2, <2>4, <3>0 DEF labelX100Nodes, PCs
    <3>1. CASE \/ NoReboot \/ AutoIsolate \/ Aggregate \/ PassOver
               \/ LoopDone \/ updateSwVersionLabels \/ AlreadySwitched \/ IncorrectPolicy
               \/ SkipRollback \/ ListUnderPrior \/ UnlistFromPolicy
               \/ ReadBootStatus \/ SkipBootStatus \/ MarkVerdict \/ AdoptFirstPolicy
      BY <2>2, <3>1 DEF NoReboot, AutoIsolate, Aggregate, PassOver, LoopDone,
         updateSwVersionLabels, AlreadySwitched, IncorrectPolicy, SkipRollback,
         ListUnderPrior, UnlistFromPolicy, ReadBootStatus, SkipBootStatus, MarkVerdict,
         AdoptFirstPolicy, PCs
    <3>2. CASE EnableNext \/ AllEnabled \/ EnableFails
      <4>1. op.then \in PCs \ {"clean", "finalize"} BY Parts DEF PCs
      <4>. QED BY <2>2, <3>2, <4>1 DEF EnableNext, AllEnabled, EnableFails, PCs
    <3>3. CASE NothingToDrain \/ DrainLast
      <4>1. AfterTeardown \in PCs \ {"clean", "finalize"} BY DEF AfterTeardown, PCs
      <4>. QED BY <2>2, <3>3, <4>1 DEF NothingToDrain, DrainLast
    <3>4. CASE DrainPending BY <2>1, <2>2, <2>4, <3>4 DEF DrainPending, PCs
    <3>5. CASE MarkTornDown
      <4>1. Goto("toPrior") BY <1>1, <2>1, <3>5 DEF MarkTornDown
      <4>. QED BY <2>2, <4>1 DEF PCs
    <3>6. CASE AfterLabels \/ NoVerdict \/ ClearTimers
      BY <2>3, <3>6 DEF AfterLabels, NoVerdict, ClearTimers, Idle
    <3>7. CASE StartAdoption \/ StartEnabling \/ StartLoop \/ ListPods \/ Drain
      BY <1>1, <2>1, <3>7 DEF StartAdoption, StartEnabling, StartLoop, ListPods, Drain, Workers
    <3>8. CASE \E cr \in Policies : LeaveOldPolicy(cr) \/ KeepMoving(cr) \/ ResumeUnfinished(cr)
      <4>. PICK cr \in Policies : LeaveOldPolicy(cr) \/ KeepMoving(cr) \/ ResumeUnfinished(cr)
        BY <3>8
      <4>1. CASE LeaveOldPolicy(cr)
        <5>1. op' = [op EXCEPT !.pc = "block", !.then = "loop", !.todo = @ \ {cr}]
          BY <4>1 DEF LeaveOldPolicy
        <5>. QED BY <1>1, <2>1, <5>1 DEF Workers
      <4>2. CASE KeepMoving(cr)
        <5>1. op' = [op EXCEPT !.pc = "upgrading", !.then = "loop", !.todo = @ \ {cr}]
          BY <4>2 DEF KeepMoving
        <5>. QED BY <1>1, <2>1, <5>1 DEF Workers
      <4>3. CASE ResumeUnfinished(cr)
        <5>1. PICK pc \in {"upgrading", "rolledBack", "loop"}, then \in {"rolledBack", "loop"} :
                 op' = [op EXCEPT !.pc = pc, !.then = then, !.todo = @ \ {cr}, !.flow = "upgrade"]
          BY <4>3, Zenon DEF ResumeUnfinished
        <5>2. op'.pc = pc /\ op'.flow = "upgrade" BY <1>1, <5>1 DEF Workers
        <5>. QED BY <5>2
      <4>. QED BY <4>1, <4>2, <4>3
    <3>9. CASE BlockAggregation \/ transitionToUpgradingState
      BY <1>1, <2>1, <3>9 DEF BlockAggregation, transitionToUpgradingState, Workers
    <3>10. CASE BeginRollback \/ RestorePrior \/ LabelRolledBack
      BY <1>1, <2>1, <3>10 DEF BeginRollback, RestorePrior, LabelRolledBack, Workers
    <3>11. CASE RolledBack
      <4>1. CASE op' = Idle BY <2>4, <4>1
      <4>2. CASE op' = [op EXCEPT !.pc = "enable", !.then = "loop"]
        BY <1>1, <2>1, <4>2 DEF Workers
      <4>. QED BY <3>11, <4>1, <4>2 DEF RolledBack
    <3>. QED BY <2>5, <3>0, <3>1, <3>2, <3>3, <3>4, <3>5, <3>6, <3>7, <3>8, <3>9, <3>10, <3>11, QuietSteps
             DEF OperatorStep
  <2>6. CASE \E p \in Policies : Reconcile(p) \/ ReconcileDeletion(p)
    BY <2>6, QuietSteps DEF Reconcile, Idle
  <2>7. CASE Outside
    <3>1. CASE op' = op BY <2>4, <3>1
    <3>2. CASE OperatorCrashes BY <2>4, <3>2 DEF OperatorCrashes
    <3>3. CASE CallFails
      <4>1. CASE op' = Idle BY <2>4, <4>1
      <4>2. CASE op' = AtStatus BY <1>1, <2>1, <4>2 DEF AtStatus, Idle, Workers
      <4>3. ASSUME NEW pc \in LoggedAt, LogsError(pc), op' = [op EXCEPT !.pc = pc]
            PROVE  op'.pc \notin {"clean", "finalize"} /\ op'.flow = op.flow
        <5>1. op'.pc = pc /\ op'.flow = op.flow BY <1>1, <4>3 DEF Workers
        <5>. QED BY <2>1, <4>3, <5>1 DEF LogsError, Deleting, LoggedAt
      <4>4. CASE op' = [op EXCEPT !.pc = "loop", !.rsnap = BareLabels, !.prior = None]
        BY <1>1, <2>1, <4>4 DEF Workers
      <4>. QED BY <2>1, <3>3, <4>1, <4>2, <4>3, <4>4, CallFailsFields
    <3>. QED BY <2>7, <3>1, <3>2, <3>3, OutsideParts
  <2>8. CASE UNCHANGED vars BY <2>4, <2>8 DEF vars
  <2>. QED BY <2>5, <2>6, <2>7, <2>8 DEF Next
<1>. QED BY <1>2, <1>3, <1>4, <1>5, <1>6 DEF Calm

(* The five stages exclude each other.                                     *)
LEMMA StageFacts ==
    ASSUME NEW l, OneStage(l)
    PROVE  /\ \A f, g \in Stages : f \in l.flags /\ g \in l.flags => f = g
           /\ \A f \in Stages : (\A g \in Stages \ {f} : g \notin l.flags) => f \in l.flags
BY DEF OneStage, Stages

LEMMA StageIs ==
    ASSUME NEW l, NEW f \in Stages, f \in l.flags, \A g \in Stages : g \in l.flags => g = f
    PROVE  OneStage(l)
BY DEF OneStage

LEMMA BareStage == StageMap(BareLabels)
BY NoneIsNoPolicy DEF BareLabels, StageMap, MoveAlone

(* What a stage excludes, in the words of the handlers.                    *)
LEMMA StageApart ==
    ASSUME NEW l \in NodeLabels, MapOK(l), StageMap(l)
    PROVE  /\ "upgrading" \in l.flags => /\ "rollingBackUpgrade" \notin l.flags
                                         /\ "rolledBack" \notin l.flags
                                         /\ "bootStatusMarked" \notin l.flags
                                         /\ "enablingFirstPolicy" \notin l.flags
           /\ "rollingBackUpgrade" \in l.flags => /\ "rolledBack" \notin l.flags
                                                  /\ "bootStatusMarked" \notin l.flags
                                                  /\ "enablingFirstPolicy" \notin l.flags
                                                  /\ l.boot = "absent"
           /\ "rolledBack" \in l.flags => /\ "bootStatusMarked" \notin l.flags
                                          /\ "enablingFirstPolicy" \notin l.flags
           /\ "bootStatusMarked" \in l.flags => "enablingFirstPolicy" \notin l.flags
           /\ "swUpgradeFailed" \in l.flags => "bootStatusMarked" \in l.flags
           /\ Falling(l) => l.boot = "absent" /\ "bootStatusMarked" \notin l.flags
           /\ l.flags # {} \/ l.boot # "absent" => l.active # None
           /\ l.active # None => l.present = "true" /\ l.isolate = FALSE
<1>1. l.flags # {} \/ l.boot # "absent" => l.active # None BY DEF StageMap
<1>2. l.active # None => l.present = "true" /\ l.isolate = FALSE BY DEF StageMap, NodeLabels
<1>3. l.active # None => \A f, g \in Stages : f \in l.flags /\ g \in l.flags => f = g
  BY StageFacts DEF StageMap
<1>4. \A f, g \in Stages : f \in l.flags /\ g \in l.flags => f = g BY <1>1, <1>3
<1>5. "rollingBackUpgrade" \in l.flags => l.boot = "absent" BY DEF MapOK, VerdictOK
<1>6. "swUpgradeFailed" \in l.flags => "bootStatusMarked" \in l.flags BY DEF MapOK, VerdictOK
<1>7. /\ "upgrading" \in l.flags => /\ "rollingBackUpgrade" \notin l.flags
                                    /\ "rolledBack" \notin l.flags
                                    /\ "bootStatusMarked" \notin l.flags
                                    /\ "enablingFirstPolicy" \notin l.flags
      /\ "rollingBackUpgrade" \in l.flags => /\ "rolledBack" \notin l.flags
                                             /\ "bootStatusMarked" \notin l.flags
                                             /\ "enablingFirstPolicy" \notin l.flags
      /\ "rolledBack" \in l.flags => /\ "bootStatusMarked" \notin l.flags
                                     /\ "enablingFirstPolicy" \notin l.flags
      /\ "bootStatusMarked" \in l.flags => "enablingFirstPolicy" \notin l.flags
  BY <1>4 DEF Stages
<1>8. Falling(l) => l.boot = "absent" /\ "bootStatusMarked" \notin l.flags
  BY <1>5, <1>7 DEF Falling, StageMap
<1>. QED BY <1>1, <1>2, <1>5, <1>6, <1>7, <1>8

(* What NodeInv says of the labels and of the maps held.                   *)
LEMMA NodeParts ==
    ASSUME NodeInv
    PROVE  /\ TypeInv /\ LifecycleInv /\ OrderInv /\ HistoryInv /\ PlacesOK /\ ResumesOnMark
           /\ Calm /\ OneVersion /\ PodsFit(labels) /\ PlaceFits
           /\ \A l \in {labels, op.snap, op.rsnap} :
                 l \in NodeLabels /\ MapOK(l) /\ StageMap(l) /\ OrderOK(l) /\ HistoryOK(l)
           /\ "rebooted" \notin labels.flags
BY Parts DEF NodeInv, LifecycleInv, OrderInv, HistoryInv, PodInv, StageMaps, StageMap

(* The history holds on: a status that is dropped from a rolled-back node  *)
(* is dropped from the map of this very pass.                              *)
LEMMA NextCalmHistory ==
    ASSUME NodeInv, [Next]_vars
    PROVE  HistoryInv'
<1>1. CASE ~StatusDropped BY <1>1, NextHistory, NodeParts
<1>2. CASE StatusDropped
  <2>1. op.pc = "rolledBack" /\ op.snap.boot = "true" BY <1>2 DEF StatusDropped
  <2>2. HeldMapsRead BY NodeParts, HeldMaps
  <2>3. "rolledBack" \in op.snap.flags BY <2>1, NodeParts DEF ResumesOnMark
  <2>4. "upgrading" \notin op.snap.flags /\ op.snap.active # None
    BY <2>3, NodeParts, StageApart
  <2>5. CASE RolledBack
    <3>1. labels' = StatusCleaned(op.snap) /\ op' = Idle BY <2>1, <2>5 DEF RolledBack
    <3>2. labels'.active # None /\ "upgrading" \notin labels'.flags
      BY <2>4, <3>1, NodeParts DEF StatusCleaned, NodeLabels
    <3>3. HistoryOK(labels)' BY <3>2 DEF HistoryOK
    <3>4. HistoryOK(op.snap)' /\ HistoryOK(op.rsnap)' BY <3>1, BareHistory DEF Idle
    <3>5. PlacesOK' BY <3>1, RestingPlace DEF Idle, Resting
    <3>. QED BY <3>3, <3>4, <3>5 DEF HistoryInv
  <2>6. CASE Outside
    <3>1. PlacesOK' BY <2>6, OutsideHistory, NodeParts
    <3>2. /\ labels'.active = labels.active /\ labels'.prior = labels.prior
          /\ labels'.flags = labels.flags /\ labels'.blocked = labels.blocked
      BY <2>6, OutsideLabels, NodeParts DEF NodeLabels
    <3>3. HistoryOK(labels)' BY <3>2, NodeParts DEF HistoryOK
    <3>4. \A l \in {BareLabels, labels, op.snap, op.rsnap, labels'} : HistoryOK(l)
      BY <3>3, BareHistory, NodeParts DEF HistoryOK
    <3>5. HistoryOK(op.snap)' /\ HistoryOK(op.rsnap)'
      BY <2>2, <3>4 DEF HeldMapsRead, HistoryOK
    <3>. QED BY <3>1, <3>3, <3>5 DEF HistoryInv
  <2>7. CASE UNCHANGED vars
    <3>1. UNCHANGED <<labels, op>> BY <2>7 DEF vars
    <3>. QED BY <3>1, NodeParts DEF HistoryInv, HistoryOK, PlacesOK, StageOK, BackOK, LoopOK, MoveOK,
            Adopting, AtWork, RollingBack, Looping, Upgrading, Elsewhere, Agree, Has, Me
  <2>8. RolledBack \/ Outside \/ UNCHANGED vars
    BY <2>1 DEF Next, OperatorStep, NoReboot, HoldReboot, RebootScan, AutoIsolate,
       labelX100Nodes, Aggregate, PassOver, StartAdoption, StartEnabling, StartReboot,
       StartLoop, EnableNext, AllEnabled, EnableFails, AdoptFirstPolicy, ListPods,
       NothingToDrain, Drain, DrainLast, DrainPending, DrainsSelector, MarkTornDown, LoopDone,
       LeaveOldPolicy, KeepMoving, ResumeUnfinished, BlockAggregation,
       transitionToUpgradingState, updateSwVersionLabels, AlreadySwitched, IncorrectPolicy,
       SkipRollback, BeginRollback, ListUnderPrior, UnlistFromPolicy, RestorePrior,
       LabelRolledBack, AfterLabels, ReadBootStatus, SkipBootStatus, MarkVerdict, NoVerdict,
       ClearTimers, CleanOnDeletion, FinalizePolicy, Reconcile, ReconcileDeletion
  <2>. QED BY <2>5, <2>6, <2>7, <2>8
<1>. QED BY <1>1, <1>2

(* The steps that write labels, and the others.                            *)
LEMMA LabelWriters ==
    ASSUME NodeInv, [Next]_vars
    PROVE  \/ labels' = labels
           \/ /\ UNCHANGED <<pods, nodeReady>>
              /\ \/ AutoIsolate \/ labelX100Nodes \/ EnableNext \/ AdoptFirstPolicy
                 \/ Drain \/ DrainLast \/ DrainPending \/ MarkTornDown
                 \/ BlockAggregation \/ transitionToUpgradingState \/ updateSwVersionLabels
                 \/ RolledBack \/ BeginRollback \/ RestorePrior \/ LabelRolledBack
                 \/ ReadBootStatus \/ MarkVerdict
<1>0. TypeInv /\ Calm /\ "rebooted" \notin labels.flags BY NodeParts
<1>1. CASE OperatorStep
  <2>1. UNCHANGED <<pods, nodeReady>>
    BY <1>0, <1>1, QuietSteps DEF OperatorStep, NoReboot, AutoIsolate, labelX100Nodes,
       Aggregate, PassOver, StartAdoption, StartEnabling, StartLoop, EnableNext,
       AllEnabled, EnableFails, AdoptFirstPolicy, ListPods, NothingToDrain, Drain, DrainLast,
       DrainPending, DrainsSelector, MarkTornDown, LoopDone, LeaveOldPolicy, KeepMoving,
       ResumeUnfinished, BlockAggregation, transitionToUpgradingState, updateSwVersionLabels,
       AlreadySwitched, IncorrectPolicy, RolledBack, SkipRollback, BeginRollback,
       ListUnderPrior, UnlistFromPolicy, RestorePrior, LabelRolledBack, AfterLabels,
       ReadBootStatus, SkipBootStatus, MarkVerdict, NoVerdict, ClearTimers, cluster, others
  <2>. QED BY <1>0, <1>1, <2>1, QuietSteps, QuietLabels DEF OperatorStep
<1>2. CASE \E p \in Policies : Reconcile(p) \/ ReconcileDeletion(p) BY <1>2, QuietLabels
<1>3. CASE Outside
  <2>1. labels' = labels
    BY <1>0, <1>3, QuietSteps DEF Outside, UserAssigns, NodeComesUp, PodStep, PodCreated, PodUp,
       PodGone, PodBecomes, TimerExpires, OperatorCrashes, CallFails
  <2>. QED BY <2>1
<1>4. CASE UNCHANGED vars BY <1>4 DEF vars
<1>. QED BY <1>1, <1>2, <1>3, <1>4 DEF Next

-----------------------------------------------------------------------------
(* Every write leaves a map in one stage.  First the clean-ups.            *)
LEMMA CleanStage ==
    ASSUME NEW l \in NodeLabels, l.pci
    PROVE  LET bare == cleanupStaleSelectorLabels(cleanupStaleCRLabels(l))
           IN  /\ StageMap([bare EXCEPT !.isolate = TRUE])
               /\ l.isolate => StageMap(Withdrawn(l))
<1> DEFINE bare == cleanupStaleSelectorLabels(cleanupStaleCRLabels(l))
<1>1. /\ bare \in NodeLabels /\ bare.active = None /\ bare.flags = {} /\ bare.boot = "absent"
      /\ bare.sel = {} /\ bare.blocked = None /\ bare.present = "absent"
      /\ bare.isolate = l.isolate /\ bare.pci = l.pci
  BY DEF cleanupStaleSelectorLabels, cleanupStaleCRLabels, NodeLabels, PolicyOrNone
<1>2. Withdrawn(l) = [bare EXCEPT !.present = "false"] BY DEF Withdrawn
<1>. HIDE DEF bare
<1>3. StageMap([bare EXCEPT !.isolate = TRUE])
  BY <1>1 DEF NodeLabels, StageMap, MoveAlone
<1>4. l.isolate => StageMap([bare EXCEPT !.present = "false"])
  BY <1>1 DEF NodeLabels, StageMap, MoveAlone
<1>. QED BY <1>2, <1>3, <1>4 DEF bare

(* A map of the same policy with other selectors, and no status.           *)
LEMMA SelectedStage ==
    ASSUME NEW l \in NodeLabels, StageMap(l), NEW s \in SUBSET Comps,
           l.active = None => s \subseteq {"firmware"},
           l.boot # "absent" \/ "bootStatusMarked" \in l.flags => s = Comps
    PROVE  StageMap([l EXCEPT !.sel = s])
<1> DEFINE m == [l EXCEPT !.sel = s]
<1>1. /\ m.sel = s /\ m.flags = l.flags /\ m.boot = l.boot /\ m.active = l.active
      /\ m.present = l.present /\ m.isolate = l.isolate /\ m.pci = l.pci
      /\ m.blocked = l.blocked
  BY DEF NodeLabels
<1>. HIDE DEF m
<1>. QED BY <1>1 DEF StageMap, OneStage, MoveAlone, m

LEMMA AdoptedStage ==
    ASSUME NEW l \in NodeLabels, MapOK(l), StageMap(l), l.active = None, l.present = "true",
           NEW p \in Policies
    PROVE  StageMap(Adopted(l, p))
<1> DEFINE m == Adopted(l, p)
<1>1. /\ m.sel = l.sel /\ m.boot = "absent" /\ m.active = p /\ m.present = "true"
      /\ m.pci = l.pci /\ m.isolate = l.isolate /\ m.blocked = None
      /\ m.flags = {"enablingFirstPolicy"}
  BY DEF Adopted, NodeLabels, StageMap, MapOK, BareOK
<1>2. OneStage(m) BY <1>1, StageIs DEF Stages
<1>. HIDE DEF m
<1>3. StageMap(m) BY <1>1, <1>2, NoneIsNotIn DEF StageMap, MoveAlone
<1>. QED BY <1>3 DEF m

(* The stage moves on.                                                     *)
LEMMA MovedOnStage ==
    ASSUME NEW l \in NodeLabels, StageMap(l), NEW m, NEW f \in Stages,
           m.active # None, m.present = l.present, m.isolate = l.isolate, m.pci = l.pci,
           l.active # None, m.boot = "absent", f # "bootStatusMarked",
           f \in m.flags, "rebooted" \notin m.flags, \A g \in Stages : g \in m.flags => g = f,
           m.blocked # None => f # "enablingFirstPolicy", MoveAlone(m)
    PROVE  StageMap(m)
<1>1. OneStage(m) BY StageIs
<1>2. "bootStatusMarked" \notin m.flags BY DEF Stages
<1>3. m.blocked # None => "enablingFirstPolicy" \notin m.flags BY DEF Stages
<1>. QED BY <1>1, <1>2, <1>3 DEF StageMap

LEMMA JudgedStage ==
    ASSUME NEW l \in NodeLabels, MapOK(l), StageMap(l), l.boot # "absent"
    PROVE  StageMap(Verdict(l))
<1> DEFINE m == Verdict(l)
<1>1. l.active # None /\ "rollingBackUpgrade" \notin l.flags BY StageApart
<1>2. /\ m.sel = l.sel /\ m.active = l.active /\ m.present = l.present
      /\ m.pci = l.pci /\ m.isolate = l.isolate /\ m.blocked = l.blocked
  BY DEF Verdict, NodeLabels
<1>3. /\ "bootStatusMarked" \in m.flags /\ m.flags \cap InProgress = {}
      /\ "rollingBackUpgrade" \notin m.flags
  BY <1>1 DEF Verdict, NodeLabels, InProgress
<1>4. OneStage(m) BY <1>3, StageIs DEF Stages, InProgress
<1>. HIDE DEF m
<1>5. StageMap(m) BY <1>1, <1>2, <1>3, <1>4 DEF StageMap, MoveAlone, InProgress
<1>. QED BY <1>5 DEF m

(* Where upgrades and rollbacks begin.  A move that is to go on, and has   *)
(* not yet begun to upgrade, is one of a node that has been judged.        *)
LEMMA UpgradesTheJudged ==
    ASSUME NodeInv, transitionToUpgradingState, ~Has("upgrading")
    PROVE  labels.blocked # None /\ Has("bootStatusMarked") /\ labels.active # None
<1>1. op.pc = "upgrading" BY DEF transitionToUpgradingState
<1>2. PlacesOK BY NodeParts
<1>3. Looping /\ AtWork BY <1>1 DEF Looping, AtWork
<1>4. labels.active # None BY <1>2, <1>3 DEF PlacesOK, StageOK
<1>5. labels.blocked # None
  BY <1>1, <1>2, <1>3 DEF PlacesOK, MoveOK, LoopOK
<1>6. StageMap(labels) BY NodeParts
<1>7. /\ OneStage(labels) /\ "enablingFirstPolicy" \notin labels.flags
      /\ "rollingBackUpgrade" \notin labels.flags /\ "rolledBack" \notin labels.flags
  BY <1>4, <1>5, <1>6 DEF StageMap, MoveAlone
<1>8. Has("bootStatusMarked") BY <1>7, StageFacts DEF Stages, Has
<1>. QED BY <1>4, <1>5, <1>8

LEMMA RollsBackTheJudged ==
    ASSUME NodeInv, BeginRollback, ~Has("rollingBackUpgrade")
    PROVE  Has("bootStatusMarked") /\ labels.active # None
<1>1. "swUpgradeFailed" \in labels.flags BY DEF BeginRollback, MayRollBack, Has
<1>. QED BY <1>1, NodeParts, StageApart DEF Has

(* A move begins on a node that has been judged, too.                      *)
LEMMA BlocksTheJudged ==
    ASSUME NodeInv, BlockAggregation, MoveAlone(labels')
    PROVE  /\ "bootStatusMarked" \in op.snap.flags /\ op.snap.active # None
           /\ Agree(labels, op.snap)
<1>1. op.pc = "block" /\ labels' = [op.snap EXCEPT !.blocked = Me] BY DEF BlockAggregation
<1>2. PlacesOK /\ PlaceFits /\ op.snap \in NodeLabels /\ StageMap(op.snap) /\ HistoryOK(op.snap)
  BY NodeParts
<1>3. Looping /\ Elsewhere BY <1>1, <1>2 DEF Looping, PlacesOK, MoveOK
<1>4. Agree(labels, op.snap) BY <1>2, <1>3 DEF PlacesOK, LoopOK
<1>5. "enablingFirstPolicy" \notin op.snap.flags BY <1>2, <1>3 DEF PlaceFits, LoopPlace
<1>6. op.snap.active # None BY <1>3, NodeParts DEF LifecycleInv, WorkerOK
<1>7. Me \in Policies /\ Me # None
  <2>1. Me \in policies BY <1>1, NodeParts, Parts DEF PlaceOK
  <2>. QED BY <2>1, NodeParts, Parts, NoneIsNotIn
<1>8. labels'.blocked # None /\ labels'.flags = op.snap.flags BY <1>1, <1>2, <1>7 DEF NodeLabels
<1>9. op.snap.flags \cap {"teardownCompleted", "rollingBackUpgrade", "rolledBack"} = {}
  BY <1>8 DEF MoveAlone
<1>10. "upgrading" \notin op.snap.flags BY <1>2, <1>3, <1>9 DEF HistoryOK, Elsewhere
<1>11. OneStage(op.snap) BY <1>2, <1>6 DEF StageMap
<1>. QED BY <1>4, <1>5, <1>6, <1>9, <1>10, <1>11, StageFacts DEF Stages

-----------------------------------------------------------------------------
(* The labels stay in one stage, action by action.                         *)

LEMMA IsolateStage ==
    ASSUME NodeInv, AutoIsolate
    PROVE  StageMap(labels')
<1>1. labels \in NodeLabels /\ StageMap(labels) BY NodeParts
<1>2. labels.pci BY <1>1 DEF StageMap
<1>. QED BY <1>1, <1>2, CleanStage DEF AutoIsolate

LEMMA PresentStage ==
    ASSUME NodeInv, labelX100Nodes
    PROVE  \/ labels.isolate /\ labels' = Withdrawn(labels) /\ StageMap(labels')
           \/ /\ ~labels.isolate /\ labels' = [labels EXCEPT !.present = "true"]
              /\ StageMap(labels')
<1>1. labels \in NodeLabels /\ StageMap(labels) BY NodeParts
<1>2. labels.pci BY <1>1 DEF StageMap
<1>3. CASE labels.isolate
  BY <1>1, <1>2, <1>3, CleanStage DEF labelX100Nodes
<1>4. CASE ~labels.isolate
  <2>1. labels' = [labels EXCEPT !.present = "true"] BY <1>2, <1>4 DEF labelX100Nodes
  <2>2. StageMap([labels EXCEPT !.present = "true"])
    <3> DEFINE m == [labels EXCEPT !.present = "true"]
    <3>1. /\ m.sel = labels.sel /\ m.flags = labels.flags /\ m.boot = labels.boot
          /\ m.active = labels.active /\ m.present = "true" /\ m.isolate = labels.isolate
          /\ m.pci = labels.pci /\ m.blocked = labels.blocked
      BY <1>1 DEF NodeLabels
    <3>. HIDE DEF m
    <3>2. OneStage(labels) => OneStage(m) BY <3>1 DEF OneStage
    <3>3. MoveAlone(labels) => MoveAlone(m) BY <3>1 DEF MoveAlone
    <3>4. StageMap(m) BY <1>1, <1>4, <3>1, <3>2, <3>3 DEF StageMap
    <3>. QED BY <3>4 DEF m
  <2>. QED BY <1>4, <2>1, <2>2
<1>. QED BY <1>3, <1>4

(* At work, a node is under a policy and in service.                       *)
LEMMA InService ==
    ASSUME NodeInv, Working
    PROVE  /\ labels.present = "true" /\ labels.isolate = FALSE
           /\ AtWork => labels.active # None
<1>1. labels.present = "true" BY NodeParts DEF LifecycleInv, WorkerOK
<1>2. labels.isolate = FALSE BY <1>1, NodeParts DEF StageMap, NodeLabels
<1>3. AtWork => labels.active # None BY NodeParts DEF PlacesOK, StageOK
<1>. QED BY <1>1, <1>2, <1>3

(* A pod on a node in service is one of the active policy.                 *)
LEMMA PodIsActive ==
    ASSUME NodeInv, labels.present = "true"
    PROVE  \A c \in Comps, q \in Policies : pods[c][q] # "none" => q = labels.active
<1>1. ~labels.isolate BY NodeParts DEF StageMap
<1>. QED BY <1>1, NodeParts DEF PodsFit, OfActive

LEMMA EnabledStage ==
    ASSUME NodeInv, EnableNext
    PROVE  StageMap(labels')
<1>1. op.pc = "enable" /\ Working BY DEF EnableNext, Working
<1>2. PICK c \in Comps : /\ IsNextSelector(c, labels) /\ NextSelectorMayBeSet(c)
                         /\ labels' = [labels EXCEPT !.sel = labels.sel \cup {c}]
  BY DEF EnableNext
<1>3. labels \in NodeLabels /\ StageMap(labels) /\ labels.sel \subseteq Comps
  BY NodeParts DEF NodeLabels
<1>4. labels.active = None => c = "firmware"
  <2>. SUFFICES ASSUME labels.active = None, c # "firmware" PROVE FALSE OBVIOUS
  <2>1. c \in {"HwManager", "kmodules", "devicePlugin"} BY DEF Comps
  <2>2. \E d \in Comps : FetchedPod(d, "up")
    BY <1>2, <2>1 DEF NextSelectorMayBeSet, kmmReady, Comps
  <2>3. \E d \in Comps, q \in Policies : pods[d][q] # "none" BY <2>2 DEF FetchedPod
  <2>. QED BY <1>1, <2>3, InService, PodIsActive, NoneIsNotIn
<1>5. labels.sel # Comps BY <1>2 DEF IsNextSelector
<1>6. labels.active = None => labels.sel \cup {c} \subseteq {"firmware"}
  BY <1>3, <1>4 DEF StageMap
<1>7. ~(labels.boot # "absent" \/ "bootStatusMarked" \in labels.flags)
  BY <1>3, <1>5 DEF StageMap
<1>. QED BY <1>2, <1>3, <1>6, <1>7, SelectedStage

LEMMA AdoptStage ==
    ASSUME NodeInv, AdoptFirstPolicy
    PROVE  /\ StageMap(labels') /\ labels' = Adopted(op.snap, Me)
           /\ op.snap.active = None /\ op.snap.present = "true"
           /\ labels.active = None /\ labels.present = "true"
<1>1. op.pc = "adopt" /\ labels' = Adopted(op.snap, Me) BY DEF AdoptFirstPolicy
<1>2. Adopting /\ Working BY <1>1 DEF Adopting, Working
<1>3. op.snap.active = None /\ op.snap.present = "true" /\ labels.present = "true"
  BY <1>2, NodeParts DEF LifecycleInv, WorkerOK
<1>4. labels.active = None BY <1>2, NodeParts DEF PlacesOK, StageOK
<1>5. Me \in Policies
  <2>1. Me \in policies BY <1>1, NodeParts, Parts DEF PlaceOK
  <2>. QED BY <2>1, NodeParts, Parts
<1>6. StageMap(Adopted(op.snap, Me)) BY <1>3, <1>5, NodeParts, AdoptedStage
<1>. QED BY <1>1, <1>3, <1>4, <1>6

LEMMA DrainingStage ==
    ASSUME NodeInv, Drain \/ DrainLast \/ DrainPending
    PROVE  /\ labels' = [labels EXCEPT !.sel = labels.sel \ {op.at}]
           /\ Falling(labels) /\ StageMap(labels')
           /\ labels.active # None /\ labels.isolate = FALSE
<1>1. op.pc = "drain" /\ labels' = [labels EXCEPT !.sel = labels.sel \ {op.at}]
  BY DEF Drain, DrainLast, DrainPending, DrainsSelector
<1>2. Falling(labels) BY <1>1, NodeParts DEF PlaceFits, DrainPlace
<1>3. labels \in NodeLabels /\ MapOK(labels) /\ StageMap(labels) /\ labels.sel \subseteq Comps
  BY NodeParts DEF NodeLabels
<1>4. labels.boot = "absent" /\ "bootStatusMarked" \notin labels.flags
  BY <1>2, <1>3, StageApart
<1>5. labels.active = None => labels.sel \ {op.at} \subseteq {"firmware"}
  BY <1>3 DEF StageMap
<1>6. StageMap(labels') BY <1>1, <1>3, <1>4, <1>5, SelectedStage
<1>7. labels.active # None /\ labels.isolate = FALSE
  BY <1>2, <1>3, StageApart DEF Falling
<1>. QED BY <1>1, <1>2, <1>6, <1>7

(* What a rollback knows of its map.                                       *)
LEMMA TornBack ==
    ASSUME NodeInv, op.pc \in {"torn", "toPrior", "fromPolicy", "restore", "rolledBackLabel"}
    PROVE  /\ op.flow = "rollback" \/ op.pc # "torn"
           /\ RollingBack /\ Agree(labels, op.rsnap) /\ op.rsnap.sel = {}
           /\ labels.active # None
           /\ op.pc # "rolledBackLabel" => Has("rollingBackUpgrade")
           /\ "rollingBackUpgrade" \in op.rsnap.flags
           /\ op.rsnap.active = labels.active
<1>1. op.pc = "torn" => op.flow = "rollback" BY NodeParts DEF TypeInv, PlaceOK, Calm
<1>2. RollingBack /\ AtWork BY <1>1 DEF RollingBack, AtWork
<1>3. Agree(labels, op.rsnap) /\ labels.active # None
  BY <1>2, NodeParts DEF PlacesOK, BackOK, StageOK
<1>4. op.rsnap.sel = {} BY NodeParts DEF PlaceFits, BackPlace
<1>5. op.pc # "rolledBackLabel" => Has("rollingBackUpgrade")
  BY <1>2, NodeParts DEF PlacesOK, BackOK
<1>6. op.pc = "rolledBackLabel" => Bottom(labels) BY NodeParts DEF PlaceFits, BackPlace
<1>7. Has("rollingBackUpgrade") BY <1>5, <1>6 DEF Bottom, Has
<1>8. labels.flags \ {"teardownCompleted"} = op.rsnap.flags \ {"teardownCompleted"}
      /\ op.rsnap.active = labels.active
  BY <1>3 DEF Agree
<1>9. "rollingBackUpgrade" \in op.rsnap.flags BY <1>7, <1>8 DEF Has
<1>. QED BY <1>1, <1>2, <1>3, <1>4, <1>5, <1>8, <1>9

LEMMA TornDownStage ==
    ASSUME NodeInv, MarkTornDown, MoveAlone(labels')
    PROVE  /\ labels' = [op.rsnap EXCEPT !.flags = @ \cup {"teardownCompleted"}]
           /\ labels' \in NodeLabels /\ StageMap(labels') /\ Bottom(labels')
           /\ labels'.sel = {} /\ labels'.active = labels.active /\ labels'.boot = "absent"
           /\ "bootStatusMarked" \notin labels'.flags
           /\ op.flow = "rollback"
<1>1. op.pc = "torn" /\ op.flow = "rollback" BY TornBack DEF MarkTornDown
<1>2. labels' = [op.rsnap EXCEPT !.flags = op.rsnap.flags \cup {"teardownCompleted"}]
  BY <1>1 DEF MarkTornDown
<1>3. op.rsnap \in NodeLabels /\ MapOK(op.rsnap) /\ StageMap(op.rsnap) BY NodeParts
<1>4. "rollingBackUpgrade" \in op.rsnap.flags /\ op.rsnap.sel = {} /\ op.rsnap.active = labels.active
  BY <1>1, TornBack
<1>5. /\ "upgrading" \notin op.rsnap.flags /\ "rolledBack" \notin op.rsnap.flags
      /\ "bootStatusMarked" \notin op.rsnap.flags /\ "enablingFirstPolicy" \notin op.rsnap.flags
      /\ op.rsnap.boot = "absent" /\ op.rsnap.active # None
  BY <1>3, <1>4, StageApart
<1>6. /\ labels'.sel = {} /\ labels'.active = op.rsnap.active /\ labels'.boot = "absent"
      /\ labels'.present = op.rsnap.present /\ labels'.isolate = op.rsnap.isolate
      /\ labels'.pci = op.rsnap.pci /\ labels'.blocked = op.rsnap.blocked
      /\ labels'.flags = op.rsnap.flags \cup {"teardownCompleted"}
  BY <1>2, <1>3, <1>4, <1>5 DEF NodeLabels
<1>7. labels' \in NodeLabels BY <1>2, <1>3 DEF NodeLabels, Flags
<1>8. "rebooted" \notin labels'.flags BY <1>3, <1>6 DEF StageMap
<1>9. StageMap(labels')
  BY <1>3, <1>4, <1>5, <1>6, <1>8, MovedOnStage DEF Stages
<1>. QED BY <1>1, <1>2, <1>4, <1>5, <1>6, <1>7, <1>9 DEF Bottom

LEMMA BlockedStage ==
    ASSUME NodeInv, BlockAggregation, MoveAlone(labels')
    PROVE  /\ StageMap(labels') /\ labels'.sel = Comps /\ labels'.active = labels.active
           /\ labels' = op'.snap /\ labels'.flags = op.snap.flags
           /\ "bootStatusMarked" \in labels'.flags /\ "bootStatusMarked" \in labels.flags
           /\ labels'.isolate = FALSE
<1>1. labels' = [op.snap EXCEPT !.blocked = Me] BY DEF BlockAggregation
<1>2. op.snap \in NodeLabels /\ MapOK(op.snap) /\ StageMap(op.snap) /\ op \in Workers
  BY NodeParts, Parts
<1>3. /\ "bootStatusMarked" \in op.snap.flags /\ op.snap.active # None
      /\ Agree(labels, op.snap)
  BY BlocksTheJudged
<1>4. /\ labels'.sel = op.snap.sel /\ labels'.flags = op.snap.flags
      /\ labels'.boot = op.snap.boot /\ labels'.active = op.snap.active
      /\ labels'.present = op.snap.present /\ labels'.isolate = op.snap.isolate
      /\ labels'.pci = op.snap.pci
  BY <1>1, <1>2 DEF NodeLabels
<1>5. op.snap.sel = Comps BY <1>2, <1>3 DEF StageMap
<1>6. op.snap.isolate = FALSE BY <1>2, <1>3, StageApart
<1>7. "bootStatusMarked" \in labels.flags /\ labels.active = op.snap.active
  BY <1>3 DEF Agree
<1>8. "enablingFirstPolicy" \notin op.snap.flags /\ "upgrading" \notin op.snap.flags
  BY <1>2, <1>3, StageApart
<1>9. OneStage(labels') BY <1>2, <1>3, <1>4 DEF StageMap, OneStage
<1>10. StageMap(labels') BY <1>2, <1>3, <1>4, <1>5, <1>8, <1>9 DEF StageMap
<1>11. labels' = op'.snap BY <1>2 DEF BlockAggregation, Workers
<1>. QED BY <1>3, <1>4, <1>5, <1>6, <1>7, <1>10, <1>11

LEMMA BegunStage ==
    ASSUME NodeInv, NEW l, MoveAlone(l), NEW f \in {"upgrading", "rollingBackUpgrade"},
           l = [StatusCleaned(labels) EXCEPT !.flags = @ \cup {f}],
           "bootStatusMarked" \in labels.flags, labels.active # None
    PROVE  /\ StageMap(l) /\ Falling(l) /\ l.sel = labels.sel /\ l.active = labels.active
           /\ l.isolate = labels.isolate /\ l.boot = "absent"
           /\ "bootStatusMarked" \notin l.flags /\ l \in NodeLabels
           /\ l.blocked = labels.blocked /\ l.prior = labels.prior
<1>1. labels \in NodeLabels /\ MapOK(labels) /\ StageMap(labels) BY NodeParts
<1>2. /\ "upgrading" \notin labels.flags /\ "rollingBackUpgrade" \notin labels.flags
      /\ "rolledBack" \notin labels.flags /\ "enablingFirstPolicy" \notin labels.flags
  BY <1>1, StageApart
<1>3. /\ l.sel = labels.sel /\ l.active = labels.active /\ l.isolate = labels.isolate
      /\ l.boot = "absent" /\ l.present = labels.present /\ l.pci = labels.pci
      /\ l.flags = (labels.flags \ {"bootStatusMarked", "swUpgradeFailed", "teardownCompleted"})
                       \cup {f}
      /\ l.blocked = labels.blocked /\ l.prior = labels.prior
  BY <1>1 DEF StatusCleaned, NodeLabels
<1>4. l \in NodeLabels BY <1>1 DEF StatusCleaned, NodeLabels, Flags
<1>5. Falling(l) BY <1>3 DEF Falling
<1>6. "rebooted" \notin l.flags BY <1>1, <1>3 DEF StageMap
<1>7. \A g \in Stages : g \in l.flags => g = f BY <1>2, <1>3 DEF Stages
<1>8. f \in Stages /\ f # "enablingFirstPolicy" /\ f # "bootStatusMarked" BY DEF Stages
<1>9. f \in l.flags BY <1>3
<1>10. StageMap(l) BY <1>1, <1>3, <1>6, <1>7, <1>8, <1>9, MovedOnStage
<1>11. "bootStatusMarked" \notin l.flags BY <1>3
<1>. QED BY <1>3, <1>4, <1>5, <1>10, <1>11

LEMMA UpgradingStage ==
    ASSUME NodeInv, transitionToUpgradingState, MoveAlone(labels')
    PROVE  /\ StageMap(labels')
           /\ \/ labels' = labels /\ Has("upgrading")
              \/ /\ Has("bootStatusMarked") /\ Falling(labels')
                 /\ labels'.sel = labels.sel /\ labels'.active = labels.active
                 /\ labels'.isolate = labels.isolate /\ labels'.boot = "absent"
                 /\ "bootStatusMarked" \notin labels'.flags
<1>1. CASE Has("upgrading")
  BY <1>1, NodeParts DEF transitionToUpgradingState
<1>2. CASE ~Has("upgrading")
  <2>1. Has("bootStatusMarked") /\ labels.active # None BY <1>2, UpgradesTheJudged
  <2>2. labels' = [StatusCleaned(labels) EXCEPT !.flags = @ \cup {"upgrading"}]
    BY <1>2 DEF transitionToUpgradingState, UpgradeBegun
  <2>. QED BY <2>1, <2>2, BegunStage DEF Has
<1>. QED BY <1>1, <1>2

LEMMA RollbackStage ==
    ASSUME NodeInv, BeginRollback, MoveAlone(labels')
    PROVE  /\ StageMap(labels')
           /\ \/ labels' = labels /\ Has("rollingBackUpgrade")
              \/ /\ Has("bootStatusMarked") /\ Falling(labels')
                 /\ labels'.sel = labels.sel /\ labels'.active = labels.active
                 /\ labels'.isolate = labels.isolate /\ labels'.boot = "absent"
                 /\ "bootStatusMarked" \notin labels'.flags
<1>1. CASE Has("rollingBackUpgrade")
  BY <1>1, NodeParts DEF BeginRollback
<1>2. CASE ~Has("rollingBackUpgrade")
  <2>1. Has("bootStatusMarked") /\ labels.active # None BY <1>2, RollsBackTheJudged
  <2>2. labels' = [StatusCleaned(labels) EXCEPT !.flags = @ \cup {"rollingBackUpgrade"}]
    BY <1>2 DEF BeginRollback, RollbackBegun
  <2>. QED BY <2>1, <2>2, BegunStage DEF Has
<1>. QED BY <1>1, <1>2

LEMMA SwitchedStage ==
    ASSUME NodeInv, updateSwVersionLabels
    PROVE  /\ StageMap(labels') /\ labels'.sel = {} /\ NoPods
           /\ labels'.boot = "absent" /\ "bootStatusMarked" \notin labels'.flags
           /\ "upgrading" \in labels'.flags /\ "teardownCompleted" \in labels'.flags
           /\ labels' \in NodeLabels
<1>1. op.pc = "switch" /\ ~Has("teardownCompleted") /\ labels' = Switched(labels, Me)
  BY DEF updateSwVersionLabels
<1>2. labels.sel = {} /\ NoPods BY <1>1, NodeParts DEF PlaceFits, LoopPlace
<1>3. "upgrading" \in labels.flags BY <1>1, NodeParts DEF PlacesOK, MoveOK, Has
<1>4. labels \in NodeLabels /\ MapOK(labels) /\ StageMap(labels) BY NodeParts
<1>5. /\ "rollingBackUpgrade" \notin labels.flags /\ "rolledBack" \notin labels.flags
      /\ "bootStatusMarked" \notin labels.flags /\ "enablingFirstPolicy" \notin labels.flags
      /\ labels.active # None
  BY <1>3, <1>4, StageApart
<1>6. labels.boot = "absent" BY <1>1, <1>3, <1>4 DEF StageMap, Has
<1>7. Me \in Policies /\ Me # None
  <2>1. Me \in policies BY <1>1, NodeParts, Parts DEF PlaceOK
  <2>. QED BY <2>1, NodeParts, Parts, NoneIsNotIn
<1>8. /\ labels'.sel = labels.sel /\ labels'.active = Me /\ labels'.isolate = labels.isolate
      /\ labels'.boot = labels.boot /\ labels'.present = labels.present
      /\ labels'.pci = labels.pci /\ labels'.blocked = None
      /\ labels'.flags = labels.flags \cup {"teardownCompleted"}
  BY <1>1, <1>4 DEF Switched, NodeLabels
<1>9. labels' \in NodeLabels
  BY <1>1, <1>4, <1>7 DEF Switched, NodeLabels, PolicyOrNone, Flags
<1>10. "rebooted" \notin labels'.flags BY <1>4, <1>8 DEF StageMap
<1>11. \A g \in Stages : g \in labels'.flags => g = "upgrading" BY <1>5, <1>8 DEF Stages
<1>12. "upgrading" \in Stages BY DEF Stages
<1>13. MoveAlone(labels') BY <1>8 DEF MoveAlone
<1>14. StageMap(labels')
  BY <1>3, <1>4, <1>5, <1>6, <1>7, <1>8, <1>10, <1>11, <1>12, <1>13, MovedOnStage
<1>15. "bootStatusMarked" \notin labels'.flags BY <1>5, <1>8
<1>. QED BY <1>2, <1>3, <1>6, <1>8, <1>9, <1>14, <1>15

LEMMA ResumedStage ==
    ASSUME NodeInv, RolledBack, labels' # labels
    PROVE  /\ StageMap(labels') /\ labels'.sel = Comps /\ labels.boot = "true"
           /\ labels'.active = labels.active /\ labels'.isolate = FALSE
           /\ labels'.boot = "absent" /\ "bootStatusMarked" \notin labels'.flags
           /\ "rolledBack" \in labels'.flags /\ op' = Idle
           /\ labels' \in NodeLabels
<1>1. op.pc = "rolledBack" /\ op.snap.boot = "true" /\ labels' = StatusCleaned(op.snap) /\ op' = Idle
  BY DEF RolledBack
<1>2. "rolledBack" \in op.snap.flags BY <1>1, NodeParts DEF ResumesOnMark
<1>3. op.snap \in NodeLabels /\ MapOK(op.snap) /\ StageMap(op.snap) BY NodeParts
<1>4. Agree(labels, op.snap) BY <1>1, <1>2, NodeParts DEF PlaceFits, LoopPlace, Looping
<1>5. op.snap.sel = Comps BY <1>1, <1>3 DEF StageMap
<1>6. /\ "rollingBackUpgrade" \notin op.snap.flags /\ "upgrading" \notin op.snap.flags
      /\ "enablingFirstPolicy" \notin op.snap.flags
      /\ op.snap.active # None /\ op.snap.isolate = FALSE
  BY <1>2, <1>3, StageApart
<1>7. /\ labels'.sel = op.snap.sel /\ labels'.active = op.snap.active
      /\ labels'.isolate = op.snap.isolate /\ labels'.boot = "absent"
      /\ labels'.present = op.snap.present /\ labels'.pci = op.snap.pci
      /\ labels'.blocked = op.snap.blocked
      /\ labels'.flags = op.snap.flags \ {"bootStatusMarked", "swUpgradeFailed", "teardownCompleted"}
  BY <1>1, <1>3 DEF StatusCleaned, NodeLabels
<1>8. labels' \in NodeLabels BY <1>1, <1>3, CleanTypes
<1>9. "rebooted" \notin labels'.flags BY <1>3, <1>7 DEF StageMap
<1>10. /\ "rolledBack" \in labels'.flags /\ "bootStatusMarked" \notin labels'.flags
       /\ \A g \in Stages : g \in labels'.flags => g = "rolledBack"
  BY <1>2, <1>6, <1>7 DEF Stages
<1>11. "rolledBack" \in Stages BY DEF Stages
<1>12. MoveAlone(labels') BY <1>3, <1>7 DEF MoveAlone, StageMap
<1>13. StageMap(labels')
  BY <1>3, <1>6, <1>7, <1>9, <1>10, <1>11, <1>12, MovedOnStage
<1>14. labels.boot = "true" /\ labels.active = op.snap.active BY <1>1, <1>4 DEF Agree
<1>. QED BY <1>1, <1>5, <1>6, <1>7, <1>8, <1>10, <1>13, <1>14

LEMMA RestoredStage ==
    ASSUME NodeInv, RestorePrior
    PROVE  /\ StageMap(labels') /\ Bottom(labels) /\ Bottom(labels')
           /\ labels.sel = {} /\ labels'.sel = {} /\ labels'.boot = "absent"
           /\ "bootStatusMarked" \notin labels'.flags
           /\ labels'.blocked = labels.blocked /\ labels'.flags = labels.flags
           /\ labels.isolate = FALSE
<1>1. op.pc = "restore" /\ labels' = Restored(labels, op.prior) BY DEF RestorePrior
<1>2. Bottom(labels) BY <1>1, NodeParts DEF PlaceFits, BackPlace
<1>3. labels.sel = {} BY <1>2, NodeParts DEF PodsFit
<1>4. labels \in NodeLabels /\ MapOK(labels) /\ StageMap(labels) BY NodeParts
<1>5. /\ "upgrading" \notin labels.flags /\ "rolledBack" \notin labels.flags
      /\ "bootStatusMarked" \notin labels.flags /\ "enablingFirstPolicy" \notin labels.flags
      /\ labels.active # None /\ labels.boot = "absent" /\ labels.isolate = FALSE
      /\ "rollingBackUpgrade" \in labels.flags
  BY <1>2, <1>4, StageApart DEF Bottom
<1>6. op.prior \in Policies /\ op.prior # None
  <2>1. op.prior \in policies BY <1>1, NodeParts DEF TypeInv, PlaceOK, RollingBack
  <2>. QED BY <2>1, NodeParts, Parts, NoneIsNotIn
<1>7. /\ labels'.sel = labels.sel /\ labels'.active = op.prior
      /\ labels'.isolate = labels.isolate /\ labels'.boot = labels.boot
      /\ labels'.present = labels.present /\ labels'.pci = labels.pci
      /\ labels'.blocked = labels.blocked /\ labels'.flags = labels.flags
  BY <1>1, <1>4 DEF Restored, NodeLabels
<1>8. \A g \in Stages : g \in labels'.flags => g = "rollingBackUpgrade" BY <1>5, <1>7 DEF Stages
<1>9. "rollingBackUpgrade" \in Stages BY DEF Stages
<1>10. "rebooted" \notin labels'.flags /\ MoveAlone(labels')
  BY <1>4, <1>7 DEF StageMap, MoveAlone
<1>11. StageMap(labels')
  BY <1>4, <1>5, <1>6, <1>7, <1>8, <1>9, <1>10, MovedOnStage
<1>. QED BY <1>2, <1>3, <1>5, <1>7, <1>11 DEF Bottom

LEMMA LabelledStage ==
    ASSUME NodeInv, LabelRolledBack, MoveAlone(labels')
    PROVE  /\ StageMap(labels') /\ Bottom(labels)
           /\ labels.sel = {} /\ labels'.sel = {} /\ labels'.boot = "absent"
           /\ labels'.active = labels.active
           /\ "bootStatusMarked" \notin labels'.flags
           /\ "rolledBack" \in labels'.flags /\ "rollingBackUpgrade" \notin labels'.flags
           /\ "upgrading" \notin labels'.flags /\ labels'.isolate = FALSE
<1>1. op.pc = "rolledBackLabel" BY DEF LabelRolledBack
<1>2. Bottom(labels) BY <1>1, NodeParts DEF PlaceFits, BackPlace
<1>3. labels.sel = {} BY <1>2, NodeParts DEF PodsFit
<1>4. op.rsnap \in NodeLabels /\ MapOK(op.rsnap) /\ StageMap(op.rsnap) BY NodeParts
<1>5. /\ "rollingBackUpgrade" \in op.rsnap.flags /\ op.rsnap.sel = {}
      /\ op.rsnap.active = labels.active
  BY <1>1, TornBack
<1>6. /\ "upgrading" \notin op.rsnap.flags
      /\ "bootStatusMarked" \notin op.rsnap.flags /\ "enablingFirstPolicy" \notin op.rsnap.flags
      /\ op.rsnap.active # None /\ op.rsnap.boot = "absent" /\ op.rsnap.isolate = FALSE
  BY <1>4, <1>5, StageApart
<1>7. labels' = [op.rsnap EXCEPT !.flags = (@ \ {"rollingBackUpgrade"}) \cup {"rolledBack"}]
  BY <1>5 DEF LabelRolledBack
<1>8. /\ labels'.sel = op.rsnap.sel /\ labels'.active = op.rsnap.active
      /\ labels'.isolate = op.rsnap.isolate /\ labels'.boot = op.rsnap.boot
      /\ labels'.present = op.rsnap.present /\ labels'.pci = op.rsnap.pci
      /\ labels'.flags = (op.rsnap.flags \ {"rollingBackUpgrade"}) \cup {"rolledBack"}
  BY <1>4, <1>7 DEF NodeLabels
<1>9. /\ \A g \in Stages : g \in labels'.flags => g = "rolledBack"
      /\ "rolledBack" \in labels'.flags
  BY <1>6, <1>8 DEF Stages
<1>10. "rolledBack" \in Stages BY DEF Stages
<1>11. "rebooted" \notin labels'.flags BY <1>4, <1>8 DEF StageMap
<1>12. StageMap(labels')
  BY <1>4, <1>6, <1>8, <1>9, <1>10, <1>11, MovedOnStage
<1>. QED BY <1>2, <1>3, <1>5, <1>6, <1>8, <1>9, <1>12 DEF Stages

(* A boot status is read on a node that has all of its pods.               *)
LEMMA ReadWhenUp ==
    ASSUME NodeInv, ReadBootStatus
    PROVE  /\ StageMap(labels') /\ labels.sel = Comps /\ labels.active # None
           /\ ~Falling(labels) /\ ~Bottom(labels) /\ labels.isolate = FALSE
           /\ \A c \in Comps : pods[c][labels.active] = "up"
           /\ \E b \in {"absent", "unknown", "true", "false"} : labels' = [labels EXCEPT !.boot = b]
<1>1. LabelsEligibleForBootStatusCheck(labels, Me) /\ FetchedPod("devicePlugin", "up")
  BY DEF ReadBootStatus
<1>2. labels \in NodeLabels /\ MapOK(labels) /\ StageMap(labels) /\ OrderOK(labels) /\ PodsFit(labels)
  BY NodeParts
<1>3. labels.present = "true" /\ labels.isolate = FALSE
  BY <1>1, <1>2 DEF LabelsEligibleForBootStatusCheck, StageMap, NodeLabels
<1>4. PICK q \in Policies : pods["devicePlugin"][q] = "up" BY <1>1 DEF FetchedPod
<1>5. "devicePlugin" \in Comps BY DEF Comps
<1>6. q = labels.active BY <1>3, <1>4, <1>5, PodIsActive
<1>7. labels.active # None BY <1>6, NoneIsNotIn
<1>8. ~Falling(labels) /\ ~Bottom(labels)
  BY <1>1 DEF LabelsEligibleForBootStatusCheck, Falling, Bottom
<1>9. "devicePlugin" \in labels.sel
  BY <1>2, <1>3, <1>4, <1>5, <1>8 DEF PodsFit, NoStray
<1>10. Earlier("devicePlugin") = Comps \ {"devicePlugin"}
  BY DEF Earlier, Comps, Position
<1>11. labels.sel = Comps BY <1>2, <1>5, <1>9, <1>10 DEF OrderOK, NodeLabels
<1>12. \A c \in Comps : pods[c][labels.active] = "up"
  BY <1>2, <1>4, <1>6, <1>9, <1>10 DEF PodsFit, EarlierUp
<1>13. PICK b \in {"absent", "unknown", "true", "false"} : labels' = [labels EXCEPT !.boot = b]
  <2>1. labels = [labels EXCEPT !.boot = labels.boot] BY <1>2 DEF NodeLabels
  <2>2. labels.boot \in {"absent", "unknown", "true", "false"} BY <1>2 DEF NodeLabels
  <2>. QED BY <2>1, <2>2 DEF ReadBootStatus
<1>14. /\ labels'.sel = labels.sel /\ labels'.flags = labels.flags
       /\ labels'.active = labels.active /\ labels'.present = labels.present
       /\ labels'.isolate = labels.isolate /\ labels'.pci = labels.pci
       /\ labels'.blocked = labels.blocked
  BY <1>2, <1>13 DEF NodeLabels
<1>15. OneStage(labels') BY <1>2, <1>7, <1>14 DEF StageMap, OneStage
<1>16. MoveAlone(labels') BY <1>2, <1>14 DEF StageMap, MoveAlone
<1>17. "upgrading" \in labels.flags => "teardownCompleted" \in labels.flags
  BY <1>1 DEF LabelsEligibleForBootStatusCheck
<1>18. StageMap(labels')
  BY <1>2, <1>3, <1>7, <1>11, <1>14, <1>15, <1>16, <1>17 DEF StageMap
<1>. QED BY <1>3, <1>7, <1>8, <1>11, <1>12, <1>13, <1>18

LEMMA JudgedWhenUp ==
    ASSUME NodeInv, MarkVerdict
    PROVE  /\ StageMap(labels') /\ labels'.sel = Comps /\ labels'.active = labels.active
           /\ labels'.isolate = labels.isolate
           /\ "rollingBackUpgrade" \notin labels'.flags /\ "upgrading" \notin labels'.flags
           /\ \A c \in Comps : pods[c][labels.active] = "up"
<1>1. labels' = Verdict(labels) /\ labels.boot # "absent" BY DEF MarkVerdict, VerdictDue
<1>2. labels \in NodeLabels /\ MapOK(labels) /\ StageMap(labels) /\ PodsFit(labels)
  BY NodeParts
<1>3. StageMap(labels') BY <1>1, <1>2, JudgedStage
<1>4. labels.sel = Comps BY <1>1, <1>2 DEF StageMap
<1>5. \A c \in Comps : pods[c][labels.active] = "up" BY <1>1, <1>2 DEF PodsFit, AllUp
<1>6. "rollingBackUpgrade" \notin labels.flags BY <1>1, <1>2, StageApart
<1>7. /\ labels'.sel = labels.sel /\ labels'.active = labels.active
      /\ labels'.isolate = labels.isolate
      /\ "rollingBackUpgrade" \notin labels'.flags /\ "upgrading" \notin labels'.flags
  BY <1>1, <1>2, <1>6 DEF Verdict, NodeLabels, InProgress
<1>. QED BY <1>3, <1>4, <1>5, <1>7

(* So every map, on the node or held, is in one stage, as long as no move  *)
(* begins where none may.                                                  *)
LEMMA NextStage ==
    ASSUME NodeInv, OneMoveAtATime', [Next]_vars
    PROVE  StageMaps'
<1>1. StageMap(labels')
  <2>0. MoveAlone(labels') BY DEF OneMoveAtATime
  <2>1. CASE labels' = labels BY <2>1, NodeParts
  <2>2. CASE AutoIsolate BY <2>2, IsolateStage
  <2>3. CASE labelX100Nodes BY <2>3, PresentStage
  <2>4. CASE EnableNext BY <2>4, EnabledStage
  <2>5. CASE AdoptFirstPolicy BY <2>5, AdoptStage
  <2>6. CASE Drain \/ DrainLast \/ DrainPending BY <2>6, DrainingStage
  <2>7. CASE MarkTornDown BY <2>0, <2>7, TornDownStage
  <2>8. CASE BlockAggregation BY <2>0, <2>8, BlockedStage
  <2>9. CASE transitionToUpgradingState BY <2>0, <2>9, UpgradingStage
  <2>10. CASE updateSwVersionLabels BY <2>10, SwitchedStage
  <2>11. CASE RolledBack /\ labels' # labels BY <2>11, ResumedStage
  <2>12. CASE BeginRollback BY <2>0, <2>12, RollbackStage
  <2>13. CASE RestorePrior BY <2>13, RestoredStage
  <2>14. CASE LabelRolledBack BY <2>0, <2>14, LabelledStage
  <2>15. CASE ReadBootStatus BY <2>15, ReadWhenUp
  <2>16. CASE MarkVerdict BY <2>16, JudgedWhenUp
  <2>. QED BY <2>1, <2>2, <2>3, <2>4, <2>5, <2>6, <2>7, <2>8, <2>9, <2>10, <2>11, <2>12,
              <2>13, <2>14, <2>15, <2>16, LabelWriters
<1>2. HeldMapsRead BY NodeParts, HeldMaps
<1>. QED BY <1>1, <1>2, NodeParts, BareStage DEF HeldMapsRead, StageMaps

-----------------------------------------------------------------------------
(* What is written fits the pods that are there.                           *)

(* A node without selectors, status and pods, or isolated.                 *)
LEMMA EmptyFits ==
    ASSUME NEW l, l.sel = {}, l.boot = "absent", "bootStatusMarked" \notin l.flags,
           ~Falling(l), NoPods \/ (l.isolate /\ ~Bottom(l))
    PROVE  PodsFit(l)
<1>1. EarlierUp(l) /\ AllUp(l) BY DEF EarlierUp, AllUp
<1>2. CASE NoPods
  BY <1>1, <1>2 DEF PodsFit, NoPods, OfActive, NoStray, NoneStarting
<1>3. CASE l.isolate /\ ~Bottom(l)
  BY <1>1, <1>3 DEF PodsFit, OfActive, NoStray, NoneStarting
<1>. QED BY <1>2, <1>3

(* A node with all of its pods.                                            *)
LEMMA FullFits ==
    ASSUME NodeInv, NEW l, l.sel = Comps, l.active = labels.active, ~Bottom(l),
           labels.isolate = FALSE,
           \A c \in Comps : pods[c][labels.active] = "up"
    PROVE  PodsFit(l)
<1>1. OfActive(l) BY NodeParts DEF PodsFit, OfActive
<1>2. EarlierUp(l) BY DEF EarlierUp, Earlier
<1>3. NoStray(l) /\ NoneStarting(l) /\ AllUp(l) BY DEF NoStray, NoneStarting, AllUp
<1>. QED BY <1>1, <1>2, <1>3 DEF PodsFit

(* A judged node is one.                                                   *)
LEMMA JudgedIsFull ==
    ASSUME NodeInv, Has("bootStatusMarked") \/ labels.boot # "absent"
    PROVE  /\ labels.sel = Comps /\ labels.active # None /\ labels.isolate = FALSE
           /\ \A c \in Comps : pods[c][labels.active] = "up"
<1>1. labels \in NodeLabels /\ MapOK(labels) /\ StageMap(labels) /\ PodsFit(labels)
  BY NodeParts
<1>2. labels.active # None /\ labels.isolate = FALSE BY <1>1, StageApart DEF Has
<1>. QED BY <1>1, <1>2 DEF StageMap, PodsFit, AllUp, Has

(* No pods are left on a node that is down.                                *)
LEMMA BottomIsEmpty ==
    ASSUME NodeInv, Bottom(labels)
    PROVE  NoPods /\ labels.sel = {}
<1>1. labels \in NodeLabels /\ MapOK(labels) /\ StageMap(labels) /\ PodsFit(labels)
  BY NodeParts
<1>2. labels.isolate = FALSE BY <1>1, StageApart DEF Bottom
<1>3. labels.sel = {} BY <1>1 DEF PodsFit
<1>4. ~Falling(labels) BY DEF Falling, Bottom
<1>. QED BY <1>1, <1>2, <1>3, <1>4 DEF PodsFit, NoStray, NoPods

LEMMA IsolateFits ==
    ASSUME NodeInv, AutoIsolate, labels' # labels
    PROVE  PodsFit(labels')
<1> DEFINE bare == cleanupStaleSelectorLabels(cleanupStaleCRLabels(labels))
<1>1. labels' = [bare EXCEPT !.isolate = TRUE] BY DEF AutoIsolate
<1>2. /\ bare \in NodeLabels /\ bare.flags = {} /\ bare.boot = "absent" /\ bare.sel = {}
  BY NodeParts DEF cleanupStaleSelectorLabels, cleanupStaleCRLabels, NodeLabels, PolicyOrNone
<1>. HIDE DEF bare
<1>3. /\ labels'.sel = {} /\ labels'.boot = "absent" /\ labels'.flags = {} /\ labels'.isolate
  BY <1>1, <1>2 DEF NodeLabels
<1>4. ~Falling(labels') /\ ~Bottom(labels') BY <1>3 DEF Falling, Bottom
<1>. QED BY <1>3, <1>4, EmptyFits

LEMMA PresentFits ==
    ASSUME NodeInv, labelX100Nodes
    PROVE  PodsFit(labels')
<1>0. labels \in NodeLabels /\ PodsFit(labels) BY NodeParts
<1>1. CASE labels.isolate /\ labels' = Withdrawn(labels)
  <2>1. /\ labels'.sel = {} /\ labels'.boot = "absent" /\ labels'.flags = {} /\ labels'.isolate
    BY <1>0, <1>1 DEF Withdrawn, cleanupStaleSelectorLabels, cleanupStaleCRLabels, NodeLabels
  <2>2. ~Falling(labels') /\ ~Bottom(labels') BY <2>1 DEF Falling, Bottom
  <2>. QED BY <2>1, <2>2, EmptyFits
<1>2. CASE labels' = [labels EXCEPT !.present = "true"]
  <2>1. /\ labels'.sel = labels.sel /\ labels'.flags = labels.flags /\ labels'.boot = labels.boot
        /\ labels'.active = labels.active /\ labels'.isolate = labels.isolate
    BY <1>0, <1>2 DEF NodeLabels
  <2>. QED BY <1>0, <2>1 DEF PodsFit, OfActive, EarlierUp, NoStray, NoneStarting, AllUp, Falling, Bottom
<1>. QED BY <1>1, <1>2, PresentStage

(* A selector is added beside the pods of the earlier components.          *)
LEMMA EnabledFits ==
    ASSUME NodeInv, EnableNext
    PROVE  PodsFit(labels')
<1>1. PICK c \in Comps : /\ IsNextSelector(c, labels) /\ NextSelectorMayBeSet(c)
                         /\ labels' = [labels EXCEPT !.sel = labels.sel \cup {c}]
  BY DEF EnableNext
<1>2. /\ labels \in NodeLabels /\ MapOK(labels) /\ StageMap(labels) /\ PodsFit(labels)
      /\ labels.sel \subseteq Comps
  BY NodeParts DEF NodeLabels
<1>3. /\ labels'.sel = labels.sel \cup {c} /\ labels'.flags = labels.flags
      /\ labels'.boot = labels.boot /\ labels'.active = labels.active
      /\ labels'.isolate = labels.isolate
  BY <1>1, <1>2 DEF NodeLabels
<1>4. op.pc = "enable" /\ Working BY DEF EnableNext, Working
<1>5. \A d \in Comps, q \in Policies : pods[d][q] # "none" => q = labels.active
  BY <1>4, InService, PodIsActive
<1>6. \A d \in Comps : FetchedPod(d, "up") => pods[d][labels.active] = "up"
  BY <1>5 DEF FetchedPod
<1>7. \A d \in Earlier(c) : pods[d][labels.active] = "up"
  <2>1. \A d \in labels.sel : \A e \in Earlier(d) : pods[e][labels.active] = "up"
    BY <1>2 DEF PodsFit, EarlierUp
  <2>2. Earlier(c) \subseteq labels.sel BY <1>1 DEF IsNextSelector
  <2>3. CASE c = "firmware" BY <2>3 DEF Earlier, Position, Comps
  <2>4. CASE c = "HwManager"
    <3>1. Earlier(c) = {"firmware"} BY <2>4 DEF Earlier, Position, Comps
    <3>2. FetchedPod("firmware", "up") BY <1>1, <2>4 DEF NextSelectorMayBeSet
    <3>. QED BY <1>6, <3>1, <3>2 DEF Comps
  <2>5. CASE c = "kmodules"
    <3>1. /\ Earlier(c) = {"firmware", "HwManager"} /\ "firmware" \in Earlier("HwManager")
      BY <2>5 DEF Earlier, Position, Comps
    <3>2. FetchedPod("HwManager", "up") BY <1>1, <2>5 DEF NextSelectorMayBeSet
    <3>. QED BY <1>6, <2>1, <2>2, <3>1, <3>2 DEF Comps
  <2>6. CASE c = "devicePlugin"
    <3>1. /\ Earlier(c) = {"firmware", "HwManager", "kmodules"}
          /\ {"firmware", "HwManager"} \subseteq Earlier("kmodules")
      BY <2>6 DEF Earlier, Position, Comps
    <3>2. FetchedPod("kmodules", "up") BY <1>1, <2>6 DEF NextSelectorMayBeSet, kmmReady
    <3>. QED BY <1>6, <2>1, <2>2, <3>1, <3>2 DEF Comps
  <2>. QED BY <2>3, <2>4, <2>5, <2>6 DEF Comps
<1>8. EarlierUp(labels') BY <1>2, <1>3, <1>7 DEF PodsFit, EarlierUp
<1>9. OfActive(labels') /\ NoStray(labels') /\ AllUp(labels')
  BY <1>2, <1>3 DEF PodsFit, OfActive, NoStray, AllUp, Falling
<1>10. ~Falling(labels') /\ ~Bottom(labels')
  <2>1. CASE op.then # "adopt"
    BY <1>3, <1>4, <2>1, NodeParts DEF PlaceFits, LoopPlace, Falling, Bottom
  <2>2. CASE op.then = "adopt"
    <3>1. labels.active = None BY <1>4, <2>2, NodeParts DEF PlacesOK, StageOK, Adopting
    <3>2. labels'.flags = {} BY <1>2, <1>3, <3>1 DEF StageMap
    <3>. QED BY <3>2 DEF Falling, Bottom
  <2>. QED BY <2>1, <2>2
<1>. QED BY <1>8, <1>9, <1>10 DEF PodsFit, NoneStarting

LEMMA AdoptedFits ==
    ASSUME NodeInv, AdoptFirstPolicy
    PROVE  PodsFit(labels')
<1>1. /\ labels' = Adopted(op.snap, Me) /\ op.snap.active = None
      /\ labels.active = None /\ labels.present = "true"
  BY AdoptStage
<1>2. op.snap \in NodeLabels /\ StageMap(op.snap) BY NodeParts
<1>3. NoPods BY <1>1, PodIsActive, NoneIsNotIn DEF NoPods
<1>4. /\ labels'.sel = op.snap.sel /\ op.snap.sel \subseteq {"firmware"} /\ labels'.boot = "absent"
      /\ labels'.flags = {"enablingFirstPolicy"}
  BY <1>1, <1>2 DEF StageMap, Adopted, NodeLabels
<1>5. Earlier("firmware") = {} BY DEF Earlier, Position, Comps
<1>6. EarlierUp(labels') BY <1>4, <1>5 DEF EarlierUp
<1>7. AllUp(labels') BY <1>4 DEF AllUp
<1>8. ~Falling(labels') /\ ~Bottom(labels') BY <1>4 DEF Falling, Bottom
<1>. QED BY <1>3, <1>6, <1>7, <1>8 DEF PodsFit, OfActive, NoStray, NoneStarting, NoPods

LEMMA DrainedFits ==
    ASSUME NodeInv, Drain \/ DrainLast \/ DrainPending
    PROVE  PodsFit(labels') /\ Falling(labels')
<1>1. labels' = [labels EXCEPT !.sel = labels.sel \ {op.at}] /\ Falling(labels)
  BY DrainingStage
<1>2. labels \in NodeLabels /\ PodsFit(labels) BY NodeParts
<1>3. /\ labels'.sel = labels.sel \ {op.at} /\ labels'.flags = labels.flags
      /\ labels'.boot = labels.boot /\ labels'.active = labels.active
      /\ labels'.isolate = labels.isolate
  BY <1>1, <1>2 DEF NodeLabels
<1>4. Falling(labels') BY <1>1, <1>3 DEF Falling
<1>5. OfActive(labels') /\ EarlierUp(labels') /\ AllUp(labels')
  BY <1>2, <1>3 DEF PodsFit, OfActive, EarlierUp, AllUp
<1>6. NoStray(labels') /\ NoneStarting(labels')
  BY <1>1, <1>2, <1>3, <1>4 DEF PodsFit, NoStray, NoneStarting
<1>7. ~Bottom(labels') BY <1>4 DEF Falling, Bottom
<1>. QED BY <1>4, <1>5, <1>6, <1>7 DEF PodsFit

LEMMA BegunFits ==
    ASSUME NodeInv, Has("bootStatusMarked"), NEW l, Falling(l), l.sel = labels.sel,
           l.active = labels.active, l.isolate = labels.isolate
    PROVE  PodsFit(l)
<1>1. ~Bottom(l) BY DEF Falling, Bottom
<1>. QED BY <1>1, JudgedIsFull, FullFits

(* So the pods fit, after every write.                                     *)
LEMMA NextFits ==
    ASSUME NodeInv, OneMoveAtATime', [Next]_vars
    PROVE  PodsFit(labels')
<1>0. MoveAlone(labels') /\ PodsFit(labels) BY NodeParts DEF OneMoveAtATime
<1>1. CASE labels' = labels BY <1>0, <1>1
<1>2. CASE AutoIsolate /\ labels' # labels BY <1>2, IsolateFits
<1>3. CASE labelX100Nodes BY <1>3, PresentFits
<1>4. CASE EnableNext BY <1>4, EnabledFits
<1>5. CASE AdoptFirstPolicy BY <1>5, AdoptedFits
<1>6. CASE Drain \/ DrainLast \/ DrainPending BY <1>6, DrainedFits
<1>7. CASE MarkTornDown
  <2>1. NoPods BY <1>7, NodeParts DEF MarkTornDown, PlaceFits, LoopPlace
  <2>2. ~Falling(labels') BY <1>0, <1>7, TornDownStage DEF Falling, Bottom
  <2>. QED BY <1>0, <1>7, <2>1, <2>2, TornDownStage, EmptyFits
<1>8. CASE BlockAggregation
  <2>2. ~Bottom(labels')
    <3>1. "bootStatusMarked" \in op.snap.flags /\ labels'.flags = op.snap.flags
      BY <1>0, <1>8, BlockedStage
    <3>. QED BY <3>1, NodeParts, StageApart DEF Bottom
  <2>. QED BY <1>0, <1>8, <2>2, BlockedStage, JudgedIsFull, FullFits DEF Has
<1>9. CASE transitionToUpgradingState /\ labels' # labels
  BY <1>0, <1>9, UpgradingStage, BegunFits
<1>10. CASE updateSwVersionLabels
  <2>1. ~Falling(labels') BY <1>10, SwitchedStage DEF Falling
  <2>. QED BY <1>10, <2>1, SwitchedStage, EmptyFits
<1>11. CASE RolledBack /\ labels' # labels
  <2>1. /\ labels'.sel = Comps /\ labels.boot = "true" /\ labels'.active = labels.active
        /\ "rolledBack" \in labels'.flags
    BY <1>11, ResumedStage
  <2>2. ~Bottom(labels')
    <3>1. /\ labels' = StatusCleaned(op.snap) /\ "rolledBack" \in op.snap.flags
      BY <1>11, NodeParts DEF RolledBack, ResumesOnMark
    <3>2. op.snap \in NodeLabels /\ "rollingBackUpgrade" \notin op.snap.flags
      BY <3>1, NodeParts, StageApart
    <3>. QED BY <3>1, <3>2 DEF StatusCleaned, NodeLabels, Bottom
  <2>. QED BY <2>1, <2>2, JudgedIsFull, FullFits
<1>12. CASE BeginRollback /\ labels' # labels
  BY <1>0, <1>12, RollbackStage, BegunFits
<1>13. CASE RestorePrior
  <2>1. NoPods BY <1>13, RestoredStage, BottomIsEmpty
  <2>2. ~Falling(labels') BY <1>13, RestoredStage DEF Falling, Bottom
  <2>. QED BY <1>13, <2>1, <2>2, RestoredStage, EmptyFits
<1>14. CASE LabelRolledBack
  <2>1. NoPods BY <1>0, <1>14, LabelledStage, BottomIsEmpty
  <2>2. ~Falling(labels') BY <1>0, <1>14, LabelledStage DEF Falling
  <2>. QED BY <1>0, <1>14, <2>1, <2>2, LabelledStage, EmptyFits
<1>15. CASE ReadBootStatus
  <2>1. PICK b \in {"absent", "unknown", "true", "false"} : labels' = [labels EXCEPT !.boot = b]
    BY <1>15, ReadWhenUp
  <2>2. /\ labels'.sel = labels.sel /\ labels'.active = labels.active
        /\ labels'.flags = labels.flags
    BY <2>1, NodeParts DEF NodeLabels
  <2>3. ~Bottom(labels') BY <1>15, <2>2, ReadWhenUp DEF Bottom
  <2>. QED BY <1>15, <2>2, <2>3, ReadWhenUp, FullFits
<1>16. CASE MarkVerdict
  <2>1. ~Bottom(labels') BY <1>16, JudgedWhenUp DEF Bottom
  <2>2. labels.isolate = FALSE
    <3>1. labels.boot # "absent" BY <1>16 DEF MarkVerdict, VerdictDue
    <3>. QED BY <3>1, JudgedIsFull
  <2>. QED BY <1>16, <2>1, <2>2, JudgedWhenUp, FullFits
<1>. QED BY <1>1, <1>2, <1>3, <1>4, <1>5, <1>6, <1>7, <1>8, <1>9, <1>10, <1>11, <1>12,
            <1>13, <1>14, <1>15, <1>16, LabelWriters

-----------------------------------------------------------------------------
(* The worker's place.                                                     *)

LEMMA RestingFits ==
    ASSUME op'.pc \in Resting \cup {"adopt"}
    PROVE  PlaceFits'
BY DEF Resting, PlaceFits, DrainPlace, BackPlace, LoopPlace, Looping, RollingBack

(* Steps that only move on within the loop, or on the way back.            *)
LEMMA LoopPlaces ==
    ASSUME NodeInv, op'.pc \notin {"list", "drain", "torn", "toPrior", "fromPolicy", "restore",
                                   "rolledBackLabel"},
           op'.pc = "switch" => Has("teardownCompleted")',
           op'.pc = "enable" /\ op'.then # "adopt" => ~Falling(labels') /\ ~Bottom(labels'),
           Looping' => /\ "enablingFirstPolicy" \notin op'.snap.flags
                       /\ "rolledBack" \in op'.snap.flags => Agree(labels', op'.snap)
    PROVE  PlaceFits'
<1>1. ~RollingBack' BY DEF RollingBack
<1>2. DrainPlace' /\ BackPlace' BY DEF DrainPlace, BackPlace
<1>3. LoopPlace' BY <1>1 DEF LoopPlace
<1>. QED BY <1>2, <1>3 DEF PlaceFits

LEMMA LoopCarries ==
    ASSUME NodeInv, Looping
    PROVE  /\ "enablingFirstPolicy" \notin op.snap.flags
           /\ "rolledBack" \in op.snap.flags => Agree(labels, op.snap)
BY NodeParts DEF PlaceFits, LoopPlace

LEMMA StartingFits ==
    ASSUME NodeInv, StartAdoption \/ StartEnabling \/ StartLoop
    PROVE  PlaceFits'
<1>1. op \in Workers /\ labels \in NodeLabels /\ MapOK(labels) /\ StageMap(labels)
      /\ "rebooted" \notin labels.flags
  BY NodeParts, Parts
<1>2. labels' = labels BY DEF StartAdoption, StartEnabling, StartLoop
<1>3. CASE StartAdoption
  <2>1. op'.pc = "enable" /\ op'.then = "adopt" BY <1>1, <1>3 DEF StartAdoption, Workers
  <2>. QED BY <2>1, LoopPlaces DEF Looping
<1>4. CASE StartEnabling
  <2>1. op'.pc = "enable" /\ op'.then = "status" BY <1>1, <1>4 DEF StartEnabling, Workers
  <2>2. "enablingFirstPolicy" \in labels.flags BY <1>1, <1>4 DEF StartEnabling, Has
  <2>3. ~Falling(labels) /\ ~Bottom(labels) BY <1>1, <2>2, StageApart DEF Falling, Bottom
  <2>. QED BY <1>2, <2>1, <2>3, LoopPlaces DEF Looping
<1>5. CASE StartLoop
  <2>1. op'.pc \in {"rollback", "loop"} /\ op'.snap = labels /\ "enablingFirstPolicy" \notin labels.flags
    BY <1>1, <1>5 DEF StartLoop, Workers, Has
  <2>. QED BY <1>2, <2>1, LoopPlaces, AgreesWithItself
<1>. QED BY <1>3, <1>4, <1>5

LEMMA EnablingFits ==
    ASSUME NodeInv, EnableNext \/ AllEnabled \/ EnableFails
    PROVE  PlaceFits'
<1>1. op \in Workers /\ labels \in NodeLabels /\ op.then \in {"status", "adopt", "loop", "rolledBack"}
  BY NodeParts, Parts
<1>2. PICK pc \in {"status", "adopt", "loop", "rolledBack"} :
           /\ op.pc = "enable" /\ Goto(pc) /\ (pc = op.then \/ pc = "status")
  BY <1>1 DEF EnableNext, AllEnabled, EnableFails
<1>3. Agree(labels', labels)
  BY <1>1 DEF EnableNext, AllEnabled, EnableFails, Agree, NodeLabels
<1>4. CASE pc \in {"status", "adopt"}
  <2>1. op'.pc \in Resting \cup {"adopt"} BY <1>1, <1>2, <1>4, GotoFields DEF Resting, PCs
  <2>. QED BY <2>1, RestingFits
<1>5. CASE pc \in {"loop", "rolledBack"}
  <2>1. op'.pc = pc /\ pc = op.then /\ op'.snap = op.snap
    BY <1>1, <1>2, <1>5, GotoFields DEF PCs
  <2>2. Looping BY <1>2, <1>5, <2>1 DEF Looping
  <2>3. "rolledBack" \in op.snap.flags => Agree(labels', op.snap)
    BY <1>3, <2>2, LoopCarries DEF Agree
  <2>. QED BY <1>5, <2>1, <2>2, <2>3, LoopCarries, LoopPlaces
<1>. QED BY <1>4, <1>5

LEMMA LoopingFits ==
    ASSUME NodeInv,
           \/ SkipRollback \/ AlreadySwitched \/ RolledBack
           \/ \E cr \in Policies : LeaveOldPolicy(cr) \/ KeepMoving(cr) \/ ResumeUnfinished(cr)
    PROVE  PlaceFits'
<1>1. op \in Workers /\ labels \in NodeLabels /\ MapOK(labels) /\ StageMap(labels)
  BY NodeParts, Parts
<1>2. CASE op' = Idle BY <1>2, RestingFits DEF Idle, Resting
<1>3. CASE SkipRollback
  <2>1. op.pc = "rollback" /\ op'.pc = "loop" /\ op'.snap = op.snap /\ labels' = labels
    BY <1>1, <1>3, GotoFields DEF SkipRollback, PCs
  <2>. QED BY <2>1, LoopCarries, LoopPlaces DEF Looping
<1>4. CASE AlreadySwitched
  <2>1. /\ op.pc = "switch" /\ op'.pc = "enable" /\ op'.snap = op.snap /\ labels' = labels
        /\ "teardownCompleted" \in labels.flags
    BY <1>1, <1>4, GotoFields DEF AlreadySwitched, PCs, Has
  <2>2. Looping /\ Has("upgrading") BY <2>1, NodeParts DEF Looping, PlacesOK, MoveOK
  <2>3. ~Falling(labels) /\ ~Bottom(labels)
    BY <1>1, <2>1, <2>2, StageApart DEF Falling, Bottom, Has
  <2>. QED BY <2>1, <2>2, <2>3, LoopCarries, LoopPlaces
<1>5. CASE RolledBack /\ op' # Idle
  <2>1. /\ op.pc = "rolledBack" /\ op' = [op EXCEPT !.pc = "enable", !.then = "loop"]
        /\ labels' = labels
    BY <1>5 DEF RolledBack
  <2>2. op'.pc = "enable" /\ op'.snap = op.snap BY <1>1, <2>1 DEF Workers
  <2>3. Looping /\ "rolledBack" \in op.snap.flags
    BY <2>1, NodeParts DEF Looping, ResumesOnMark
  <2>4. Agree(labels, op.snap) BY <2>3, LoopCarries
  <2>5. "rolledBack" \in labels.flags BY <2>3, <2>4 DEF Agree
  <2>6. ~Falling(labels) /\ ~Bottom(labels)
    BY <1>1, <2>5, StageApart DEF Falling, Bottom
  <2>. QED BY <2>1, <2>2, <2>3, <2>6, LoopCarries, LoopPlaces
<1>6. CASE \E cr \in Policies : LeaveOldPolicy(cr) \/ KeepMoving(cr) \/ ResumeUnfinished(cr)
  <2>1. PICK pc \in {"block", "upgrading", "rolledBack", "loop"}, flow \in Flows,
             then \in {"rolledBack", "loop"}, todo \in SUBSET op.todo :
           /\ op.pc = "loop" /\ labels' = labels
           /\ op' = [op EXCEPT !.pc = pc, !.then = then, !.todo = todo, !.flow = flow]
    <3>1. op = [op EXCEPT !.flow = op.flow] /\ op.flow \in Flows /\ "upgrade" \in Flows
      BY <1>1 DEF Workers, Flows
    <3>2. CASE \E cr \in Policies : LeaveOldPolicy(cr)
      <4>1. PICK cr \in Policies : LeaveOldPolicy(cr) BY <3>2
      <4>2. op' = [op EXCEPT !.pc = "block", !.then = "loop", !.todo = op.todo \ {cr}]
        BY <4>1 DEF LeaveOldPolicy
      <4>3. op' = [op EXCEPT !.pc = "block", !.then = "loop", !.todo = op.todo \ {cr},
                             !.flow = op.flow]
        BY <1>1, <4>2 DEF Workers
      <4>. QED BY <3>1, <4>1, <4>3 DEF LeaveOldPolicy
    <3>3. CASE \E cr \in Policies : KeepMoving(cr)
      <4>1. PICK cr \in Policies : KeepMoving(cr) BY <3>3
      <4>2. op' = [op EXCEPT !.pc = "upgrading", !.then = "loop", !.todo = op.todo \ {cr}]
        BY <4>1 DEF KeepMoving
      <4>3. op' = [op EXCEPT !.pc = "upgrading", !.then = "loop", !.todo = op.todo \ {cr},
                             !.flow = op.flow]
        BY <1>1, <4>2 DEF Workers
      <4>. QED BY <3>1, <4>1, <4>3 DEF KeepMoving
    <3>4. CASE \E cr \in Policies : ResumeUnfinished(cr)
      BY <3>1, <3>4 DEF ResumeUnfinished
    <3>. QED BY <1>6, <3>2, <3>3, <3>4
  <2>2. op'.pc = pc /\ op'.snap = op.snap BY <1>1, <2>1 DEF Workers
  <2>3. Looping BY <2>1 DEF Looping
  <2>. QED BY <2>1, <2>2, <2>3, LoopCarries, LoopPlaces
<1>. QED BY <1>2, <1>3, <1>4, <1>5, <1>6

(* The steps of a move.                                                    *)
LEMMA BlockedPlace ==
    ASSUME NodeInv, BlockAggregation, MoveAlone(labels')
    PROVE  PlaceFits'
<1>1. op \in Workers BY NodeParts, Parts
<1>2. op.pc = "block" /\ op'.pc = "upgrading" BY <1>1 DEF BlockAggregation, Workers
<1>3. labels' = op'.snap /\ labels'.flags = op.snap.flags BY BlockedStage
<1>4. Looping BY <1>2 DEF Looping
<1>. QED BY <1>2, <1>3, <1>4, LoopCarries, LoopPlaces, AgreesWithItself

LEMMA UpgradingPlace ==
    ASSUME NodeInv, transitionToUpgradingState, MoveAlone(labels')
    PROVE  PlaceFits'
<1>1. op \in Workers BY NodeParts, Parts
<1>2. /\ op.pc = "upgrading" /\ op'.snap = op.snap /\ op'.flow = "upgrade"
      /\ op'.pc = IF "teardownCompleted" \in labels'.flags THEN "switch" ELSE "list"
  BY <1>1 DEF transitionToUpgradingState, Workers
<1>3. Looping BY <1>2 DEF Looping
<1>4. "rolledBack" \notin op.snap.flags
  <2>1. op.snap.blocked # None \/ "upgrading" \in op.snap.flags
    BY <1>2, NodeParts DEF PlacesOK, MoveOK
  <2>2. op.snap.blocked # None => "rolledBack" \notin op.snap.flags
    BY NodeParts DEF StageMap, MoveAlone
  <2>. QED BY <2>1, <2>2, NodeParts, StageApart
<1>5. "enablingFirstPolicy" \notin op.snap.flags BY <1>3, LoopCarries
<1>6. CASE "teardownCompleted" \in labels'.flags
  <2>1. op'.pc = "switch" /\ Has("teardownCompleted")' BY <1>2, <1>6 DEF Has
  <2>. QED BY <1>2, <1>4, <1>5, <2>1, LoopPlaces
<1>7. CASE "teardownCompleted" \notin labels'.flags
  <2>1. op'.pc = "list" BY <1>2, <1>7
  <2>2. Falling(labels') BY <1>7, UpgradingStage DEF Falling, Has
  <2>3. ~RollingBack' BY <1>2, <2>1 DEF RollingBack
  <2>. QED BY <1>2, <1>4, <1>5, <2>1, <2>2, <2>3 DEF PlaceFits, DrainPlace, BackPlace, LoopPlace
<1>. QED BY <1>6, <1>7

LEMMA SwitchedPlace ==
    ASSUME NodeInv, updateSwVersionLabels
    PROVE  PlaceFits'
<1>1. op \in Workers BY NodeParts, Parts
<1>2. op.pc = "switch" /\ op'.pc = "enable" /\ op'.snap = op.snap
  BY <1>1, GotoFields DEF updateSwVersionLabels, PCs
<1>3. Looping BY <1>2 DEF Looping
<1>4. "upgrading" \in labels'.flags /\ "teardownCompleted" \in labels'.flags BY SwitchedStage
<1>5. "rollingBackUpgrade" \notin labels'.flags
  <2>1. "upgrading" \in labels.flags BY <1>2, NodeParts DEF PlacesOK, MoveOK, Has
  <2>2. "rollingBackUpgrade" \notin labels.flags BY <2>1, NodeParts, StageApart
  <2>. QED BY <2>2, NodeParts DEF updateSwVersionLabels, Switched, NodeLabels
<1>6. "rolledBack" \notin op.snap.flags
  <2>. SUFFICES ASSUME "rolledBack" \in op.snap.flags PROVE FALSE OBVIOUS
  <2>1. Agree(labels, op.snap) BY <1>3, LoopCarries
  <2>2. "rolledBack" \in labels.flags BY <2>1 DEF Agree
  <2>3. "upgrading" \in labels.flags BY <1>2, NodeParts DEF PlacesOK, MoveOK, Has
  <2>. QED BY <2>2, <2>3, NodeParts, StageApart
<1>7. ~Falling(labels') /\ ~Bottom(labels') BY <1>4, <1>5 DEF Falling, Bottom
<1>. QED BY <1>2, <1>3, <1>6, <1>7, LoopCarries, LoopPlaces

(* The steps of a rollback.                                                *)
LEMMA RollbackPlace ==
    ASSUME NodeInv, BeginRollback, MoveAlone(labels')
    PROVE  PlaceFits'
<1>1. op \in Workers BY NodeParts, Parts
<1>2. /\ op.pc = "rollback" /\ op'.snap = op.snap /\ op'.flow = "rollback" /\ op'.rsnap = labels'
      /\ op'.pc = IF "teardownCompleted" \in labels'.flags THEN "toPrior" ELSE "list"
  BY <1>1 DEF BeginRollback, Workers
<1>3. Looping BY <1>2 DEF Looping
<1>4. "enablingFirstPolicy" \notin op.snap.flags BY <1>3, LoopCarries
<1>5. "rolledBack" \notin op.snap.flags
  <2>. SUFFICES ASSUME "rolledBack" \in op.snap.flags PROVE FALSE OBVIOUS
  <2>1. Agree(labels, op.snap) BY <1>3, LoopCarries
  <2>2. "rolledBack" \in labels.flags BY <2>1 DEF Agree
  <2>3. "swUpgradeFailed" \in labels.flags \/ "rollingBackUpgrade" \in labels.flags
    BY DEF BeginRollback, MayRollBack, Has
  <2>. QED BY <2>2, <2>3, NodeParts, StageApart
<1>6. ~Looping' BY <1>2 DEF Looping
<1>7. CASE "teardownCompleted" \in labels'.flags
  <2>1. op'.pc = "toPrior" BY <1>2, <1>7
  <2>2. labels' = labels /\ "rollingBackUpgrade" \in labels.flags
    BY <1>7, RollbackStage DEF Falling, Has
  <2>3. Bottom(labels) BY <1>7, <2>2 DEF Bottom
  <2>4. labels.sel = {} BY <2>3, BottomIsEmpty
  <2>. QED BY <1>2, <1>4, <1>5, <1>6, <2>1, <2>2, <2>3, <2>4 DEF PlaceFits, DrainPlace, BackPlace, LoopPlace
<1>8. CASE "teardownCompleted" \notin labels'.flags
  <2>1. op'.pc = "list" BY <1>2, <1>8
  <2>2. Falling(labels') BY <1>8, RollbackStage DEF Falling, Has
  <2>. QED BY <1>2, <1>4, <1>5, <1>6, <2>1, <2>2 DEF PlaceFits, DrainPlace, BackPlace, LoopPlace
<1>. QED BY <1>7, <1>8

(* The steps from the teardown's record to the label of a rolled-back node.*)
LEMMA BackPlaces ==
    ASSUME NodeInv, RollingBack, op'.pc \in {"toPrior", "fromPolicy", "restore", "rolledBackLabel"},
           Bottom(labels'), op'.rsnap.sel = {}, op'.snap = op.snap
    PROVE  PlaceFits'
<1>1. "enablingFirstPolicy" \notin op.snap.flags /\ "rolledBack" \notin op.snap.flags
  BY NodeParts DEF PlaceFits, LoopPlace
<1>2. ~Looping' BY DEF Looping
<1>. QED BY <1>1, <1>2 DEF PlaceFits, DrainPlace, BackPlace, LoopPlace

LEMMA TornDownPlace ==
    ASSUME NodeInv, MarkTornDown, MoveAlone(labels')
    PROVE  PlaceFits'
<1>1. op \in Workers BY NodeParts, Parts
<1>2. op.pc = "torn" /\ op.flow = "rollback" BY TornDownStage DEF MarkTornDown
<1>3. Goto("toPrior") BY <1>2 DEF MarkTornDown
<1>4. op'.pc = "toPrior" /\ op'.rsnap = op.rsnap /\ op'.snap = op.snap
  BY <1>1, <1>3, GotoFields DEF PCs
<1>. QED BY <1>2, <1>4, TornBack, TornDownStage, BackPlaces

LEMMA ListingPlace ==
    ASSUME NodeInv, ListUnderPrior \/ UnlistFromPolicy
    PROVE  PlaceFits'
<1>1. op \in Workers /\ labels' = labels
  BY NodeParts, Parts DEF ListUnderPrior, UnlistFromPolicy
<1>2. PICK pc \in {"fromPolicy", "restore", "status"} :
         op.pc \in {"toPrior", "fromPolicy"} /\ Goto(pc)
  BY DEF ListUnderPrior, UnlistFromPolicy
<1>3. CASE pc = "status"
  <2>1. op'.pc = "status" BY <1>1, <1>2, <1>3, GotoFields DEF PCs
  <2>. QED BY <2>1, RestingFits DEF Resting
<1>4. CASE pc # "status"
  <2>1. op'.pc = pc /\ op'.rsnap = op.rsnap /\ op'.snap = op.snap
    BY <1>1, <1>2, <1>4, GotoFields DEF PCs
  <2>2. Bottom(labels) BY <1>2, NodeParts DEF PlaceFits, BackPlace
  <2>. QED BY <1>1, <1>2, <1>4, <2>1, <2>2, TornBack, BackPlaces
<1>. QED BY <1>3, <1>4

LEMMA RestoredPlace ==
    ASSUME NodeInv, RestorePrior
    PROVE  PlaceFits'
<1>1. op \in Workers BY NodeParts, Parts
<1>2. /\ op.pc = "restore" /\ op'.pc = "rolledBackLabel" /\ op'.rsnap = labels'
      /\ op'.snap = op.snap
  BY <1>1 DEF RestorePrior, Workers
<1>3. RollingBack BY <1>2 DEF RollingBack
<1>. QED BY <1>2, <1>3, RestoredStage, BackPlaces

LEMMA LabelledPlace ==
    ASSUME NodeInv, LabelRolledBack
    PROVE  PlaceFits'
<1>1. op \in Workers BY NodeParts, Parts
<1>2. op.pc = "rolledBackLabel" /\ op'.pc = "loop" /\ op'.snap = op.snap
  BY <1>1 DEF LabelRolledBack, Workers
<1>3. RollingBack BY <1>2 DEF RollingBack
<1>4. "enablingFirstPolicy" \notin op.snap.flags /\ "rolledBack" \notin op.snap.flags
  BY <1>3, NodeParts DEF PlaceFits, LoopPlace
<1>. QED BY <1>2, <1>4, LoopPlaces

(* A call that fails ends the request or leaves the node; the last write   *)
(* of a rollback may fail and the loop still goes on.                      *)
LEMMA FailingFits ==
    ASSUME NodeInv, CallFails
    PROVE  PlaceFits'
<1>1. op \in Workers BY NodeParts, Parts
<1>2. CASE op' = Idle \/ op' = AtStatus BY <1>2, RestFields, RestingFits DEF Resting
<1>3. ASSUME NEW pc \in LoggedAt, op' = [op EXCEPT !.pc = pc]
      PROVE  PlaceFits'
  <2>1. op'.pc = pc BY <1>1, <1>3 DEF Workers
  <2>. QED BY <1>3, <2>1, RestingFits DEF LoggedAt, Resting
<1>4. CASE /\ op.pc = "rolledBackLabel"
           /\ op' = [op EXCEPT !.pc = "loop", !.rsnap = BareLabels, !.prior = None]
  <2>1. op'.pc = "loop" /\ op'.snap = op.snap BY <1>1, <1>4 DEF Workers
  <2>2. "enablingFirstPolicy" \notin op.snap.flags /\ "rolledBack" \notin op.snap.flags
    BY <1>4, NodeParts DEF PlaceFits, LoopPlace, RollingBack
  <2>. QED BY <2>1, <2>2, LoopPlaces
<1>. QED BY <1>2, <1>3, <1>4, CallFailsFields, NodeParts

(* The teardown.  It finds every pod there is: none is still starting.     *)
LEMMA TeardownSees ==
    ASSUME NodeInv, op.pc \in {"list", "drain"}
    PROVE  /\ Falling(labels) /\ labels.active \in Policies
           /\ \A c \in Comps, q \in Policies : pods[c][q] \in {"none", "up"}
           /\ \A c \in labels.sel : PodsOf(c) # {}
           /\ op.flow = "upgrade" => Looping
           /\ op.flow # "upgrade" => op.flow = "rollback" /\ RollingBack
<1>1. Falling(labels) BY NodeParts DEF PlaceFits, DrainPlace
<1>2. op.flow \in {"upgrade", "rollback"} BY NodeParts DEF Calm
<1>3. /\ op.flow = "upgrade" => Looping
      /\ op.flow # "upgrade" => op.flow = "rollback" /\ RollingBack
  BY <1>2 DEF Looping, RollingBack
<1>4. Working /\ AtWork BY <1>3 DEF Working, AtWork
<1>5. labels.active # None /\ labels.present = "true" BY <1>4, InService
<1>6. labels \in NodeLabels /\ PodsFit(labels) /\ Calm /\ TypeInv BY NodeParts
<1>7. labels.active \in Policies /\ labels.sel \subseteq Comps
  BY <1>5, <1>6 DEF NodeLabels, PolicyOrNone
<1>8. \A c \in Comps, q \in Policies : pods[c][q] # "none" => q = labels.active
  BY <1>5, PodIsActive
<1>9. \A c \in Comps, q \in Policies : pods[c][q] \in PodStates /\ pods[c][q] # "failed"
  BY <1>6 DEF Calm, TypeInv, TypeOK
<1>10. \A c \in Comps : pods[c][labels.active] # "starting"
  BY <1>1, <1>6 DEF PodsFit, NoneStarting
<1>11. \A c \in Comps, q \in Policies : pods[c][q] \in {"none", "up"}
  BY <1>8, <1>9, <1>10 DEF PodStates
<1>12. \A c \in labels.sel : pods[c][labels.active] = "up"
  BY <1>1, <1>6, <1>7 DEF PodsFit, NoneStarting
<1>13. \A c \in labels.sel : PodsOf(c) # {} BY <1>7, <1>12 DEF PodsOf
<1>. QED BY <1>1, <1>3, <1>7, <1>11, <1>13

LEMMA DrainedGone ==
    ASSUME NodeInv, op.pc = "drain", DrainedOK(op.at)
    PROVE  PodsOf(op.at) = {} /\ (op.at # "kmodules" => op.at \notin op.found)
<1>1. op.at \in Comps BY NodeParts, Parts
<1>2. \A q \in Policies : pods[op.at][q] \in {"none", "up"} BY <1>1, TeardownSees
<1>3. CASE op.at = "kmodules"
  <2>1. ~FetchedPod("kmodules", "up") BY <1>3 DEF DrainedOK, kmmReady
  <2>. QED BY <1>2, <1>3, <2>1 DEF FetchedPod, PodsOf
<1>4. CASE op.at # "kmodules"
  <2>1. ~FetchedPod(op.at, "failed") BY <1>2 DEF FetchedPod
  <2>2. op.at \notin op.found BY <1>4, <2>1 DEF DrainedOK
  <2>3. PodsOf(op.at) = {} BY <1>1, <2>2, NodeParts, Zenon DEF PlaceFits, DrainPlace
  <2>. QED BY <2>2, <2>3
<1>. QED BY <1>3, <1>4

(* A step within the teardown.                                             *)
LEMMA TeardownPlaces ==
    ASSUME NodeInv, op.pc \in {"list", "drain"}, op'.pc = "drain", op'.flow = op.flow,
           op'.snap = op.snap, op'.rsnap = op.rsnap, Falling(labels'),
           Agree(labels', labels), UNCHANGED pods,
           \A c \in Comps : /\ PodsOf(c) # {} => c \in op'.found
                            /\ Position[c] > Position[op'.at] => PodsOf(c) = {},
           op.flow = "rollback" => \A c \in op.rsnap.sel :
              c \in op'.found /\ (Position[c] > Position[op'.at] => c = "kmodules")
    PROVE  PlaceFits'
<1>1. \A c \in Comps : PodsOf(c)' = PodsOf(c) BY DEF PodsOf
<1>2. DrainPlace' BY <1>1 DEF DrainPlace
<1>3. BackPlace' BY DEF BackPlace
<1>4. /\ Looping' => op.flow = "upgrade"
      /\ RollingBack' => op.flow = "rollback"
  BY DEF Looping, RollingBack
<1>5. /\ Looping' => Looping
      /\ RollingBack' => RollingBack
  BY <1>4, TeardownSees
<1>6. LoopPlace'
  BY <1>5, NodeParts DEF PlaceFits, LoopPlace, Agree
<1>. QED BY <1>2, <1>3, <1>6 DEF PlaceFits

LEMMA ListedPlace ==
    ASSUME NodeInv, ListPods
    PROVE  PlaceFits'
<1>1. op \in Workers /\ op.pc = "list" /\ labels' = labels /\ pods' = pods
  BY NodeParts, Parts DEF ListPods, cluster, others
<1>2. /\ op'.pc = "drain" /\ op'.flow = op.flow /\ op'.snap = op.snap /\ op'.rsnap = op.rsnap
      /\ op'.found = PodsFound /\ op'.at = "devicePlugin"
  BY <1>1 DEF ListPods, Workers
<1>3. \A c \in Comps : /\ PodsOf(c) # {} => c \in op'.found
                       /\ ~(Position[c] > Position[op'.at])
  BY <1>2 DEF PodsFound, Comps, Position
<1>4. op.flow = "rollback" => op.rsnap.sel = labels.sel
  BY <1>1, NodeParts DEF PlaceFits, BackPlace
<1>5. labels.sel \subseteq Comps BY NodeParts DEF NodeLabels
<1>6. op.flow = "rollback" => \A c \in op.rsnap.sel :
          c \in op'.found /\ (Position[c] > Position[op'.at] => c = "kmodules")
  BY <1>1, <1>3, <1>4, <1>5, TeardownSees
<1>7. Falling(labels) BY <1>1, TeardownSees
<1>. QED BY <1>1, <1>2, <1>3, <1>6, <1>7, AgreesWithItself, TeardownPlaces

LEMMA DrainNextBelow ==
    ASSUME NEW a \in Comps \ {"firmware"}, NEW c \in Comps, Position[c] > Position[DrainNext[a]]
    PROVE  c = a \/ Position[c] > Position[a]
BY DEF Comps, Position, DrainNext

LEMMA DrainedPlace ==
    ASSUME NodeInv, Drain, UNCHANGED pods
    PROVE  PlaceFits'
<1>1. op \in Workers /\ op.pc = "drain" /\ op.at \in Comps \ {"firmware"} /\ DrainedOK(op.at)
  BY NodeParts, Parts DEF Drain, DrainsSelector
<1>2. /\ op'.pc = "drain" /\ op'.flow = op.flow /\ op'.snap = op.snap /\ op'.rsnap = op.rsnap
      /\ op'.found = op.found /\ op'.at = DrainNext[op.at]
  BY <1>1 DEF Drain, Workers
<1>3. PodsOf(op.at) = {} /\ (op.at # "kmodules" => op.at \notin op.found)
  BY <1>1, DrainedGone
<1>4. \A c \in Comps : Position[c] > Position[op'.at] => c = op.at \/ Position[c] > Position[op.at]
  BY <1>1, <1>2, DrainNextBelow
<1>5. \A c \in Comps : /\ PodsOf(c) # {} => c \in op.found
                       /\ Position[c] > Position[op.at] => PodsOf(c) = {}
  BY <1>1, NodeParts DEF PlaceFits, DrainPlace
<1>6. \A c \in Comps : /\ PodsOf(c) # {} => c \in op'.found
                       /\ Position[c] > Position[op'.at] => PodsOf(c) = {}
  BY <1>2, <1>3, <1>4, <1>5
<1>7. op.rsnap.sel \subseteq Comps BY NodeParts DEF NodeLabels
<1>8. op.flow = "rollback" => \A c \in op.rsnap.sel :
          c \in op.found /\ (Position[c] > Position[op.at] => c = "kmodules")
  BY <1>1, NodeParts DEF PlaceFits, BackPlace
<1>9. op.flow = "rollback" => \A c \in op.rsnap.sel :
          c \in op'.found /\ (Position[c] > Position[op'.at] => c = "kmodules")
  BY <1>2, <1>3, <1>4, <1>7, <1>8
<1>10. Falling(labels') BY DrainedFits
<1>11. Agree(labels', labels) BY NodeParts, DrainingStage DEF Agree, NodeLabels
<1>. QED BY <1>1, <1>2, <1>6, <1>9, <1>10, <1>11, TeardownPlaces

(* The end of the teardown: nothing is left, on the node and of the map.   *)
LEMMA TornPlaces ==
    ASSUME NodeInv, op.pc \in {"list", "drain"}, Goto(AfterTeardown), Agree(labels', labels),
           labels'.sel = {}, NoPods, UNCHANGED pods, op.flow = "rollback" => op.rsnap.sel = {}
    PROVE  PlaceFits'
<1>1. op \in Workers /\ op.flow \in {"upgrade", "rollback"} BY NodeParts, Parts DEF Calm
<1>2. /\ op'.pc = IF op.flow = "upgrade" THEN "switch" ELSE "torn"
      /\ op'.flow = op.flow /\ op'.snap = op.snap /\ op'.rsnap = op.rsnap
  BY <1>1, GotoFields DEF AfterTeardown, PCs
<1>3. NoPods' BY DEF NoPods
<1>4. DrainPlace' BY <1>2 DEF DrainPlace
<1>5. BackPlace' BY <1>1, <1>2 DEF BackPlace
<1>6. /\ Looping' => op.flow = "upgrade"
      /\ RollingBack' => op.flow = "rollback"
  BY <1>2 DEF Looping, RollingBack
<1>7. /\ Looping' => Looping
      /\ RollingBack' => RollingBack
  BY <1>6, TeardownSees
<1>8. LoopPlace'
  BY <1>2, <1>3, <1>7, NodeParts DEF PlaceFits, LoopPlace, Agree
<1>. QED BY <1>4, <1>5, <1>8 DEF PlaceFits

LEMMA NothingToDrainPlace ==
    ASSUME NodeInv, NothingToDrain
    PROVE  PlaceFits'
<1>1. op.pc = "list" /\ labels' = labels /\ pods' = pods /\ PodsFound = {} /\ Goto(AfterTeardown)
  BY DEF NothingToDrain, cluster, others
<1>2. \A c \in Comps : PodsOf(c) = {} BY <1>1 DEF PodsFound
<1>3. NoPods BY <1>2 DEF NoPods, PodsOf
<1>4. labels.sel \subseteq Comps BY NodeParts DEF NodeLabels
<1>5. labels.sel = {} BY <1>1, <1>2, <1>4, TeardownSees
<1>6. op.flow = "rollback" => op.rsnap.sel = {}
  BY <1>1, <1>5, NodeParts DEF PlaceFits, BackPlace
<1>. QED BY <1>1, <1>3, <1>5, <1>6, AgreesWithItself, TornPlaces

LEMMA LastDrainedPlace ==
    ASSUME NodeInv, DrainLast, UNCHANGED pods
    PROVE  PlaceFits'
<1>1. op.pc = "drain" /\ op.at = "firmware" /\ DrainedOK(op.at) /\ Goto(AfterTeardown)
  BY DEF DrainLast, DrainsSelector
<1>2. PodsOf("firmware") = {} /\ "firmware" \notin op.found BY <1>1, DrainedGone
<1>3. \A c \in Comps : c = "firmware" \/ Position[c] > Position[op.at]
  BY <1>1 DEF Comps, Position
<1>4. \A c \in Comps : PodsOf(c) = {}
  BY <1>1, <1>2, <1>3, NodeParts DEF PlaceFits, DrainPlace
<1>5. NoPods BY <1>4 DEF NoPods, PodsOf
<1>6. labels.sel \subseteq Comps BY NodeParts DEF NodeLabels
<1>7. \A c \in labels.sel : c = "firmware"
  <2>1. \A c \in labels.sel : Position[c] <= Position[op.at]
    BY <1>1, NodeParts DEF LifecycleInv, WorkerOK
  <2>. QED BY <1>1, <1>6, <2>1 DEF Comps, Position
<1>8. labels'.sel = {} /\ Agree(labels', labels)
  BY <1>1, <1>7, NodeParts, DrainingStage DEF Agree, NodeLabels
<1>9. op.flow = "rollback" => op.rsnap.sel = {}
  <2>. SUFFICES ASSUME op.flow = "rollback" PROVE op.rsnap.sel = {} OBVIOUS
  <2>1. op.rsnap.sel \subseteq Comps /\ OrderOK(op.rsnap) BY NodeParts DEF NodeLabels
  <2>2. \A c \in op.rsnap.sel : c \in op.found /\ (Position[c] > Position[op.at] => c = "kmodules")
    BY <1>1, NodeParts DEF PlaceFits, BackPlace
  <2>3. op.rsnap.sel \subseteq {"kmodules"} BY <1>2, <1>3, <2>1, <2>2
  <2>4. "firmware" \in Earlier("kmodules") BY DEF Earlier, Comps, Position
  <2>. QED BY <2>1, <2>3, <2>4 DEF OrderOK
<1>. QED BY <1>1, <1>5, <1>8, <1>9, TornPlaces

-----------------------------------------------------------------------------
(* The pods follow.                                                        *)

(* A pod that is wanted is one of a selected component of the active       *)
(* policy, and such a pod is wanted.                                       *)
LEMMA WantedPod ==
    ASSUME NodeInv, NEW c \in Comps, NEW q \in Policies
    PROVE  /\ Wanted(c, q) => /\ q = labels.active /\ c \in labels.sel
                              /\ labels.present = "true" /\ labels.isolate = FALSE
           /\ q = labels.active /\ c \in labels.sel => Wanted(c, q)
<1>1. /\ labels \in NodeLabels /\ labels.sw = labels.active /\ StageMap(labels)
      /\ policies = Policies
  BY NodeParts DEF MapOK, VersionOK, Calm
<1>2. q = labels.active => labels.present = "true" BY <1>1, NoneIsNotIn DEF StageMap
<1>3. labels.present = "true" => labels.isolate = FALSE BY <1>1 DEF StageMap, NodeLabels
<1>. QED BY <1>1, <1>2, <1>3 DEF Wanted

LEMMA PodBecomesState ==
    ASSUME NodeInv, NEW c \in Comps, NEW q \in Policies, NEW s \in PodStates, PodBecomes(c, q, s)
    PROVE  /\ UNCHANGED <<labels, op>> /\ pods'[c][q] = s
           /\ \A d \in Comps, r \in Policies : (d = c /\ r = q) \/ pods'[d][r] = pods[d][r]
<1>1. pods \in [Comps -> [Policies -> PodStates]] BY NodeParts DEF TypeInv, TypeOK
<1>. QED BY <1>1 DEF PodBecomes

LEMMA CreatedFits ==
    ASSUME NodeInv, NEW c \in Comps, NEW q \in Policies, PodCreated(c, q)
    PROVE  OneVersion' /\ PodsFit(labels)' /\ PlaceFits'
<1>1. pods[c][q] = "none" /\ Wanted(c, q) /\ PodBecomes(c, q, "starting") BY DEF PodCreated
<1>2. /\ UNCHANGED <<labels, op>> /\ pods'[c][q] = "starting"
      /\ \A d \in Comps, r \in Policies : (d = c /\ r = q) \/ pods'[d][r] = pods[d][r]
  BY <1>1, PodBecomesState DEF PodStates
<1>3. /\ q = labels.active /\ c \in labels.sel /\ labels.present = "true"
      /\ labels.isolate = FALSE
  BY <1>1, WantedPod
<1>4. PodsFit(labels) /\ PlaceFits /\ labels \in NodeLabels BY NodeParts
<1>5. \A d \in Comps, r \in Policies : pods[d][r] # "none" => r = q
  BY <1>3, PodIsActive
<1>6. \A d \in Comps, r \in Policies : pods'[d][r] # "none" => r = q BY <1>2, <1>5
<1>7. OneVersion' BY <1>6 DEF OneVersion
<1>8. ~Falling(labels) BY <1>1, <1>3, <1>4 DEF PodsFit, NoneStarting
<1>9. labels.boot = "absent" /\ "bootStatusMarked" \notin labels.flags
  BY <1>1, <1>3, <1>4 DEF PodsFit, AllUp
<1>10. EarlierUp(labels)'
  <2>1. \A d \in Comps : pods[d][q] = "up" => pods'[d][q] = "up" BY <1>1, <1>2
  <2>2. \A d \in labels.sel : Earlier(d) \subseteq Comps BY DEF Earlier
  <2>. QED BY <1>2, <1>3, <1>4, <2>1, <2>2 DEF PodsFit, EarlierUp
<1>11. NoStray(labels)' BY <1>2, <1>3, <1>4 DEF PodsFit, NoStray, Falling
<1>12. OfActive(labels)' /\ NoneStarting(labels)' /\ AllUp(labels)'
  BY <1>2, <1>3, <1>6, <1>8, <1>9 DEF OfActive, NoneStarting, AllUp, Falling
<1>13. PodsFit(labels)' BY <1>2, <1>4, <1>10, <1>11, <1>12 DEF PodsFit, Bottom
<1>14. op.pc \notin {"list", "drain"} BY <1>4, <1>8 DEF PlaceFits, DrainPlace
<1>15. ~(op.pc = "torn" \/ (op.pc = "switch" /\ ~Has("teardownCompleted")))
  BY <1>3, <1>4 DEF PlaceFits, LoopPlace
<1>16. PlaceFits'
  BY <1>2, <1>4, <1>14, <1>15 DEF PlaceFits, DrainPlace, BackPlace, LoopPlace, Has, Looping,
     RollingBack, Falling, Bottom, Agree
<1>. QED BY <1>7, <1>13, <1>16

LEMMA UpFits ==
    ASSUME NodeInv, NEW c \in Comps, NEW q \in Policies, PodUp(c, q)
    PROVE  OneVersion' /\ PodsFit(labels)' /\ PlaceFits'
<1>1. pods[c][q] = "starting" /\ Wanted(c, q) /\ PodBecomes(c, q, "up") BY DEF PodUp
<1>2. /\ UNCHANGED <<labels, op>> /\ pods'[c][q] = "up"
      /\ \A d \in Comps, r \in Policies : (d = c /\ r = q) \/ pods'[d][r] = pods[d][r]
  BY <1>1, PodBecomesState DEF PodStates
<1>3. q = labels.active /\ c \in labels.sel BY <1>1, WantedPod
<1>4. PodsFit(labels) /\ PlaceFits /\ OneVersion /\ labels \in NodeLabels BY NodeParts
<1>5. \A d \in Comps, r \in Policies : pods'[d][r] # "none" <=> pods[d][r] # "none"
  BY <1>1, <1>2
<1>6. OneVersion' BY <1>4, <1>5 DEF OneVersion
<1>7. ~Falling(labels) BY <1>1, <1>3, <1>4 DEF PodsFit, NoneStarting
<1>8. \A d \in Comps : pods[d][q] = "up" => pods'[d][q] = "up" BY <1>1, <1>2
<1>9. EarlierUp(labels)' /\ AllUp(labels)'
  <2>1. \A d \in labels.sel : Earlier(d) \subseteq Comps BY DEF Earlier
  <2>. QED BY <1>2, <1>3, <1>4, <1>8, <2>1 DEF PodsFit, EarlierUp, AllUp
<1>10. OfActive(labels)' /\ NoStray(labels)' /\ NoneStarting(labels)'
  BY <1>2, <1>4, <1>5, <1>7 DEF PodsFit, OfActive, NoStray, NoneStarting, Falling
<1>11. PodsFit(labels)' BY <1>2, <1>4, <1>9, <1>10 DEF PodsFit, Bottom
<1>12. op.pc \notin {"list", "drain"} BY <1>4, <1>7 DEF PlaceFits, DrainPlace
<1>13. ~(op.pc = "torn" \/ (op.pc = "switch" /\ ~Has("teardownCompleted")))
  BY <1>3, <1>4 DEF PlaceFits, LoopPlace
<1>14. PlaceFits'
  BY <1>2, <1>4, <1>12, <1>13 DEF PlaceFits, DrainPlace, BackPlace, LoopPlace, Has, Looping,
     RollingBack, Falling, Bottom, Agree
<1>. QED BY <1>6, <1>11, <1>14

LEMMA GoneFits ==
    ASSUME NodeInv, NEW c \in Comps, NEW q \in Policies, PodGone(c, q)
    PROVE  OneVersion' /\ PodsFit(labels)' /\ PlaceFits'
<1>1. ~Wanted(c, q) /\ PodBecomes(c, q, "none") BY NodeParts DEF PodGone, Calm
<1>2. /\ UNCHANGED <<labels, op>> /\ pods'[c][q] = "none"
      /\ \A d \in Comps, r \in Policies : (d = c /\ r = q) \/ pods'[d][r] = pods[d][r]
  BY <1>1, PodBecomesState DEF PodStates
<1>3. ~(q = labels.active /\ c \in labels.sel) BY <1>1, WantedPod
<1>4. PodsFit(labels) /\ PlaceFits /\ OneVersion /\ labels \in NodeLabels /\ StageMap(labels)
      /\ OrderOK(labels) /\ labels.sel \subseteq Comps /\ MapOK(labels)
  BY NodeParts DEF NodeLabels
<1>5. \A d \in Comps, r \in Policies : pods'[d][r] # "none" => pods'[d][r] = pods[d][r]
  BY <1>2
<1>6. OneVersion' BY <1>4, <1>5 DEF OneVersion
<1>7. \A d \in Comps : d \in labels.sel /\ labels.active \in Policies
                          => pods'[d][labels.active] = pods[d][labels.active]
  BY <1>2, <1>3
<1>8. \A d \in labels.sel : Earlier(d) \subseteq labels.sel BY <1>4 DEF OrderOK
<1>9. OfActive(labels)' /\ NoStray(labels)'
  BY <1>2, <1>4, <1>5 DEF PodsFit, OfActive, NoStray, Falling
<1>10. ASSUME labels.active \in Policies PROVE PodsFit(labels)'
  <2>1. EarlierUp(labels)'
    <3>1. \A d \in labels.sel : \A e \in Earlier(d) : pods'[e][labels.active] = "up"
      BY <1>4, <1>7, <1>8, <1>10 DEF PodsFit, EarlierUp
    <3>. QED BY <1>2, <3>1 DEF EarlierUp
  <2>2. NoneStarting(labels)'
    <3>1. \A d \in Comps : pods'[d][labels.active] \in {"none", pods[d][labels.active]}
      BY <1>2, <1>10
    <3>. QED BY <1>2, <1>4, <1>7, <1>10, <3>1 DEF PodsFit, NoneStarting, Falling
  <2>3. AllUp(labels)'
    BY <1>2, <1>4, <1>7, <1>10 DEF PodsFit, AllUp, StageMap
  <2>. QED BY <1>2, <1>4, <1>9, <2>1, <2>2, <2>3 DEF PodsFit, Bottom
<1>11. ASSUME labels.active \notin Policies PROVE PodsFit(labels)'
  <2>1. labels.active = None BY <1>4, <1>11 DEF NodeLabels, PolicyOrNone
  <2>2. labels.flags = {} /\ labels.boot = "absent" /\ labels.sel \subseteq {"firmware"}
    BY <1>4, <2>1 DEF StageMap
  <2>3. Earlier("firmware") = {} BY DEF Earlier, Comps, Position
  <2>. QED BY <1>2, <1>9, <2>2, <2>3
           DEF PodsFit, EarlierUp, NoneStarting, AllUp, Falling, Bottom
<1>12. \A d \in Comps : PodsOf(d)' \subseteq PodsOf(d) BY <1>5 DEF PodsOf
<1>13. DrainPlace'
  BY <1>2, <1>4, <1>12 DEF PlaceFits, DrainPlace, Falling
<1>14. NoPods => NoPods' BY <1>5 DEF NoPods
<1>15. BackPlace' /\ LoopPlace'
  BY <1>2, <1>4, <1>14 DEF PlaceFits, BackPlace, LoopPlace, Has, Looping,
     RollingBack, Falling, Bottom, Agree
<1>. QED BY <1>6, <1>10, <1>11, <1>13, <1>15 DEF PlaceFits

-----------------------------------------------------------------------------
(* All steps.                                                              *)

(* The worker's steps that start a reconcile, or end in a place of rest.   *)
LEMMA NextPlace ==
    ASSUME NodeInv, OneMoveAtATime', [Next]_vars, UNCHANGED pods
    PROVE  PlaceFits'
<1>0. /\ MoveAlone(labels') /\ TypeInv /\ Calm /\ LifecycleInv /\ "rebooted" \notin labels.flags
  BY NodeParts DEF OneMoveAtATime
<1>1. CASE OperatorStep
  <2>1. CASE StartAdoption \/ StartEnabling \/ StartLoop BY <2>1, StartingFits
  <2>2. CASE EnableNext \/ AllEnabled \/ EnableFails BY <2>2, EnablingFits
  <2>3. CASE \/ SkipRollback \/ AlreadySwitched \/ RolledBack
             \/ \E cr \in Policies : LeaveOldPolicy(cr) \/ KeepMoving(cr) \/ ResumeUnfinished(cr)
    BY <2>3, LoopingFits
  <2>4. CASE BlockAggregation BY <1>0, <2>4, BlockedPlace
  <2>5. CASE transitionToUpgradingState BY <1>0, <2>5, UpgradingPlace
  <2>6. CASE updateSwVersionLabels BY <2>6, SwitchedPlace
  <2>7. CASE BeginRollback BY <1>0, <2>7, RollbackPlace
  <2>8. CASE MarkTornDown BY <1>0, <2>8, TornDownPlace
  <2>9. CASE ListUnderPrior \/ UnlistFromPolicy BY <2>9, ListingPlace
  <2>10. CASE RestorePrior BY <2>10, RestoredPlace
  <2>11. CASE LabelRolledBack BY <2>11, LabelledPlace
  <2>12. CASE ListPods BY <2>12, ListedPlace
  <2>13. CASE NothingToDrain BY <2>13, NothingToDrainPlace
  <2>14. CASE Drain BY <2>14, DrainedPlace
  <2>15. CASE DrainLast BY <2>15, LastDrainedPlace
  <2>16. CASE \/ NoReboot \/ AutoIsolate \/ labelX100Nodes \/ Aggregate
              \/ PassOver \/ AdoptFirstPolicy \/ DrainPending \/ LoopDone \/ IncorrectPolicy
              \/ AfterLabels \/ ReadBootStatus \/ SkipBootStatus \/ MarkVerdict \/ NoVerdict
              \/ ClearTimers
    BY <1>0, <2>16, RestingPcs, RestingFits
  <2>. QED BY <1>0, <1>1, <2>1, <2>2, <2>3, <2>4, <2>5, <2>6, <2>7, <2>8, <2>9, <2>10, <2>11,
              <2>12, <2>13, <2>14, <2>15, <2>16, QuietSteps DEF OperatorStep
<1>2. CASE \E p \in Policies : Reconcile(p) \/ ReconcileDeletion(p)
  BY <1>0, <1>2, QuietSteps, RestingPcs, RestingFits
<1>3. CASE op' = Idle BY <1>3, RestingFits DEF Idle, Resting
<1>4. CASE UNCHANGED <<labels, op>>
  BY <1>4, NodeParts DEF PlaceFits, DrainPlace, BackPlace, LoopPlace, Has, Looping,
     RollingBack, Falling, Bottom, Agree, PodsOf, NoPods
<1>5. CASE Outside
  <2>1. labels' = labels
    BY <1>0, <1>5, QuietSteps DEF Outside, UserAssigns, NodeComesUp, PodStep, PodCreated, PodUp,
       PodGone, PodBecomes, TimerExpires, OperatorCrashes, CallFails
  <2>. QED BY <1>3, <1>4, <1>5, <2>1, OutsideParts, FailingFits DEF OperatorCrashes
<1>6. CASE UNCHANGED vars BY <1>4, <1>6 DEF vars
<1>. QED BY <1>1, <1>2, <1>5, <1>6 DEF Next

LEMMA NextPods ==
    ASSUME NodeInv, OneMoveAtATime', [Next]_vars
    PROVE  OneVersion' /\ PodsFit(labels)' /\ PlaceFits'
<1>0. TypeInv /\ Calm /\ "rebooted" \notin labels.flags BY NodeParts
<1>1. CASE UNCHANGED pods
  <2>1. OneVersion' BY <1>1, NodeParts DEF OneVersion
  <2>2. PodsFit(labels') BY NextFits
  <2>3. PodsFit(labels)'
    BY <1>1, <2>2 DEF PodsFit, OfActive, EarlierUp, NoStray, NoneStarting, AllUp, Falling, Bottom
  <2>. QED BY <1>1, <2>1, <2>3, NextPlace
<1>2. CASE NodeComesUp BY <1>0, <1>2 DEF NodeComesUp, Calm
<1>3. CASE \E c \in Comps, q \in Policies : PodStep(c, q)
  BY <1>3, CreatedFits, UpFits, GoneFits DEF PodStep
<1>. QED BY <1>0, <1>1, <1>2, <1>3, PodWrites

LEMMA NextNode ==
    ASSUME NodeInv, OneMoveAtATime', [Next]_vars
    PROVE  NodeInv'
<1>1. LifecycleInv' BY NextKeeps, NodeParts
<1>2. OrderInv' BY NextOrder, NodeParts
<1>3. HistoryInv' BY NextCalmHistory
<1>4. ResumesOnMark' BY NextResumes, NodeParts
<1>5. Calm' BY NextCalm, NodeParts
<1>6. StageMaps' BY NextStage
<1>. QED BY <1>1, <1>2, <1>3, <1>4, <1>5, <1>6, NextPods DEF NodeInv, PodInv

LEMMA InitNode == Init /\ Kept => NodeInv
<1>. SUFFICES ASSUME Init, Kept PROVE NodeInv OBVIOUS
<1>1. LifecycleInv BY InitKeeps
<1>2. OrderInv BY BareOrder DEF Init, OrderInv, NeverDown, Kept, Idle
<1>3. HistoryInv BY InitHistory
<1>4. ResumesOnMark BY DEF Init, Idle, ResumesOnMark
<1>5. /\ labels = BareLabels /\ op = Idle /\ NoPods
  BY DEF Init, NoPods
<1>6. Calm BY DEF Init, Calm, Idle
<1>7. StageMaps BY <1>5, BareStage DEF StageMaps, Idle
<1>8. OneVersion BY <1>5 DEF NoPods, OneVersion
<1>9. PodsFit(labels)
  <2>1. /\ labels.sel = {} /\ labels.boot = "absent" /\ labels.flags = {}
    BY <1>5 DEF BareLabels
  <2>2. ~Falling(labels) BY <2>1 DEF Falling
  <2>. QED BY <1>5, <2>1, <2>2, EmptyFits
<1>10. PlaceFits BY <1>5 DEF Idle, PlaceFits, DrainPlace, BackPlace, LoopPlace, Looping, RollingBack
<1>. QED BY <1>1, <1>2, <1>3, <1>4, <1>6, <1>7, <1>8, <1>9, <1>10 DEF NodeInv, PodInv

-----------------------------------------------------------------------------
(* The theorems.                                                           *)

LEMMA NodeInvariant == Spec /\ []OneMoveAtATime /\ Kept => []NodeInv
<1>1. NodeInv /\ OneMoveAtATime' /\ [Next]_vars => NodeInv' BY NextNode
<1>. QED BY <1>1, InitNode, PTL DEF Spec

LEMMA NodeKeepsOneVersion == NodeInv => OneVersionOnNode
BY NodeParts DEF OneVersion, OneVersionOnNode

LEMMA NodeIsComplete == NodeInv => JudgedNodeIsComplete
BY NodeParts DEF StageMap, JudgedNodeIsComplete, Has

LEMMA SequenceStep ==
    ASSUME NodeInv, [Next]_vars, NEW c \in Comps, NEW q \in Policies,
           pods[c][q] = "none", pods'[c][q] # "none"
    PROVE  \A d \in Earlier(c) : pods[d][q] # "none"
<1>1. PICK e \in Comps, r \in Policies : PodStep(e, r)
  <2>1. ~(UNCHANGED pods) OBVIOUS
  <2>. QED BY <2>1, PodWrites, NodeParts DEF NodeComesUp
<1>2. PICK s \in PodStates : PodBecomes(e, r, s)
  BY <1>1 DEF PodStep, PodCreated, PodUp, PodGone, PodStates
<1>3. e = c /\ r = q BY <1>2, PodBecomesState
<1>4. Wanted(c, q)
  <2>1. ~PodGone(e, r) BY <1>3, NodeParts DEF PodGone, Calm
  <2>. QED BY <1>1, <1>3, <2>1 DEF PodStep, PodCreated, PodUp
<1>5. q = labels.active /\ c \in labels.sel BY <1>4, WantedPod
<1>. QED BY <1>5, NodeParts DEF PodsFit, EarlierUp

LEMMA VersionStep ==
    ASSUME NodeInv, OneMoveAtATime', [Next]_vars, labels.active # None,
           labels'.active \notin {None, labels.active}
    PROVE  NothingRuns
<1>0. MoveAlone(labels') /\ labels \in NodeLabels BY NodeParts DEF OneMoveAtATime
<1>1. NoPods => NothingRuns BY DEF NoPods, NothingRuns
<1>2. CASE AutoIsolate
  BY <1>0, <1>2 DEF AutoIsolate, cleanupStaleSelectorLabels, cleanupStaleCRLabels, NodeLabels
<1>3. CASE labelX100Nodes
  <2>1. labels'.active \in {None, labels.active}
    BY <1>0, <1>3, PresentStage DEF Withdrawn, cleanupStaleSelectorLabels, cleanupStaleCRLabels, NodeLabels
  <2>. QED BY <2>1
<1>4. CASE EnableNext BY <1>0, <1>4 DEF EnableNext, NodeLabels
<1>5. CASE AdoptFirstPolicy BY <1>5, AdoptStage
<1>6. CASE Drain \/ DrainLast \/ DrainPending BY <1>0, <1>6, DrainingStage DEF NodeLabels
<1>7. CASE MarkTornDown BY <1>0, <1>7, TornDownStage
<1>8. CASE BlockAggregation BY <1>0, <1>8, BlockedStage
<1>9. CASE transitionToUpgradingState BY <1>0, <1>9, UpgradingStage
<1>10. CASE updateSwVersionLabels BY <1>1, <1>10, SwitchedStage
<1>11. CASE RolledBack BY <1>11, ResumedStage
<1>12. CASE BeginRollback BY <1>0, <1>12, RollbackStage
<1>13. CASE RestorePrior BY <1>1, <1>13, RestoredStage, BottomIsEmpty
<1>14. CASE LabelRolledBack BY <1>0, <1>14, LabelledStage
<1>15. CASE ReadBootStatus BY <1>0, <1>15 DEF ReadBootStatus, NodeLabels
<1>16. CASE MarkVerdict BY <1>16, JudgedWhenUp
<1>. QED BY <1>2, <1>3, <1>4, <1>5, <1>6, <1>7, <1>8, <1>9, <1>10, <1>11, <1>12,
            <1>13, <1>14, <1>15, <1>16, LabelWriters

(* No two software versions run on a node that is left alone and moved on  *)
(* only once its last upgrade or rollback has been judged: over all        *)
(* adoptions, upgrades, failures of them and rollbacks, crashes of the     *)
(* operator, failed calls and expired timers (the selectors of DaemonSets  *)
(* and Modules against the teardown of both flows).                        *)
THEOREM OneVersionRuns == Spec /\ []OneMoveAtATime /\ Kept => []OneVersionOnNode
BY NodeInvariant, NodeKeepsOneVersion, PTL

(* On such a node a verdict, once given, is one on a complete node: the    *)
(* boot status is never read, nor a verdict kept or written back by an     *)
(* older map, while a component is not selected.                           *)
THEOREM JudgedNodesAreComplete == Spec /\ []OneMoveAtATime /\ Kept => []JudgedNodeIsComplete
BY NodeInvariant, NodeIsComplete, PTL

(* There a pod comes only after those it depends on, in every flow that    *)
(* brings pods up and wherever a crash has interrupted it.                 *)
THEOREM PodsComeInSequence == Spec /\ []OneMoveAtATime /\ Kept => CreatedInSequence
<1>1. NodeInv /\ [Next]_vars =>
        [\A c \in Comps, q \in Policies :
            pods[c][q] = "none" /\ pods'[c][q] # "none"
                => \A d \in Earlier(c) : pods[d][q] # "none"]_vars
  BY SequenceStep
<1>. QED BY <1>1, NodeInvariant, PTL DEF Spec, CreatedInSequence

(* And the version changes hands, in an upgrade or back in a rollback, on  *)
(* a node where nothing runs, though both flows look for pods only once.   *)
THEOREM VersionChangesOnEmptyNode ==
    Spec /\ []OneMoveAtATime /\ Kept => VersionChangesWhenTornDown
<1>1. NodeInv /\ OneMoveAtATime' /\ [Next]_vars =>
        [labels.active # None /\ labels'.active \notin {None, labels.active} => NothingRuns]_vars
  BY VersionStep
<1>. QED BY <1>1, NodeInvariant, PTL DEF Spec, VersionChangesWhenTornDown
=============================================================================
