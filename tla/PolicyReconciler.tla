-------------------------- MODULE PolicyReconciler --------------------------
(***************************************************************************)
(* The reconcile loop of the operator over several policies and nodes: what*)
(* brings a request for a policy into the queue, how one request scans for *)
(* reboots, labels the nodes, creates the assets one after the other with  *)
(* retries, collects the boot status, writes the policy's state and comes  *)
(* back later or not at all.                                               *)
(*                                                                         *)
(* A visit to a node is one step here (its inner steps are NodeLifecycle's)*)
(* and the node lists do not change (PolicyLists has them change).  There  *)
(* is one worker for all the policies.  Heartbeats and the ten-hourly      *)
(* resync of the informers, which also bring requests, are left out: the   *)
(* loop must not depend on them.                                           *)
(***************************************************************************)
EXTENDS Integers, FiniteSets

CONSTANTS
    Policies,
    Nodes,
    Last,           \* the assets with pods are 1 .. Last, in creation order;
                    \* the pod of asset Last is the device plugin's
    Modules,        \* those that are KMM modules
    Retries,        \* retryCount
    Scenarios       \* layouts, the nodes' first states, outside events allowed

Assets == 1..Last
Faults == {"reboot", "cordon", "crash", "glitch", "slow", "lostReady",
           "lostNotReady"}

Flags == {"present", "enabling", "rebooted", "torn", "judged", "marked", "failed"}

NodeStates ==
    [ adopted : BOOLEAN,            \* activeCR is the policy that lists it
      ready : BOOLEAN,              \* the Ready condition (FALSE: Unknown)
      cordoned : BOOLEAN,           \* Unschedulable
      sel : SUBSET Assets,          \* pod selectors on the node
      up : SUBSET Assets,           \* pods that run and have completed
      flags : SUBSET Flags ]

ASSUME ReconcilerAssumption ==
    /\ Policies # {}
    /\ Last \in Nat \ {0} /\ Modules \subseteq Assets /\ Retries \in Nat \ {0}
    /\ Scenarios \subseteq [ listed : [Nodes -> Policies], node : [Nodes -> NodeStates],
                             budget : [Faults -> Nat] ]
    /\ \A s \in Scenarios, n \in Nodes : ~({"rebooted", "marked"} \subseteq s.node[n].flags)

VARIABLES
    listed,         \* the policy whose node list names the node
    node,
    created,        \* the assets created for each policy
    status,         \* Status.State of each policy
    queue,          \* requests to be taken up
    delayed,        \* requests that a timer puts into the queue
    op,             \* the worker
    budget          \* outside events left

vars == <<listed, node, created, status, queue, delayed, op, budget>>

PCs == {"idle", "scan", "present", "label", "create", "boot", "end", "notReady"}

(* "at" is the current asset, "tries" what is left of retryCount and "ok"  *)
(* the overall status; "todo" are the nodes a scan or a walk has yet to    *)
(* visit, "down" those it found down, "again" tells the labelling inside   *)
(* the retry loop from the one before it.                                  *)
Workers ==
    [ pc : PCs, policy : Policies, wasReady : BOOLEAN, ok : BOOLEAN, at : 0..Last,
      tries : 1..Retries, todo : SUBSET Nodes, down : SUBSET Nodes,
      qualified : BOOLEAN, again : BOOLEAN ]

Idle == [ pc |-> "idle", policy |-> CHOOSE p \in Policies : TRUE, wasReady |-> FALSE,
          ok |-> TRUE, at |-> 0, tries |-> Retries, todo |-> {}, down |-> {},
          qualified |-> FALSE, again |-> FALSE ]

TypeOK ==
    /\ listed \in [Nodes -> Policies]
    /\ node \in [Nodes -> NodeStates]
    /\ created \in [Policies -> SUBSET Assets]
    /\ status \in [Policies -> {"none", "ready", "notReady"}]
    /\ queue \subseteq Policies /\ delayed \subseteq Policies
    /\ op \in Workers
    /\ budget \in [Faults -> Nat]

(* A policy whose nodes were all judged before is Operational already.     *)
Listed(p) == {n \in Nodes : listed[n] = p}

Settled(p) == Listed(p) # {} /\ \A n \in Listed(p) : "marked" \in node[n].flags

Init ==
    /\ \E s \in Scenarios : listed = s.listed /\ node = s.node /\ budget = s.budget
    /\ created = [p \in Policies |-> IF Settled(p) THEN Assets ELSE {}]
    /\ status = [p \in Policies |-> IF Settled(p) THEN "ready" ELSE "none"]
    /\ queue = Policies /\ delayed = {}
    /\ op = Idle

-----------------------------------------------------------------------------
(* Requests.  (An operator with a suffix after "_" is a mutated form of     *)
(* the one after it: the runs must find a property violated with it.)      *)

Me == op.policy
Is(n, f) == f \in node[n].flags
Spend(f) == budget[f] > 0 /\ budget' = [budget EXCEPT ![f] = @ - 1]

(* The update of a node that UpdateFunc lets through.                      *)
Wakes_LabelsOnly(s) ==
    ~s.cordoned /\ ("rebooted" \in s.flags \/ "present" \notin s.flags \/ "failed" \in s.flags)

Wakes(s) ==
    /\ ~s.cordoned
    /\ "rebooted" \in s.flags \/ ~s.ready \/ "present" \notin s.flags \/ "failed" \in s.flags

(* Nodes change; if one of them wakes the operator, for every policy.      *)
NodesBecome(new) ==
    /\ node' = new
    /\ queue' = IF \E n \in Nodes : new[n] # node[n] /\ Wakes(new[n]) THEN Policies ELSE queue

NodeBecomes(n, s) == NodesBecome([node EXCEPT ![n] = s])

(* Come back to the policy later.                                          *)
Requeue_Forgets == op' = Idle /\ UNCHANGED delayed

Requeue == delayed' = delayed \cup {Me} /\ op' = Idle

(* A change of the state is an update of the policy, which brings it back; *)
(* an error of the status update is not looked at.                         *)
WriteStatus(s) ==
    \/ /\ status' = [status EXCEPT ![Me] = s]
       /\ queue' = IF s = status[Me] THEN queue ELSE queue \cup {Me}
       /\ UNCHANGED budget
    \/ /\ Spend(IF s = "ready" THEN "lostReady" ELSE "lostNotReady")
       /\ UNCHANGED <<status, queue>>

(* A policy with only the placeholder in its list has nothing to do.       *)
Take(p) ==
    /\ op.pc = "idle" /\ p \in queue
    /\ queue' = queue \ {p}
    /\ op' = IF Listed(p) = {} THEN Idle
             ELSE [Idle EXCEPT !.pc = "scan", !.policy = p, !.todo = Listed(p),
                               !.wasReady = status[p] = "ready"]
    /\ UNCHANGED <<listed, node, created, status, delayed, budget>>

Timer(p) ==
    /\ p \in delayed
    /\ delayed' = delayed \ {p} /\ queue' = queue \cup {p}
    /\ UNCHANGED <<listed, node, created, status, op, budget>>

-----------------------------------------------------------------------------
(* The scan for reboots, in the order in which the nodes come.             *)

Progress == {"enabling", "torn", "judged", "marked", "failed"}

AfterReboot(s) ==
    IF "rebooted" \in s.flags THEN [s EXCEPT !.flags = @ \ {"torn"}]
    ELSE [s EXCEPT !.sel = @ \ Modules, !.flags = (@ \ Progress) \cup {"rebooted"}]

Scanned(n) == op' = [op EXCEPT !.todo = @ \ {n},
                              !.down = IF node[n].ready THEN @ ELSE @ \cup {n}]

ScanNode(n) ==
    /\ op.pc = "scan" /\ n \in op.todo
    /\ \/ node[n].ready /\ Scanned(n) /\ UNCHANGED <<node, queue>>
       \/ ~node[n].ready /\ Is(n, "failed") /\ op' = Idle /\ UNCHANGED <<node, queue>>
       \/ /\ ~node[n].ready /\ ~Is(n, "failed")
          /\ NodeBecomes(n, AfterReboot(node[n]))
          /\ Scanned(n)
    /\ UNCHANGED <<listed, created, status, delayed, budget>>

(* With all of its nodes down the policy is left until one of them changes.*)
ScanDone ==
    /\ op.pc = "scan" /\ op.todo = {}
    /\ op' = IF op.down = Listed(Me) THEN Idle ELSE [op EXCEPT !.pc = "present"]
    /\ UNCHANGED <<listed, node, created, status, queue, delayed, budget>>

-----------------------------------------------------------------------------
(* Labelling: x100.present on every node, then the policy's own nodes.     *)

labelX100Nodes ==
    /\ op.pc = "present"
    /\ NodesBecome([n \in Nodes |->
          IF node[n].cordoned THEN node[n]
          ELSE [node[n] EXCEPT !.flags = @ \cup {"present"}]])
    /\ op' = [op EXCEPT !.pc = "label", !.todo = Listed(Me), !.qualified = FALSE]
    /\ UNCHANGED <<listed, created, status, delayed, budget>>

(* The next selector, if one is missing, once the pod before it completed. *)
NextSelector(s) == {a \in Assets \ s.sel : \A b \in Assets \ s.sel : a <= b}
CanEnable(s) == \A a \in NextSelector(s) : a = 1 \/ a - 1 \in s.up
Enabled(s) == [s EXCEPT !.sel = @ \cup NextSelector(s)]

(* No card, not ready, or waiting for a pod.                               *)
MayProcess(n) == op.pc = "label" /\ n \in op.todo /\ node[n].ready /\ Is(n, "present")
Waits(n) == op' = [op EXCEPT !.todo = @ \ {n}]
Qualifies(n) == op' = [op EXCEPT !.todo = @ \ {n}, !.qualified = TRUE]

PassOver(n) ==
    /\ op.pc = "label" /\ n \in op.todo /\ ~MayProcess(n)
    /\ Waits(n)
    /\ UNCHANGED <<listed, node, created, status, queue, delayed, budget>>

(* The selector that is set on adoption is lost with the labels read before*)
AdoptFirstPolicy(n) ==
    /\ MayProcess(n) /\ ~node[n].adopted
    /\ NodeBecomes(n, [node[n] EXCEPT !.adopted = TRUE, !.flags = @ \cup {"enabling"}])
    /\ Qualifies(n)
    /\ UNCHANGED <<listed, created, status, delayed, budget>>

TearsDown(n) == Is(n, "rebooted") /\ ~Is(n, "torn") /\ ~Is(n, "enabling")

EnableMore(n) ==
    /\ MayProcess(n) /\ node[n].adopted
    /\ Is(n, "enabling") \/ (Is(n, "rebooted") /\ Is(n, "torn"))
    /\ IF CanEnable(node[n])
       THEN NodeBecomes(n, Enabled(node[n])) /\ Qualifies(n)
       ELSE Waits(n) /\ UNCHANGED <<node, queue>>
    /\ UNCHANGED <<listed, created, status, delayed, budget>>

Pods(n) == IF node[n].adopted THEN created[listed[n]] \cap (node[n].sel \cup node[n].up) ELSE {}

(* After a reboot the pods go, the last one first, and are started again;  *)
(* the visit may run out of patience with pod a.  A node that has no pod   *)
(* keeps its selectors.                                                    *)
TornDown_NotRecorded(n) ==
    [node[n] EXCEPT !.sel = IF Pods(n) = {} THEN @ ELSE {}, !.up = {}]

TornDown(n) ==
    [node[n] EXCEPT !.sel = IF Pods(n) = {} THEN @ ELSE {}, !.up = {}, !.flags = @ \cup {"torn"}]

TearDown(n) ==
    /\ MayProcess(n) /\ node[n].adopted /\ TearsDown(n)
    /\ \/ LET s == TornDown(n)
          IN  IF CanEnable(s) THEN NodeBecomes(n, Enabled(s)) /\ Qualifies(n)
              ELSE NodeBecomes(n, s) /\ Waits(n)
       \/ \E a \in node[n].up :
             /\ NodeBecomes(n, [node[n] EXCEPT !.sel = @ \cap 1..(a - 1), !.up = @ \cap 1..a])
             /\ Waits(n)
    /\ UNCHANGED <<listed, created, status, delayed, budget>>

(* Nothing under way; a failed upgrade without a rollback stays.           *)
LeaveAlone(n) ==
    /\ MayProcess(n) /\ node[n].adopted /\ ~Is(n, "enabling") /\ ~Is(n, "rebooted")
    /\ Qualifies(n)
    /\ UNCHANGED <<listed, node, created, status, queue, delayed, budget>>

(* A read or a write of a node that fails for good ends the request.       *)
ApiFails ==
    /\ op.pc \in {"scan", "present", "label"} /\ Spend("glitch")
    /\ Requeue
    /\ UNCHANGED <<listed, node, created, status, queue>>

Over_NeverTired == op.again /\ op.at = Last

Over == op.again /\ (op.tries = 1 \/ op.at = Last)

(* On to the assets, unless none of several nodes can go on.               *)
LabelsDone ==
    /\ op.pc = "label" /\ op.todo = {}
    /\ LET stuck == ~op.qualified /\ Cardinality(Listed(Me)) > 1
       IN  IF stuck \/ Over THEN Requeue
           ELSE /\ op' = IF op.again THEN [op EXCEPT !.pc = "create", !.tries = @ - 1]
                         ELSE [op EXCEPT !.pc = "create", !.at = 1]
                /\ UNCHANGED delayed
    /\ UNCHANGED <<listed, node, created, status, queue, budget>>

-----------------------------------------------------------------------------
(* The state machine over the assets.                                      *)

(* The first pod of the DaemonSet found decides, whichever policy and node *)
(* it belongs to, and those of a node that is down still look running.  A  *)
(* module is ready once one of the policy's own nodes has it.              *)
LooksUp(n, a) == a \in node[n].up \/ ~node[n].ready

Outcomes(a) ==
    LET found == {n \in Nodes : a \in Pods(n)}
    IN  IF a \in Modules THEN {\E n \in Listed(Me) : a \in node[n].up}
        ELSE IF found = {} THEN {FALSE}
        ELSE {LooksUp(n, a) : n \in found}

CreateAsset ==
    /\ op.pc = "create"
    /\ \/ /\ created' = [created EXCEPT ![Me] = @ \cup {op.at}]
          /\ \E ready \in Outcomes(op.at) :
                op' = IF ~ready THEN [op EXCEPT !.pc = "notReady"]
                      ELSE IF op.at = Last THEN [op EXCEPT !.pc = "boot"]
                      ELSE [op EXCEPT !.at = @ + 1]
          /\ UNCHANGED <<delayed, budget>>
       \/ Spend("glitch") /\ Requeue /\ UNCHANGED created
    /\ UNCHANGED <<listed, node, status, queue>>

(* Boot status: nodes are judged as far as the cards tell, and marked; the *)
(* mark of one may fail and is made good on the next pass.                 *)
Unjudged == {n \in Listed(Me) : node[n].adopted /\ Is(n, "present")} \
            {n \in Nodes : Is(n, "judged") \/ Is(n, "marked")}

Eligible == {n \in Unjudged : /\ node[n].ready /\ Last \in node[n].up
                              /\ Is(n, "rebooted") => Is(n, "torn")}

Judged(s) == [s EXCEPT !.flags = @ \cup {"judged"}]

Marked(s) ==
    [s EXCEPT !.flags = (@ \ {"enabling", "rebooted", "torn"}) \cup {"marked", "judged"}]

getx100bootupStatus ==
    /\ op.pc = "boot"
    /\ \E J \in SUBSET Eligible, M \in SUBSET Listed(Me) :
          LET judged == {n \in Listed(Me) : Is(n, "judged")} \cup J
          IN  /\ M \subseteq judged
              /\ \/ J = Eligible /\ M = judged /\ UNCHANGED budget
                 \/ J # Eligible /\ M = judged /\ Spend("slow")
                 \/ J = Eligible /\ M # judged /\ Spend("glitch")
              /\ NodesBecome([n \in Nodes |-> IF n \in M THEN Marked(node[n])
                                             ELSE IF n \in J THEN Judged(node[n])
                                             ELSE node[n]])
              /\ op' = [op EXCEPT !.pc = IF Unjudged \subseteq J THEN "end" ELSE "notReady"]
    /\ UNCHANGED <<listed, created, status, delayed>>

(* Operational when every node under the policy has its boot status marked *)
(* and no step of this request found otherwise.                            *)
AllMarked_JudgedWillDo == \A n \in Listed(Me) : node[n].adopted => Is(n, "judged")

AllMarked == \A n \in Listed(Me) : node[n].adopted => Is(n, "marked")

NotAllMarked ==
    /\ op.pc = "end" /\ ~AllMarked
    /\ op' = [op EXCEPT !.pc = "notReady"]
    /\ UNCHANGED <<listed, node, created, status, queue, delayed, budget>>

ReportOperational ==
    /\ op.pc = "end" /\ AllMarked
    /\ IF op.ok THEN WriteStatus("ready") /\ op' = Idle /\ UNCHANGED delayed
       ELSE Requeue /\ UNCHANGED <<status, queue, budget>>
    /\ UNCHANGED <<listed, node, created>>

(* Not operational: say so if the policy was, and label once more.         *)
ReportNotOperational ==
    /\ op.pc = "notReady"
    /\ op' = [op EXCEPT !.pc = "present", !.again = TRUE, !.ok = FALSE]
    /\ IF op.wasReady THEN WriteStatus("notReady") ELSE UNCHANGED <<status, queue, budget>>
    /\ UNCHANGED <<listed, node, created, delayed>>

-----------------------------------------------------------------------------
(* What happens outside the worker.                                        *)

(* A crash loses the timers; the new process lists every policy.           *)
OperatorCrashes ==
    /\ Spend("crash")
    /\ op' = Idle /\ delayed' = {} /\ queue' = Policies
    /\ UNCHANGED <<listed, node, created, status>>

NodeReboots(n) ==
    /\ node[n].ready /\ Spend("reboot")
    /\ NodeBecomes(n, [node[n] EXCEPT !.ready = FALSE, !.up = {}])
    /\ UNCHANGED <<listed, created, status, delayed, op>>

NodeComesUp(n) ==
    /\ ~node[n].ready
    /\ NodeBecomes(n, [node[n] EXCEPT !.ready = TRUE])
    /\ UNCHANGED <<listed, created, status, delayed, op, budget>>

Cordon(n) ==
    /\ ~node[n].cordoned /\ Spend("cordon")
    /\ NodeBecomes(n, [node[n] EXCEPT !.cordoned = TRUE])
    /\ UNCHANGED <<listed, created, status, delayed, op>>

Uncordon(n) ==
    /\ node[n].cordoned
    /\ NodeBecomes(n, [node[n] EXCEPT !.cordoned = FALSE])
    /\ UNCHANGED <<listed, created, status, delayed, op, budget>>

(* Only a module shows on its node, as the KMM label.                      *)
PodChanges(n, a, up) ==
    /\ node' = [node EXCEPT ![n].up = up]
    /\ queue' = IF a \in Modules /\ Wakes(node'[n]) THEN Policies ELSE queue
    /\ UNCHANGED <<listed, created, status, delayed, op, budget>>

PodUp(n, a) ==
    /\ node[n].ready /\ a \in (Pods(n) \cap node[n].sel) \ node[n].up
    /\ PodChanges(n, a, node[n].up \cup {a})

PodGone(n, a) ==
    /\ node[n].ready /\ a \in node[n].up \ node[n].sel
    /\ PodChanges(n, a, node[n].up \ {a})

Visits(n) ==
    PassOver(n) \/ AdoptFirstPolicy(n) \/ EnableMore(n) \/ TearDown(n) \/ LeaveAlone(n)

WorkerStep ==
    \/ \E n \in Nodes : ScanNode(n) \/ Visits(n)
    \/ ScanDone \/ labelX100Nodes \/ ApiFails \/ LabelsDone \/ CreateAsset \/ getx100bootupStatus
    \/ NotAllMarked \/ ReportOperational \/ ReportNotOperational

PodStep(n) == \E a \in Assets : PodUp(n, a) \/ PodGone(n, a)

Next ==
    \/ \E p \in Policies : Take(p) \/ Timer(p)
    \/ WorkerStep
    \/ \E n \in Nodes : \/ NodeReboots(n) \/ NodeComesUp(n) \/ Cordon(n) \/ Uncordon(n)
                        \/ PodStep(n)
    \/ OperatorCrashes

Spec == Init /\ [][Next]_vars

(* The worker steps and comes to every request in its turn, timers fire,   *)
(* and on a node that is up pods start and stop.                           *)
Fairness ==
    /\ WF_vars(WorkerStep)
    /\ \A p \in Policies : SF_vars(Take(p)) /\ WF_vars(Timer(p))
    /\ \A n \in Nodes : WF_vars(PodStep(n))

FairSpec == Spec /\ Fairness
=============================================================================
