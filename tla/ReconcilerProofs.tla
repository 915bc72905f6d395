-------------------------- MODULE ReconcilerProofs --------------------------
(* Proofs about PolicyReconciler.                                          *)
EXTENDS ReconcilerProperties, TLAPS

(* No failed update of the state to "Operational": such an update is not   *)
(* repeated, and the policy is forgotten.                                  *)
StateIsWritten == \A s \in Scenarios : s.budget["lostReady"] = 0

(* The nodes that the worker has to do with are those of its policy.       *)
WorksOnOwnNodes ==
    /\ op.todo \subseteq Listed(Me) /\ op.down \subseteq Listed(Me)
    /\ op.pc # "idle" => Listed(Me) # {}

(* How far the assets have come.                                           *)
AssetsSoFar ==
    /\ op.pc \in {"create", "boot", "end", "notReady"} \/ op.again => op.at \in Assets
    /\ 1..(op.at - 1) \subseteq created[Me]
    /\ op.pc \in {"boot", "end"} => created[Me] = Assets

(* A node is either judged or on its way back from a reboot.               *)
JudgedOrRebooted == \A n \in Nodes : ~(Is(n, "rebooted") /\ Is(n, "marked"))

EarnedInv == TypeOK /\ WorksOnOwnNodes /\ AssetsSoFar /\ JudgedOrRebooted

(* A node that will wake the operator when it is available again.          *)
Awaited(n) == ~Available(n) /\ (Is(n, "rebooted") \/ Is(n, "failed"))

(* Every policy is waiting for its turn, is worked on, is done, or waits   *)
(* for one of its nodes.                                                   *)
Remembered ==
    \A p \in Policies : Listed(p) # {} =>
        \/ p \in queue \cup delayed
        \/ op.pc # "idle" /\ Me = p
        \/ Reported(p)
        \/ \E n \in Listed(p) : Awaited(n)

(* A node that the scan found down is awaited, or has come up since and    *)
(* brought the policy back.                                                *)
DownAreAwaited ==
    op.pc = "scan" => \A n \in op.down : Is(n, "rebooted") /\ (Awaited(n) \/ Me \in queue)

MemoryInv == Remembered /\ DownAreAwaited /\ budget["lostReady"] = 0

ReconcilerInv == EarnedInv /\ MemoryInv

-----------------------------------------------------------------------------
(* Operators.                                                              *)

LEMMA IdleType == Idle \in Workers
  BY SMTT(30), ReconcilerAssumption DEF Idle, Workers, PCs

LEMMA SomeFields ==
  ASSUME NEW s \in NodeStates, NEW a \in SUBSET Assets, NEW b \in SUBSET Assets,
         NEW f \in SUBSET Flags
  PROVE  /\ [s EXCEPT !.up = a] \in NodeStates
         /\ [s EXCEPT !.flags = f] \in NodeStates
         /\ [s EXCEPT !.sel = a, !.up = b] \in NodeStates
         /\ [s EXCEPT !.sel = a, !.flags = f] \in NodeStates
         /\ [s EXCEPT !.sel = a, !.up = b, !.flags = f] \in NodeStates
         /\ [s EXCEPT !.adopted = TRUE, !.flags = f] \in NodeStates
         /\ [s EXCEPT !.ready = FALSE, !.up = {}] \in NodeStates
         /\ [s EXCEPT !.ready = TRUE] \in NodeStates
         /\ [s EXCEPT !.cordoned = TRUE] \in NodeStates
         /\ [s EXCEPT !.cordoned = FALSE] \in NodeStates
  BY ZenonT(30) DEF NodeStates

LEMMA WorkerMoves ==
  ASSUME NEW w \in Workers
  PROVE  /\ \A c \in PCs : [w EXCEPT !.pc = c] \in Workers
         /\ \A a \in 0..Last : [w EXCEPT !.at = a] \in Workers
         /\ \A T \in SUBSET Nodes : [w EXCEPT !.todo = T] \in Workers
         /\ \A T, D \in SUBSET Nodes : [w EXCEPT !.todo = T, !.down = D] \in Workers
         /\ \A T \in SUBSET Nodes : [w EXCEPT !.todo = T, !.qualified = TRUE] \in Workers
         /\ \A c \in PCs, T \in SUBSET Nodes :
               [w EXCEPT !.pc = c, !.todo = T, !.qualified = FALSE] \in Workers
         /\ \A c \in PCs, t \in 1..Retries : [w EXCEPT !.pc = c, !.tries = t] \in Workers
         /\ \A c \in PCs, a \in 0..Last : [w EXCEPT !.pc = c, !.at = a] \in Workers
         /\ \A c \in PCs : [w EXCEPT !.pc = c, !.again = TRUE, !.ok = FALSE] \in Workers
         /\ \A c \in PCs, p \in Policies, T \in SUBSET Nodes, b \in BOOLEAN :
               [w EXCEPT !.pc = c, !.policy = p, !.todo = T, !.wasReady = b] \in Workers
  BY ZenonT(60) DEF Workers

LEMMA TornDownType ==
  ASSUME TypeOK, NEW n \in Nodes
  PROVE  /\ TornDown(n) \in NodeStates
         /\ TornDown(n).ready = node[n].ready /\ TornDown(n).cordoned = node[n].cordoned
         /\ TornDown(n).flags = node[n].flags \cup {"torn"}
  <1> DEFINE sel == IF Pods(n) = {} THEN node[n].sel ELSE {}
             flags == node[n].flags \cup {"torn"}
  <1>1. node[n] \in NodeStates
    BY DEF TypeOK
  <1>2. sel \in SUBSET Assets
    BY <1>1 DEF NodeStates
  <1>3. flags \in SUBSET Flags
    BY <1>1 DEF NodeStates, Flags
  <1>4. TornDown(n) = [node[n] EXCEPT !.sel = sel, !.up = {}, !.flags = flags]
    BY DEF TornDown
  <1>5. flags = node[n].flags \cup {"torn"}
    OBVIOUS
  <1>6. TornDown(n) \in NodeStates
    <2> HIDE DEF sel, flags
    <2>1. {} \in SUBSET Assets
      OBVIOUS
    <2>2. [node[n] EXCEPT !.sel = sel, !.up = {}, !.flags = flags] \in NodeStates
      BY <1>1, <1>2, <1>3, <2>1, SomeFields, Zenon
    <2> QED
      BY <1>4, <2>2, Zenon
  <1> HIDE DEF sel, flags
  <1>7. /\ TornDown(n).ready = node[n].ready /\ TornDown(n).cordoned = node[n].cordoned
        /\ TornDown(n).flags = flags
    BY <1>1, <1>4, SMTT(30) DEF NodeStates
  <1> QED
    BY <1>5, <1>6, <1>7

LEMMA EnabledType ==
  ASSUME NEW s \in NodeStates
  PROVE  /\ Enabled(s) \in NodeStates
         /\ Enabled(s).flags = s.flags
         /\ Enabled(s).ready = s.ready /\ Enabled(s).cordoned = s.cordoned
  BY SMTT(30) DEF NodeStates, Enabled, NextSelector

LEMMA AfterRebootType ==
  ASSUME NEW s \in NodeStates
  PROVE  /\ AfterReboot(s) \in NodeStates
         /\ AfterReboot(s).ready = s.ready /\ AfterReboot(s).cordoned = s.cordoned
         /\ "rebooted" \in AfterReboot(s).flags
         /\ ("rebooted" \in s.flags /\ "marked" \in s.flags) \/ "marked" \notin AfterReboot(s).flags
  <1>1. CASE "rebooted" \in s.flags
    <2>1. AfterReboot(s) = [s EXCEPT !.flags = @ \ {"torn"}]
      BY <1>1 DEF AfterReboot
    <2> QED
      BY <1>1, <2>1, SMTT(30) DEF NodeStates
  <1>2. CASE "rebooted" \notin s.flags
    <2> DEFINE flags == (s.flags \ Progress) \cup {"rebooted"}
    <2>1. flags \in SUBSET Flags /\ "rebooted" \in flags /\ "marked" \notin flags
      BY DEF NodeStates, Flags, Progress
    <2>2. AfterReboot(s) = [s EXCEPT !.sel = @ \ Modules, !.flags = flags]
      BY <1>2 DEF AfterReboot
    <2> HIDE DEF flags
    <2>3. AfterReboot(s) \in NodeStates
      <3>1. s.sel \ Modules \in SUBSET Assets
        BY DEF NodeStates
      <3>2. [s EXCEPT !.sel = s.sel \ Modules, !.flags = flags] \in NodeStates
        BY <2>1, <3>1, SomeFields, Zenon
      <3> QED
        BY <2>2, <3>2, Zenon
    <2>4. /\ AfterReboot(s).ready = s.ready /\ AfterReboot(s).cordoned = s.cordoned
          /\ AfterReboot(s).flags = flags
      BY <2>2, SMTT(30) DEF NodeStates
    <2> QED
      BY <2>1, <2>3, <2>4
  <1> QED
    BY <1>1, <1>2

LEMMA JudgedType ==
  ASSUME NEW s \in NodeStates
  PROVE  /\ Judged(s) \in NodeStates /\ Judged(s).flags = s.flags \cup {"judged"}
         /\ Judged(s).ready = s.ready /\ Judged(s).cordoned = s.cordoned
  BY SMTT(30) DEF NodeStates, Judged, Flags

LEMMA MarkedType ==
  ASSUME NEW s \in NodeStates
  PROVE  /\ Marked(s) \in NodeStates /\ "rebooted" \notin Marked(s).flags
         /\ Marked(s).ready = s.ready /\ Marked(s).cordoned = s.cordoned
  BY SMTT(30) DEF NodeStates, Marked, Flags

(* A new state of one node.                                                *)
LEMMA NodeBecomesType ==
  ASSUME TypeOK, NEW n \in Nodes, NEW s \in NodeStates, NodeBecomes(n, s)
  PROVE  /\ node' \in [Nodes -> NodeStates] /\ queue' \subseteq Policies
         /\ node'[n] = s /\ \A m \in Nodes \ {n} : node'[m] = node[m]
         /\ queue \subseteq queue'
         /\ s # node[n] /\ Wakes(s) => queue' = Policies
  BY SMTT(30) DEF TypeOK, NodeBecomes, NodesBecome

LEMMA RequeueType ==
  ASSUME TypeOK, Requeue
  PROVE  /\ delayed' \subseteq Policies /\ delayed \subseteq delayed' /\ Me \in delayed'
         /\ op' = Idle /\ op' \in Workers
  BY SMTT(30), IdleType DEF TypeOK, Requeue, Workers, Me

-----------------------------------------------------------------------------
(* Types, and what the worker knows.                                       *)

(* What EarnedInv says of the nodes.                                       *)
NodesTyped == node \in [Nodes -> NodeStates] /\ queue \subseteq Policies /\ JudgedOrRebooted

LEMMA NodesBecomeKeeps ==
  ASSUME EarnedInv, NEW f \in [Nodes -> NodeStates], NodesBecome(f),
         \A n \in Nodes : "rebooted" \in f[n].flags => "marked" \notin f[n].flags
  PROVE  NodesTyped'
  BY SMTT(30) DEF EarnedInv, TypeOK, NodesBecome, NodesTyped, JudgedOrRebooted, Is

LEMMA NodeBecomesKeeps ==
  ASSUME EarnedInv, NEW n \in Nodes, NEW s \in NodeStates, NodeBecomes(n, s),
         "rebooted" \in s.flags => "marked" \notin s.flags
  PROVE  NodesTyped'
  <1>1. [node EXCEPT ![n] = s] \in [Nodes -> NodeStates]
    BY DEF EarnedInv, TypeOK
  <1>2. \A m \in Nodes : "rebooted" \in [node EXCEPT ![n] = s][m].flags
                         => "marked" \notin [node EXCEPT ![n] = s][m].flags
    BY SMTT(30) DEF EarnedInv, TypeOK, JudgedOrRebooted, Is
  <1> QED
    BY <1>1, <1>2, NodesBecomeKeeps DEF NodeBecomes

LEMMA NodesUnchanged ==
  ASSUME EarnedInv, UNCHANGED node, queue' \subseteq Policies
  PROVE  NodesTyped'
  BY SMTT(30) DEF EarnedInv, TypeOK, NodesTyped, JudgedOrRebooted, Is

(* The types of the nodes follow from NodesTyped, those of the rest from   *)
(* the type of the worker and the facts about it.                          *)
LEMMA Assembled ==
  ASSUME EarnedInv, NodesTyped', UNCHANGED listed,
         created' \in [Policies -> SUBSET Assets],
         status' \in [Policies -> {"none", "ready", "notReady"}],
         delayed' \subseteq Policies, op' \in Workers, budget' \in [Faults -> Nat],
         WorksOnOwnNodes', AssetsSoFar'
  PROVE  EarnedInv'
  BY DEF EarnedInv, TypeOK, NodesTyped

LEMMA IdleKnows ==
  ASSUME op' = Idle
  PROVE  WorksOnOwnNodes' /\ AssetsSoFar'
  BY SMTT(30) DEF Idle, WorksOnOwnNodes, AssetsSoFar

LEMMA SpendType ==
  ASSUME NEW f \in Faults, Spend(f), budget \in [Faults -> Nat]
  PROVE  budget' \in [Faults -> Nat]
  BY SMTT(30) DEF Spend

LEMMA RequeueKeeps ==
  ASSUME EarnedInv, NodesTyped', Requeue, UNCHANGED <<listed, created, status>>,
         budget' \in [Faults -> Nat]
  PROVE  EarnedInv'
  <1>1. TypeOK
    BY DEF EarnedInv
  <1> QED
    BY <1>1, RequeueType, IdleKnows, Assembled DEF TypeOK

LEMMA VisitKeeps ==
  ASSUME EarnedInv, NEW n \in Nodes, NodesTyped', op.pc = "label", Waits(n) \/ Qualifies(n),
         UNCHANGED <<listed, created, status, delayed, budget>>
  PROVE  EarnedInv'
  <1>1. op \in Workers /\ op.todo \ {n} \in SUBSET Nodes
    BY DEF EarnedInv, TypeOK, Workers
  <1>2. op' \in Workers
    BY <1>1, WorkerMoves, Zenon DEF Waits, Qualifies
  <1>3. /\ op'.pc = "label" /\ op'.policy = op.policy /\ op'.todo = op.todo \ {n}
        /\ op'.down = op.down /\ op'.at = op.at /\ op'.again = op.again
    <2>1. CASE Waits(n)
      BY <1>1, <2>1, SMTT(30) DEF Workers, Waits
    <2>2. CASE Qualifies(n)
      BY <1>1, <2>2, SMTT(30) DEF Workers, Qualifies
    <2> QED
      BY <2>1, <2>2
  <1>4. WorksOnOwnNodes'
    BY <1>3, SMTT(30) DEF EarnedInv, WorksOnOwnNodes, Me, Listed
  <1>5. AssetsSoFar'
    BY <1>3, SMTT(30) DEF EarnedInv, AssetsSoFar, Me
  <1> QED
    BY <1>2, <1>4, <1>5, Assembled DEF EarnedInv, TypeOK

LEMMA TakeKeeps ==
  ASSUME EarnedInv, NEW p \in Policies, Take(p)
  PROVE  EarnedInv'
  <1>1. NodesTyped' /\ UNCHANGED listed
    BY NodesUnchanged DEF Take, EarnedInv, TypeOK
  <1>2. CASE Listed(p) = {}
    BY <1>1, <1>2, IdleType, IdleKnows, Assembled DEF Take, EarnedInv, TypeOK
  <1>3. CASE Listed(p) # {}
    <2>1. Idle \in Workers /\ "scan" \in PCs /\ Listed(p) \in SUBSET Nodes
          /\ (status[p] = "ready") \in BOOLEAN
      BY IdleType DEF PCs, Listed
    <2>2. op' = [Idle EXCEPT !.pc = "scan", !.policy = p, !.todo = Listed(p),
                             !.wasReady = status[p] = "ready"]
      BY <1>3 DEF Take
    <2>3. op' \in Workers
      BY <2>1, <2>2, WorkerMoves, Zenon
    <2>4. /\ op'.pc = "scan" /\ op'.policy = p /\ op'.todo = Listed(p) /\ op'.down = {}
          /\ op'.at = 0 /\ op'.again = FALSE
      BY <2>2, SMTT(30) DEF Idle
    <2>5. WorksOnOwnNodes' /\ AssetsSoFar'
      BY <1>1, <1>3, <2>4, SMTT(30) DEF WorksOnOwnNodes, AssetsSoFar, Me, Listed
    <2> QED
      BY <1>1, <2>3, <2>5, Assembled DEF Take, EarnedInv, TypeOK
  <1> QED
    BY <1>2, <1>3

(* Steps after which the worker is where it was.                           *)
LEMMA WorkerStays ==
  ASSUME EarnedInv, NodesTyped', UNCHANGED <<listed, created, status, op>>,
         delayed' \subseteq Policies, budget' \in [Faults -> Nat]
  PROVE  EarnedInv'
  <1>1. WorksOnOwnNodes' /\ AssetsSoFar'
    BY DEF EarnedInv, WorksOnOwnNodes, AssetsSoFar, Me, Listed
  <1> QED
    BY <1>1, Assembled DEF EarnedInv, TypeOK

LEMMA TimerKeeps ==
  ASSUME EarnedInv, NEW p \in Policies, Timer(p)
  PROVE  EarnedInv'
  <1>1. queue' \subseteq Policies /\ delayed' \subseteq Policies
    BY DEF Timer, EarnedInv, TypeOK
  <1> QED
    BY <1>1, NodesUnchanged, WorkerStays DEF Timer, EarnedInv, TypeOK

LEMMA ScannedMoves ==
  ASSUME TypeOK, NEW n \in Nodes, Scanned(n)
  PROVE  /\ op' \in Workers /\ op'.pc = op.pc /\ op'.policy = op.policy
         /\ op'.todo = op.todo \ {n}
         /\ op'.down = IF node[n].ready THEN op.down ELSE op.down \cup {n}
         /\ op'.at = op.at /\ op'.again = op.again
  <1> DEFINE down == IF node[n].ready THEN op.down ELSE op.down \cup {n}
  <1>1. op \in Workers /\ op.todo \ {n} \in SUBSET Nodes /\ down \in SUBSET Nodes
    BY DEF TypeOK, Workers
  <1>2. op' = [op EXCEPT !.todo = op.todo \ {n}, !.down = down]
    BY DEF Scanned
  <1>3. down = IF node[n].ready THEN op.down ELSE op.down \cup {n}
    OBVIOUS
  <1> HIDE DEF down
  <1>4. op' \in Workers
    BY <1>1, <1>2, WorkerMoves, Zenon
  <1>5. /\ op'.pc = op.pc /\ op'.policy = op.policy /\ op'.todo = op.todo \ {n}
        /\ op'.down = down /\ op'.at = op.at /\ op'.again = op.again
    BY <1>1, <1>2, SMTT(30) DEF Workers
  <1> QED
    BY <1>3, <1>4, <1>5

LEMMA ScannedKeeps ==
  ASSUME EarnedInv, NEW n \in Nodes, NodesTyped', op.pc = "scan", n \in op.todo, Scanned(n),
         UNCHANGED <<listed, created, status, delayed, budget>>
  PROVE  EarnedInv'
  <1>1. TypeOK
    BY DEF EarnedInv
  <1>2. /\ op' \in Workers /\ op'.pc = op.pc /\ op'.policy = op.policy
        /\ op'.todo \subseteq op.todo /\ op'.down \subseteq op.down \cup op.todo
        /\ op'.at = op.at /\ op'.again = op.again
    BY <1>1, ScannedMoves
  <1>3. WorksOnOwnNodes'
    BY <1>2, SMTT(30) DEF EarnedInv, WorksOnOwnNodes, Me, Listed
  <1>4. AssetsSoFar'
    BY <1>2, SMTT(30) DEF EarnedInv, AssetsSoFar, Me
  <1> QED
    BY <1>1, <1>2, <1>3, <1>4, Assembled DEF TypeOK

LEMMA ScanNodeKeeps ==
  ASSUME EarnedInv, NEW n \in Nodes, ScanNode(n)
  PROVE  EarnedInv'
  <1>1. CASE node[n].ready /\ Scanned(n) /\ UNCHANGED <<node, queue>>
    BY <1>1, NodesUnchanged, ScannedKeeps DEF ScanNode, EarnedInv, TypeOK
  <1>2. CASE op' = Idle /\ UNCHANGED <<node, queue>>
    BY <1>2, NodesUnchanged, IdleType, IdleKnows, Assembled DEF ScanNode, EarnedInv, TypeOK
  <1>3. CASE NodeBecomes(n, AfterReboot(node[n])) /\ Scanned(n)
    <2>1. node[n] \in NodeStates /\ ~("rebooted" \in node[n].flags /\ "marked" \in node[n].flags)
      BY DEF EarnedInv, TypeOK, JudgedOrRebooted, Is
    <2>2. /\ AfterReboot(node[n]) \in NodeStates
          /\ "marked" \notin AfterReboot(node[n]).flags
      BY <2>1, AfterRebootType
    <2>3. NodesTyped'
      BY <1>3, <2>2, NodeBecomesKeeps
    <2> QED
      BY <1>3, <2>3, ScannedKeeps DEF ScanNode
  <1> QED
    BY <1>1, <1>2, <1>3 DEF ScanNode

LEMMA ScanDoneKeeps ==
  ASSUME EarnedInv, ScanDone
  PROVE  EarnedInv'
  <1>1. NodesTyped'
    BY NodesUnchanged DEF ScanDone, EarnedInv, TypeOK
  <1>2. CASE op' = Idle
    BY <1>1, <1>2, IdleType, IdleKnows, Assembled DEF ScanDone, EarnedInv, TypeOK
  <1>3. CASE op' = [op EXCEPT !.pc = "present"]
    <2>1. op \in Workers /\ "present" \in PCs
      BY DEF EarnedInv, TypeOK, PCs
    <2>2. op' \in Workers
      BY <1>3, <2>1, WorkerMoves, Zenon
    <2>3. WorksOnOwnNodes' /\ AssetsSoFar'
      BY <1>3, <2>1, SMTT(30) DEF ScanDone, EarnedInv, WorksOnOwnNodes, AssetsSoFar, Me, Listed, Workers
    <2> QED
      BY <1>1, <2>2, <2>3, Assembled DEF ScanDone, EarnedInv, TypeOK
  <1> QED
    BY <1>2, <1>3 DEF ScanDone

LEMMA PresentKeeps ==
  ASSUME EarnedInv, labelX100Nodes
  PROVE  EarnedInv'
  <1> DEFINE Labelled(n) == IF node[n].cordoned THEN node[n]
                            ELSE [node[n] EXCEPT !.flags = @ \cup {"present"}]
             new == [n \in Nodes |-> Labelled(n)]
  <1>1. ASSUME NEW n \in Nodes
        PROVE  /\ Labelled(n) \in NodeStates
               /\ "rebooted" \in Labelled(n).flags => "marked" \notin Labelled(n).flags
    <2>1. node[n] \in NodeStates /\ ~("rebooted" \in node[n].flags /\ "marked" \in node[n].flags)
      BY DEF EarnedInv, TypeOK, JudgedOrRebooted, Is
    <2>2. node[n].flags \cup {"present"} \in SUBSET Flags
      BY <2>1 DEF NodeStates, Flags
    <2>3. [node[n] EXCEPT !.flags = node[n].flags \cup {"present"}] \in NodeStates
      BY <2>1, <2>2, SMTT(30) DEF NodeStates
    <2> QED
      BY <2>1, <2>3, SMTT(30) DEF NodeStates
  <1>2. NodesBecome(new)
    BY DEF labelX100Nodes
  <1> HIDE DEF Labelled
  <1>3. new \in [Nodes -> NodeStates] /\ \A n \in Nodes : new[n] = Labelled(n)
    BY <1>1
  <1> HIDE DEF new
  <1>4. NodesTyped'
    BY <1>1, <1>2, <1>3, NodesBecomeKeeps, Zenon
  <1>5. op \in Workers /\ "label" \in PCs /\ Listed(Me) \in SUBSET Nodes
    BY DEF EarnedInv, TypeOK, PCs, Listed
  <1>6. op' = [op EXCEPT !.pc = "label", !.todo = Listed(Me), !.qualified = FALSE]
    BY DEF labelX100Nodes
  <1>7. op' \in Workers
    BY <1>5, <1>6, WorkerMoves, Zenon
  <1>8. /\ op'.pc = "label" /\ op'.policy = op.policy /\ op'.todo = Listed(Me)
        /\ op'.down = op.down /\ op'.at = op.at /\ op'.again = op.again
    BY <1>5, <1>6, SMTT(30) DEF Workers
  <1>9. WorksOnOwnNodes' /\ AssetsSoFar'
    BY <1>8, SMTT(30) DEF labelX100Nodes, EarnedInv, WorksOnOwnNodes, AssetsSoFar, Me, Listed
  <1> QED
    BY <1>4, <1>7, <1>9, Assembled DEF labelX100Nodes, EarnedInv, TypeOK

LEMMA AdoptKeeps ==
  ASSUME EarnedInv, NEW n \in Nodes, AdoptFirstPolicy(n)
  PROVE  EarnedInv'
  <1> DEFINE s == [node[n] EXCEPT !.adopted = TRUE, !.flags = node[n].flags \cup {"enabling"}]
  <1>1. node[n] \in NodeStates /\ ~("rebooted" \in node[n].flags /\ "marked" \in node[n].flags)
    BY DEF EarnedInv, TypeOK, JudgedOrRebooted, Is
  <1>2. node[n].flags \cup {"enabling"} \in SUBSET Flags
    BY <1>1 DEF NodeStates, Flags
  <1>3. s \in NodeStates
    BY <1>1, <1>2, SomeFields, Zenon
  <1>4. s.flags = node[n].flags \cup {"enabling"}
    BY <1>1, SMTT(30) DEF NodeStates
  <1>5. NodeBecomes(n, s)
    BY DEF AdoptFirstPolicy
  <1> HIDE DEF s
  <1>6. NodesTyped'
    BY <1>1, <1>3, <1>4, <1>5, NodeBecomesKeeps
  <1> QED
    BY <1>6, VisitKeeps DEF AdoptFirstPolicy, MayProcess

LEMMA EnableMoreKeeps ==
  ASSUME EarnedInv, NEW n \in Nodes, EnableMore(n)
  PROVE  EarnedInv'
  <1>1. node[n] \in NodeStates /\ ~("rebooted" \in node[n].flags /\ "marked" \in node[n].flags)
    BY DEF EarnedInv, TypeOK, JudgedOrRebooted, Is
  <1>2. CASE CanEnable(node[n])
    <2>1. Enabled(node[n]) \in NodeStates /\ Enabled(node[n]).flags = node[n].flags
      BY <1>1, EnabledType
    <2>2. NodesTyped'
      BY <1>1, <1>2, <2>1, NodeBecomesKeeps DEF EnableMore
    <2> QED
      BY <1>2, <2>2, VisitKeeps DEF EnableMore, MayProcess
  <1>3. CASE ~CanEnable(node[n])
    BY <1>3, NodesUnchanged, VisitKeeps DEF EnableMore, MayProcess, EarnedInv, TypeOK
  <1> QED
    BY <1>2, <1>3

LEMMA TearDownKeeps ==
  ASSUME EarnedInv, NEW n \in Nodes, TearDown(n)
  PROVE  EarnedInv'
  <1>1. /\ TypeOK /\ node[n] \in NodeStates
        /\ ~("rebooted" \in node[n].flags /\ "marked" \in node[n].flags)
    BY DEF EarnedInv, TypeOK, JudgedOrRebooted, Is
  <1>2. PICK s \in NodeStates : /\ NodeBecomes(n, s) /\ (Waits(n) \/ Qualifies(n))
                                /\ s.flags \subseteq node[n].flags \cup {"torn"}
    <2>1. TornDown(n) \in NodeStates /\ TornDown(n).flags = node[n].flags \cup {"torn"}
      BY <1>1, TornDownType
    <2>2. Enabled(TornDown(n)) \in NodeStates /\ Enabled(TornDown(n)).flags = TornDown(n).flags
      BY <2>1, EnabledType
    <2>3. ASSUME NEW a \in node[n].up,
                 NodeBecomes(n, [node[n] EXCEPT !.sel = @ \cap 1..(a - 1), !.up = @ \cap 1..a]),
                 Waits(n)
          PROVE  \E s \in NodeStates : /\ NodeBecomes(n, s) /\ (Waits(n) \/ Qualifies(n))
                                       /\ s.flags \subseteq node[n].flags \cup {"torn"}
      <3> DEFINE sel == node[n].sel \cap 1..(a - 1)
                 up == node[n].up \cap 1..a
                 s == [node[n] EXCEPT !.sel = sel, !.up = up]
      <3>1. sel \in SUBSET Assets /\ up \in SUBSET Assets
        BY <1>1 DEF NodeStates
      <3>2. NodeBecomes(n, s)
        BY <2>3
      <3> HIDE DEF sel, up
      <3>3. s \in NodeStates
        BY <1>1, <3>1, SomeFields, Zenon
      <3>4. s.flags = node[n].flags
        BY <1>1, SMTT(30) DEF NodeStates
      <3> HIDE DEF s
      <3> QED
        BY <2>3, <3>2, <3>3, <3>4
    <2> QED
      BY <2>1, <2>2, <2>3 DEF TearDown
  <1>3. NodesTyped'
    BY <1>1, <1>2, NodeBecomesKeeps
  <1> QED
    BY <1>2, <1>3, VisitKeeps DEF TearDown, MayProcess

LEMMA PassedKeeps ==
  ASSUME EarnedInv, NEW n \in Nodes, PassOver(n) \/ LeaveAlone(n)
  PROVE  EarnedInv'
  <1>1. NodesTyped'
    BY NodesUnchanged DEF PassOver, LeaveAlone, EarnedInv, TypeOK
  <1> QED
    BY <1>1, VisitKeeps DEF PassOver, LeaveAlone, MayProcess

LEMMA ApiFailsKeeps ==
  ASSUME EarnedInv, ApiFails
  PROVE  EarnedInv'
  <1>1. NodesTyped'
    BY NodesUnchanged DEF ApiFails, EarnedInv, TypeOK
  <1>2. budget' \in [Faults -> Nat]
    BY SpendType DEF ApiFails, EarnedInv, TypeOK, Faults
  <1> QED
    BY <1>1, <1>2, RequeueKeeps DEF ApiFails

LEMMA LabelsDoneKeeps ==
  ASSUME EarnedInv, LabelsDone
  PROVE  EarnedInv'
  <1>1. NodesTyped'
    BY NodesUnchanged DEF LabelsDone, EarnedInv, TypeOK
  <1>2. CASE Requeue
    BY <1>1, <1>2, RequeueKeeps DEF LabelsDone, EarnedInv, TypeOK
  <1>3. CASE op.again /\ op.tries # 1 /\ op' = [op EXCEPT !.pc = "create", !.tries = @ - 1]
             /\ UNCHANGED delayed
    <2>1. op \in Workers /\ "create" \in PCs /\ op.tries - 1 \in 1..Retries
      BY <1>3, ReconcilerAssumption, SMTT(30) DEF EarnedInv, TypeOK, PCs, Workers
    <2>2. op' \in Workers
      BY <1>3, <2>1, WorkerMoves, Zenon
    <2>3. WorksOnOwnNodes' /\ AssetsSoFar'
      BY <1>3, <2>1, SMTT(30)
         DEF LabelsDone, EarnedInv, WorksOnOwnNodes, AssetsSoFar, Me, Listed, Workers
    <2> QED
      BY <1>1, <1>3, <2>2, <2>3, Assembled DEF LabelsDone, EarnedInv, TypeOK
  <1>4. CASE ~op.again /\ op' = [op EXCEPT !.pc = "create", !.at = 1] /\ UNCHANGED delayed
    <2>1. op \in Workers /\ "create" \in PCs /\ 1 \in 0..Last /\ 1 \in Assets
      BY ReconcilerAssumption, SMTT(30) DEF EarnedInv, TypeOK, PCs, Assets
    <2>2. op' \in Workers
      BY <1>4, <2>1, WorkerMoves, Zenon
    <2>3. WorksOnOwnNodes' /\ AssetsSoFar'
      BY <1>4, <2>1, SMTT(30)
         DEF LabelsDone, EarnedInv, WorksOnOwnNodes, AssetsSoFar, Me, Listed, Workers
    <2> QED
      BY <1>1, <1>4, <2>2, <2>3, Assembled DEF LabelsDone, EarnedInv, TypeOK
  <1> QED
    BY <1>2, <1>3, <1>4 DEF LabelsDone, Over

LEMMA CreateAssetKeeps ==
  ASSUME EarnedInv, CreateAsset
  PROVE  EarnedInv'
  <1>1. NodesTyped'
    BY NodesUnchanged DEF CreateAsset, EarnedInv, TypeOK
  <1>2. CASE Spend("glitch") /\ Requeue /\ UNCHANGED created
    <2>1. budget' \in [Faults -> Nat]
      BY <1>2, SpendType DEF EarnedInv, TypeOK, Faults
    <2> QED
      BY <1>1, <1>2, <2>1, RequeueKeeps DEF CreateAsset
  <1>3. CASE /\ created' = [created EXCEPT ![Me] = @ \cup {op.at}]
             /\ \E ready \in Outcomes(op.at) :
                   op' = IF ~ready THEN [op EXCEPT !.pc = "notReady"]
                         ELSE IF op.at = Last THEN [op EXCEPT !.pc = "boot"]
                         ELSE [op EXCEPT !.at = @ + 1]
             /\ UNCHANGED <<delayed, budget>>
    <2>1. /\ op \in Workers /\ op.pc = "create" /\ op.at \in Assets /\ Me \in Policies
          /\ created[Me] \in SUBSET Assets /\ 1..(op.at - 1) \subseteq created[Me]
      BY DEF CreateAsset, EarnedInv, AssetsSoFar, TypeOK, Workers, Me
    <2>2. /\ created' \in [Policies -> SUBSET Assets]
          /\ created'[Me] = created[Me] \cup {op.at}
      BY <1>3, <2>1 DEF EarnedInv, TypeOK
    <2>3. 1..op.at \subseteq created'[Me] /\ created'[Me] \subseteq Assets
      BY <2>1, <2>2, ReconcilerAssumption, SMTT(30) DEF Assets
    <2>4. CASE op' = [op EXCEPT !.pc = "notReady"]
      <3>1. op' \in Workers
        BY <2>1, <2>4, WorkerMoves, Zenon DEF PCs
      <3>2. op'.pc = "notReady" /\ op'.at = op.at /\ op'.again = op.again
            /\ op'.policy = op.policy /\ op'.todo = op.todo /\ op'.down = op.down
        BY <2>1, <2>4, SMTT(30) DEF Workers
      <3>3. AssetsSoFar'
        BY <2>1, <2>3, <3>2, ReconcilerAssumption, SMTT(30) DEF AssetsSoFar, Me, Assets
      <3>4. WorksOnOwnNodes'
        BY <2>1, <3>2, SMTT(30) DEF CreateAsset, EarnedInv, WorksOnOwnNodes, Me, Listed
      <3> QED
        BY <1>1, <1>3, <2>2, <3>1, <3>3, <3>4, Assembled DEF CreateAsset, EarnedInv, TypeOK
    <2>5. CASE op.at = Last /\ op' = [op EXCEPT !.pc = "boot"]
      <3>1. op' \in Workers
        BY <2>1, <2>5, WorkerMoves, Zenon DEF PCs
      <3>2. op'.pc = "boot" /\ op'.at = Last /\ op'.again = op.again
            /\ op'.policy = op.policy /\ op'.todo = op.todo /\ op'.down = op.down
        BY <2>1, <2>5, SMTT(30) DEF Workers
      <3>3. created'[Me] = Assets
        BY <2>3, <2>5 DEF Assets
      <3>4. AssetsSoFar'
        BY <2>1, <3>2, <3>3, ReconcilerAssumption, SMTT(30) DEF AssetsSoFar, Me, Assets
      <3>5. WorksOnOwnNodes'
        BY <2>1, <3>2, SMTT(30) DEF CreateAsset, EarnedInv, WorksOnOwnNodes, Me, Listed
      <3> QED
        BY <1>1, <1>3, <2>2, <3>1, <3>4, <3>5, Assembled DEF CreateAsset, EarnedInv, TypeOK
    <2>6. CASE op.at # Last /\ op' = [op EXCEPT !.at = @ + 1]
      <3>1. op.at + 1 \in 0..Last /\ op.at + 1 \in Assets
        BY <2>1, <2>6, ReconcilerAssumption, SMTT(30) DEF Assets
      <3>2. op' \in Workers
        BY <2>1, <2>6, <3>1, WorkerMoves, Zenon
      <3>3. op'.pc = "create" /\ op'.at = op.at + 1 /\ op'.again = op.again
            /\ op'.policy = op.policy /\ op'.todo = op.todo /\ op'.down = op.down
        BY <2>1, <2>6, SMTT(30) DEF Workers
      <3>4. AssetsSoFar'
        BY <2>1, <2>3, <3>1, <3>3, ReconcilerAssumption, SMTT(30) DEF AssetsSoFar, Me, Assets
      <3>5. WorksOnOwnNodes'
        BY <2>1, <3>3, SMTT(30) DEF CreateAsset, EarnedInv, WorksOnOwnNodes, Me, Listed
      <3> QED
        BY <1>1, <1>3, <2>2, <3>2, <3>4, <3>5, Assembled DEF CreateAsset, EarnedInv, TypeOK
    <2> QED
      BY <1>3, <2>4, <2>5, <2>6
  <1> QED
    BY <1>2, <1>3 DEF CreateAsset

(* The worker goes on with the policy that it is at.                       *)
LEMMA GoesOn ==
  ASSUME EarnedInv, NodesTyped', op.pc # "idle", UNCHANGED <<listed, created, delayed>>,
         status' \in [Policies -> {"none", "ready", "notReady"}],
         budget' \in [Faults -> Nat], op' \in Workers, op'.policy = op.policy,
         op'.todo \subseteq op.todo, op'.down = op.down, op'.at = op.at,
         op'.pc \in {"boot", "end"} => op.pc \in {"boot", "end"},
         op'.pc \in {"boot", "end", "create", "notReady"} \/ op'.again =>
            op.pc \in {"create", "boot", "end", "notReady"} \/ op.again
  PROVE  EarnedInv'
  <1>1. WorksOnOwnNodes'
    BY SMTT(30) DEF EarnedInv, WorksOnOwnNodes, Me, Listed
  <1>2. AssetsSoFar'
    BY SMTT(30) DEF EarnedInv, AssetsSoFar, Me
  <1> QED
    BY <1>1, <1>2, Assembled DEF EarnedInv, TypeOK

LEMMA BootStatusKeeps ==
  ASSUME EarnedInv, getx100bootupStatus
  PROVE  EarnedInv'
  <1>1. PICK J \in SUBSET Eligible, M \in SUBSET Listed(Me) :
          /\ UNCHANGED budget \/ Spend("slow") \/ Spend("glitch")
          /\ NodesBecome([n \in Nodes |-> IF n \in M THEN Marked(node[n])
                                          ELSE IF n \in J THEN Judged(node[n])
                                          ELSE node[n]])
          /\ op' = [op EXCEPT !.pc = IF Unjudged \subseteq J THEN "end" ELSE "notReady"]
    BY DEF getx100bootupStatus
  <1> DEFINE New(n) == IF n \in M THEN Marked(node[n])
                       ELSE IF n \in J THEN Judged(node[n])
                       ELSE node[n]
             new == [n \in Nodes |-> New(n)]
             pc == IF Unjudged \subseteq J THEN "end" ELSE "notReady"
  <1>2. ASSUME NEW n \in Nodes
        PROVE  New(n) \in NodeStates /\ ("rebooted" \in New(n).flags => "marked" \notin New(n).flags)
    <2>1. node[n] \in NodeStates /\ ~("rebooted" \in node[n].flags /\ "marked" \in node[n].flags)
      BY DEF EarnedInv, TypeOK, JudgedOrRebooted, Is
    <2>2. Marked(node[n]) \in NodeStates /\ "rebooted" \notin Marked(node[n]).flags
      BY <2>1, MarkedType
    <2>3. Judged(node[n]) \in NodeStates /\ Judged(node[n]).flags = node[n].flags \cup {"judged"}
      BY <2>1, JudgedType
    <2> QED
      BY <2>1, <2>2, <2>3
  <1>3. NodesBecome(new) /\ op' = [op EXCEPT !.pc = pc]
    BY <1>1
  <1>4. pc \in {"end", "notReady"}
    OBVIOUS
  <1> HIDE DEF New, pc
  <1>5. new \in [Nodes -> NodeStates] /\ \A n \in Nodes : new[n] = New(n)
    BY <1>2
  <1> HIDE DEF new
  <1>6. NodesTyped'
    BY <1>2, <1>3, <1>5, NodesBecomeKeeps, Zenon
  <1>7. op \in Workers /\ pc \in PCs
    BY <1>4 DEF EarnedInv, TypeOK, PCs
  <1>8. op' \in Workers
    BY <1>3, <1>7, WorkerMoves, Zenon
  <1>9. /\ op'.pc = pc /\ op'.policy = op.policy /\ op'.todo = op.todo /\ op'.down = op.down
        /\ op'.at = op.at
    BY <1>3, <1>7, SMTT(30) DEF Workers
  <1>10. budget' \in [Faults -> Nat]
    BY <1>1, SpendType DEF EarnedInv, TypeOK, Faults
  <1>11. op.pc = "boot" /\ UNCHANGED <<listed, created, status, delayed>>
    BY DEF getx100bootupStatus
  <1>12. status' \in [Policies -> {"none", "ready", "notReady"}]
    BY <1>11 DEF EarnedInv, TypeOK
  <1> QED
    BY <1>4, <1>6, <1>8, <1>9, <1>10, <1>11, <1>12, GoesOn

LEMMA NotAllMarkedKeeps ==
  ASSUME EarnedInv, NotAllMarked
  PROVE  EarnedInv'
  <1>1. NodesTyped'
    BY NodesUnchanged DEF NotAllMarked, EarnedInv, TypeOK
  <1>2. op \in Workers /\ "notReady" \in PCs /\ op' = [op EXCEPT !.pc = "notReady"]
    BY DEF NotAllMarked, EarnedInv, TypeOK, PCs
  <1>3. op' \in Workers
    BY <1>2, WorkerMoves, Zenon
  <1>4. /\ op'.pc = "notReady" /\ op'.policy = op.policy /\ op'.todo = op.todo
        /\ op'.down = op.down /\ op'.at = op.at
    BY <1>2, SMTT(30) DEF Workers
  <1> QED
    BY <1>1, <1>3, <1>4, GoesOn DEF NotAllMarked, EarnedInv, TypeOK

LEMMA WriteStatusType ==
  ASSUME TypeOK, NEW s \in {"ready", "notReady"}, WriteStatus(s)
  PROVE  /\ status' \in [Policies -> {"none", "ready", "notReady"}]
         /\ queue' \subseteq Policies /\ queue \subseteq queue'
         /\ budget' \in [Faults -> Nat]
         /\ \A p \in Policies \ {Me} : status'[p] = status[p]
         /\ status'[Me] \in {s, status[Me]}
  <1>1. Me \in Policies
    BY DEF TypeOK, Workers, Me
  <1>2. CASE status' = [status EXCEPT ![Me] = s]
    BY <1>1, <1>2, SpendType DEF WriteStatus, TypeOK, Faults
  <1>3. CASE /\ Spend(IF s = "ready" THEN "lostReady" ELSE "lostNotReady")
             /\ UNCHANGED <<status, queue>>
    <2>1. budget' \in [Faults -> Nat]
      BY <1>3, SpendType DEF TypeOK, Faults
    <2> QED
      BY <1>3, <2>1 DEF TypeOK
  <1> QED
    BY <1>2, <1>3 DEF WriteStatus

LEMMA ReportOperationalKeeps ==
  ASSUME EarnedInv, ReportOperational
  PROVE  EarnedInv'
  <1>1. CASE WriteStatus("ready") /\ op' = Idle /\ UNCHANGED delayed
    <2>1. /\ status' \in [Policies -> {"none", "ready", "notReady"}]
          /\ queue' \subseteq Policies /\ budget' \in [Faults -> Nat]
      BY <1>1, WriteStatusType DEF EarnedInv
    <2>2. NodesTyped'
      BY <2>1, NodesUnchanged DEF ReportOperational
    <2> QED
      BY <1>1, <2>1, <2>2, IdleType, IdleKnows, Assembled DEF ReportOperational, EarnedInv, TypeOK
  <1>2. CASE Requeue /\ UNCHANGED <<status, queue, budget>>
    <2>1. NodesTyped'
      BY <1>2, NodesUnchanged DEF ReportOperational, EarnedInv, TypeOK
    <2> QED
      BY <1>2, <2>1, RequeueKeeps DEF ReportOperational, EarnedInv, TypeOK
  <1> QED
    BY <1>1, <1>2 DEF ReportOperational

LEMMA ReportNotOperationalKeeps ==
  ASSUME EarnedInv, ReportNotOperational
  PROVE  EarnedInv'
  <1>1. /\ status' \in [Policies -> {"none", "ready", "notReady"}]
        /\ queue' \subseteq Policies /\ budget' \in [Faults -> Nat]
    BY WriteStatusType DEF ReportNotOperational, EarnedInv, TypeOK
  <1>2. NodesTyped'
    BY <1>1, NodesUnchanged DEF ReportNotOperational
  <1>3. /\ op \in Workers /\ "present" \in PCs
        /\ op' = [op EXCEPT !.pc = "present", !.again = TRUE, !.ok = FALSE]
    BY DEF ReportNotOperational, EarnedInv, TypeOK, PCs
  <1>4. op' \in Workers
    BY <1>3, WorkerMoves, Zenon
  <1>5. /\ op'.pc = "present" /\ op'.policy = op.policy /\ op'.todo = op.todo
        /\ op'.down = op.down /\ op'.at = op.at
    BY <1>3, SMTT(30) DEF Workers
  <1> QED
    BY <1>1, <1>2, <1>4, <1>5, GoesOn DEF ReportNotOperational

LEMMA CrashKeeps ==
  ASSUME EarnedInv, OperatorCrashes
  PROVE  EarnedInv'
  <1>1. NodesTyped'
    BY NodesUnchanged DEF OperatorCrashes
  <1>2. budget' \in [Faults -> Nat]
    BY SpendType DEF OperatorCrashes, EarnedInv, TypeOK, Faults
  <1> QED
    BY <1>1, <1>2, IdleType, IdleKnows, Assembled DEF OperatorCrashes, EarnedInv, TypeOK

(* What the events outside the worker do to a node: its pods, and whether  *)
(* it is there, change, its labels do not.                                 *)
OnlyOutside(n, s) ==
    s \in NodeStates /\ s.flags = node[n].flags /\ s.adopted = node[n].adopted

LEMMA OutsideType ==
  ASSUME TypeOK, NEW n \in Nodes
  PROVE  /\ OnlyOutside(n, [node[n] EXCEPT !.ready = FALSE, !.up = {}])
         /\ OnlyOutside(n, [node[n] EXCEPT !.ready = TRUE])
         /\ OnlyOutside(n, [node[n] EXCEPT !.cordoned = TRUE])
         /\ OnlyOutside(n, [node[n] EXCEPT !.cordoned = FALSE])
         /\ \A up \in SUBSET Assets : OnlyOutside(n, [node[n] EXCEPT !.up = up])
  <1>1. node[n] \in NodeStates
    BY DEF TypeOK
  <1>2. /\ [node[n] EXCEPT !.ready = FALSE, !.up = {}] \in NodeStates
        /\ [node[n] EXCEPT !.ready = TRUE] \in NodeStates
        /\ [node[n] EXCEPT !.cordoned = TRUE] \in NodeStates
        /\ [node[n] EXCEPT !.cordoned = FALSE] \in NodeStates
        /\ \A up \in SUBSET Assets : [node[n] EXCEPT !.up = up] \in NodeStates
    BY <1>1, ZenonT(30) DEF NodeStates
  <1>3. [node[n] EXCEPT !.ready = FALSE, !.up = {}].flags = node[n].flags
        /\ [node[n] EXCEPT !.ready = FALSE, !.up = {}].adopted = node[n].adopted
    BY <1>1, SMTT(30) DEF NodeStates
  <1>4. /\ [node[n] EXCEPT !.ready = TRUE].flags = node[n].flags
        /\ [node[n] EXCEPT !.ready = TRUE].adopted = node[n].adopted
    BY <1>1, SMTT(30) DEF NodeStates
  <1>5. \A c : /\ [node[n] EXCEPT !.cordoned = c].flags = node[n].flags
               /\ [node[n] EXCEPT !.cordoned = c].adopted = node[n].adopted
    BY <1>1, SMTT(30) DEF NodeStates
  <1>6. \A up : /\ [node[n] EXCEPT !.up = up].flags = node[n].flags
                /\ [node[n] EXCEPT !.up = up].adopted = node[n].adopted
    BY <1>1, SMTT(30) DEF NodeStates
  <1> QED
    BY <1>2, <1>3, <1>4, <1>5, <1>6, Zenon DEF OnlyOutside

LEMMA OutsideKeeps ==
  ASSUME EarnedInv, NEW n \in Nodes, NEW s, OnlyOutside(n, s), NodeBecomes(n, s),
         UNCHANGED <<listed, created, status, delayed, op>>, budget' \in [Faults -> Nat]
  PROVE  EarnedInv'
  <1>1. s \in NodeStates /\ ("rebooted" \in s.flags => "marked" \notin s.flags)
    BY DEF OnlyOutside, EarnedInv, JudgedOrRebooted, Is
  <1>2. NodesTyped'
    BY <1>1, NodeBecomesKeeps
  <1> QED
    BY <1>2, WorkerStays DEF EarnedInv, TypeOK

LEMMA RebootsKeeps ==
  ASSUME EarnedInv, NEW n \in Nodes, NodeReboots(n)
  PROVE  EarnedInv'
  <1>1. TypeOK /\ budget' \in [Faults -> Nat]
    BY SpendType DEF NodeReboots, EarnedInv, TypeOK, Faults
  <1> QED
    BY <1>1, OutsideType, OutsideKeeps DEF NodeReboots

LEMMA ComesUpKeeps ==
  ASSUME EarnedInv, NEW n \in Nodes, NodeComesUp(n)
  PROVE  EarnedInv'
  BY OutsideType, OutsideKeeps DEF NodeComesUp, EarnedInv, TypeOK

LEMMA CordonKeeps ==
  ASSUME EarnedInv, NEW n \in Nodes, Cordon(n)
  PROVE  EarnedInv'
  <1>1. TypeOK /\ budget' \in [Faults -> Nat]
    BY SpendType DEF Cordon, EarnedInv, TypeOK, Faults
  <1> QED
    BY <1>1, OutsideType, OutsideKeeps DEF Cordon

LEMMA UncordonKeeps ==
  ASSUME EarnedInv, NEW n \in Nodes, Uncordon(n)
  PROVE  EarnedInv'
  BY OutsideType, OutsideKeeps DEF Uncordon, EarnedInv, TypeOK

(* A pod starts or stops.                                                  *)
LEMMA PodStepType ==
  ASSUME TypeOK, NEW n \in Nodes, PodStep(n)
  PROVE  \E s : /\ OnlyOutside(n, s) /\ s.ready = node[n].ready /\ s.cordoned = node[n].cordoned
                /\ node' = [node EXCEPT ![n] = s]
                /\ queue' \in {queue, Policies}
                /\ UNCHANGED <<listed, created, status, delayed, op, budget>>
  <1>1. node[n] \in NodeStates
    BY DEF TypeOK
  <1>2. PICK a \in Assets, up \in SUBSET Assets : PodChanges(n, a, up)
    BY <1>1 DEF PodStep, PodUp, PodGone, NodeStates
  <1> DEFINE s == [node[n] EXCEPT !.up = up]
  <1>3. OnlyOutside(n, s)
    BY OutsideType
  <1>4. s.ready = node[n].ready /\ s.cordoned = node[n].cordoned
    BY <1>1, SMTT(30) DEF NodeStates
  <1>5. node' = [node EXCEPT ![n] = s]
    BY <1>2 DEF PodChanges
  <1> HIDE DEF s
  <1> QED
    BY <1>2, <1>3, <1>4, <1>5 DEF PodChanges

LEMMA PodStepKeeps ==
  ASSUME EarnedInv, NEW n \in Nodes, PodStep(n)
  PROVE  EarnedInv'
  <1>1. PICK s : /\ OnlyOutside(n, s)
                 /\ node' = [node EXCEPT ![n] = s] /\ queue' \in {queue, Policies}
                 /\ UNCHANGED <<listed, created, status, delayed, op, budget>>
    BY PodStepType DEF EarnedInv
  <1>2. s \in NodeStates /\ ("rebooted" \in s.flags => "marked" \notin s.flags)
    BY <1>1 DEF OnlyOutside, EarnedInv, JudgedOrRebooted, Is
  <1>3. NodesTyped'
    BY <1>1, <1>2, SMTT(30) DEF EarnedInv, TypeOK, NodesTyped, JudgedOrRebooted, Is
  <1> QED
    BY <1>1, <1>3, WorkerStays DEF EarnedInv, TypeOK

LEMMA EarnedInvInit == Init => EarnedInv
  <1> SUFFICES ASSUME Init
               PROVE  EarnedInv
    OBVIOUS
  <1>1. PICK s \in Scenarios : listed = s.listed /\ node = s.node /\ budget = s.budget
    BY DEF Init
  <1>2. /\ s.listed \in [Nodes -> Policies] /\ s.node \in [Nodes -> NodeStates]
        /\ s.budget \in [Faults -> Nat]
        /\ \A n \in Nodes : ~({"rebooted", "marked"} \subseteq s.node[n].flags)
    BY ReconcilerAssumption
  <1>3. TypeOK
    BY <1>1, <1>2, IdleType DEF Init, TypeOK
  <1>4. WorksOnOwnNodes /\ AssetsSoFar
    BY SMTT(30) DEF Init, Idle, WorksOnOwnNodes, AssetsSoFar
  <1>5. JudgedOrRebooted
    BY <1>1, <1>2 DEF JudgedOrRebooted, Is
  <1> QED
    BY <1>3, <1>4, <1>5 DEF EarnedInv

LEMMA EarnedInvNext == EarnedInv /\ [Next]_vars => EarnedInv'
  <1> SUFFICES ASSUME EarnedInv, [Next]_vars
               PROVE  EarnedInv'
    OBVIOUS
  <1>1. ASSUME NEW p \in Policies, Take(p) \/ Timer(p)
        PROVE  EarnedInv'
    BY <1>1, TakeKeeps, TimerKeeps
  <1>2. ASSUME NEW n \in Nodes, ScanNode(n) \/ Visits(n)
        PROVE  EarnedInv'
    BY <1>2, ScanNodeKeeps, PassedKeeps, AdoptKeeps, EnableMoreKeeps, TearDownKeeps DEF Visits
  <1>3. ASSUME ScanDone \/ labelX100Nodes \/ ApiFails \/ LabelsDone
        PROVE  EarnedInv'
    BY <1>3, ScanDoneKeeps, PresentKeeps, ApiFailsKeeps, LabelsDoneKeeps
  <1>4. ASSUME CreateAsset \/ getx100bootupStatus
        PROVE  EarnedInv'
    BY <1>4, CreateAssetKeeps, BootStatusKeeps
  <1>5. ASSUME NotAllMarked \/ ReportOperational \/ ReportNotOperational
        PROVE  EarnedInv'
    BY <1>5, NotAllMarkedKeeps, ReportOperationalKeeps, ReportNotOperationalKeeps
  <1>6. ASSUME NEW n \in Nodes,
               NodeReboots(n) \/ NodeComesUp(n) \/ Cordon(n) \/ Uncordon(n) \/ PodStep(n)
        PROVE  EarnedInv'
    BY <1>6, RebootsKeeps, ComesUpKeeps, CordonKeeps, UncordonKeeps, PodStepKeeps
  <1>7. CASE OperatorCrashes
    BY <1>7, CrashKeeps
  <1>8. CASE UNCHANGED vars
    BY <1>8, NodesUnchanged, WorkerStays DEF vars, EarnedInv, TypeOK
  <1> QED
    BY <1>1, <1>2, <1>3, <1>4, <1>5, <1>6, <1>7, <1>8 DEF Next, WorkerStep

LEMMA EarnedInvHolds == Spec => []EarnedInv
  BY EarnedInvInit, EarnedInvNext, PTL DEF Spec

(* Every variable keeps its type, for any number of policies, nodes, assets*)
(* and retries: the retry loop neither runs below one try left nor past    *)
(* the last asset.                                                         *)
THEOREM ReconcilerTypes == Spec => []TypeOK
  <1>1. EarnedInv => TypeOK
    BY DEF EarnedInv
  <1> QED
    BY <1>1, EarnedInvHolds, PTL

(* A policy becomes Operational only when all of its assets exist and every*)
(* node under it has its boot status marked and is not on its way back.    *)
THEOREM OperationalMeansMarked == Spec => OperationalIsEarned
  <1> DEFINE Earned == \A p \in Policies : status[p] # "ready" /\ status'[p] = "ready" =>
                          /\ created[p] = Assets
                          /\ \A n \in Listed(p) : node[n].adopted => Is(n, "marked") /\ ~Is(n, "rebooted")
  <1>1. ASSUME EarnedInv, [Next]_vars, NEW p \in Policies, status[p] # "ready", status'[p] = "ready"
        PROVE  p = Me /\ ReportOperational
    <2>1. ~UNCHANGED status
      BY <1>1
    <2>2. ReportOperational \/ ReportNotOperational
      <3>1. ASSUME NEW q \in Policies, Take(q) \/ Timer(q)
            PROVE  UNCHANGED status
        BY <3>1 DEF Take, Timer
      <3>2. ASSUME NEW n \in Nodes, ScanNode(n) \/ Visits(n)
            PROVE  UNCHANGED status
        BY <3>2 DEF ScanNode, Visits, PassOver, AdoptFirstPolicy, EnableMore, TearDown, LeaveAlone
      <3>3. ASSUME ScanDone \/ labelX100Nodes \/ ApiFails \/ LabelsDone \/ CreateAsset
                   \/ getx100bootupStatus \/ NotAllMarked \/ OperatorCrashes
            PROVE  UNCHANGED status
        BY <3>3 DEF ScanDone, labelX100Nodes, ApiFails, LabelsDone, CreateAsset,
                    getx100bootupStatus, NotAllMarked, OperatorCrashes
      <3>4. ASSUME NEW n \in Nodes,
                   NodeReboots(n) \/ NodeComesUp(n) \/ Cordon(n) \/ Uncordon(n) \/ PodStep(n)
            PROVE  UNCHANGED status
        BY <3>4 DEF NodeReboots, NodeComesUp, Cordon, Uncordon, PodStep, PodUp, PodGone, PodChanges
      <3> QED
        BY <1>1, <2>1, <3>1, <3>2, <3>3, <3>4 DEF Next, WorkerStep, vars
    <2>3. CASE ReportOperational
      <3>1. WriteStatus("ready")
        BY <2>1, <2>3 DEF ReportOperational
      <3>2. p = Me
        BY <1>1, <3>1, WriteStatusType DEF EarnedInv
      <3> QED
        BY <2>3, <3>2
    <2>4. CASE ReportNotOperational
      <3>1. WriteStatus("notReady")
        BY <2>1, <2>4 DEF ReportNotOperational
      <3> QED
        BY <1>1, <3>1, WriteStatusType DEF EarnedInv
    <2> QED
      BY <2>2, <2>3, <2>4
  <1>2. ASSUME EarnedInv, [Next]_vars
        PROVE  [Earned]_vars
    <2> SUFFICES ASSUME NEW p \in Policies, status[p] # "ready", status'[p] = "ready"
                 PROVE  /\ created[p] = Assets
                        /\ \A n \in Listed(p) : node[n].adopted => Is(n, "marked") /\ ~Is(n, "rebooted")
      OBVIOUS
    <2>1. p = Me /\ op.pc = "end" /\ AllMarked
      BY <1>1, <1>2 DEF ReportOperational
    <2>2. created[p] = Assets
      BY <1>2, <2>1 DEF EarnedInv, AssetsSoFar
    <2>3. \A n \in Listed(p) : node[n].adopted => Is(n, "marked") /\ ~Is(n, "rebooted")
      BY <1>2, <2>1 DEF AllMarked, EarnedInv, JudgedOrRebooted, Listed
    <2> QED
      BY <2>2, <2>3
  <1> QED
    BY <1>2, EarnedInvHolds, PTL DEF Spec, OperationalIsEarned

-----------------------------------------------------------------------------
(* No policy is forgotten.                                                 *)

(* What MemoryInv depends on of a node.                                    *)
SameStanding(n) ==
    /\ (Available(n)' <=> Available(n))
    /\ (Is(n, "rebooted")' <=> Is(n, "rebooted")) /\ (Is(n, "failed")' <=> Is(n, "failed"))
    /\ node[n].adopted' => node[n].adopted
    /\ Is(n, "marked") => Is(n, "marked")'

(* A request that ends leaves a timer, a request, a reported policy or a   *)
(* node to wait for.                                                       *)
LEMMA EndsRequest ==
  ASSUME EarnedInv, MemoryInv, op' = Idle, UNCHANGED <<listed, node>>,
         queue \subseteq queue', delayed \subseteq delayed', NEW me \in Policies, me = Me,
         \A p \in Policies \ {me} : status'[p] = status[p], budget'["lostReady"] = 0,
         \/ me \in queue' \cup delayed'
         \/ Reported(me)'
         \/ \E n \in Listed(me) : Awaited(n)
  PROVE  MemoryInv'
  <1>1. op'.pc = "idle"
    BY SMTT(30) DEF Idle
  <1>2. \A p \in Policies : Listed(p)' = Listed(p)
    BY DEF Listed
  <1>3. \A n : Awaited(n)' <=> Awaited(n)
    BY DEF Awaited, Available, Is
  <1>4. \A p \in Policies \ {me} : Reported(p) => Reported(p)'
    BY <1>2 DEF Reported, Is
  <1>5. ASSUME NEW p \in Policies, Listed(p) # {}
        PROVE  p \in queue' \cup delayed' \/ Reported(p)' \/ \E n \in Listed(p) : Awaited(n)'
    <2>1. CASE p = me
      BY <1>3, <2>1
    <2>2. CASE p # me
      <3>1. \/ p \in queue \cup delayed \/ Reported(p) \/ \E n \in Listed(p) : Awaited(n)
        BY <1>5, <2>2 DEF MemoryInv, Remembered
      <3> QED
        BY <1>3, <1>4, <2>2, <3>1
    <2> QED
      BY <2>1, <2>2
  <1>6. Remembered'
    BY <1>2, <1>5 DEF Remembered
  <1> QED
    BY <1>1, <1>6 DEF MemoryInv, DownAreAwaited

(* A request that goes on, having done something to its policy's nodes.    *)
LEMMA WorksOn ==
  ASSUME EarnedInv, MemoryInv, op.pc # "idle", op'.pc \notin {"idle", "scan"},
         op'.policy = op.policy, UNCHANGED listed,
         queue \subseteq queue', delayed \subseteq delayed',
         \A p \in Policies \ {Me} : status'[p] = status[p], budget'["lostReady"] = 0,
         \A n \in Nodes : listed[n] # Me => SameStanding(n)
  PROVE  MemoryInv'
  <1>1. \A p \in Policies : Listed(p)' = Listed(p)
    BY DEF Listed
  <1>2. ASSUME NEW p \in Policies, Listed(p) # {}, p # Me
        PROVE  p \in queue' \cup delayed' \/ Reported(p)' \/ \E n \in Listed(p) : Awaited(n)'
    <2>1. \A n \in Listed(p) : n \in Nodes /\ SameStanding(n)
      BY <1>2 DEF Listed
    <2>2. \A n \in Listed(p) : Awaited(n) => Awaited(n)'
      BY <2>1 DEF Awaited, SameStanding
    <2>3. Reported(p) => Reported(p)'
      BY <1>1, <1>2, <2>1 DEF Reported, SameStanding
    <2>4. \/ p \in queue \cup delayed \/ Reported(p) \/ \E n \in Listed(p) : Awaited(n)
      BY <1>2 DEF MemoryInv, Remembered
    <2> QED
      BY <2>2, <2>3, <2>4
  <1>3. Me' = Me /\ op'.pc # "idle"
    BY DEF Me
  <1>4. Remembered'
    BY <1>1, <1>2, <1>3 DEF Remembered
  <1> QED
    BY <1>4 DEF MemoryInv, DownAreAwaited

LEMMA NothingLost ==
  ASSUME MemoryInv, TypeOK
  PROVE  /\ UNCHANGED budget => budget'["lostReady"] = 0
         /\ \A f \in Faults : Spend(f) => f # "lostReady" /\ budget'["lostReady"] = 0
  <1>1. budget["lostReady"] = 0 /\ budget \in [Faults -> Nat] /\ "lostReady" \in Faults
    BY DEF MemoryInv, TypeOK, Faults
  <1> QED
    BY <1>1, SMTT(30) DEF Spend

(* A node that the worker does not touch stands as before.                 *)
LEMMA UntouchedStands ==
  ASSUME NEW n \in Nodes, node'[n] = node[n]
  PROVE  SameStanding(n)
  BY DEF SameStanding, Available, Is

LEMMA RequeueRemembers ==
  ASSUME EarnedInv, MemoryInv, Requeue, UNCHANGED <<listed, node, queue, status>>,
         budget'["lostReady"] = 0
  PROVE  MemoryInv'
  <1>1. Me \in Policies /\ TypeOK
    BY DEF EarnedInv, TypeOK, Workers, Me
  <1>2. delayed \subseteq delayed' /\ Me \in delayed' /\ op' = Idle
    BY <1>1, RequeueType
  <1> QED
    BY <1>1, <1>2, EndsRequest

LEMMA TakeRemembers ==
  ASSUME EarnedInv, MemoryInv, NEW p \in Policies, Take(p)
  PROVE  MemoryInv'
  <1>1. /\ op.pc = "idle" /\ queue' = queue \ {p}
        /\ UNCHANGED <<listed, node, created, status, delayed, budget>>
    BY DEF Take
  <1>2. /\ \A q \in Policies : Listed(q)' = Listed(q)
        /\ \A n : Awaited(n)' <=> Awaited(n)
        /\ \A q \in Policies : Reported(q)' <=> Reported(q)
    BY <1>1 DEF Listed, Awaited, Available, Is, Reported
  <1>3. \A q \in Policies \ {p} : Listed(q) # {} =>
           q \in queue' \cup delayed' \/ Reported(q)' \/ \E n \in Listed(q) : Awaited(n)'
    BY <1>1, <1>2 DEF MemoryInv, Remembered
  <1>4. CASE Listed(p) = {}
    <2>1. op'.pc = "idle"
      BY <1>4, SMTT(30) DEF Take, Idle
    <2> QED
      BY <1>1, <1>2, <1>3, <1>4, <2>1 DEF MemoryInv, Remembered, DownAreAwaited
  <1>5. CASE Listed(p) # {}
    <2>1. op' = [Idle EXCEPT !.pc = "scan", !.policy = p, !.todo = Listed(p),
                             !.wasReady = status[p] = "ready"]
      BY <1>5 DEF Take
    <2>2. op'.pc = "scan" /\ op'.policy = p /\ op'.down = {}
      BY <2>1, SMTT(30) DEF Idle
    <2>3. Me' = p
      BY <2>2 DEF Me
    <2> QED
      BY <1>1, <1>2, <1>3, <2>2, <2>3 DEF MemoryInv, Remembered, DownAreAwaited
  <1> QED
    BY <1>4, <1>5

LEMMA TimerRemembers ==
  ASSUME EarnedInv, MemoryInv, NEW p \in Policies, Timer(p)
  PROVE  MemoryInv'
  <1>1. /\ queue' \cup delayed' = queue \cup delayed /\ queue \subseteq queue'
        /\ UNCHANGED <<listed, node, created, status, op, budget>>
    BY DEF Timer
  <1>2. /\ \A q \in Policies : Listed(q)' = Listed(q)
        /\ \A n : Awaited(n)' <=> Awaited(n)
        /\ \A q \in Policies : Reported(q)' <=> Reported(q)
    BY <1>1 DEF Listed, Awaited, Available, Is, Reported
  <1> QED
    BY <1>1, <1>2 DEF MemoryInv, Remembered, DownAreAwaited, Is, Me

(* The scan goes on to the next node.                                      *)
LEMMA ScansOn ==
  ASSUME EarnedInv, MemoryInv, NEW n \in Nodes, op.pc = "scan", listed[n] = Me, Scanned(n),
         UNCHANGED <<listed, status, delayed, budget>>, queue \subseteq queue',
         \A m \in Nodes \ {n} : node'[m] = node[m],
         node[n].ready => node'[n] = node[n],
         ~node[n].ready => ~node'[n].ready /\ "rebooted" \in node'[n].flags
  PROVE  MemoryInv'
  <1>1. /\ op'.pc = "scan" /\ op'.policy = op.policy
        /\ op'.down = IF node[n].ready THEN op.down ELSE op.down \cup {n}
    BY ScannedMoves DEF EarnedInv
  <1>2. Me' = Me /\ \A p \in Policies : Listed(p)' = Listed(p)
    BY <1>1 DEF Me, Listed
  <1>3. \A m \in Nodes \ {n} : /\ Awaited(m)' <=> Awaited(m)
                               /\ \A f : Is(m, f)' <=> Is(m, f)
    BY DEF Awaited, Available, Is
  <1>4. \A p \in Policies \ {Me} : Reported(p) => Reported(p)'
    BY <1>2, <1>3 DEF Reported, Listed
  <1>5. Remembered'
    BY <1>1, <1>2, <1>3, <1>4 DEF MemoryInv, Remembered, Listed
  <1>6. ~node[n].ready => Awaited(n)' /\ Is(n, "rebooted")'
    BY DEF Awaited, Available, Is
  <1>7. node[n].ready => (Awaited(n)' <=> Awaited(n)) /\ \A f : Is(n, f)' <=> Is(n, f)
    BY DEF Awaited, Available, Is
  <1>8. op.down \subseteq Nodes
    BY DEF EarnedInv, TypeOK, Workers
  <1>9. DownAreAwaited'
    <2> SUFFICES ASSUME NEW m \in op'.down
                 PROVE  Is(m, "rebooted")' /\ (Awaited(m)' \/ Me \in queue')
      BY <1>2 DEF DownAreAwaited
    <2>1. CASE m = n /\ ~node[n].ready
      BY <1>6, <2>1
    <2>2. CASE m # n \/ node[n].ready
      <3>1. m \in op.down /\ m \in Nodes
        BY <1>1, <1>8, <2>2
      <3>2. Is(m, "rebooted") /\ (Awaited(m) \/ Me \in queue)
        BY <3>1 DEF MemoryInv, DownAreAwaited
      <3> QED
        BY <1>3, <1>7, <2>2, <3>1, <3>2
    <2> QED
      BY <2>1, <2>2
  <1> QED
    BY <1>5, <1>9 DEF MemoryInv

LEMMA ScanNodeRemembers ==
  ASSUME EarnedInv, MemoryInv, NEW n \in Nodes, ScanNode(n)
  PROVE  MemoryInv'
  <1>1. /\ op.pc = "scan" /\ n \in Listed(Me) /\ listed[n] = Me /\ Me \in Policies
        /\ UNCHANGED <<listed, created, status, delayed, budget>>
    BY DEF ScanNode, EarnedInv, WorksOnOwnNodes, Listed, TypeOK, Workers, Me
  <1>2. CASE node[n].ready /\ Scanned(n) /\ UNCHANGED <<node, queue>>
    BY <1>1, <1>2, ScansOn
  <1>3. CASE ~node[n].ready /\ Is(n, "failed") /\ op' = Idle /\ UNCHANGED <<node, queue>>
    <2>1. Awaited(n)
      BY <1>3 DEF Awaited, Available
    <2>2. budget'["lostReady"] = 0
      BY <1>1 DEF MemoryInv
    <2> QED
      BY <1>1, <1>3, <2>1, <2>2, EndsRequest
  <1>4. CASE ~node[n].ready /\ NodeBecomes(n, AfterReboot(node[n])) /\ Scanned(n)
    <2>1. node[n] \in NodeStates
      BY DEF EarnedInv, TypeOK
    <2>2. /\ AfterReboot(node[n]) \in NodeStates
          /\ AfterReboot(node[n]).ready = node[n].ready
          /\ "rebooted" \in AfterReboot(node[n]).flags
      BY <2>1, AfterRebootType
    <2>3. /\ node'[n] = AfterReboot(node[n]) /\ \A m \in Nodes \ {n} : node'[m] = node[m]
          /\ queue \subseteq queue'
      BY <1>4, <2>2, NodeBecomesType DEF EarnedInv
    <2> QED
      BY <1>1, <1>4, <2>2, <2>3, ScansOn
  <1> QED
    BY <1>2, <1>3, <1>4 DEF ScanNode

LEMMA ScanDoneRemembers ==
  ASSUME EarnedInv, MemoryInv, ScanDone
  PROVE  MemoryInv'
  <1>1. /\ op.pc = "scan" /\ Me \in Policies /\ Listed(Me) # {} /\ op \in Workers
        /\ UNCHANGED <<listed, node, created, status, queue, delayed, budget>>
    BY DEF ScanDone, EarnedInv, WorksOnOwnNodes, TypeOK, Workers, Me
  <1>2. budget'["lostReady"] = 0
    BY <1>1 DEF MemoryInv
  <1>3. CASE op.down = Listed(Me)
    <2>1. PICK n \in Listed(Me) : n \in op.down
      BY <1>1, <1>3
    <2>2. Awaited(n) \/ Me \in queue
      BY <1>1, <2>1 DEF MemoryInv, DownAreAwaited
    <2>3. op' = Idle
      BY <1>3 DEF ScanDone
    <2> QED
      BY <1>1, <1>2, <2>1, <2>2, <2>3, EndsRequest
  <1>4. CASE op.down # Listed(Me)
    <2>1. op' = [op EXCEPT !.pc = "present"]
      BY <1>4 DEF ScanDone
    <2>2. op'.pc = "present" /\ op'.policy = op.policy
      BY <1>1, <2>1, SMTT(30) DEF Workers
    <2> QED
      BY <1>1, <1>2, <2>2, UntouchedStands, WorksOn
  <1> QED
    BY <1>3, <1>4

LEMMA PresentRemembers ==
  ASSUME EarnedInv, MemoryInv, labelX100Nodes
  PROVE  MemoryInv'
  <1>1. ASSUME NEW n \in Nodes
        PROVE  SameStanding(n)
    <2>1. node[n] \in NodeStates
      BY DEF EarnedInv, TypeOK
    <2>2. node'[n] = IF node[n].cordoned THEN node[n]
                     ELSE [node[n] EXCEPT !.flags = @ \cup {"present"}]
      BY DEF labelX100Nodes, NodesBecome
    <2>3. CASE node[n].cordoned
      BY <2>2, <2>3, UntouchedStands
    <2>4. CASE ~node[n].cordoned
      <3>1. /\ node'[n].flags = node[n].flags \cup {"present"}
            /\ node'[n].ready = node[n].ready /\ node'[n].cordoned = node[n].cordoned
            /\ node'[n].adopted = node[n].adopted
        BY <2>1, <2>2, <2>4, SMTT(30) DEF NodeStates
      <3> QED
        BY <3>1 DEF SameStanding, Available, Is
    <2> QED
      BY <2>3, <2>4
  <1>2. op.pc = "present" /\ UNCHANGED <<listed, created, status, delayed, budget>>
    BY DEF labelX100Nodes
  <1>3. op \in Workers /\ op' = [op EXCEPT !.pc = "label", !.todo = Listed(Me), !.qualified = FALSE]
    BY DEF labelX100Nodes, EarnedInv, TypeOK
  <1>4. op'.pc = "label" /\ op'.policy = op.policy
    BY <1>3, SMTT(30) DEF Workers
  <1>5. queue \subseteq queue'
    BY DEF labelX100Nodes, NodesBecome, EarnedInv, TypeOK
  <1>6. budget'["lostReady"] = 0
    BY <1>2 DEF MemoryInv
  <1> QED
    BY <1>1, <1>2, <1>4, <1>5, <1>6, WorksOn

(* A visit to a node of the policy.                                        *)
LEMMA VisitRemembers ==
  ASSUME EarnedInv, MemoryInv, NEW n \in Nodes, op.pc = "label", n \in op.todo,
         Waits(n) \/ Qualifies(n), UNCHANGED <<listed, created, status, delayed, budget>>,
         queue \subseteq queue', \A m \in Nodes \ {n} : node'[m] = node[m]
  PROVE  MemoryInv'
  <1>1. op \in Workers /\ listed[n] = Me
    BY DEF EarnedInv, TypeOK, WorksOnOwnNodes, Listed
  <1>2. op'.pc = "label" /\ op'.policy = op.policy
    <2>1. CASE Waits(n)
      BY <1>1, <2>1, SMTT(30) DEF Workers, Waits
    <2>2. CASE Qualifies(n)
      BY <1>1, <2>2, SMTT(30) DEF Workers, Qualifies
    <2> QED
      BY <2>1, <2>2
  <1>3. \A m \in Nodes : listed[m] # Me => SameStanding(m)
    BY <1>1, UntouchedStands
  <1>4. budget'["lostReady"] = 0
    BY DEF MemoryInv
  <1> QED
    BY <1>2, <1>3, <1>4, WorksOn

LEMMA TouchesOne ==
  ASSUME TypeOK, NEW n \in Nodes, NEW s, NodeBecomes(n, s)
  PROVE  queue \subseteq queue' /\ \A m \in Nodes \ {n} : node'[m] = node[m]
  BY DEF TypeOK, NodeBecomes, NodesBecome

LEMMA VisitsRemember ==
  ASSUME EarnedInv, MemoryInv, NEW n \in Nodes, Visits(n)
  PROVE  MemoryInv'
  <1>1. TypeOK
    BY DEF EarnedInv
  <1>2. CASE PassOver(n) \/ LeaveAlone(n)
    BY <1>2, VisitRemembers DEF PassOver, LeaveAlone, MayProcess
  <1>3. CASE AdoptFirstPolicy(n)
    BY <1>1, <1>3, TouchesOne, VisitRemembers DEF AdoptFirstPolicy, MayProcess
  <1>4. CASE EnableMore(n)
    <2>1. queue \subseteq queue' /\ \A m \in Nodes \ {n} : node'[m] = node[m]
      BY <1>1, <1>4, TouchesOne DEF EnableMore
    <2> QED
      BY <1>4, <2>1, VisitRemembers DEF EnableMore, MayProcess
  <1>5. CASE TearDown(n)
    <2>1. queue \subseteq queue' /\ \A m \in Nodes \ {n} : node'[m] = node[m]
      BY <1>1, <1>5, TouchesOne DEF TearDown
    <2>2. Waits(n) \/ Qualifies(n)
      BY <1>5 DEF TearDown
    <2> QED
      BY <1>5, <2>1, <2>2, VisitRemembers DEF TearDown, MayProcess
  <1> QED
    BY <1>2, <1>3, <1>4, <1>5 DEF Visits

LEMMA ApiFailsRemembers ==
  ASSUME EarnedInv, MemoryInv, ApiFails
  PROVE  MemoryInv'
  <1>1. budget'["lostReady"] = 0
    BY NothingLost DEF ApiFails, EarnedInv, Faults
  <1> QED
    BY <1>1, RequeueRemembers DEF ApiFails

LEMMA LabelsDoneRemembers ==
  ASSUME EarnedInv, MemoryInv, LabelsDone
  PROVE  MemoryInv'
  <1>1. /\ op.pc = "label" /\ op \in Workers /\ budget'["lostReady"] = 0
        /\ UNCHANGED <<listed, node, created, status, queue, budget>>
    BY DEF LabelsDone, EarnedInv, TypeOK, MemoryInv
  <1>2. CASE Requeue
    BY <1>1, <1>2, RequeueRemembers
  <1>3. CASE /\ op' = IF op.again THEN [op EXCEPT !.pc = "create", !.tries = @ - 1]
                      ELSE [op EXCEPT !.pc = "create", !.at = 1]
             /\ UNCHANGED delayed
    <2>1. op'.pc = "create" /\ op'.policy = op.policy
      BY <1>1, <1>3, SMTT(30) DEF Workers
    <2> QED
      BY <1>1, <1>3, <2>1, UntouchedStands, WorksOn
  <1> QED
    BY <1>2, <1>3 DEF LabelsDone

LEMMA CreateAssetRemembers ==
  ASSUME EarnedInv, MemoryInv, CreateAsset
  PROVE  MemoryInv'
  <1>1. op.pc = "create" /\ op \in Workers /\ UNCHANGED <<listed, node, status, queue>>
    BY DEF CreateAsset, EarnedInv, TypeOK
  <1>2. CASE Spend("glitch") /\ Requeue /\ UNCHANGED created
    <2>1. budget'["lostReady"] = 0
      BY <1>2, NothingLost DEF EarnedInv, Faults
    <2> QED
      BY <1>1, <1>2, <2>1, RequeueRemembers
  <1>3. CASE /\ \E ready \in Outcomes(op.at) :
                   op' = IF ~ready THEN [op EXCEPT !.pc = "notReady"]
                         ELSE IF op.at = Last THEN [op EXCEPT !.pc = "boot"]
                         ELSE [op EXCEPT !.at = @ + 1]
             /\ UNCHANGED <<delayed, budget>>
    <2>1. \/ op' = [op EXCEPT !.pc = "notReady"] \/ op' = [op EXCEPT !.pc = "boot"]
          \/ op' = [op EXCEPT !.at = @ + 1]
      BY <1>3
    <2>2. op'.pc \in {"notReady", "boot", "create"} /\ op'.policy = op.policy
      BY <1>1, <2>1, SMTT(30) DEF Workers
    <2>3. budget'["lostReady"] = 0
      BY <1>3 DEF MemoryInv
    <2> QED
      BY <1>1, <1>3, <2>2, <2>3, UntouchedStands, WorksOn
  <1> QED
    BY <1>2, <1>3 DEF CreateAsset

LEMMA BootStatusRemembers ==
  ASSUME EarnedInv, MemoryInv, getx100bootupStatus
  PROVE  MemoryInv'
  <1>1. PICK J \in SUBSET Eligible, M \in SUBSET Listed(Me) :
          /\ UNCHANGED budget \/ Spend("slow") \/ Spend("glitch")
          /\ NodesBecome([n \in Nodes |-> IF n \in M THEN Marked(node[n])
                                          ELSE IF n \in J THEN Judged(node[n])
                                          ELSE node[n]])
          /\ op' = [op EXCEPT !.pc = IF Unjudged \subseteq J THEN "end" ELSE "notReady"]
    BY DEF getx100bootupStatus
  <1>2. op.pc = "boot" /\ op \in Workers /\ UNCHANGED <<listed, created, status, delayed>>
    BY DEF getx100bootupStatus, EarnedInv, TypeOK
  <1>3. op'.pc \in {"end", "notReady"} /\ op'.policy = op.policy
    <2>1. op' = [op EXCEPT !.pc = "end"] \/ op' = [op EXCEPT !.pc = "notReady"]
      BY <1>1
    <2> QED
      BY <1>2, <2>1, SMTT(30) DEF Workers
  <1>4. J \subseteq Listed(Me) /\ M \subseteq Listed(Me)
    BY DEF Eligible, Unjudged
  <1>5. \A n \in Nodes : listed[n] # Me => SameStanding(n)
    <2> SUFFICES ASSUME NEW n \in Nodes, listed[n] # Me
                 PROVE  node'[n] = node[n]
      BY UntouchedStands
    <2> QED
      BY <1>1, <1>4 DEF NodesBecome, Listed
  <1>6. queue \subseteq queue'
    BY <1>1 DEF NodesBecome, EarnedInv, TypeOK
  <1>7. budget'["lostReady"] = 0
    BY <1>1, NothingLost DEF EarnedInv, Faults
  <1> QED
    BY <1>2, <1>3, <1>5, <1>6, <1>7, WorksOn

LEMMA NotAllMarkedRemembers ==
  ASSUME EarnedInv, MemoryInv, NotAllMarked
  PROVE  MemoryInv'
  <1>1. /\ op.pc = "end" /\ op \in Workers /\ budget'["lostReady"] = 0
        /\ UNCHANGED <<listed, node, created, status, queue, delayed, budget>>
    BY DEF NotAllMarked, EarnedInv, TypeOK, MemoryInv
  <1>2. op'.pc = "notReady" /\ op'.policy = op.policy
    BY <1>1, SMTT(30) DEF NotAllMarked, Workers
  <1> QED
    BY <1>1, <1>2, UntouchedStands, WorksOn

LEMMA WriteStatusRemembers ==
  ASSUME TypeOK, MemoryInv, NEW s \in {"ready", "notReady"}, WriteStatus(s)
  PROVE  budget'["lostReady"] = 0 /\ (s = "ready" => status'[Me] = "ready")
  <1>1. Me \in Policies
    BY DEF TypeOK, Workers, Me
  <1>2. CASE status' = [status EXCEPT ![Me] = s] /\ UNCHANGED budget
    BY <1>1, <1>2 DEF MemoryInv, TypeOK
  <1>3. CASE Spend(IF s = "ready" THEN "lostReady" ELSE "lostNotReady")
    BY <1>3, NothingLost DEF Faults
  <1> QED
    BY <1>2, <1>3 DEF WriteStatus

LEMMA ReportOperationalRemembers ==
  ASSUME EarnedInv, MemoryInv, ReportOperational
  PROVE  MemoryInv'
  <1>1. AllMarked /\ UNCHANGED <<listed, node, created>> /\ Me \in Policies /\ TypeOK
    BY DEF ReportOperational, EarnedInv, TypeOK, Workers, Me
  <1>2. CASE WriteStatus("ready") /\ op' = Idle /\ UNCHANGED delayed
    <2>1. PICK me \in Policies : me = Me
      BY <1>1
    <2>2. /\ queue \subseteq queue' /\ \A p \in Policies \ {me} : status'[p] = status[p]
          /\ budget'["lostReady"] = 0 /\ status'[me] = "ready"
      BY <1>1, <1>2, <2>1, WriteStatusType, WriteStatusRemembers
    <2>3. Reported(me)'
      BY <1>1, <2>1, <2>2 DEF AllMarked, Reported, Listed, Is
    <2> QED
      BY <1>1, <1>2, <2>1, <2>2, <2>3, EndsRequest
  <1>3. CASE Requeue /\ UNCHANGED <<status, queue, budget>>
    <2>1. budget'["lostReady"] = 0
      BY <1>3 DEF MemoryInv
    <2> QED
      BY <1>1, <1>3, <2>1, RequeueRemembers
  <1> QED
    BY <1>2, <1>3 DEF ReportOperational

LEMMA ReportNotOperationalRemembers ==
  ASSUME EarnedInv, MemoryInv, ReportNotOperational
  PROVE  MemoryInv'
  <1>1. /\ op.pc = "notReady" /\ op \in Workers /\ TypeOK
        /\ UNCHANGED <<listed, node, created, delayed>>
    BY DEF ReportNotOperational, EarnedInv, TypeOK
  <1>2. op'.pc = "present" /\ op'.policy = op.policy
    BY <1>1, SMTT(30) DEF ReportNotOperational, Workers
  <1>3. /\ queue \subseteq queue' /\ \A p \in Policies \ {Me} : status'[p] = status[p]
        /\ budget'["lostReady"] = 0
    <2>1. CASE WriteStatus("notReady")
      BY <1>1, <2>1, WriteStatusType, WriteStatusRemembers
    <2>2. CASE UNCHANGED <<status, queue, budget>>
      BY <2>2 DEF MemoryInv
    <2> QED
      BY <2>1, <2>2 DEF ReportNotOperational
  <1> QED
    BY <1>1, <1>2, <1>3, UntouchedStands, WorksOn

LEMMA CrashRemembers ==
  ASSUME EarnedInv, MemoryInv, OperatorCrashes
  PROVE  MemoryInv'
  <1>1. op'.pc = "idle"
    BY SMTT(30) DEF OperatorCrashes, Idle
  <1>2. budget'["lostReady"] = 0
    BY NothingLost DEF OperatorCrashes, EarnedInv, Faults
  <1>3. queue' = Policies
    BY DEF OperatorCrashes
  <1> QED
    BY <1>1, <1>2, <1>3 DEF MemoryInv, Remembered, DownAreAwaited

(* An event at a node: whoever waits for the node waits on, or every policy*)
(* gets a request.                                                         *)
LEMMA OutsideRemembers ==
  ASSUME EarnedInv, MemoryInv, NEW n \in Nodes, NEW s, OnlyOutside(n, s),
         node' = [node EXCEPT ![n] = s], queue' \in {queue, Policies},
         \/ queue' = Policies
         \/ Awaited(n) => ~s.ready \/ s.cordoned,
         UNCHANGED <<listed, created, status, delayed, op>>, budget'["lostReady"] = 0
  PROVE  MemoryInv'
  <1>1. node'[n] = s /\ \A m \in Nodes \ {n} : node'[m] = node[m]
    BY DEF EarnedInv, TypeOK
  <1>2. \A m \in Nodes : /\ \A f : Is(m, f)' <=> Is(m, f)
                         /\ node'[m].adopted = node[m].adopted
    BY <1>1 DEF OnlyOutside, Is
  <1>3. /\ Me' = Me /\ \A p \in Policies : Listed(p)' = Listed(p) /\ Listed(p) \subseteq Nodes
        /\ queue \subseteq queue'
    BY DEF Me, Listed, EarnedInv, TypeOK
  <1>4. \A p \in Policies : Reported(p) => Reported(p)'
    BY <1>2, <1>3 DEF Reported
  <1>5. CASE queue' = Policies
    <2>1. Remembered'
      BY <1>5 DEF Remembered
    <2>2. op.pc # "idle" => Me \in queue'
      BY <1>5 DEF EarnedInv, TypeOK, Workers, Me
    <2>3. op.down \subseteq Nodes
      BY DEF EarnedInv, TypeOK, Workers
    <2>4. DownAreAwaited'
      BY <1>2, <1>3, <2>2, <2>3 DEF MemoryInv, DownAreAwaited
    <2> QED
      BY <2>1, <2>4 DEF MemoryInv
  <1>6. CASE Awaited(n) => ~s.ready \/ s.cordoned
    <2>1. \A m \in Nodes : Awaited(m) => Awaited(m)'
      BY <1>1, <1>2, <1>6 DEF Awaited, Available
    <2>2. Remembered'
      BY <1>3, <1>4, <2>1 DEF MemoryInv, Remembered
    <2>3. op.down \subseteq Nodes
      BY DEF EarnedInv, TypeOK, Workers
    <2>4. DownAreAwaited'
      BY <1>2, <1>3, <2>1, <2>3 DEF MemoryInv, DownAreAwaited
    <2> QED
      BY <2>2, <2>4 DEF MemoryInv
  <1> QED
    BY <1>5, <1>6

LEMMA BecomesIsEvent ==
  ASSUME NEW n, NEW s, NodeBecomes(n, s), n \in Nodes, node \in [Nodes -> NodeStates]
  PROVE  /\ node' = [node EXCEPT ![n] = s] /\ queue' \in {queue, Policies}
         /\ s # node[n] /\ Wakes(s) => queue' = Policies
  BY DEF NodeBecomes, NodesBecome

LEMMA RebootsRemembers ==
  ASSUME EarnedInv, MemoryInv, NEW n \in Nodes, NodeReboots(n)
  PROVE  MemoryInv'
  <1> DEFINE s == [node[n] EXCEPT !.ready = FALSE, !.up = {}]
  <1>1. node[n] \in NodeStates /\ TypeOK /\ NodeBecomes(n, s) /\ OnlyOutside(n, s)
    BY OutsideType DEF EarnedInv, TypeOK, NodeReboots
  <1>2. ~s.ready
    BY <1>1, SMTT(30) DEF NodeStates
  <1>3. node' = [node EXCEPT ![n] = s] /\ queue' \in {queue, Policies}
    BY <1>1, BecomesIsEvent DEF TypeOK
  <1>4. budget'["lostReady"] = 0
    BY <1>1, NothingLost DEF NodeReboots, Faults
  <1> HIDE DEF s
  <1> QED
    BY <1>1, <1>2, <1>3, <1>4, OutsideRemembers DEF NodeReboots

LEMMA ComesUpRemembers ==
  ASSUME EarnedInv, MemoryInv, NEW n \in Nodes, NodeComesUp(n)
  PROVE  MemoryInv'
  <1> DEFINE s == [node[n] EXCEPT !.ready = TRUE]
  <1>1. node[n] \in NodeStates /\ TypeOK /\ NodeBecomes(n, s) /\ OnlyOutside(n, s)
    BY OutsideType DEF EarnedInv, TypeOK, NodeComesUp
  <1>2. s.ready /\ s.cordoned = node[n].cordoned /\ s.flags = node[n].flags
    BY <1>1, SMTT(30) DEF NodeStates
  <1>3. s # node[n]
    BY <1>2 DEF NodeComesUp
  <1>4. /\ node' = [node EXCEPT ![n] = s] /\ queue' \in {queue, Policies}
        /\ Wakes(s) => queue' = Policies
    BY <1>1, <1>3, BecomesIsEvent DEF TypeOK
  <1>5. Awaited(n) => s.cordoned \/ Wakes(s)
    BY <1>2 DEF Awaited, Available, Is, Wakes
  <1>6. budget'["lostReady"] = 0
    BY DEF NodeComesUp, MemoryInv
  <1> HIDE DEF s
  <1> QED
    BY <1>1, <1>4, <1>5, <1>6, OutsideRemembers DEF NodeComesUp

LEMMA CordonRemembers ==
  ASSUME EarnedInv, MemoryInv, NEW n \in Nodes, Cordon(n)
  PROVE  MemoryInv'
  <1> DEFINE s == [node[n] EXCEPT !.cordoned = TRUE]
  <1>1. node[n] \in NodeStates /\ TypeOK /\ NodeBecomes(n, s) /\ OnlyOutside(n, s)
    BY OutsideType DEF EarnedInv, TypeOK, Cordon
  <1>2. s.cordoned
    BY <1>1, SMTT(30) DEF NodeStates
  <1>3. node' = [node EXCEPT ![n] = s] /\ queue' \in {queue, Policies}
    BY <1>1, BecomesIsEvent DEF TypeOK
  <1>4. budget'["lostReady"] = 0
    BY <1>1, NothingLost DEF Cordon, Faults
  <1> HIDE DEF s
  <1> QED
    BY <1>1, <1>2, <1>3, <1>4, OutsideRemembers DEF Cordon

LEMMA UncordonRemembers ==
  ASSUME EarnedInv, MemoryInv, NEW n \in Nodes, Uncordon(n)
  PROVE  MemoryInv'
  <1> DEFINE s == [node[n] EXCEPT !.cordoned = FALSE]
  <1>1. node[n] \in NodeStates /\ TypeOK /\ NodeBecomes(n, s) /\ OnlyOutside(n, s)
    BY OutsideType DEF EarnedInv, TypeOK, Uncordon
  <1>2. ~s.cordoned /\ s.ready = node[n].ready /\ s.flags = node[n].flags
    BY <1>1, SMTT(30) DEF NodeStates
  <1>3. s # node[n]
    BY <1>2 DEF Uncordon
  <1>4. /\ node' = [node EXCEPT ![n] = s] /\ queue' \in {queue, Policies}
        /\ Wakes(s) => queue' = Policies
    BY <1>1, <1>3, BecomesIsEvent DEF TypeOK
  <1>5. Awaited(n) => ~s.ready \/ Wakes(s)
    BY <1>2 DEF Awaited, Available, Is, Wakes
  <1>6. budget'["lostReady"] = 0
    BY DEF Uncordon, MemoryInv
  <1> HIDE DEF s
  <1> QED
    BY <1>1, <1>4, <1>5, <1>6, OutsideRemembers DEF Uncordon

LEMMA PodStepRemembers ==
  ASSUME EarnedInv, MemoryInv, NEW n \in Nodes, PodStep(n)
  PROVE  MemoryInv'
  <1>1. PICK s : /\ OnlyOutside(n, s) /\ s.ready = node[n].ready /\ s.cordoned = node[n].cordoned
                 /\ node' = [node EXCEPT ![n] = s] /\ queue' \in {queue, Policies}
                 /\ UNCHANGED <<listed, created, status, delayed, op, budget>>
    BY PodStepType DEF EarnedInv
  <1>2. Awaited(n) => ~s.ready \/ s.cordoned
    BY <1>1 DEF Awaited, Available
  <1>3. budget'["lostReady"] = 0
    BY <1>1 DEF MemoryInv
  <1> QED
    BY <1>1, <1>2, <1>3, OutsideRemembers

LEMMA MemoryInvInit ==
  ASSUME StateIsWritten, Init
  PROVE  MemoryInv
  <1>1. op.pc = "idle" /\ queue = Policies
    BY SMTT(30) DEF Init, Idle
  <1>2. budget["lostReady"] = 0
    BY DEF Init, StateIsWritten
  <1> QED
    BY <1>1, <1>2 DEF MemoryInv, Remembered, DownAreAwaited

LEMMA MemoryInvNext == EarnedInv /\ MemoryInv /\ [Next]_vars => MemoryInv'
  <1> SUFFICES ASSUME EarnedInv, MemoryInv, [Next]_vars
               PROVE  MemoryInv'
    OBVIOUS
  <1>1. ASSUME NEW p \in Policies, Take(p) \/ Timer(p)
        PROVE  MemoryInv'
    BY <1>1, TakeRemembers, TimerRemembers
  <1>2. ASSUME NEW n \in Nodes, ScanNode(n) \/ Visits(n)
        PROVE  MemoryInv'
    BY <1>2, ScanNodeRemembers, VisitsRemember
  <1>3. ASSUME ScanDone \/ labelX100Nodes \/ ApiFails \/ LabelsDone
        PROVE  MemoryInv'
    BY <1>3, ScanDoneRemembers, PresentRemembers, ApiFailsRemembers, LabelsDoneRemembers
  <1>4. ASSUME CreateAsset \/ getx100bootupStatus
        PROVE  MemoryInv'
    BY <1>4, CreateAssetRemembers, BootStatusRemembers
  <1>5. ASSUME NotAllMarked \/ ReportOperational \/ ReportNotOperational
        PROVE  MemoryInv'
    BY <1>5, NotAllMarkedRemembers, ReportOperationalRemembers, ReportNotOperationalRemembers
  <1>6. ASSUME NEW n \in Nodes,
               NodeReboots(n) \/ NodeComesUp(n) \/ Cordon(n) \/ Uncordon(n) \/ PodStep(n)
        PROVE  MemoryInv'
    BY <1>6, RebootsRemembers, ComesUpRemembers, CordonRemembers, UncordonRemembers,
       PodStepRemembers
  <1>7. CASE OperatorCrashes
    BY <1>7, CrashRemembers
  <1>8. CASE UNCHANGED vars
    BY <1>8 DEF vars, MemoryInv, Remembered, DownAreAwaited, Listed, Me, Reported, Awaited,
                Available, Is
  <1> QED
    BY <1>1, <1>2, <1>3, <1>4, <1>5, <1>6, <1>7, <1>8 DEF Next, WorkerStep

(* If updates of the state to Operational do not fail, an operator with    *)
(* nothing left to do has reported every policy whose nodes are all there, *)
(* whatever else failed.                                                   *)
THEOREM NoPolicyForgotten ==
  ASSUME StateIsWritten
  PROVE  Spec => []NothingForgotten
  <1>1. MemoryInv => NothingForgotten
    BY DEF MemoryInv, Remembered, NothingForgotten, Quiet, Awaited
  <1>2. Init => MemoryInv
    BY MemoryInvInit
  <1> QED
    BY <1>1, <1>2, MemoryInvNext, EarnedInvHolds, PTL DEF Spec

=============================================================================
