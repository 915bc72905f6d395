----------------------------- MODULE PolicyLists -----------------------------
(***************************************************************************)
(* The node lists of the policies (Spec.NodeSelector) and the nodes that   *)
(* are under them.                                                         *)
(*                                                                         *)
(* Users write the lists; the operator writes them too: an empty list takes*)
(* every free node, a node active under a policy is aggregated into its    *)
(* list, a node that moves to another policy leaves the old one's list, and*)
(* a rollback moves it back.  A list that runs empty holds a placeholder.  *)
(* Lists are read from the informer cache, which may lag behind the API    *)
(* server, and written with optimistic concurrency: an Update of a copy    *)
(* that is out of date is refused, and most call sites drop that error.    *)
(*                                                                         *)
(* What happens to one node in between (pods, selectors, boot status) is   *)
(* NodeLifecycle's; here a visit to a node acts or waits.                  *)
(***************************************************************************)
EXTENDS Integers, SequencesExt

CONSTANTS
    Nodes,
    Policies,
    None,           \* an absent label
    EmptyNode,      \* PlaceHolderNode
    RollbackOn,     \* policies with Spec.EnableRollback
    Scenarios       \* the lists that the policies start with, and how often
                    \* each outside event may happen

Events == {"add", "remove", "fail", "lag", "crash"}

Lists == Seq(Nodes \cup {EmptyNode})
ProperLists == Seq(Nodes) \cup {<<EmptyNode>>}

ASSUME ListAssumption ==
    /\ IsFiniteSet(Nodes) /\ EmptyNode \notin Nodes
    /\ None \notin Policies \cup Nodes
    /\ RollbackOn \subseteq Policies
    /\ Scenarios \subseteq [start : [Policies -> ProperLists], budget : [Events -> Nat]]

VARIABLES
    lists,      \* Spec.NodeSelector of each policy, at the API server
    cache,      \* the informer's copy of each policy
    active,     \* the activeCR label of each node
    prior,      \* ... priorCR
    blocked,    \* ... aggregationBlocked: the policy the node is moving to
    work,       \* an upgrade of the node is on, or has failed
    op,         \* the reconcile worker
    budget      \* outside events left

nodes == <<active, prior, blocked, work>>
vars == <<lists, cache, nodes, op, budget>>

(* A copy of a policy; stale when the API server has a newer one.          *)
Copies == [list : Lists, stale : BOOLEAN]
NoCopy == [list |-> <<>>, stale |-> FALSE]

(* The worker: the policy object of Reconcile ("held"), the one fetched    *)
(* after aggregation ("mine"), and the walk over the latter's list: "array"*)
(* is the memory that the loop ranges over, "node" the one rolled back.    *)
Workers ==
    [ pc : {"idle", "fill", "aggregate", "walk", "fromPolicy", "restore"},
      policy : Policies \cup {None}, held : Copies, mine : Copies,
      array : Lists, at : Nat, node : Nodes \cup {None} ]

Idle == [ pc |-> "idle", policy |-> None, held |-> NoCopy, mine |-> NoCopy,
          array |-> <<>>, at |-> 0, node |-> None ]

TypeOK ==
    /\ lists \in [Policies -> Lists]
    /\ cache \in [Policies -> Copies]
    /\ active \in [Nodes -> Policies \cup {None}]
    /\ prior \in [Nodes -> Policies \cup {None}]
    /\ blocked \in [Nodes -> Policies \cup {None}]
    /\ work \in [Nodes -> {"none", "upgrading", "failed"}]
    /\ op \in Workers
    /\ budget \in [Events -> Nat]

Init ==
    /\ \E s \in Scenarios : lists = s.start /\ budget = s.budget
    /\ cache = [p \in Policies |-> [list |-> lists[p], stale |-> FALSE]]
    /\ active = [n \in Nodes |-> None] /\ prior = [n \in Nodes |-> None]
    /\ blocked = [n \in Nodes |-> None]
    /\ work = [n \in Nodes |-> "none"]
    /\ op = Idle

-----------------------------------------------------------------------------
(* Lists.  (An operator with a suffix after "_" is a mutated form of the    *)
(* one after it: the runs must find a property violated with it.)          *)

Me == op.policy
Spend(e) == budget[e] > 0 /\ budget' = [budget EXCEPT ![e] = @ - 1]

(* The index the code looks up: that of the first x, or else the first.    *)
IndexOf(l, x) ==
    LET first == {i \in DOMAIN l : l[i] = x /\ \A j \in 1..(i - 1) : l[j] # x}
    IN  IF first = {} THEN 1 ELSE CHOOSE i \in first : TRUE

(* Taking a node off a list.                                               *)
RemoveNode_NoPlaceholder(l, n) == RemoveAt(l, IndexOf(l, n))
RemoveNode_LeavesIt(l, n) == l

RemoveNode(l, n) ==
    LET rest == RemoveAt(l, IndexOf(l, n))
    IN  IF rest = <<>> THEN <<EmptyNode>> ELSE rest

(* Putting a node back on its prior policy's list, in the place of the     *)
(* placeholder.                                                            *)
ReturnNode_KeepsPlaceholder(l, n) == Append(l, n)

ReturnNode(l, n) == Append(RemoveAt(l, IndexOf(l, EmptyNode)), n)

(* The removal is done in place: what follows index i of list l moves up   *)
(* in the memory a that l shares, and the last entry stays as it was.      *)
ShiftedFrom(a, l, i) ==
    [k \in 1..Len(a) |-> IF i <= k /\ k < Len(l) THEN l[k + 1] ELSE a[k]]

(* The informer hears of a write at once or, where the scenario has it,    *)
(* some time later.                                                        *)
WriteList(p, l) ==
    IF l = lists[p] THEN UNCHANGED <<lists, cache>>
    ELSE /\ lists' = [lists EXCEPT ![p] = l]
         /\ \/ cache' = [cache EXCEPT ![p] = [list |-> l, stale |-> FALSE]]
            \/ budget["lag"] > 0 /\ cache' = [cache EXCEPT ![p].stale = TRUE]

(* Update of a copy: refused when the copy is stale.                       *)
TryUpdate(p, copy, l) ==
    IF copy.stale THEN UNCHANGED <<lists, cache>> ELSE WriteList(p, l)

-----------------------------------------------------------------------------
(* A reconcile of policy p, up to the walk over its nodes.                 *)

(* A policy with nothing but the placeholder is left alone.                *)
Reconcile(p) ==
    /\ op.pc = "idle" /\ cache[p].list # <<EmptyNode>>
    /\ op' = [Idle EXCEPT !.pc = "fill", !.policy = p, !.held = cache[p]]
    /\ UNCHANGED <<lists, cache, nodes, budget>>

(* An empty list takes every node without a policy, in the order in which  *)
(* the cache happens to list them; an error of the Update is not looked at.*)
Free == {n \in Nodes : active[n] = None}

Fill ==
    /\ op.pc = "fill"
    /\ IF op.held.list # <<>>
       THEN /\ op' = [op EXCEPT !.pc = "aggregate"]
            /\ UNCHANGED <<lists, cache>>
       ELSE \E l \in SetToSeqs(Free) :
            /\ TryUpdate(Me, op.held, l)
            /\ op' = [op EXCEPT !.pc = "aggregate", !.held.list = l]
    /\ UNCHANGED <<nodes, budget>>

(* Nodes under the policy that its list lacks.  Those found before the     *)
(* first one that is moving away, in an order that is not defined, are     *)
(* added; the walk then starts on the cache's copy.                        *)
Missing_EvenListed == {n \in Nodes : active[n] = Me}

Missing == {n \in Nodes : active[n] = Me} \ ToSet(op.held.list)
Staying == {n \in Missing : blocked[n] = None}
Aggregated_Nothing == {{}}
Aggregated == IF Staying = Missing THEN {Staying} ELSE SUBSET Staying

StartWalk(p, copy) ==
    op' = [op EXCEPT !.pc = "walk", !.held = copy, !.mine = cache'[p],
                     !.array = cache'[p].list, !.at = 1]

Aggregate ==
    /\ op.pc = "aggregate"
    /\ \E K \in Aggregated : \E tail \in SetToSeqs(K) :
          LET l == op.held.list \o tail
          IN  IF K = {}
              THEN UNCHANGED <<lists, cache>> /\ StartWalk(Me, op.held)
              ELSE /\ TryUpdate(Me, op.held, l)
                   /\ IF op.held.stale THEN op' = Idle
                      ELSE StartWalk(Me, [op.held EXCEPT !.list = l])
    /\ UNCHANGED <<nodes, budget>>

-----------------------------------------------------------------------------
(* The walk: one visit to the node at the current index.                   *)

Visiting(n) == op.pc = "walk" /\ op.at <= Len(op.array) /\ op.array[op.at] = n
NextEntry == op' = [op EXCEPT !.pc = "walk", !.at = @ + 1]

(* No such node, not ready, no card, or its pods are coming or going.      *)
Wait ==
    /\ op.pc = "walk" /\ op.at <= Len(op.array)
    /\ NextEntry
    /\ UNCHANGED <<lists, cache, nodes, budget>>

Adopt(n) ==
    /\ Visiting(n) /\ active[n] = None
    /\ active' = [active EXCEPT ![n] = Me] /\ prior' = [prior EXCEPT ![n] = None]
    /\ NextEntry
    /\ UNCHANGED <<lists, cache, blocked, work, budget>>

(* The policy responsible for a node.                                      *)
RunsWith(n, p) == IF blocked[n] # None THEN blocked[n] = p ELSE active[n] = p

RollsBack(n) == work[n] = "failed" /\ Me \in RollbackOn /\ RunsWith(n, Me) /\ prior[n] # None

(* The node is active under another policy: take it off that one's list,   *)
(* whatever comes of the Update, and begin the upgrade.  Taking it off an  *)
(* empty list is an index out of range: the operator panics.               *)
Move(n) ==
    LET cr == active[n]
    IN  /\ Visiting(n) /\ cr \notin {None, Me} /\ blocked[n] = None
        /\ IF cache[cr].list = <<>>
           THEN op' = Idle /\ UNCHANGED <<lists, cache, nodes>>
           ELSE /\ TryUpdate(cr, cache[cr], RemoveNode(cache[cr].list, n))
                /\ blocked' = [blocked EXCEPT ![n] = Me]
                /\ work' = [work EXCEPT ![n] = "upgrading"]
                /\ UNCHANGED <<active, prior, op>>
        /\ UNCHANGED budget

(* The old pods are gone: the version changes hands.                       *)
SwitchVersion(n) ==
    /\ Visiting(n) /\ active[n] \notin {None, Me} /\ blocked[n] # None
    /\ prior' = [prior EXCEPT ![n] = active[n]]
    /\ active' = [active EXCEPT ![n] = Me]
    /\ blocked' = [blocked EXCEPT ![n] = None]
    /\ NextEntry
    /\ UNCHANGED <<lists, cache, work, budget>>

(* Rollback, once the pods are gone: onto the prior policy's list ...      *)
ListUnderPrior(n) ==
    LET copy == cache[prior[n]]
    IN  /\ Visiting(n) /\ RollsBack(n)
        /\ IF copy.list = <<>>
           THEN op' = Idle /\ UNCHANGED <<lists, cache>>
           ELSE /\ TryUpdate(prior[n], copy, ReturnNode(copy.list, n))
                /\ IF copy.stale THEN NextEntry
                   ELSE op' = [op EXCEPT !.pc = "fromPolicy", !.node = n]
        /\ UNCHANGED <<nodes, budget>>

(* ... off this policy's, in the memory the walk ranges over, whatever     *)
(* comes of the Update ...                                                 *)
UnlistFromPolicy ==
    LET l == RemoveNode(op.mine.list, op.node)
    IN  /\ op.pc = "fromPolicy"
        /\ TryUpdate(Me, op.mine, l)
        /\ op' = [op EXCEPT !.pc = "restore", !.mine.list = l,
                    !.held.stale = @ \/ ~op.mine.stale,
                    !.array = ShiftedFrom(@, op.mine.list, IndexOf(op.mine.list, op.node))]
        /\ UNCHANGED <<nodes, budget>>

(* ... and under its prior policy again.                                   *)
RestorePrior ==
    LET n == op.node
    IN  /\ op.pc = "restore"
        /\ active' = [active EXCEPT ![n] = prior[n]]
        /\ prior' = [prior EXCEPT ![n] = None]
        /\ work' = [work EXCEPT ![n] = "none"]
        /\ op' = [op EXCEPT !.pc = "walk", !.at = @ + 1, !.node = None]
        /\ UNCHANGED <<lists, cache, blocked, budget>>

(* The end of a pass: the reconcile ends, or labels again with the policy  *)
(* object it has held since it began.                                      *)
PassEnds ==
    /\ op.pc = "walk" /\ op.at > Len(op.array)
    /\ \/ op' = Idle
       \/ op.held.list # <<>> /\ op' = [Idle EXCEPT !.pc = "fill", !.policy = Me, !.held = op.held]
    /\ UNCHANGED <<lists, cache, nodes, budget>>

-----------------------------------------------------------------------------
(* What happens outside the worker.                                        *)

Sync(p) ==
    /\ cache[p].stale
    /\ cache' = [cache EXCEPT ![p] = [list |-> lists[p], stale |-> FALSE]]
    /\ UNCHANGED <<lists, nodes, op, budget>>

(* A user's edit leaves the worker with old copies of that policy.         *)
UserEdits(p, l) ==
    /\ WriteList(p, l)
    /\ op' = IF Me = p THEN [op EXCEPT !.held.stale = TRUE, !.mine.stale = TRUE] ELSE op
    /\ UNCHANGED nodes

UserLists(p, n) ==
    /\ n \notin ToSet(lists[p]) /\ Spend("add")
    /\ UserEdits(p, IF lists[p] = <<EmptyNode>> THEN <<n>> ELSE Append(lists[p], n))

UserUnlists(p, n) ==
    /\ Spend("remove")
    /\ \E i \in DOMAIN lists[p] :
          lists[p][i] = n /\ UserEdits(p, RemoveAt(lists[p], i))

(* The verdict on an upgraded node: the worker gives it between its walks. *)
Verdict(n) ==
    /\ op.pc \in {"idle", "fill"} /\ work[n] = "upgrading" /\ blocked[n] = None
    /\ \/ work' = [work EXCEPT ![n] = "none"] /\ UNCHANGED budget
       \/ Spend("fail") /\ work' = [work EXCEPT ![n] = "failed"]
    /\ UNCHANGED <<lists, cache, active, prior, blocked, op>>

OperatorCrashes ==
    /\ op.pc # "idle" /\ Spend("crash")
    /\ op' = Idle
    /\ UNCHANGED <<lists, cache, nodes>>

Visits(n) == Adopt(n) \/ Move(n) \/ SwitchVersion(n) \/ ListUnderPrior(n)

WorkerStep ==
    \/ Fill \/ Aggregate \/ Wait \/ UnlistFromPolicy \/ RestorePrior \/ PassEnds
    \/ \E n \in Nodes : Visits(n)

Next ==
    \/ \E p \in Policies : Reconcile(p) \/ Sync(p)
    \/ WorkerStep
    \/ \E p \in Policies, n \in Nodes : UserLists(p, n) \/ UserUnlists(p, n)
    \/ \E n \in Nodes : Verdict(n)
    \/ OperatorCrashes

Spec == Init /\ [][Next]_vars

(* The worker keeps stepping and its passes end; the queue comes back to   *)
(* every policy; the cache catches up; a visit does not wait for ever.     *)
Fairness ==
    /\ WF_vars(WorkerStep)
    /\ SF_vars(PassEnds /\ op'.pc = "idle")
    /\ \A p \in Policies : SF_vars(Reconcile(p)) /\ WF_vars(Sync(p))
    /\ \A n \in Nodes : SF_vars(Verdict(n))
    /\ \A n \in Nodes, p \in Policies : SF_vars(Visits(n) /\ Me = p)

FairSpec == Spec /\ Fairness
=============================================================================
