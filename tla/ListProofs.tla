----------------------------- MODULE ListProofs -----------------------------
(***************************************************************************)
(* The placeholder stands alone and the operator empties no list, for any  *)
(* nodes, policies and events: lagging caches, crashes, failed upgrades    *)
(* and users' edits included.  No list names a node twice, and only listed *)
(* nodes are moved, under the hypotheses that each theorem names.          *)
(*                                                                         *)
(* ListInv ties every copy of a list to the list it was taken from: a copy *)
(* that is not stale is what the API server has.  The worker writes no     *)
(* other copies, so that what it computes from a copy is what the list     *)
(* becomes.                                                                *)
(***************************************************************************)
EXTENDS ListProperties, SequenceTheorems, FiniteSetTheorems, TLAPS

ProperCopies == [list : ProperLists, stale : BOOLEAN]

ProperWorkers ==
    [ pc : {"idle", "fill", "aggregate", "walk", "fromPolicy", "restore"},
      policy : Policies \cup {None}, held : ProperCopies, mine : ProperCopies,
      array : Lists, at : Nat, node : Nodes \cup {None} ]

NodeTypes ==
    /\ active \in [Nodes -> Policies \cup {None}]
    /\ prior \in [Nodes -> Policies \cup {None}]
    /\ blocked \in [Nodes -> Policies \cup {None}]
    /\ work \in [Nodes -> {"none", "upgrading", "failed"}]

ListTypes ==
    /\ lists \in [Policies -> ProperLists]
    /\ cache \in [Policies -> ProperCopies]
    /\ op \in ProperWorkers
    /\ budget \in [Events -> Nat]

(* A copy of p's list that the API server would take an Update of.         *)
Tied(copy, p) == ~copy.stale => copy.list = lists[p]

(* A node to roll back has a prior policy other than the active one.       *)
PriorElsewhere ==
    \A n \in Nodes : /\ prior[n] = active[n] => prior[n] = None
                     /\ work[n] = "failed" => blocked[n] = None

(* The worker's own copies.  The one it holds is never the placeholder     *)
(* alone: such a policy is not taken up.                                   *)
HeldTied == op.pc # "idle" => /\ Me \in Policies
                              /\ Tied(op.held, Me)
                              /\ op.held.list # <<EmptyNode>>

MineTied == op.pc \in {"walk", "fromPolicy", "restore"} => Tied(op.mine, Me)

RolledBackNode == op.pc \in {"fromPolicy", "restore"} => op.node \in Nodes

ListInv ==
    /\ NodeTypes /\ ListTypes /\ PriorElsewhere
    /\ \A p \in Policies : Tied(cache[p], p)
    /\ HeldTied /\ MineTied /\ RolledBackNode

-----------------------------------------------------------------------------
(* Lists.                                                                  *)

LEMMA RemoveAtIsProper ==
    ASSUME NEW S, NEW l \in Seq(S), NEW i \in Nat, i = 1 \/ i \in DOMAIN l
    PROVE  RemoveAt(l, i) \in Seq(S)
<1>1. SubSeq(l, 1, i - 1) \in Seq(S)
  BY SubSeqProperties, LenProperties
<1>2. SubSeq(l, i + 1, Len(l)) \in Seq(S)
  BY SubSeqProperties, LenProperties
<1>. QED BY <1>1, <1>2, ConcatProperties DEF RemoveAt

LEMMA IndexIsProper ==
    ASSUME NEW S, NEW l \in Seq(S), NEW x
    PROVE  /\ IndexOf(l, x) \in Nat
           /\ IndexOf(l, x) = 1 \/ IndexOf(l, x) \in DOMAIN l
<1>. DEFINE first == {i \in DOMAIN l : l[i] = x /\ \A j \in 1..(i - 1) : l[j] # x}
<1>1. CASE first = {} BY <1>1 DEF IndexOf
<1>2. CASE first # {}
  <2>1. IndexOf(l, x) \in first BY <1>2 DEF IndexOf
  <2>. QED BY <2>1, LenProperties
<1>. QED BY <1>1, <1>2

LEMMA ProperIsList == ProperLists \subseteq Lists
<1>1. Seq(Nodes) \subseteq Lists BY SeqMonotonic DEF Lists
<1>2. <<EmptyNode>> \in Lists BY DEF Lists
<1>. QED BY <1>1, <1>2 DEF ProperLists

LEMMA LoneNode == \A l \in Seq(Nodes) : l # <<EmptyNode>>
<1>. SUFFICES ASSUME NEW l \in Seq(Nodes), l = <<EmptyNode>> PROVE FALSE
  OBVIOUS
<1>1. Len(l) = 1 /\ l[1] = EmptyNode OBVIOUS
<1>2. l[1] \in Nodes BY <1>1, ElementOfSeq
<1>. QED BY <1>1, <1>2, ListAssumption

(* Taking a node off a list leaves nodes, or the placeholder alone.        *)
LEMMA RemoveNodeIsProper ==
    ASSUME NEW l \in ProperLists, NEW n
    PROVE  RemoveNode(l, n) \in ProperLists \ {<<>>}
<1>. DEFINE rest == RemoveAt(l, IndexOf(l, n))
<1>1. rest \in ProperLists
  <2>1. CASE l \in Seq(Nodes)
    BY <2>1, IndexIsProper, RemoveAtIsProper DEF ProperLists
  <2>2. CASE l = <<EmptyNode>>
    <3>1. l \in Seq({EmptyNode}) /\ DOMAIN l = {1} BY <2>2
    <3>2. IndexOf(l, n) = 1 BY <3>1, IndexIsProper
    <3>3. rest = SubSeq(l, 1, 0) \o SubSeq(l, 2, 1) BY <2>2, <3>2 DEF RemoveAt
    <3>4. rest = <<>> BY <3>3, SubSeqEmpty, ConcatEmptySeq, EmptySeq
    <3>. QED BY <3>4, EmptySeq DEF ProperLists
  <2>. QED BY <2>1, <2>2 DEF ProperLists
<1>2. <<EmptyNode>> # <<>> OBVIOUS
<1>. QED BY <1>1, <1>2 DEF RemoveNode, ProperLists

(* Putting a node back leaves nodes only.                                  *)
LEMMA ReturnNodeIsProper ==
    ASSUME NEW l \in ProperLists, NEW n \in Nodes
    PROVE  ReturnNode(l, n) \in Seq(Nodes) \ {<<>>}
<1>. DEFINE rest == RemoveAt(l, IndexOf(l, EmptyNode))
<1>1. rest \in Seq(Nodes)
  <2>1. CASE l \in Seq(Nodes)
    BY <2>1, IndexIsProper, RemoveAtIsProper
  <2>2. CASE l = <<EmptyNode>>
    <3>1. l \in Seq({EmptyNode}) /\ DOMAIN l = {1} BY <2>2
    <3>2. IndexOf(l, EmptyNode) = 1 BY <3>1, IndexIsProper
    <3>3. rest = SubSeq(l, 1, 0) \o SubSeq(l, 2, 1) BY <2>2, <3>2 DEF RemoveAt
    <3>4. rest = <<>> BY <3>3, SubSeqEmpty, ConcatEmptySeq, EmptySeq
    <3>. QED BY <3>4, EmptySeq
  <2>. QED BY <2>1, <2>2 DEF ProperLists
<1>. QED BY <1>1, AppendProperties DEF ReturnNode

LEMMA SetToSeqsIsProper ==
    ASSUME NEW K \in SUBSET Nodes
    PROVE  /\ SetToSeqs(K) \subseteq Seq(Nodes)
           /\ K # {} => <<>> \notin SetToSeqs(K)
<1>1. IsFiniteSet(K) BY ListAssumption, FS_Subset
<1>2. Cardinality(K) \in Nat BY <1>1, FS_CardinalityType
<1>3. K # {} => Cardinality(K) # 0 BY <1>1, FS_EmptySet
<1>4. \A s \in SetToSeqs(K) : s \in Seq(Nodes) /\ Len(s) = Cardinality(K)
  BY <1>2 DEF SetToSeqs
<1>. QED BY <1>3, <1>4

LEMMA ShiftedIsList ==
    ASSUME NEW a \in Lists, NEW l \in ProperLists, NEW i \in Nat, i > 0
    PROVE  ShiftedFrom(a, l, i) \in Lists
<1>1. Len(a) \in Nat /\ l \in Lists BY ProperIsList DEF Lists
<1>2. \A k \in 1..Len(a) : a[k] \in Nodes \cup {EmptyNode}
  BY ElementOfSeq DEF Lists
<1>3. \A k \in 1..Len(l) : l[k] \in Nodes \cup {EmptyNode}
  BY <1>1, ElementOfSeq DEF Lists
<1>4. Len(l) \in Nat BY <1>1 DEF Lists
<1>. QED BY <1>1, <1>2, <1>3, <1>4 DEF ShiftedFrom, Lists

LEMMA JoinIsProper ==
    ASSUME NEW l \in ProperLists, l # <<EmptyNode>>, NEW s \in Seq(Nodes)
    PROVE  /\ l \o s \in Seq(Nodes)
           /\ s # <<>> => l \o s # <<>>
BY ConcatProperties, ConcatEqualIffEmpty DEF ProperLists

-----------------------------------------------------------------------------
(* Writes.  A write keeps the copies it does not supersede tied.           *)

LEMMA WriteKeepsCache ==
    ASSUME ListInv, NEW p \in Policies, NEW l \in ProperLists, WriteList(p, l)
    PROVE  /\ lists' \in [Policies -> ProperLists]
           /\ cache' \in [Policies -> ProperCopies]
           /\ lists' = [lists EXCEPT ![p] = l]
           /\ \A q \in Policies : Tied(cache[q], q)'
<1>1. CASE l = lists[p]
  <2>1. UNCHANGED <<lists, cache>> BY <1>1 DEF WriteList
  <2>. QED BY <1>1, <2>1 DEF ListInv, ListTypes, Tied
<1>2. CASE l # lists[p]
  <2>1. lists' = [lists EXCEPT ![p] = l] BY <1>2 DEF WriteList
  <2>2. CASE cache' = [cache EXCEPT ![p] = [list |-> l, stale |-> FALSE]]
    BY <2>1, <2>2 DEF ListInv, ListTypes, Tied, ProperCopies
  <2>3. CASE cache' = [cache EXCEPT ![p].stale = TRUE]
    BY <2>1, <2>3 DEF ListInv, ListTypes, Tied, ProperCopies
  <2>. QED BY <1>2, <2>2, <2>3 DEF WriteList
<1>. QED BY <1>1, <1>2

LEMMA UpdateKeepsCache ==
    ASSUME ListInv, NEW p \in Policies, NEW copy, NEW l \in ProperLists, TryUpdate(p, copy, l)
    PROVE  /\ lists' \in [Policies -> ProperLists]
           /\ cache' \in [Policies -> ProperCopies]
           /\ lists' = IF copy.stale THEN lists ELSE [lists EXCEPT ![p] = l]
           /\ \A q \in Policies : Tied(cache[q], q)'
<1>1. CASE copy.stale
  <2>1. UNCHANGED <<lists, cache>> BY <1>1 DEF TryUpdate
  <2>. QED BY <1>1, <2>1 DEF ListInv, ListTypes, Tied
<1>2. CASE ~copy.stale BY <1>2, WriteKeepsCache DEF TryUpdate
<1>. QED BY <1>1, <1>2
-----------------------------------------------------------------------------
(* The worker's steps.                                                     *)

NoneEmptied == \A p \in Policies : lists'[p] = <<>> => lists[p] = <<>>

LEMMA IdleIsProper == Idle \in ProperWorkers /\ Idle.pc = "idle"
<1>1. <<>> \in ProperLists /\ <<>> \in Lists BY EmptySeq DEF ProperLists, Lists
<1>. QED BY <1>1 DEF Idle, NoCopy, ProperWorkers, ProperCopies

(* A step that writes no list, and goes idle or moves on with its copies.  *)
LEMMA NoWrite ==
    ASSUME ListInv, UNCHANGED <<lists, cache>>, NodeTypes', PriorElsewhere',
           budget' \in [Events -> Nat], op' \in ProperWorkers,
           \/ op'.pc = "idle"
           \/ /\ op.pc # "idle" /\ Me' = Me /\ op'.held = op.held
              /\ \/ op'.pc \in {"fill", "aggregate"}
                 \/ /\ op.pc \in {"walk", "fromPolicy", "restore"}
                    /\ op'.pc = "walk" /\ op'.mine = op.mine
    PROVE  ListInv' /\ NoneEmptied
BY DEF ListInv, ListTypes, Tied, HeldTied, MineTied, RolledBackNode, Me, NoneEmptied

LEMMA ReconcileKeeps == ListInv /\ (\E p \in Policies : Reconcile(p)) => ListInv'
<1>. SUFFICES ASSUME ListInv, NEW p \in Policies, Reconcile(p) PROVE ListInv'
  OBVIOUS
<1>1. op' \in ProperWorkers /\ op'.pc = "fill" /\ Me' = p /\ op'.held = cache[p]
  BY IdleIsProper DEF Reconcile, ListInv, ListTypes, ProperWorkers, Idle, Me
<1>. QED BY <1>1 DEF Reconcile, ListInv, ListTypes, NodeTypes, PriorElsewhere, Tied,
                     HeldTied, MineTied, RolledBackNode, nodes, Me

LEMMA FillKeeps == ListInv /\ Fill => ListInv' /\ NoneEmptied
<1>. SUFFICES ASSUME ListInv, Fill PROVE ListInv' /\ NoneEmptied
  OBVIOUS
<1>0. /\ op \in ProperWorkers /\ Me \in Policies /\ Tied(op.held, Me)
      /\ op.pc = "fill" /\ op.held.list # <<EmptyNode>>
  BY DEF Fill, ListInv, ListTypes, HeldTied
<1>1. CASE op.held.list # <<>>
  <2>1. op' = [op EXCEPT !.pc = "aggregate"] /\ UNCHANGED <<lists, cache, nodes, budget>>
    BY <1>1 DEF Fill
  <2>2. op' \in ProperWorkers /\ op'.pc = "aggregate" /\ Me' = Me /\ op'.held = op.held
    BY <1>0, <2>1 DEF ProperWorkers, Me
  <2>3. NodeTypes' /\ PriorElsewhere' /\ budget' \in [Events -> Nat]
    BY <2>1 DEF ListInv, ListTypes, NodeTypes, PriorElsewhere, nodes
  <2>. QED BY <1>0, <2>1, <2>2, <2>3, NoWrite
<1>2. CASE op.held.list = <<>>
  <2>1. PICK l \in SetToSeqs(Free) :
          /\ TryUpdate(Me, op.held, l)
          /\ op' = [op EXCEPT !.pc = "aggregate", !.held.list = l]
    BY <1>2 DEF Fill
  <2>2. l \in Seq(Nodes) BY SetToSeqsIsProper DEF Free
  <2>3. l \in ProperLists /\ l # <<EmptyNode>> BY <2>2, LoneNode DEF ProperLists
  <2>4. /\ lists' \in [Policies -> ProperLists] /\ cache' \in [Policies -> ProperCopies]
        /\ lists' = IF op.held.stale THEN lists ELSE [lists EXCEPT ![Me] = l]
        /\ \A q \in Policies : Tied(cache[q], q)'
    BY <1>0, <2>1, <2>3, UpdateKeepsCache
  <2>5. /\ op' \in ProperWorkers /\ op'.pc = "aggregate" /\ Me' = Me
        /\ op'.held = [op.held EXCEPT !.list = l]
    BY <1>0, <2>1, <2>3 DEF ProperWorkers, ProperCopies, Me
  <2>6. /\ op.held \in ProperCopies
        /\ op'.held.stale = op.held.stale /\ op'.held.list = l
    BY <1>0, <2>5 DEF ProperWorkers, ProperCopies
  <2>7. HeldTied'
    BY <1>0, <2>3, <2>4, <2>5, <2>6 DEF HeldTied, Tied, ListInv, ListTypes
  <2>8. NoneEmptied
    BY <1>0, <1>2, <2>4 DEF NoneEmptied, Tied, ListInv, ListTypes
  <2>9. NodeTypes' /\ PriorElsewhere' /\ budget' \in [Events -> Nat]
    BY DEF Fill, ListInv, ListTypes, NodeTypes, PriorElsewhere, nodes
  <2>. QED BY <2>4, <2>5, <2>7, <2>8, <2>9 DEF ListInv, ListTypes, MineTied, RolledBackNode
<1>. QED BY <1>1, <1>2

(* The walk starts on a copy of the cache, with the copy it was given.     *)
LEMMA StartWalkKeeps ==
    ASSUME op \in ProperWorkers, op.pc # "idle", Me \in Policies,
           cache' \in [Policies -> ProperCopies],
           \A q \in Policies : Tied(cache[q], q)',
           NEW copy \in ProperCopies, copy.list # <<EmptyNode>>,
           ~copy.stale => copy.list = lists'[Me],
           StartWalk(Me, copy)
    PROVE  op' \in ProperWorkers /\ HeldTied' /\ MineTied' /\ RolledBackNode'
<1>1. cache'[Me] \in ProperCopies /\ cache'[Me].list \in Lists
  BY ProperIsList DEF ProperCopies
<1>2. /\ op' \in ProperWorkers /\ op'.pc = "walk" /\ Me' = Me
      /\ op'.held = copy /\ op'.mine = cache'[Me]
  BY <1>1 DEF StartWalk, ProperWorkers, Me
<1>. QED BY <1>2 DEF HeldTied, MineTied, RolledBackNode, Tied

LEMMA AggregateKeeps == ListInv /\ Aggregate => ListInv' /\ NoneEmptied
<1>. SUFFICES ASSUME ListInv, Aggregate PROVE ListInv' /\ NoneEmptied
  OBVIOUS
<1>0. /\ op \in ProperWorkers /\ Me \in Policies /\ Tied(op.held, Me)
      /\ op.pc = "aggregate" /\ op.held.list # <<EmptyNode>>
      /\ op.held \in ProperCopies
  BY DEF Aggregate, ListInv, ListTypes, HeldTied, ProperWorkers
<1>. DEFINE Step(K, tail) ==
        IF K = {}
        THEN UNCHANGED <<lists, cache>> /\ StartWalk(Me, op.held)
        ELSE /\ TryUpdate(Me, op.held, op.held.list \o tail)
             /\ IF op.held.stale THEN op' = Idle
                ELSE StartWalk(Me, [op.held EXCEPT !.list = op.held.list \o tail])
<1>a. PICK K \in Aggregated : \E tail \in SetToSeqs(K) : Step(K, tail)
  BY DEF Aggregate
<1>1. PICK tail \in SetToSeqs(K) : Step(K, tail) BY <1>a
<1>2. K \in SUBSET Nodes BY DEF Aggregated, Staying, Missing
<1>3. tail \in Seq(Nodes) /\ (K # {} => tail # <<>>) BY <1>2, SetToSeqsIsProper
<1>4. NodeTypes' /\ PriorElsewhere' /\ budget' \in [Events -> Nat]
  BY DEF Aggregate, ListInv, ListTypes, NodeTypes, PriorElsewhere, nodes
<1>5. CASE K = {}
  <2>1. UNCHANGED <<lists, cache>> /\ StartWalk(Me, op.held) BY <1>1, <1>5
  <2>2. cache' \in [Policies -> ProperCopies] /\ \A q \in Policies : Tied(cache[q], q)'
    BY <2>1 DEF ListInv, ListTypes, Tied
  <2>3. ~op.held.stale => op.held.list = lists'[Me] BY <1>0, <2>1 DEF Tied
  <2>4. op' \in ProperWorkers /\ HeldTied' /\ MineTied' /\ RolledBackNode'
    BY <1>0, <2>1, <2>2, <2>3, StartWalkKeeps
  <2>5. lists' \in [Policies -> ProperLists] /\ NoneEmptied
    BY <2>1 DEF ListInv, ListTypes, NoneEmptied
  <2>. QED BY <1>4, <2>2, <2>4, <2>5 DEF ListInv, ListTypes
<1>6. CASE K # {}
  <2>. DEFINE l == op.held.list \o tail
  <2>1. op.held.list \in ProperLists BY <1>0 DEF ProperCopies
  <2>2. l \in Seq(Nodes) /\ l # <<>> BY <1>0, <1>3, <1>6, <2>1, JoinIsProper
  <2>3. l \in ProperLists /\ l # <<EmptyNode>> BY <2>2, LoneNode DEF ProperLists
  <2>4. /\ lists' \in [Policies -> ProperLists] /\ cache' \in [Policies -> ProperCopies]
        /\ lists' = IF op.held.stale THEN lists ELSE [lists EXCEPT ![Me] = l]
        /\ \A q \in Policies : Tied(cache[q], q)'
    BY <1>0, <1>1, <1>6, <2>3, UpdateKeepsCache
  <2>5. NoneEmptied BY <2>2, <2>4 DEF NoneEmptied, ListInv, ListTypes
  <2>6. CASE op.held.stale
    <3>1. op' = Idle BY <1>1, <1>6, <2>6
    <3>2. op' \in ProperWorkers /\ HeldTied' /\ MineTied' /\ RolledBackNode'
      BY <3>1, IdleIsProper DEF HeldTied, MineTied, RolledBackNode
    <3>. QED BY <1>4, <2>4, <2>5, <3>2 DEF ListInv, ListTypes
  <2>7. CASE ~op.held.stale
    <3>. DEFINE copy == [op.held EXCEPT !.list = l]
    <3>1. copy \in ProperCopies /\ copy.list = l BY <1>0, <2>3 DEF ProperCopies
    <3>2. copy.list = lists'[Me] BY <1>0, <2>4, <2>7, <3>1 DEF ListInv, ListTypes
    <3>3. StartWalk(Me, copy) BY <1>1, <1>6, <2>7
    <3>4. op' \in ProperWorkers /\ HeldTied' /\ MineTied' /\ RolledBackNode'
      BY <1>0, <2>3, <2>4, <3>1, <3>2, <3>3, StartWalkKeeps
    <3>. QED BY <1>4, <2>4, <2>5, <3>4 DEF ListInv, ListTypes
  <2>. QED BY <2>6, <2>7
<1>. QED BY <1>5, <1>6
(* The walk moves on, whatever becomes of the labels.                      *)
LEMMA NextEntryTypes ==
    ASSUME op \in ProperWorkers, NextEntry
    PROVE  /\ op' \in ProperWorkers /\ op'.pc = "walk" /\ Me' = Me
           /\ op'.held = op.held /\ op'.mine = op.mine
<1>. DEFINE next == op.at + 1
<1>1. next \in Nat BY DEF ProperWorkers
<1>2. op' = [op EXCEPT !.pc = "walk", !.at = next] BY DEF NextEntry
<1>. HIDE DEF next
<1>. QED BY <1>1, <1>2 DEF ProperWorkers, Me

LEMMA VisitIsLabels ==
    ASSUME ListInv, op.pc = "walk", NextEntry, UNCHANGED <<lists, cache, budget>>,
           NodeTypes', PriorElsewhere'
    PROVE  ListInv' /\ NoneEmptied
<1>1. op \in ProperWorkers /\ budget' \in [Events -> Nat] BY DEF ListInv, ListTypes
<1>. QED BY <1>1, NextEntryTypes, NoWrite

LEMMA WaitKeeps == ListInv /\ Wait => ListInv' /\ NoneEmptied
<1>. SUFFICES ASSUME ListInv, Wait PROVE ListInv' /\ NoneEmptied
  OBVIOUS
<1>1. NodeTypes' /\ PriorElsewhere' BY DEF Wait, ListInv, NodeTypes, PriorElsewhere, nodes
<1>. QED BY <1>1, VisitIsLabels DEF Wait

LEMMA AdoptKeeps == ASSUME NEW n \in Nodes PROVE ListInv /\ Adopt(n) => ListInv' /\ NoneEmptied
<1>. SUFFICES ASSUME ListInv, Adopt(n) PROVE ListInv' /\ NoneEmptied
  OBVIOUS
<1>1. op.pc = "walk" /\ Me \in Policies BY DEF Adopt, Visiting, ListInv, HeldTied
<1>2. NodeTypes' /\ PriorElsewhere'
  BY <1>1, ListAssumption DEF Adopt, ListInv, NodeTypes, PriorElsewhere
<1>. QED BY <1>1, <1>2, VisitIsLabels DEF Adopt

LEMMA SwitchVersionKeeps ==
    ASSUME NEW n \in Nodes
    PROVE  ListInv /\ SwitchVersion(n) => ListInv' /\ NoneEmptied
<1>. SUFFICES ASSUME ListInv, SwitchVersion(n) PROVE ListInv' /\ NoneEmptied
  OBVIOUS
<1>1. op.pc = "walk" /\ Me \in Policies BY DEF SwitchVersion, Visiting, ListInv, HeldTied
<1>2. NodeTypes' /\ PriorElsewhere'
  BY <1>1 DEF SwitchVersion, ListInv, NodeTypes, PriorElsewhere
<1>. QED BY <1>1, <1>2, VisitIsLabels DEF SwitchVersion

LEMMA MoveKeeps == ASSUME NEW n \in Nodes PROVE ListInv /\ Move(n) => ListInv' /\ NoneEmptied
<1>. SUFFICES ASSUME ListInv, Move(n) PROVE ListInv' /\ NoneEmptied
  OBVIOUS
<1>. DEFINE cr == active[n]
            l == RemoveNode(cache[cr].list, n)
<1>1. /\ op.pc = "walk" /\ Me \in Policies /\ op \in ProperWorkers
      /\ cr \in Policies /\ cr # Me /\ budget' \in [Events -> Nat]
  BY DEF Move, Visiting, ListInv, ListTypes, HeldTied, NodeTypes
<1>2. CASE cache[cr].list = <<>>
  <2>1. op' = Idle /\ UNCHANGED <<lists, cache, nodes>> BY <1>2 DEF Move
  <2>2. NodeTypes' /\ PriorElsewhere' BY <2>1 DEF ListInv, NodeTypes, PriorElsewhere, nodes
  <2>. QED BY <1>1, <2>1, <2>2, IdleIsProper, NoWrite
<1>3. CASE cache[cr].list # <<>>
  <2>1. /\ TryUpdate(cr, cache[cr], l) /\ UNCHANGED <<active, prior, op>>
        /\ blocked' = [blocked EXCEPT ![n] = Me]
        /\ work' = [work EXCEPT ![n] = "upgrading"]
    BY <1>3 DEF Move
  <2>2. l \in ProperLists \ {<<>>}
    BY <1>1, RemoveNodeIsProper DEF ListInv, ListTypes, ProperCopies
  <2>3. /\ lists' \in [Policies -> ProperLists] /\ cache' \in [Policies -> ProperCopies]
        /\ lists' = IF cache[cr].stale THEN lists ELSE [lists EXCEPT ![cr] = l]
        /\ \A q \in Policies : Tied(cache[q], q)'
    BY <1>1, <2>1, <2>2, UpdateKeepsCache
  <2>4. NoneEmptied BY <2>2, <2>3 DEF NoneEmptied, ListInv, ListTypes
  <2>5. lists'[Me] = lists[Me] BY <1>1, <2>3 DEF ListInv, ListTypes
  <2>6. HeldTied' /\ MineTied' /\ RolledBackNode'
    BY <1>1, <2>1, <2>5 DEF ListInv, HeldTied, MineTied, RolledBackNode, Tied, Me
  <2>7. NodeTypes' /\ PriorElsewhere'
    BY <1>1, <2>1 DEF ListInv, NodeTypes, PriorElsewhere
  <2>. QED BY <1>1, <2>1, <2>3, <2>4, <2>6, <2>7 DEF ListInv, ListTypes
<1>. QED BY <1>2, <1>3

LEMMA ListUnderPriorKeeps ==
    ASSUME NEW n \in Nodes
    PROVE  ListInv /\ ListUnderPrior(n) => ListInv' /\ NoneEmptied
<1>. SUFFICES ASSUME ListInv, ListUnderPrior(n) PROVE ListInv' /\ NoneEmptied
  OBVIOUS
<1>. DEFINE copy == cache[prior[n]]
            l == ReturnNode(copy.list, n)
<1>1. /\ op.pc = "walk" /\ Me \in Policies /\ op \in ProperWorkers
      /\ budget' \in [Events -> Nat] /\ RollsBack(n)
  BY DEF ListUnderPrior, Visiting, ListInv, ListTypes, HeldTied
<1>2. prior[n] \in Policies /\ prior[n] # Me
  BY <1>1 DEF RollsBack, RunsWith, ListInv, NodeTypes, PriorElsewhere
<1>3. NodeTypes' /\ PriorElsewhere'
  BY DEF ListUnderPrior, nodes, ListInv, NodeTypes, PriorElsewhere
<1>4. CASE copy.list = <<>>
  <2>1. op' = Idle /\ UNCHANGED <<lists, cache>> BY <1>4 DEF ListUnderPrior
  <2>. QED BY <1>1, <1>3, <2>1, IdleIsProper, NoWrite
<1>5. CASE copy.list # <<>>
  <2>1. /\ TryUpdate(prior[n], copy, l)
        /\ IF copy.stale THEN NextEntry
           ELSE op' = [op EXCEPT !.pc = "fromPolicy", !.node = n]
    BY <1>5 DEF ListUnderPrior
  <2>2. l \in Seq(Nodes) \ {<<>>}
    BY <1>2, ReturnNodeIsProper DEF ListInv, ListTypes, ProperCopies
  <2>3. /\ lists' \in [Policies -> ProperLists] /\ cache' \in [Policies -> ProperCopies]
        /\ lists' = IF copy.stale THEN lists ELSE [lists EXCEPT ![prior[n]] = l]
        /\ \A q \in Policies : Tied(cache[q], q)'
    BY <1>2, <2>1, <2>2, UpdateKeepsCache DEF ProperLists
  <2>4. NoneEmptied BY <2>2, <2>3 DEF NoneEmptied, ListInv, ListTypes
  <2>5. lists'[Me] = lists[Me] BY <1>1, <1>2, <2>3 DEF ListInv, ListTypes
  <2>6. /\ op' \in ProperWorkers /\ Me' = Me /\ op'.held = op.held
        /\ op'.mine = op.mine /\ op'.pc \in {"walk", "fromPolicy"}
        /\ op'.pc = "fromPolicy" => op'.node \in Nodes
    <3>1. CASE copy.stale BY <1>1, <2>1, <3>1, NextEntryTypes
    <3>2. CASE ~copy.stale BY <1>1, <2>1, <3>2 DEF ProperWorkers, Me
    <3>. QED BY <3>1, <3>2
  <2>7. HeldTied' /\ MineTied' /\ RolledBackNode'
    BY <1>1, <2>5, <2>6 DEF ListInv, HeldTied, MineTied, RolledBackNode, Tied
  <2>. QED BY <1>1, <1>3, <2>3, <2>4, <2>6, <2>7 DEF ListInv, ListTypes
<1>. QED BY <1>4, <1>5

LEMMA UnlistFromPolicyKeeps == ListInv /\ UnlistFromPolicy => ListInv' /\ NoneEmptied
<1>. SUFFICES ASSUME ListInv, UnlistFromPolicy PROVE ListInv' /\ NoneEmptied
  OBVIOUS
<1>. DEFINE l == RemoveNode(op.mine.list, op.node)
            i == IndexOf(op.mine.list, op.node)
<1>1. /\ op.pc = "fromPolicy" /\ Me \in Policies /\ op \in ProperWorkers
      /\ op.node \in Nodes /\ op.held.list # <<EmptyNode>> /\ Tied(op.held, Me)
      /\ op.held \in ProperCopies /\ op.mine \in ProperCopies /\ op.array \in Lists
  BY DEF UnlistFromPolicy, ListInv, ListTypes, HeldTied, RolledBackNode, ProperWorkers
<1>2. l \in ProperLists \ {<<>>} BY <1>1, RemoveNodeIsProper DEF ProperCopies
<1>3. i \in Nat /\ i > 0
  <2>1. op.mine.list \in Seq(Nodes \cup {EmptyNode})
    BY <1>1, ProperIsList DEF ProperCopies, Lists
  <2>. QED BY <2>1, IndexIsProper, LenProperties
<1>4. ShiftedFrom(op.array, op.mine.list, i) \in Lists
  BY <1>1, <1>3, ShiftedIsList DEF ProperCopies
<1>5. /\ TryUpdate(Me, op.mine, l) /\ UNCHANGED <<nodes, budget>>
      /\ op' = [op EXCEPT !.pc = "restore", !.mine.list = l,
                   !.held.stale = op.held.stale \/ ~op.mine.stale,
                   !.array = ShiftedFrom(op.array, op.mine.list, i)]
  BY <1>1 DEF UnlistFromPolicy, ProperWorkers
<1>6. /\ lists' \in [Policies -> ProperLists] /\ cache' \in [Policies -> ProperCopies]
      /\ lists' = IF op.mine.stale THEN lists ELSE [lists EXCEPT ![Me] = l]
      /\ \A q \in Policies : Tied(cache[q], q)'
  BY <1>1, <1>2, <1>5, UpdateKeepsCache
<1>7. NoneEmptied BY <1>2, <1>6 DEF NoneEmptied, ListInv, ListTypes
<1>8. /\ op' \in ProperWorkers /\ op'.pc = "restore" /\ Me' = Me /\ op'.node = op.node
      /\ op'.mine = [op.mine EXCEPT !.list = l]
      /\ op'.held = [op.held EXCEPT !.stale = op.held.stale \/ ~op.mine.stale]
  BY <1>1, <1>2, <1>4, <1>5 DEF ProperWorkers, ProperCopies, Me
<1>9. HeldTied'
  <2>1. op'.held.list = op.held.list /\ (~op'.held.stale => ~op.held.stale /\ op.mine.stale)
    BY <1>1, <1>8 DEF ProperCopies
  <2>. QED BY <1>1, <1>6, <1>8, <2>1 DEF HeldTied, Tied
<1>10. MineTied'
  <2>1. op'.mine.list = l /\ op'.mine.stale = op.mine.stale BY <1>1, <1>8 DEF ProperCopies
  <2>. QED BY <1>1, <1>6, <1>8, <2>1 DEF MineTied, Tied, ListInv, ListTypes
<1>11. NodeTypes' /\ PriorElsewhere' /\ budget' \in [Events -> Nat]
  BY <1>5 DEF nodes, ListInv, ListTypes, NodeTypes, PriorElsewhere
<1>. QED BY <1>1, <1>6, <1>7, <1>8, <1>9, <1>10, <1>11 DEF ListInv, ListTypes, RolledBackNode

LEMMA RestorePriorKeeps == ListInv /\ RestorePrior => ListInv' /\ NoneEmptied
<1>. SUFFICES ASSUME ListInv, RestorePrior PROVE ListInv' /\ NoneEmptied
  OBVIOUS
<1>1. op.pc = "restore" /\ op.node \in Nodes /\ op \in ProperWorkers
  BY DEF RestorePrior, ListInv, ListTypes, RolledBackNode
<1>2. /\ op' \in ProperWorkers /\ op'.pc = "walk" /\ Me' = Me
      /\ op'.held = op.held /\ op'.mine = op.mine
  <2>. DEFINE next == op.at + 1
  <2>1. next \in Nat BY <1>1 DEF ProperWorkers
  <2>2. op' = [op EXCEPT !.pc = "walk", !.at = next, !.node = None] BY DEF RestorePrior
  <2>. HIDE DEF next
  <2>. QED BY <1>1, <2>1, <2>2 DEF ProperWorkers, Me
<1>3. NodeTypes' /\ PriorElsewhere'
  BY <1>1 DEF RestorePrior, ListInv, NodeTypes, PriorElsewhere
<1>4. UNCHANGED <<lists, cache>> /\ budget' \in [Events -> Nat]
  BY DEF RestorePrior, ListInv, ListTypes
<1>. QED BY <1>1, <1>2, <1>3, <1>4, NoWrite

LEMMA PassEndsKeeps == ListInv /\ PassEnds => ListInv' /\ NoneEmptied
<1>. SUFFICES ASSUME ListInv, PassEnds PROVE ListInv' /\ NoneEmptied
  OBVIOUS
<1>1. /\ op.pc = "walk" /\ Me \in Policies /\ op \in ProperWorkers
      /\ UNCHANGED <<lists, cache, nodes, budget>>
  BY DEF PassEnds, ListInv, ListTypes, HeldTied
<1>2. NodeTypes' /\ PriorElsewhere' /\ budget' \in [Events -> Nat]
  BY <1>1 DEF nodes, ListInv, ListTypes, NodeTypes, PriorElsewhere
<1>3. CASE op' = Idle BY <1>1, <1>2, <1>3, IdleIsProper, NoWrite
<1>4. CASE op' = [Idle EXCEPT !.pc = "fill", !.policy = Me, !.held = op.held]
  <2>1. op' \in ProperWorkers /\ op'.pc = "fill" /\ Me' = Me /\ op'.held = op.held
    BY <1>1, <1>4, IdleIsProper DEF ProperWorkers, Me, Idle
  <2>. QED BY <1>1, <1>2, <2>1, NoWrite
<1>. QED BY <1>3, <1>4 DEF PassEnds

-----------------------------------------------------------------------------
(* Outside the worker.                                                     *)

LEMMA SyncKeeps == ASSUME NEW p \in Policies PROVE ListInv /\ Sync(p) => ListInv'
BY DEF Sync, ListInv, ListTypes, NodeTypes, PriorElsewhere, ProperCopies, Tied,
       HeldTied, MineTied, RolledBackNode, nodes, Me

LEMMA UserEditKeeps ==
    ASSUME ListInv, NEW p \in Policies, NEW l \in ProperLists, UserEdits(p, l),
           budget' \in [Events -> Nat]
    PROVE  ListInv'
<1>1. /\ lists' \in [Policies -> ProperLists] /\ cache' \in [Policies -> ProperCopies]
      /\ lists' = [lists EXCEPT ![p] = l]
      /\ \A q \in Policies : Tied(cache[q], q)'
  BY WriteKeepsCache DEF UserEdits
<1>2. NodeTypes' /\ PriorElsewhere'
  BY DEF UserEdits, nodes, ListInv, NodeTypes, PriorElsewhere
<1>3. op \in ProperWorkers BY DEF ListInv, ListTypes
<1>4. CASE Me = p
  <2>1. /\ op' \in ProperWorkers /\ op'.pc = op.pc /\ Me' = Me /\ op'.node = op.node
        /\ op'.held = [op.held EXCEPT !.stale = TRUE]
        /\ op'.mine = [op.mine EXCEPT !.stale = TRUE]
    BY <1>3, <1>4 DEF UserEdits, ProperWorkers, ProperCopies, Me
  <2>2. op'.held.stale /\ op'.held.list = op.held.list /\ op'.mine.stale
    BY <1>3, <2>1 DEF ProperWorkers, ProperCopies
  <2>3. HeldTied' /\ MineTied' /\ RolledBackNode'
    BY <2>1, <2>2 DEF ListInv, HeldTied, MineTied, RolledBackNode, Tied
  <2>. QED BY <1>1, <1>2, <2>1, <2>3 DEF ListInv, ListTypes
<1>5. CASE Me # p
  <2>1. op' = op BY <1>5 DEF UserEdits
  <2>2. op.pc # "idle" => lists'[Me] = lists[Me]
    BY <1>1, <1>5 DEF ListInv, ListTypes, HeldTied
  <2>3. HeldTied' /\ MineTied' /\ RolledBackNode'
    BY <2>1, <2>2 DEF ListInv, HeldTied, MineTied, RolledBackNode, Tied, Me
  <2>. QED BY <1>1, <1>2, <2>1, <2>3 DEF ListInv, ListTypes
<1>. QED BY <1>4, <1>5

LEMMA SpendTypes ==
    ASSUME ListInv, NEW e \in Events, Spend(e)
    PROVE  budget' \in [Events -> Nat]
BY DEF Spend, ListInv, ListTypes

LEMMA UserListsKeeps ==
    ASSUME NEW p \in Policies, NEW n \in Nodes
    PROVE  ListInv /\ UserLists(p, n) => ListInv'
<1>. SUFFICES ASSUME ListInv, UserLists(p, n) PROVE ListInv'
  OBVIOUS
<1>. DEFINE l == IF lists[p] = <<EmptyNode>> THEN <<n>> ELSE Append(lists[p], n)
<1>1. l \in ProperLists
  <2>1. <<n>> \in Seq(Nodes) OBVIOUS
  <2>. QED BY <2>1, AppendProperties DEF ListInv, ListTypes, ProperLists
<1>2. budget' \in [Events -> Nat] BY SpendTypes DEF UserLists, Events
<1>. QED BY <1>1, <1>2, UserEditKeeps DEF UserLists

LEMMA UserUnlistsKeeps ==
    ASSUME NEW p \in Policies, NEW n \in Nodes
    PROVE  ListInv /\ UserUnlists(p, n) => ListInv'
<1>. SUFFICES ASSUME ListInv, UserUnlists(p, n) PROVE ListInv'
  OBVIOUS
<1>1. PICK i \in DOMAIN lists[p] : lists[p][i] = n /\ UserEdits(p, RemoveAt(lists[p], i))
  BY DEF UserUnlists
<1>2. lists[p] \in Seq(Nodes)
  BY <1>1, ListAssumption DEF ListInv, ListTypes, ProperLists
<1>3. RemoveAt(lists[p], i) \in ProperLists
  BY <1>2, RemoveAtIsProper, LenProperties DEF ProperLists
<1>4. budget' \in [Events -> Nat] BY SpendTypes DEF UserUnlists, Events
<1>. QED BY <1>1, <1>3, <1>4, UserEditKeeps

LEMMA VerdictKeeps == ASSUME NEW n \in Nodes PROVE ListInv /\ Verdict(n) => ListInv'
<1>. SUFFICES ASSUME ListInv, Verdict(n) PROVE ListInv'
  OBVIOUS
<1>1. NodeTypes' /\ PriorElsewhere' BY DEF Verdict, ListInv, NodeTypes, PriorElsewhere
<1>2. budget' \in [Events -> Nat] BY SpendTypes DEF Verdict, Events, ListInv, ListTypes
<1>. QED BY <1>1, <1>2 DEF Verdict, ListInv, ListTypes, Tied, HeldTied, MineTied, RolledBackNode, Me

LEMMA CrashKeeps == ListInv /\ OperatorCrashes => ListInv'
<1>. SUFFICES ASSUME ListInv, OperatorCrashes PROVE ListInv'
  OBVIOUS
<1>1. NodeTypes' /\ PriorElsewhere'
  BY DEF OperatorCrashes, nodes, ListInv, NodeTypes, PriorElsewhere
<1>2. budget' \in [Events -> Nat] BY SpendTypes DEF OperatorCrashes, Events
<1>. QED BY <1>1, <1>2, IdleIsProper, NoWrite DEF OperatorCrashes

-----------------------------------------------------------------------------
LEMMA WorkerKeeps == ListInv /\ WorkerStep => ListInv' /\ NoneEmptied
BY FillKeeps, AggregateKeeps, WaitKeeps, UnlistFromPolicyKeeps, RestorePriorKeeps,
   PassEndsKeeps, AdoptKeeps, MoveKeeps, SwitchVersionKeeps, ListUnderPriorKeeps
DEF WorkerStep, Visits

LEMMA InitIsTied == Init => ListInv
<1>. SUFFICES ASSUME Init PROVE ListInv
  OBVIOUS
<1>1. lists \in [Policies -> ProperLists] /\ budget \in [Events -> Nat]
  BY ListAssumption DEF Init
<1>2. cache \in [Policies -> ProperCopies] /\ \A p \in Policies : Tied(cache[p], p)
  BY <1>1 DEF Init, ProperCopies, Tied
<1>3. NodeTypes /\ PriorElsewhere BY DEF Init, NodeTypes, PriorElsewhere
<1>4. HeldTied /\ MineTied /\ RolledBackNode
  BY IdleIsProper DEF Init, HeldTied, MineTied, RolledBackNode
<1>. QED BY <1>1, <1>2, <1>3, <1>4, IdleIsProper DEF ListInv, ListTypes, Init

LEMMA NextKeepsTied == ListInv /\ [Next]_vars => ListInv'
<1>. SUFFICES ASSUME ListInv, [Next]_vars PROVE ListInv'
  OBVIOUS
<1>1. CASE WorkerStep BY <1>1, WorkerKeeps
<1>2. CASE \E p \in Policies : Reconcile(p) \/ Sync(p) BY <1>2, ReconcileKeeps, SyncKeeps
<1>3. CASE \E p \in Policies, n \in Nodes : UserLists(p, n) \/ UserUnlists(p, n)
  BY <1>3, UserListsKeeps, UserUnlistsKeeps
<1>4. CASE \E n \in Nodes : Verdict(n) BY <1>4, VerdictKeeps
<1>5. CASE OperatorCrashes BY <1>5, CrashKeeps
<1>6. CASE UNCHANGED vars
  BY <1>6 DEF vars, nodes, ListInv, ListTypes, NodeTypes, PriorElsewhere, Tied,
              HeldTied, MineTied, RolledBackNode, Me
<1>. QED BY <1>1, <1>2, <1>3, <1>4, <1>5, <1>6 DEF Next

LEMMA TiedIsProper == ListInv => PlaceholderAlone
<1>. SUFFICES ASSUME ListInv, NEW p \in Policies, EmptyNode \in ToSet(lists[p]),
                     lists[p] # <<EmptyNode>>
              PROVE  FALSE
  BY DEF PlaceholderAlone
<1>1. lists[p] \in Seq(Nodes) BY DEF ListInv, ListTypes, ProperLists
<1>2. EmptyNode \in Nodes BY <1>1, ElementOfSeq, LenProperties DEF ToSet
<1>. QED BY <1>2, ListAssumption

(* The placeholder is never beside a node, so that the place which a       *)
(* rollback frees is the placeholder's, and the test for "only the         *)
(* placeholder" sees every list that has it.                               *)
THEOREM PlaceholderIsAlone == Spec => []PlaceholderAlone
BY InitIsTied, NextKeepsTied, TiedIsProper, PTL DEF Spec

(* The worker turns no list into the empty one, which would stand for      *)
(* every free node.                                                        *)
THEOREM ListsStayFilled == Spec => NeverEmptied
<1>1. ListInv /\ [Next]_vars
        => [WorkerStep => \A p \in Policies : lists'[p] = <<>> => lists[p] = <<>>]_vars
  BY WorkerKeeps DEF NoneEmptied
<1>. QED BY InitIsTied, NextKeepsTied, <1>1, PTL DEF Spec, NeverEmptied
-----------------------------------------------------------------------------
(* No list names a node twice.                                             *)
(*                                                                         *)
(* With no failed upgrade the worker adds to a list only what the list, or *)
(* the copy of it that it writes, lacks.  A rollback puts the node back on *)
(* its prior policy's list without looking, so that the node must not be   *)
(* there: it was taken off when it moved away (LeftUnlisted), which needs  *)
(* the Update not to be refused, and must not be listed there again.       *)

Distinct(l) == \A i, j \in DOMAIN l : l[i] = l[j] => i = j

LEMMA RemovedEntries ==
    ASSUME NEW S, NEW l \in Seq(S), NEW i \in DOMAIN l
    PROVE  LET r == RemoveAt(l, i)
           IN  /\ r \in Seq(S) /\ Len(r) = Len(l) - 1
               /\ \A k \in DOMAIN r : r[k] = IF k < i THEN l[k] ELSE l[k + 1]
<1>. DEFINE u == SubSeq(l, 1, i - 1)
            v == SubSeq(l, i + 1, Len(l))
            r == RemoveAt(l, i)
<1>1. Len(l) \in Nat /\ i \in 1..Len(l) BY LenProperties
<1>2. \A k \in 1..Len(l) : l[k] \in S BY ElementOfSeq
<1>3. /\ u \in Seq(S) /\ Len(u) = i - 1
      /\ \A k \in 1..(i - 1) : u[k] = l[k]
  <2>1. \A k \in 1..(i - 1) : l[k] \in S BY <1>1, <1>2
  <2>2. 1 \in Int /\ i - 1 \in Int BY <1>1
  <2>3. /\ u \in Seq(S) /\ Len(u) = IF 1 <= i - 1 THEN i - 1 - 1 + 1 ELSE 0
        /\ \A k \in 1..(i - 1 - 1 + 1) : u[k] = l[1 + k - 1]
    BY <2>1, <2>2, SubSeqProperties
  <2>. QED BY <1>1, <2>3
<1>4. /\ v \in Seq(S) /\ Len(v) = Len(l) - i
      /\ \A k \in 1..(Len(l) - i) : v[k] = l[i + k]
  <2>1. \A k \in (i + 1)..Len(l) : l[k] \in S BY <1>1, <1>2
  <2>2. i + 1 \in Int /\ Len(l) \in Int BY <1>1
  <2>3. /\ v \in Seq(S) /\ Len(v) = IF i + 1 <= Len(l) THEN Len(l) - (i + 1) + 1 ELSE 0
        /\ \A k \in 1..(Len(l) - (i + 1) + 1) : v[k] = l[(i + 1) + k - 1]
    BY <2>1, <2>2, SubSeqProperties
  <2>4. \A k \in 1..(Len(l) - i) : (i + 1) + k - 1 = i + k BY <1>1
  <2>5. Len(l) - (i + 1) + 1 = Len(l) - i BY <1>1
  <2>. QED BY <1>1, <2>3, <2>4, <2>5
<1>. HIDE DEF u, v
<1>5. r = u \o v BY DEF RemoveAt, u, v
<1>6. /\ u \o v \in Seq(S) /\ Len(u \o v) = Len(u) + Len(v)
      /\ \A k \in 1..(Len(u) + Len(v)) :
            (u \o v)[k] = IF k <= Len(u) THEN u[k] ELSE v[k - Len(u)]
  BY <1>3, <1>4, ConcatProperties
<1>. HIDE DEF r
<1>7. r \in Seq(S) /\ Len(r) = Len(l) - 1 BY <1>1, <1>3, <1>4, <1>5, <1>6
<1>8. ASSUME NEW k \in DOMAIN r
      PROVE  r[k] = IF k < i THEN l[k] ELSE l[k + 1]
  <2>1. k \in 1..(Len(l) - 1) BY <1>7, LenProperties
  <2>a. Len(u) = i - 1 /\ Len(u) + Len(v) = Len(l) - 1 BY <1>1, <1>3, <1>4
  <2>2. r[k] = IF k <= i - 1 THEN u[k] ELSE v[k - (i - 1)]
    BY <1>5, <1>6, <2>1, <2>a
  <2>3. CASE k < i BY <1>1, <1>3, <2>1, <2>2, <2>3
  <2>4. CASE ~(k < i)
    <3>1. k - (i - 1) \in 1..(Len(l) - i) /\ i + (k - (i - 1)) = k + 1
      BY <1>1, <2>1, <2>4
    <3>2. v[k - (i - 1)] = l[k + 1] BY <1>4, <3>1
    <3>. QED BY <1>1, <2>1, <2>2, <2>4, <3>2
  <2>. QED BY <2>3, <2>4
<1>9. QED BY <1>7, <1>8 DEF r

(* What is left is distinct, was there before, and is not what was removed.*)
LEMMA RemovedStaysDistinct ==
    ASSUME NEW S, NEW l \in Seq(S), NEW i \in DOMAIN l, Distinct(l)
    PROVE  /\ Distinct(RemoveAt(l, i))
           /\ ToSet(RemoveAt(l, i)) \subseteq ToSet(l) \ {l[i]}
<1>. DEFINE r == RemoveAt(l, i)
            from(k) == IF k < i THEN k ELSE k + 1
<1>1. /\ r \in Seq(S) /\ Len(r) = Len(l) - 1
      /\ \A k \in DOMAIN r : r[k] = IF k < i THEN l[k] ELSE l[k + 1]
  BY RemovedEntries
<1>. HIDE DEF r
<1>2. /\ Len(l) \in Nat /\ DOMAIN l = 1..Len(l) /\ DOMAIN r = 1..(Len(l) - 1)
  BY <1>1, LenProperties
<1>3. \A k \in DOMAIN r : from(k) \in DOMAIN l \ {i} /\ r[k] = l[from(k)]
  BY <1>1, <1>2
<1>4. \A j, k \in DOMAIN r : from(j) = from(k) => j = k BY <1>2
<1>. HIDE DEF from
<1>5. Distinct(r) BY <1>3, <1>4 DEF Distinct
<1>6. ToSet(r) \subseteq ToSet(l) \ {l[i]} BY <1>3 DEF Distinct, ToSet
<1>. QED BY <1>5, <1>6 DEF r

LEMMA NothingToRemove ==
    ASSUME NEW x
    PROVE  /\ IndexOf(<<>>, x) = 1 /\ RemoveAt(<<>>, 1) = <<>>
           /\ Distinct(<<>>) /\ ToSet(<<>>) = {}
<1>1. <<>> \in Seq({}) /\ Len(<<>>) = 0 /\ DOMAIN <<>> = {} BY EmptySeq
<1>2. IndexOf(<<>>, x) = 1 BY <1>1 DEF IndexOf
<1>3. RemoveAt(<<>>, 1) = <<>>
  BY <1>1, SubSeqEmpty, ConcatEmptySeq DEF RemoveAt
<1>. QED BY <1>1, <1>2, <1>3 DEF Distinct, ToSet

LEMMA IndexOfEntry ==
    ASSUME NEW S, NEW l \in Seq(S), NEW x, Distinct(l), x \in ToSet(l)
    PROVE  IndexOf(l, x) \in DOMAIN l /\ l[IndexOf(l, x)] = x
<1>. DEFINE first == {i \in DOMAIN l : l[i] = x /\ \A j \in 1..(i - 1) : l[j] # x}
<1>1. PICK i \in DOMAIN l : l[i] = x BY DEF ToSet
<1>2. DOMAIN l = 1..Len(l) /\ Len(l) \in Nat BY LenProperties
<1>3. \A j \in 1..(i - 1) : j \in DOMAIN l /\ j # i BY <1>1, <1>2
<1>4. i \in first BY <1>1, <1>3 DEF Distinct
<1>5. IndexOf(l, x) \in first BY <1>4 DEF IndexOf
<1>. QED BY <1>5

(* Taking x off a list, wherever IndexOf finds it.                         *)
LEMMA WithoutEntry ==
    ASSUME NEW S, NEW l \in Seq(S), NEW x, Distinct(l)
    PROVE  LET r == RemoveAt(l, IndexOf(l, x))
           IN  Distinct(r) /\ ToSet(r) \subseteq ToSet(l) \ {x}
<1>1. CASE l = <<>> BY <1>1, NothingToRemove
<1>2. CASE l # <<>>
  <2>1. DOMAIN l = 1..Len(l) /\ Len(l) \in Nat \ {0} BY <1>2, EmptySeq, LenProperties
  <2>2. IndexOf(l, x) \in DOMAIN l BY <2>1, IndexIsProper
  <2>3. /\ Distinct(RemoveAt(l, IndexOf(l, x)))
        /\ ToSet(RemoveAt(l, IndexOf(l, x))) \subseteq ToSet(l) \ {l[IndexOf(l, x)]}
    BY <2>2, RemovedStaysDistinct
  <2>4. CASE x \in ToSet(l) BY <2>3, <2>4, IndexOfEntry
  <2>5. CASE x \notin ToSet(l) BY <2>3, <2>5
  <2>. QED BY <2>4, <2>5
<1>. QED BY <1>1, <1>2

LEMMA OnlyPlaceholder ==
    /\ Distinct(<<EmptyNode>>) /\ ToSet(<<EmptyNode>>) = {EmptyNode}
<1>1. DOMAIN <<EmptyNode>> = {1} /\ <<EmptyNode>>[1] = EmptyNode OBVIOUS
<1>. QED BY <1>1 DEF Distinct, ToSet

LEMMA RemoveNodeIsDistinct ==
    ASSUME NEW l \in ProperLists, NEW n \in Nodes, Distinct(l)
    PROVE  /\ Distinct(RemoveNode(l, n))
           /\ ToSet(RemoveNode(l, n)) \subseteq (ToSet(l) \cup {EmptyNode}) \ {n}
<1>. DEFINE rest == RemoveAt(l, IndexOf(l, n))
<1>1. l \in Seq(Nodes \cup {EmptyNode}) BY ProperIsList DEF Lists
<1>2. Distinct(rest) /\ ToSet(rest) \subseteq ToSet(l) \ {n} BY <1>1, WithoutEntry
<1>3. n # EmptyNode BY ListAssumption
<1>. QED BY <1>2, <1>3, OnlyPlaceholder DEF RemoveNode

LEMMA AppendedIsDistinct ==
    ASSUME NEW S, NEW l \in Seq(S), NEW x \in S, Distinct(l), x \notin ToSet(l)
    PROVE  Distinct(Append(l, x)) /\ ToSet(Append(l, x)) = ToSet(l) \cup {x}
<1>. DEFINE r == Append(l, x)
<1>1. /\ r \in Seq(S) /\ Len(r) = Len(l) + 1 /\ r[Len(l) + 1] = x
      /\ \A i \in 1..Len(l) : r[i] = l[i]
  BY AppendProperties
<1>2. DOMAIN r = 1..(Len(l) + 1) /\ DOMAIN l = 1..Len(l) /\ Len(l) \in Nat
  BY <1>1, LenProperties
<1>. HIDE DEF r
<1>3. DOMAIN r = DOMAIN l \cup {Len(l) + 1} /\ Len(l) + 1 \notin DOMAIN l BY <1>2
<1>4. Distinct(r) BY <1>1, <1>2, <1>3 DEF Distinct, ToSet
<1>5. ToSet(r) = ToSet(l) \cup {x} BY <1>1, <1>2, <1>3 DEF ToSet
<1>. QED BY <1>4, <1>5 DEF r

LEMMA ReturnNodeIsDistinct ==
    ASSUME NEW l \in ProperLists, NEW n \in Nodes, Distinct(l), n \notin ToSet(l)
    PROVE  /\ Distinct(ReturnNode(l, n))
           /\ ToSet(ReturnNode(l, n)) \subseteq ToSet(l) \cup {n}
<1>. DEFINE S == Nodes \cup {EmptyNode}
            i == IndexOf(l, EmptyNode)
            rest == RemoveAt(l, i)
<1>1. l \in Seq(S) BY ProperIsList DEF Lists
<1>2. Distinct(rest) /\ ToSet(rest) \subseteq ToSet(l) BY <1>1, WithoutEntry
<1>3. rest \in Seq(S) BY <1>1, IndexIsProper, RemoveAtIsProper
<1>. HIDE DEF rest
<1>4. n \in S /\ n \notin ToSet(rest) BY <1>2
<1>5. Distinct(Append(rest, n)) /\ ToSet(Append(rest, n)) = ToSet(rest) \cup {n}
  BY <1>2, <1>3, <1>4, AppendedIsDistinct
<1>6. ReturnNode(l, n) = Append(rest, n) BY DEF ReturnNode, rest
<1>. QED BY <1>2, <1>5, <1>6

LEMMA SetToSeqsIsDistinct ==
    ASSUME NEW K \in SUBSET Nodes, NEW s \in SetToSeqs(K)
    PROVE  Distinct(s) /\ ToSet(s) \subseteq K
BY DEF SetToSeqs, Distinct, ToSet

LEMMA JoinIsDistinct ==
    ASSUME NEW l \in Seq(Nodes), NEW s \in Seq(Nodes), Distinct(l), Distinct(s),
           ToSet(l) \cap ToSet(s) = {}
    PROVE  Distinct(l \o s) /\ ToSet(l \o s) \subseteq ToSet(l) \cup ToSet(s)
<1>. DEFINE r == l \o s
<1>1. /\ r \in Seq(Nodes) /\ Len(r) = Len(l) + Len(s)
      /\ \A i \in 1..(Len(l) + Len(s)) : r[i] = IF i <= Len(l) THEN l[i] ELSE s[i - Len(l)]
  BY ConcatProperties
<1>2. /\ Len(l) \in Nat /\ Len(s) \in Nat
      /\ DOMAIN l = 1..Len(l) /\ DOMAIN s = 1..Len(s) /\ DOMAIN r = 1..(Len(l) + Len(s))
  BY <1>1, LenProperties
<1>. HIDE DEF r
<1>3. ASSUME NEW i \in DOMAIN r
      PROVE  \/ i \in DOMAIN l /\ r[i] = l[i]
             \/ i > Len(l) /\ i - Len(l) \in DOMAIN s /\ r[i] = s[i - Len(l)]
  BY <1>1, <1>2, <1>3
<1>4. ASSUME NEW i \in DOMAIN r, NEW j \in DOMAIN r, r[i] = r[j]
      PROVE  i = j
  <2>1. CASE i \in DOMAIN l /\ r[i] = l[i]
    <3>1. CASE j \in DOMAIN l /\ r[j] = l[j] BY <1>4, <2>1, <3>1 DEF Distinct
    <3>2. CASE j > Len(l) /\ j - Len(l) \in DOMAIN s /\ r[j] = s[j - Len(l)]
      BY <1>4, <2>1, <3>2 DEF ToSet
    <3>. QED BY <1>3, <3>1, <3>2
  <2>2. CASE i > Len(l) /\ i - Len(l) \in DOMAIN s /\ r[i] = s[i - Len(l)]
    <3>1. CASE j \in DOMAIN l /\ r[j] = l[j] BY <1>4, <2>2, <3>1 DEF ToSet
    <3>2. CASE j > Len(l) /\ j - Len(l) \in DOMAIN s /\ r[j] = s[j - Len(l)]
      <4>1. i - Len(l) = j - Len(l) BY <1>4, <2>2, <3>2 DEF Distinct
      <4>. QED BY <1>2, <4>1
    <3>. QED BY <1>3, <3>1, <3>2
  <2>. QED BY <1>3, <2>1, <2>2
<1>5. Distinct(r) BY <1>4 DEF Distinct
<1>6. ToSet(r) \subseteq ToSet(l) \cup ToSet(s) BY <1>3 DEF ToSet
<1>. QED BY <1>5, <1>6 DEF r

(* A step that adds at most the nodes of K to p's list, and to no other.   *)
Adds(p, K) ==
    /\ Distinct(lists'[p])
    /\ ToSet(lists'[p]) \subseteq ToSet(lists[p]) \cup K \cup {EmptyNode}
    /\ \A q \in Policies \ {p} : lists'[q] = lists[q]

LEMMA AddsKeepsDistinct ==
    ASSUME NoDuplicates, NEW p \in Policies, NEW K, Adds(p, K)
    PROVE  NoDuplicates'
BY DEF NoDuplicates, Adds, Distinct

LEMMA UpdateAdds ==
    ASSUME ListInv, NoDuplicates, NEW p \in Policies, NEW K, NEW copy, NEW l \in ProperLists,
           TryUpdate(p, copy, l),
           ~copy.stale => /\ Distinct(l)
                          /\ ToSet(l) \subseteq ToSet(lists[p]) \cup K \cup {EmptyNode}
    PROVE  Adds(p, K) /\ (~copy.stale => lists'[p] = l)
<1>1. lists' = IF copy.stale THEN lists ELSE [lists EXCEPT ![p] = l] BY UpdateKeepsCache
<1>2. lists \in [Policies -> ProperLists] /\ Distinct(lists[p])
  BY DEF ListInv, ListTypes, NoDuplicates, Distinct
<1>. QED BY <1>1, <1>2 DEF Adds

LEMMA FillAdds ==
    ASSUME ListInv, NoDuplicates, Fill
    PROVE  Adds(Me, Free) /\ Me \in Policies
<1>1. /\ Me \in Policies /\ op.pc = "fill"
      /\ lists \in [Policies -> ProperLists] /\ Distinct(lists[Me])
  BY DEF Fill, ListInv, ListTypes, HeldTied, NoDuplicates, Distinct
<1>2. CASE op.held.list # <<>>
  <2>1. lists' = lists BY <1>2 DEF Fill
  <2>. QED BY <1>1, <2>1 DEF Adds
<1>3. CASE op.held.list = <<>>
  <2>1. PICK l \in SetToSeqs(Free) : TryUpdate(Me, op.held, l) BY <1>3 DEF Fill
  <2>2. Free \in SUBSET Nodes BY DEF Free
  <2>3. l \in ProperLists /\ Distinct(l) /\ ToSet(l) \subseteq Free
    BY <2>2, SetToSeqsIsProper, SetToSeqsIsDistinct DEF ProperLists
  <2>. QED BY <1>1, <2>1, <2>3, UpdateAdds
<1>. QED BY <1>1, <1>2, <1>3

LEMMA AggregateAdds ==
    ASSUME ListInv, NoDuplicates, Aggregate
    PROVE  Adds(Me, Staying) /\ Me \in Policies
<1>1. /\ Me \in Policies /\ op.held \in ProperCopies /\ Tied(op.held, Me)
      /\ op.held.list # <<EmptyNode>> /\ op.held.list \in ProperLists
      /\ lists \in [Policies -> ProperLists] /\ Distinct(lists[Me])
  BY DEF Aggregate, ListInv, ListTypes, HeldTied, NoDuplicates, Distinct,
         ProperWorkers, ProperCopies
<1>. DEFINE Step(K, tail) ==
        IF K = {} THEN UNCHANGED <<lists, cache>>
                  ELSE TryUpdate(Me, op.held, op.held.list \o tail)
<1>a. PICK K \in Aggregated : \E tail \in SetToSeqs(K) : Step(K, tail) BY DEF Aggregate
<1>b. PICK tail \in SetToSeqs(K) : Step(K, tail) BY <1>a
<1>2. K \subseteq Staying /\ K \in SUBSET Nodes BY DEF Aggregated, Staying, Missing
<1>3. CASE K = {} BY <1>1, <1>b, <1>3 DEF Adds
<1>4. CASE K # {}
  <2>. DEFINE l == op.held.list \o tail
  <2>1. TryUpdate(Me, op.held, l) BY <1>b, <1>4
  <2>2. tail \in Seq(Nodes) /\ Distinct(tail) /\ ToSet(tail) \subseteq K
    BY <1>2, SetToSeqsIsProper, SetToSeqsIsDistinct
  <2>3. l \in ProperLists BY <1>1, <2>2, JoinIsProper DEF ProperLists
  <2>4. ~op.held.stale => Distinct(l) /\ ToSet(l) \subseteq ToSet(lists[Me]) \cup Staying
    <3>1. SUFFICES ASSUME ~op.held.stale
                   PROVE  Distinct(l) /\ ToSet(l) \subseteq ToSet(lists[Me]) \cup Staying
      OBVIOUS
    <3>2. op.held.list = lists[Me] /\ op.held.list \in Seq(Nodes)
      BY <1>1, <3>1 DEF Tied, ProperLists
    <3>3. ToSet(op.held.list) \cap ToSet(tail) = {}
      BY <1>2, <2>2 DEF Staying, Missing
    <3>. QED BY <1>1, <1>2, <2>2, <3>2, <3>3, JoinIsDistinct
  <2>. HIDE DEF l
  <2>. QED BY <1>1, <2>1, <2>3, <2>4, UpdateAdds
<1>. QED BY <1>1, <1>3, <1>4

(* The node is off the list it leaves, unless the Update is refused.       *)
LEMMA MoveAdds ==
    ASSUME ListInv, NoDuplicates, NEW n \in Nodes, Move(n)
    PROVE  /\ active[n] \in Policies /\ Adds(active[n], {})
           /\ blocked'[n] # blocked[n] /\ ~cache[active[n]].stale
                 => n \notin ToSet(lists'[active[n]])
<1>. DEFINE cr == active[n]
            l == RemoveNode(cache[cr].list, n)
<1>1. /\ cr \in Policies /\ Tied(cache[cr], cr) /\ cache[cr].list \in ProperLists
      /\ lists \in [Policies -> ProperLists] /\ Distinct(lists[cr])
  BY DEF Move, ListInv, ListTypes, NodeTypes, NoDuplicates, Distinct, ProperCopies
<1>2. CASE cache[cr].list = <<>>
  <2>1. lists' = lists /\ blocked' = blocked BY <1>2 DEF Move, nodes
  <2>. QED BY <1>1, <2>1 DEF Adds
<1>3. CASE cache[cr].list # <<>>
  <2>1. TryUpdate(cr, cache[cr], l) BY <1>3 DEF Move
  <2>2. l \in ProperLists BY <1>1, RemoveNodeIsProper
  <2>3. ~cache[cr].stale => /\ Distinct(l)
                            /\ ToSet(l) \subseteq (ToSet(lists[cr]) \cup {EmptyNode}) \ {n}
    BY <1>1, RemoveNodeIsDistinct DEF Tied
  <2>. HIDE DEF l
  <2>4. Adds(cr, {}) /\ (~cache[cr].stale => lists'[cr] = l)
    BY <1>1, <2>1, <2>2, <2>3, UpdateAdds
  <2>. QED BY <1>1, <2>3, <2>4
<1>. QED BY <1>2, <1>3

LEMMA ListUnderPriorAdds ==
    ASSUME ListInv, NoDuplicates, NEW n \in Nodes, ListUnderPrior(n),
           n \notin ToSet(lists[prior[n]])
    PROVE  prior[n] \in Policies /\ Adds(prior[n], {n})
<1>. DEFINE q == prior[n]
            l == ReturnNode(cache[q].list, n)
<1>1. /\ q \in Policies /\ Tied(cache[q], q) /\ cache[q].list \in ProperLists
      /\ lists \in [Policies -> ProperLists] /\ Distinct(lists[q])
  BY DEF ListUnderPrior, RollsBack, ListInv, ListTypes, NodeTypes, NoDuplicates, Distinct,
         ProperCopies
<1>2. CASE cache[q].list = <<>>
  <2>1. lists' = lists BY <1>2 DEF ListUnderPrior
  <2>. QED BY <1>1, <2>1 DEF Adds
<1>3. CASE cache[q].list # <<>>
  <2>1. TryUpdate(q, cache[q], l) BY <1>3 DEF ListUnderPrior
  <2>2. l \in ProperLists BY <1>1, ReturnNodeIsProper DEF ProperLists
  <2>3. ~cache[q].stale => Distinct(l) /\ ToSet(l) \subseteq ToSet(lists[q]) \cup {n}
    BY <1>1, ReturnNodeIsDistinct DEF Tied
  <2>. HIDE DEF l
  <2>. QED BY <1>1, <2>1, <2>2, <2>3, UpdateAdds
<1>. QED BY <1>2, <1>3

LEMMA UnlistFromPolicyAdds ==
    ASSUME ListInv, NoDuplicates, UnlistFromPolicy
    PROVE  Me \in Policies /\ Adds(Me, {})
<1>. DEFINE l == RemoveNode(op.mine.list, op.node)
<1>1. /\ Me \in Policies /\ op.mine.list \in ProperLists /\ op.node \in Nodes
      /\ Tied(op.mine, Me) /\ Distinct(lists[Me])
  BY DEF UnlistFromPolicy, ListInv, ListTypes, HeldTied, MineTied, RolledBackNode,
         NoDuplicates, Distinct, ProperWorkers, ProperCopies
<1>2. TryUpdate(Me, op.mine, l) BY DEF UnlistFromPolicy
<1>3. l \in ProperLists BY <1>1, RemoveNodeIsProper
<1>4. ~op.mine.stale => Distinct(l) /\ ToSet(l) \subseteq ToSet(lists[Me]) \cup {EmptyNode}
  BY <1>1, RemoveNodeIsDistinct DEF Tied
<1>. HIDE DEF l
<1>. QED BY <1>1, <1>2, <1>3, <1>4, UpdateAdds

LEMMA UserListsAdds ==
    ASSUME ListInv, NoDuplicates, NEW p \in Policies, NEW n \in Nodes, UserLists(p, n)
    PROVE  Adds(p, {n})
<1>. DEFINE l == IF lists[p] = <<EmptyNode>> THEN <<n>> ELSE Append(lists[p], n)
<1>1. lists \in [Policies -> ProperLists] /\ Distinct(lists[p])
  BY DEF ListInv, ListTypes, NoDuplicates, Distinct
<1>2. n \notin ToSet(lists[p]) /\ WriteList(p, l) BY DEF UserLists, UserEdits
<1>3. l \in ProperLists /\ Distinct(l) /\ ToSet(l) \subseteq ToSet(lists[p]) \cup {n}
  <2>1. CASE lists[p] = <<EmptyNode>>
    <3>1. <<n>> \in Seq(Nodes) /\ DOMAIN <<n>> = {1} /\ <<n>>[1] = n OBVIOUS
    <3>. QED BY <2>1, <3>1 DEF ProperLists, Distinct, ToSet
  <2>2. CASE lists[p] # <<EmptyNode>>
    <3>1. lists[p] \in Seq(Nodes) BY <1>1, <2>2 DEF ProperLists
    <3>. QED BY <1>1, <1>2, <2>2, <3>1, AppendProperties, AppendedIsDistinct DEF ProperLists
  <2>. QED BY <2>1, <2>2
<1>. HIDE DEF l
<1>4. lists' = [lists EXCEPT ![p] = l] BY <1>2, <1>3, WriteKeepsCache
<1>. QED BY <1>1, <1>3, <1>4 DEF Adds

LEMMA UserUnlistsAdds ==
    ASSUME ListInv, NoDuplicates, NEW p \in Policies, NEW n \in Nodes, UserUnlists(p, n)
    PROVE  Adds(p, {})
<1>1. lists \in [Policies -> ProperLists] /\ Distinct(lists[p])
  BY DEF ListInv, ListTypes, NoDuplicates, Distinct
<1>2. PICK i \in DOMAIN lists[p] : lists[p][i] = n /\ UserEdits(p, RemoveAt(lists[p], i))
  BY DEF UserUnlists
<1>. DEFINE l == RemoveAt(lists[p], i)
<1>3. lists[p] \in Seq(Nodes) BY <1>1, <1>2, ListAssumption DEF ProperLists
<1>4. i \in Nat BY <1>2, <1>3, LenProperties
<1>5. l \in ProperLists /\ Distinct(l) /\ ToSet(l) \subseteq ToSet(lists[p])
  BY <1>1, <1>3, <1>4, RemoveAtIsProper, RemovedStaysDistinct DEF ProperLists
<1>. HIDE DEF l
<1>6. lists' = [lists EXCEPT ![p] = l] BY <1>2, <1>5, WriteKeepsCache DEF UserEdits, l
<1>. QED BY <1>1, <1>5, <1>6 DEF Adds

(* What the other steps do to the lists.                                   *)
WritesNoList ==
    \/ \E p \in Policies : Reconcile(p) \/ Sync(p)
    \/ Wait \/ RestorePrior \/ PassEnds \/ OperatorCrashes
    \/ \E n \in Nodes : Adopt(n) \/ SwitchVersion(n) \/ Verdict(n)

LEMMA WritesNoListKeeps == WritesNoList => lists' = lists
BY DEF WritesNoList, Reconcile, Sync, Wait, RestorePrior, PassEnds, OperatorCrashes,
       Adopt, SwitchVersion, Verdict

WritesList ==
    \/ Fill \/ Aggregate \/ UnlistFromPolicy
    \/ \E n \in Nodes : Move(n) \/ ListUnderPrior(n)
    \/ \E p \in Policies, n \in Nodes : UserLists(p, n) \/ UserUnlists(p, n)

LEMMA NextSplit == Next => WritesNoList \/ WritesList
BY DEF Next, WorkerStep, Visits, WritesNoList, WritesList

(* A write that lists no node which its list has already.                  *)
LEMMA WritesKeepDistinct ==
    ASSUME ListInv, NoDuplicates, WritesList,
           \A n \in Nodes : ListUnderPrior(n) => n \notin ToSet(lists[prior[n]])
    PROVE  NoDuplicates'
<1>1. CASE Fill BY <1>1, FillAdds, AddsKeepsDistinct
<1>2. CASE Aggregate BY <1>2, AggregateAdds, AddsKeepsDistinct
<1>3. CASE UnlistFromPolicy BY <1>3, UnlistFromPolicyAdds, AddsKeepsDistinct
<1>4. ASSUME NEW n \in Nodes, Move(n) PROVE NoDuplicates'
  BY <1>4, MoveAdds, AddsKeepsDistinct
<1>5. ASSUME NEW n \in Nodes, ListUnderPrior(n) PROVE NoDuplicates'
  BY <1>5, ListUnderPriorAdds, AddsKeepsDistinct
<1>6. ASSUME NEW p \in Policies, NEW n \in Nodes, UserLists(p, n) PROVE NoDuplicates'
  BY <1>6, UserListsAdds, AddsKeepsDistinct
<1>7. ASSUME NEW p \in Policies, NEW n \in Nodes, UserUnlists(p, n) PROVE NoDuplicates'
  BY <1>7, UserUnlistsAdds, AddsKeepsDistinct
<1>. QED BY <1>1, <1>2, <1>3, <1>4, <1>5, <1>6, <1>7 DEF WritesList

-----------------------------------------------------------------------------
(* Hypotheses on the scenarios.  A list that names a node twice to begin   *)
(* with is the user's doing.                                               *)
StartsDistinct == \A s \in Scenarios : \A p \in Policies : Distinct(s.start[p])
NeverHappens(e) == \A s \in Scenarios : s.budget[e] = 0
NeverRollsBack == RollbackOn = {} \/ NeverHappens("fail")

LEMMA NothingSpent ==
    ASSUME ListInv, NEW e \in Events, budget[e] = 0, [Next]_vars
    PROVE  budget'[e] = 0
<1>0. budget \in [Events -> Nat] BY DEF ListInv, ListTypes
<1>1. ASSUME NEW f \in Events, Spend(f) PROVE budget'[e] = 0
  BY <1>0, <1>1 DEF Spend
<1>2. CASE OperatorCrashes BY <1>1, <1>2 DEF OperatorCrashes, Events
<1>3. CASE \E n \in Nodes : Verdict(n) BY <1>1, <1>3 DEF Verdict, Events
<1>4. CASE \E p \in Policies, n \in Nodes : UserLists(p, n) \/ UserUnlists(p, n)
  BY <1>1, <1>4 DEF UserLists, UserUnlists, Events
<1>5. CASE \E p \in Policies : Reconcile(p) \/ Sync(p) BY <1>5 DEF Reconcile, Sync
<1>6. CASE WorkerStep
  BY <1>6 DEF WorkerStep, Visits, Fill, Aggregate, Wait, UnlistFromPolicy, RestorePrior,
              PassEnds, Adopt, Move, SwitchVersion, ListUnderPrior
<1>7. CASE UNCHANGED vars BY <1>7 DEF vars
<1>. QED BY <1>2, <1>3, <1>4, <1>5, <1>6, <1>7 DEF Next

NoneFailed == budget["fail"] = 0 /\ \A n \in Nodes : work[n] # "failed"

LEMMA NoneFailedKept == ListInv /\ NoneFailed /\ [Next]_vars => NoneFailed'
<1>. SUFFICES ASSUME ListInv, NoneFailed, [Next]_vars PROVE NoneFailed'
  OBVIOUS
<1>0. work \in [Nodes -> {"none", "upgrading", "failed"}] BY DEF ListInv, NodeTypes
<1>1. budget'["fail"] = 0 BY NothingSpent DEF NoneFailed, Events
<1>2. ASSUME NEW m \in Nodes PROVE work'[m] # "failed"
  <2>1. CASE \E n \in Nodes : Move(n)
    BY <1>0, <2>1 DEF Move, nodes, NoneFailed
  <2>2. CASE RestorePrior BY <1>0, <2>2 DEF RestorePrior, NoneFailed
  <2>3. CASE \E n \in Nodes : Verdict(n)
    BY <1>0, <2>3 DEF Verdict, Spend, NoneFailed
  <2>4. CASE work' = work BY <2>4 DEF NoneFailed
  <2>5. [Next]_vars => \/ \E n \in Nodes : Move(n) \/ Verdict(n)
                       \/ RestorePrior \/ work' = work
    BY DEF Next, WorkerStep, Visits, Fill, Aggregate, Wait, UnlistFromPolicy, PassEnds,
           Adopt, SwitchVersion, ListUnderPrior, Reconcile, Sync, UserLists, UserUnlists,
           UserEdits, OperatorCrashes, nodes, vars
  <2>. QED BY <2>1, <2>2, <2>3, <2>4, <2>5
<1>. QED BY <1>1, <1>2 DEF NoneFailed

NoRollback == RollbackOn = {} \/ NoneFailed

(* While nothing is rolled back, whatever else may happen: users edit any  *)
(* list, the operator crashes, caches lag and Updates are refused.         *)
THEOREM ListsWithoutRollback ==
    ASSUME StartsDistinct, NeverRollsBack
    PROVE  Spec => []NoDuplicates
<1>. DEFINE Inv == ListInv /\ NoDuplicates /\ NoRollback
<1>1. Init => Inv
  <2>1. Init => NoDuplicates BY DEF Init, StartsDistinct, NoDuplicates, Distinct
  <2>2. Init => NoRollback BY DEF Init, NeverRollsBack, NeverHappens, NoRollback, NoneFailed
  <2>. QED BY <2>1, <2>2, InitIsTied
<1>2. Inv /\ [Next]_vars => Inv'
  <2>. SUFFICES ASSUME Inv, [Next]_vars PROVE NoDuplicates'
    BY NextKeepsTied, NoneFailedKept DEF NoRollback
  <2>1. CASE UNCHANGED vars BY <2>1 DEF vars, NoDuplicates
  <2>2. CASE WritesNoList BY <2>2, WritesNoListKeeps DEF NoDuplicates
  <2>3. CASE WritesList
    <3>1. \A n \in Nodes : ~ListUnderPrior(n)
      BY DEF ListUnderPrior, RollsBack, NoRollback, NoneFailed
    <3>. QED BY <2>3, <3>1, WritesKeepDistinct
  <2>. QED BY <2>1, <2>2, <2>3, NextSplit
<1>. QED BY <1>1, <1>2, PTL DEF Spec

-----------------------------------------------------------------------------
(* With failed upgrades: no cache lags and the operator does not crash, so *)
(* that a node that moves leaves the list of its policy and a rollback is  *)
(* carried to its end.                                                     *)
(* The policy that a node is leaving or has left last.                     *)
LeftPolicy(n) == IF blocked[n] = None THEN prior[n] ELSE active[n]

(* Users do not list a node with the policy it leaves before the verdict   *)
(* on the upgrade, nor when that is a failure.                             *)
NotListedAgain ==
    \A p \in Policies, n \in Nodes : UserLists(p, n) => work[n] = "none" \/ p # LeftPolicy(n)

Returning(n) == op.pc \in {"fromPolicy", "restore"} /\ op.node = n

(* A node whose upgrade is on or has failed is not on the list of the      *)
(* policy it has left, but for the steps in which it is put back.          *)
LeftUnlisted ==
    \A n \in Nodes : work[n] # "none" /\ ~Returning(n) /\ LeftPolicy(n) # None
        => n \notin ToSet(lists[LeftPolicy(n)])

Unadopted == \A n \in Nodes : active[n] = None => prior[n] = None /\ work[n] = "none"

UpToDate == budget["lag"] = 0 /\ \A p \in Policies : ~cache[p].stale

LEMMA WriteIsSeen ==
    ASSUME ListInv, UpToDate, NEW p \in Policies, NEW copy, NEW l,
           TryUpdate(p, copy, l) \/ WriteList(p, l)
    PROVE  \A q \in Policies : ~cache'[q].stale
<1>1. CASE UNCHANGED <<lists, cache>> BY <1>1 DEF UpToDate
<1>2. CASE cache' = [cache EXCEPT ![p] = [list |-> l, stale |-> FALSE]]
  BY <1>2 DEF UpToDate, ListInv, ListTypes
<1>. QED BY <1>1, <1>2 DEF TryUpdate, WriteList, UpToDate

LEMMA UpToDateKept == ListInv /\ UpToDate /\ [Next]_vars => UpToDate'
<1>. SUFFICES ASSUME ListInv, UpToDate, [Next]_vars PROVE UpToDate'
  OBVIOUS
<1>1. budget'["lag"] = 0 BY NothingSpent DEF UpToDate, Events
<1>2. \A q \in Policies : ~cache'[q].stale
  <2>2. CASE cache' = cache BY <2>2 DEF UpToDate
  <2>3. CASE Fill
    <3>1. Me \in Policies BY <2>3 DEF Fill, ListInv, HeldTied
    <3>. QED BY <2>2, <2>3, <3>1, WriteIsSeen DEF Fill
  <2>4. CASE Aggregate
    <3>1. Me \in Policies BY <2>4 DEF Aggregate, ListInv, HeldTied
    <3>. QED BY <2>2, <2>4, <3>1, WriteIsSeen DEF Aggregate
  <2>5. CASE UnlistFromPolicy
    <3>1. Me \in Policies BY <2>5 DEF UnlistFromPolicy, ListInv, HeldTied
    <3>. QED BY <2>5, <3>1, WriteIsSeen DEF UnlistFromPolicy
  <2>6. ASSUME NEW n \in Nodes, Move(n) PROVE \A q \in Policies : ~cache'[q].stale
    <3>1. active[n] \in Policies BY <2>6 DEF Move, ListInv, NodeTypes
    <3>. QED BY <2>2, <2>6, <3>1, WriteIsSeen DEF Move
  <2>7. ASSUME NEW n \in Nodes, ListUnderPrior(n) PROVE \A q \in Policies : ~cache'[q].stale
    <3>1. prior[n] \in Policies BY <2>7 DEF ListUnderPrior, RollsBack, ListInv, NodeTypes
    <3>. QED BY <2>2, <2>7, <3>1, WriteIsSeen DEF ListUnderPrior
  <2>8. ASSUME NEW p \in Policies, NEW n \in Nodes, UserLists(p, n) \/ UserUnlists(p, n)
        PROVE  \A q \in Policies : ~cache'[q].stale
    BY <2>8, WriteIsSeen DEF UserLists, UserUnlists, UserEdits
  <2>9. CASE WritesNoList
    <3>1. (\E p \in Policies : Sync(p)) \/ cache' = cache
      BY <2>9 DEF WritesNoList, Reconcile, Wait, RestorePrior, PassEnds, OperatorCrashes,
                  Adopt, SwitchVersion, Verdict
    <3>2. ~\E p \in Policies : Sync(p) BY DEF Sync, UpToDate
    <3>. QED BY <2>2, <3>1, <3>2
  <2>10. CASE UNCHANGED vars BY <2>2, <2>10 DEF vars
  <2>. QED BY <2>3, <2>4, <2>5, <2>6, <2>7, <2>8, <2>9, <2>10, NextSplit DEF WritesList
<1>. QED BY <1>1, <1>2 DEF UpToDate

LEMMA UnadoptedKept == ListInv /\ Unadopted /\ [Next]_vars => Unadopted'
<1>. SUFFICES ASSUME ListInv, Unadopted, [Next]_vars PROVE Unadopted'
  OBVIOUS
<1>1. NodeTypes /\ (op.pc # "idle" => Me \in Policies /\ Me # None)
  BY ListAssumption DEF ListInv, HeldTied
<1>2. ASSUME NEW n \in Nodes, Adopt(n) PROVE Unadopted'
  BY <1>1, <1>2 DEF Adopt, Visiting, Unadopted, NodeTypes
<1>3. ASSUME NEW n \in Nodes, Move(n) PROVE Unadopted'
  BY <1>1, <1>3 DEF Move, Visiting, Unadopted, NodeTypes, nodes
<1>4. ASSUME NEW n \in Nodes, SwitchVersion(n) PROVE Unadopted'
  BY <1>1, <1>4 DEF SwitchVersion, Visiting, Unadopted, NodeTypes
<1>5. CASE RestorePrior BY <1>1, <1>5 DEF RestorePrior, Unadopted, NodeTypes
<1>6. ASSUME NEW n \in Nodes, Verdict(n) PROVE Unadopted'
  BY <1>1, <1>6 DEF Verdict, Unadopted, NodeTypes
<1>7. CASE UNCHANGED nodes BY <1>7 DEF nodes, Unadopted
<1>8. [Next]_vars => \/ \E n \in Nodes : Adopt(n) \/ Move(n) \/ SwitchVersion(n) \/ Verdict(n)
                     \/ RestorePrior \/ UNCHANGED nodes
  BY DEF Next, WorkerStep, Visits, Fill, Aggregate, Wait, UnlistFromPolicy, PassEnds,
         ListUnderPrior, Reconcile, Sync, UserLists, UserUnlists, UserEdits,
         OperatorCrashes, vars
<1>. QED BY <1>2, <1>3, <1>4, <1>5, <1>6, <1>7, <1>8

(* A step that moves no node keeps it, if what it adds to p's list has not *)
(* left p.                                                                 *)
LEMMA AddsKeepsLeft ==
    ASSUME ListInv, LeftUnlisted, UNCHANGED <<active, prior, blocked>>,
           NEW p \in Policies, NEW K, Adds(p, K),
           \A n \in Nodes : work'[n] # "none" /\ ~Returning(n)'
              => work[n] # "none" /\ ~Returning(n) /\ (n \in K => LeftPolicy(n) # p)
    PROVE  LeftUnlisted'
<1>. SUFFICES ASSUME NEW n \in Nodes, work'[n] # "none", ~Returning(n)', LeftPolicy(n)' # None
              PROVE  n \notin ToSet(lists'[LeftPolicy(n)'])
  BY DEF LeftUnlisted
<1>1. LeftPolicy(n)' = LeftPolicy(n) BY DEF LeftPolicy
<1>2. LeftPolicy(n) \in Policies BY <1>1 DEF LeftPolicy, ListInv, NodeTypes
<1>3. n \notin ToSet(lists[LeftPolicy(n)]) BY <1>1 DEF LeftUnlisted
<1>4. n # EmptyNode BY ListAssumption
<1>5. CASE LeftPolicy(n) = p BY <1>1, <1>3, <1>4, <1>5 DEF Adds
<1>6. CASE LeftPolicy(n) # p BY <1>1, <1>2, <1>3, <1>6 DEF Adds
<1>. QED BY <1>5, <1>6

LEMMA QuietKeepsLeft ==
    ASSUME LeftUnlisted, lists' = lists,
           \A n \in Nodes : work'[n] # "none" /\ ~Returning(n)'
              => work[n] # "none" /\ ~Returning(n) /\ LeftPolicy(n)' = LeftPolicy(n)
    PROVE  LeftUnlisted'
BY DEF LeftUnlisted

LEMMA WritesNoListKeepsLeft ==
    ASSUME ListInv, LeftUnlisted, Unadopted, WritesNoList, budget["crash"] = 0
    PROVE  LeftUnlisted'
<1>0. NodeTypes /\ lists' = lists BY WritesNoListKeeps DEF ListInv
<1>1. ASSUME NEW n \in Nodes, Adopt(n) PROVE LeftUnlisted'
  <2>1. op.pc = "walk" /\ op'.pc = "walk"
    BY <1>1, NextEntryTypes DEF Adopt, Visiting, ListInv, ListTypes
  <2>2. work' = work /\ work[n] = "none" BY <1>1 DEF Adopt, Unadopted
  <2>3. \A m \in Nodes \ {n} : LeftPolicy(m)' = LeftPolicy(m)
    BY <1>0, <1>1 DEF Adopt, LeftPolicy, NodeTypes
  <2>. QED BY <1>0, <2>1, <2>2, <2>3, QuietKeepsLeft DEF Returning
<1>2. ASSUME NEW n \in Nodes, SwitchVersion(n) PROVE LeftUnlisted'
  <2>1. op.pc = "walk" /\ op'.pc = "walk"
    BY <1>2, NextEntryTypes DEF SwitchVersion, Visiting, ListInv, ListTypes
  <2>2. work' = work BY <1>2 DEF SwitchVersion
  <2>3. \A m \in Nodes : LeftPolicy(m)' = LeftPolicy(m)
    BY <1>0, <1>2 DEF SwitchVersion, LeftPolicy, NodeTypes
  <2>. QED BY <1>0, <2>1, <2>2, <2>3, QuietKeepsLeft DEF Returning
<1>3. CASE RestorePrior
  <2>1. op.pc = "restore" /\ op'.pc = "walk" /\ op.node \in Nodes
    BY <1>3 DEF RestorePrior, ListInv, ListTypes, RolledBackNode, ProperWorkers
  <2>2. work' = [work EXCEPT ![op.node] = "none"] /\ blocked' = blocked
    BY <1>3 DEF RestorePrior
  <2>3. \A m \in Nodes \ {op.node} : LeftPolicy(m)' = LeftPolicy(m)
    BY <1>0, <1>3 DEF RestorePrior, LeftPolicy, NodeTypes
  <2>4. \A m \in Nodes : Returning(m) => m = op.node BY DEF Returning
  <2>. QED BY <1>0, <2>1, <2>2, <2>3, <2>4, QuietKeepsLeft DEF NodeTypes
<1>4. ASSUME NEW n \in Nodes, Verdict(n) PROVE LeftUnlisted'
  <2>1. op' = op /\ UNCHANGED <<active, prior, blocked>> BY <1>4 DEF Verdict
  <2>2. \A m \in Nodes : work'[m] # "none" => work[m] # "none"
    BY <1>0, <1>4 DEF Verdict, NodeTypes
  <2>. QED BY <1>0, <2>1, <2>2, QuietKeepsLeft DEF Returning, LeftPolicy
<1>5. CASE \/ \E p \in Policies : Reconcile(p) \/ Sync(p)
           \/ Wait \/ PassEnds
  <2>1. UNCHANGED nodes
    BY <1>5 DEF Reconcile, Sync, Wait, PassEnds
  <2>2. \A n \in Nodes : ~Returning(n) \/ Returning(n)'
    BY <1>5 DEF Reconcile, Sync, Wait, PassEnds, Returning
  <2>. QED BY <1>0, <2>1, <2>2, QuietKeepsLeft DEF nodes, LeftPolicy
<1>6. ~OperatorCrashes BY DEF OperatorCrashes, Spend
<1>. QED BY <1>1, <1>2, <1>3, <1>4, <1>5, <1>6 DEF WritesNoList

LEMMA WritesListKeepsLeft ==
    ASSUME ListInv, NoDuplicates, UpToDate, LeftUnlisted, Unadopted, WritesList, NotListedAgain
    PROVE  LeftUnlisted' /\ \A n \in Nodes : ListUnderPrior(n) => n \notin ToSet(lists[prior[n]])
<1>0. NodeTypes /\ op \in ProperWorkers /\ PriorElsewhere /\ None \notin Policies
  BY ListAssumption DEF ListInv, ListTypes
<1>1. CASE Fill
  <2>1. Adds(Me, Free) /\ Me \in Policies BY <1>1, FillAdds
  <2>2. \A n \in Free : work[n] = "none" BY DEF Free, Unadopted
  <2>3. UNCHANGED nodes /\ op.pc = "fill" BY <1>1 DEF Fill
  <2>4. LeftUnlisted' BY <2>1, <2>2, <2>3, AddsKeepsLeft DEF nodes, Returning
  <2>. QED BY <2>3, <2>4 DEF ListUnderPrior, Visiting
<1>2. CASE Aggregate
  <2>1. Adds(Me, Staying) /\ Me \in Policies BY <1>2, AggregateAdds
  <2>2. \A n \in Staying : LeftPolicy(n) # Me
    BY <1>0, <2>1 DEF Staying, Missing, LeftPolicy, PriorElsewhere
  <2>3. UNCHANGED nodes /\ op.pc = "aggregate" BY <1>2 DEF Aggregate
  <2>4. LeftUnlisted' BY <2>1, <2>2, <2>3, AddsKeepsLeft DEF nodes, Returning
  <2>. QED BY <2>3, <2>4 DEF ListUnderPrior, Visiting
<1>3. CASE UnlistFromPolicy
  <2>1. Adds(Me, {}) /\ Me \in Policies BY <1>3, UnlistFromPolicyAdds
  <2>2. UNCHANGED nodes /\ op.pc = "fromPolicy" BY <1>3 DEF UnlistFromPolicy
  <2>3. op'.pc = "restore" /\ op'.node = op.node
    BY <1>0, <1>3 DEF UnlistFromPolicy, ProperWorkers
  <2>4. LeftUnlisted' BY <2>1, <2>2, <2>3, AddsKeepsLeft DEF nodes, Returning
  <2>. QED BY <2>2, <2>4 DEF ListUnderPrior, Visiting
<1>4. ASSUME NEW n \in Nodes, ListUnderPrior(n)
      PROVE  LeftUnlisted' /\ n \notin ToSet(lists[prior[n]])
  <2>1. op.pc = "walk" /\ work[n] = "failed" /\ prior[n] # None /\ blocked[n] = None
    BY <1>0, <1>4 DEF ListUnderPrior, Visiting, RollsBack, PriorElsewhere
  <2>2. LeftPolicy(n) = prior[n] BY <2>1 DEF LeftPolicy
  <2>3. n \notin ToSet(lists[prior[n]]) BY <2>1, <2>2 DEF LeftUnlisted, Returning
  <2>4. Adds(prior[n], {n}) /\ prior[n] \in Policies BY <1>4, <2>3, ListUnderPriorAdds
  <2>5. UNCHANGED nodes BY <1>4 DEF ListUnderPrior
  <2>6. CASE cache[prior[n]].list = <<>>
    <3>1. lists' = lists BY <1>4, <2>6 DEF ListUnderPrior
    <3>2. LeftUnlisted' BY <2>1, <2>5, <3>1, QuietKeepsLeft DEF nodes, LeftPolicy, Returning
    <3>. QED BY <2>3, <3>2
  <2>7. CASE cache[prior[n]].list # <<>>
    <3>1. op' = [op EXCEPT !.pc = "fromPolicy", !.node = n]
      BY <1>4, <2>4, <2>7 DEF ListUnderPrior, UpToDate
    <3>2. Returning(n)' /\ \A m \in Nodes : ~Returning(m)
      BY <1>0, <2>1, <3>1 DEF Returning, ProperWorkers
    <3>3. LeftUnlisted' BY <2>4, <2>5, <3>2, AddsKeepsLeft DEF nodes
    <3>. QED BY <2>3, <3>3
  <2>. QED BY <2>6, <2>7
<1>5. ASSUME NEW n \in Nodes, Move(n) PROVE LeftUnlisted'
  <2>. DEFINE cr == active[n]
  <2>1. /\ cr \in Policies /\ Adds(cr, {}) /\ op.pc = "walk" /\ Me # None
        /\ blocked'[n] # blocked[n] => n \notin ToSet(lists'[cr])
    BY <1>0, <1>5, MoveAdds DEF UpToDate, Move, Visiting, ListInv, HeldTied
  <2>2. CASE cache[cr].list = <<>>
    <3>1. lists' = lists /\ UNCHANGED nodes BY <1>5, <2>2 DEF Move
    <3>. QED BY <2>1, <3>1, QuietKeepsLeft DEF nodes, LeftPolicy, Returning
  <2>3. CASE cache[cr].list # <<>>
    <3>1. /\ UNCHANGED <<active, prior, op>> /\ blocked[n] = None
          /\ blocked' = [blocked EXCEPT ![n] = Me]
          /\ work' = [work EXCEPT ![n] = "upgrading"]
      BY <1>5, <2>3 DEF Move
    <3>2. LeftPolicy(n)' = cr /\ n \notin ToSet(lists'[cr])
      BY <1>0, <2>1, <3>1 DEF LeftPolicy, NodeTypes
    <3>3. ASSUME NEW m \in Nodes \ {n}, work'[m] # "none", ~Returning(m)', LeftPolicy(m)' # None
          PROVE  m \notin ToSet(lists'[LeftPolicy(m)'])
      <4>1. work[m] # "none" /\ ~Returning(m) /\ LeftPolicy(m)' = LeftPolicy(m)
        BY <1>0, <3>1, <3>3 DEF LeftPolicy, Returning, NodeTypes
      <4>2. m \notin ToSet(lists[LeftPolicy(m)]) BY <3>3, <4>1 DEF LeftUnlisted
      <4>3. LeftPolicy(m) \in Policies BY <1>0, <3>3, <4>1 DEF LeftPolicy, NodeTypes
      <4>4. m # EmptyNode BY ListAssumption
      <4>. QED BY <2>1, <4>1, <4>2, <4>3, <4>4 DEF Adds
    <3>. QED BY <3>2, <3>3 DEF LeftUnlisted
  <2>. QED BY <2>2, <2>3
<1>6. ASSUME NEW p \in Policies, NEW n \in Nodes, UserLists(p, n) PROVE LeftUnlisted'
  <2>1. Adds(p, {n}) BY <1>6, UserListsAdds
  <2>2. work[n] = "none" \/ p # LeftPolicy(n) BY <1>6 DEF NotListedAgain
  <2>3. UNCHANGED nodes /\ \A m \in Nodes : Returning(m)' = Returning(m)
    BY <1>0, <1>6 DEF UserLists, UserEdits, Returning, ProperWorkers
  <2>. QED BY <2>1, <2>2, <2>3, AddsKeepsLeft DEF nodes
<1>7. ASSUME NEW p \in Policies, NEW n \in Nodes, UserUnlists(p, n) PROVE LeftUnlisted'
  <2>1. Adds(p, {}) BY <1>7, UserUnlistsAdds
  <2>2. UNCHANGED nodes /\ \A m \in Nodes : Returning(m)' = Returning(m)
    BY <1>0, <1>7 DEF UserUnlists, UserEdits, Returning, ProperWorkers
  <2>. QED BY <2>1, <2>2, AddsKeepsLeft DEF nodes
<1>8. LeftUnlisted'
  BY <1>1, <1>2, <1>3, <1>4, <1>5, <1>6, <1>7 DEF WritesList
<1>. QED BY <1>4, <1>8

(* With failed upgrades and rollbacks, as long as no cache lags, the       *)
(* operator does not crash, and users do not list a node again with the    *)
(* policy it leaves before its upgrade has succeeded.                      *)
THEOREM ListsWithRollbacks ==
    ASSUME StartsDistinct, NeverHappens("lag"), NeverHappens("crash")
    PROVE  Spec /\ [][NotListedAgain]_vars => []NoDuplicates
<1>. DEFINE Inv == ListInv /\ NoDuplicates /\ UpToDate /\ budget["crash"] = 0
               /\ Unadopted /\ LeftUnlisted
<1>1. Init => Inv
  <2>1. Init => NoDuplicates BY DEF Init, StartsDistinct, NoDuplicates, Distinct
  <2>2. Init => UpToDate /\ budget["crash"] = 0 BY DEF Init, NeverHappens, UpToDate
  <2>3. Init => Unadopted /\ LeftUnlisted BY DEF Init, Unadopted, LeftUnlisted
  <2>. QED BY <2>1, <2>2, <2>3, InitIsTied
<1>2. Inv /\ [Next]_vars /\ [NotListedAgain]_vars => Inv'
  <2>. SUFFICES ASSUME Inv, [Next]_vars, [NotListedAgain]_vars
                PROVE  NoDuplicates' /\ LeftUnlisted'
    BY NextKeepsTied, UpToDateKept, UnadoptedKept, NothingSpent DEF Events
  <2>1. CASE UNCHANGED vars
    BY <2>1 DEF vars, nodes, NoDuplicates, LeftUnlisted, LeftPolicy, Returning
  <2>2. CASE WritesNoList
    BY <2>2, WritesNoListKeeps, WritesNoListKeepsLeft DEF NoDuplicates
  <2>3. CASE WritesList /\ NotListedAgain
    BY <2>3, WritesListKeepsLeft, WritesKeepDistinct
  <2>. QED BY <2>1, <2>2, <2>3, NextSplit
<1>. QED BY <1>1, <1>2, PTL DEF Spec

-----------------------------------------------------------------------------
(* A walk visits nodes that the list has: the array it ranges over was the *)
(* list when it began, and only a rollback or a user takes nodes off it.   *)
WalkIsListed ==
    /\ op.pc \notin {"fromPolicy", "restore"}
    /\ op.pc = "walk" => /\ op.at > 0
                         /\ ToSet(op.array) \cap Nodes \subseteq ToSet(lists[Me])

StaysListed == ToSet(lists[Me]) \cap Nodes \subseteq ToSet(lists'[Me])

LEMMA StartWalkIsListed ==
    ASSUME op \in ProperWorkers, Me \in Policies, cache' \in [Policies -> ProperCopies],
           \A q \in Policies : Tied(cache[q], q)' /\ ~cache'[q].stale,
           NEW copy \in ProperCopies, StartWalk(Me, copy)
    PROVE  WalkIsListed'
<1>1. op'.pc = "walk" /\ op'.at = 1 /\ op'.array = cache'[Me].list /\ Me' = Me
  BY DEF StartWalk, ProperWorkers, Me
<1>2. cache'[Me].list = lists'[Me] BY DEF Tied
<1>. QED BY <1>1, <1>2 DEF WalkIsListed

LEMMA WalkGoesOn ==
    ASSUME ListInv, WalkIsListed, StaysListed, op.pc = "walk",
           op' = op \/ NextEntry
    PROVE  WalkIsListed'
<1>1. op \in ProperWorkers /\ op.at \in Nat BY DEF ListInv, ListTypes, ProperWorkers
<1>2. op'.pc = "walk" /\ op'.array = op.array /\ Me' = Me
  <2>1. CASE op' = op BY <2>1 DEF Me
  <2>2. CASE NextEntry BY <1>1, <2>2 DEF NextEntry, ProperWorkers, Me
  <2>. QED BY <2>1, <2>2
<1>3. op'.at > 0
  <2>1. CASE op' = op BY <2>1 DEF WalkIsListed
  <2>2. CASE NextEntry
    <3>. DEFINE next == op.at + 1
    <3>1. op' = [op EXCEPT !.pc = "walk", !.at = next] BY <2>2 DEF NextEntry
    <3>2. next > 0 BY <1>1
    <3>. HIDE DEF next
    <3>. QED BY <1>1, <3>1, <3>2 DEF ProperWorkers
  <2>. QED BY <2>1, <2>2
<1>. QED BY <1>2, <1>3 DEF WalkIsListed, StaysListed

LEMMA NoWalk == ASSUME op'.pc \in {"idle", "fill", "aggregate"} PROVE WalkIsListed'
BY DEF WalkIsListed

LEMMA FillStartsNoWalk == ListInv /\ Fill => WalkIsListed'
<1>. SUFFICES ASSUME ListInv, Fill PROVE op'.pc = "aggregate"
  BY NoWalk
<1>1. op \in ProperWorkers BY DEF ListInv, ListTypes
<1>2. op'.pc = "aggregate"
  <2>1. CASE op.held.list # <<>> BY <1>1, <2>1 DEF Fill, ProperWorkers
  <2>2. CASE op.held.list = <<>>
    <3>1. PICK l \in SetToSeqs(Free) : op' = [op EXCEPT !.pc = "aggregate", !.held.list = l]
      BY <2>2 DEF Fill
    <3>. QED BY <1>1, <3>1 DEF ProperWorkers
  <2>. QED BY <2>1, <2>2
<1>. QED BY <1>2

LEMMA AggregateStartsListed == ListInv /\ UpToDate /\ Aggregate => WalkIsListed'
<1>. SUFFICES ASSUME ListInv, UpToDate, Aggregate PROVE WalkIsListed'
  OBVIOUS
<1>1. /\ op \in ProperWorkers /\ Me \in Policies /\ op.held \in ProperCopies
      /\ op.held.list \in ProperLists /\ op.held.list # <<EmptyNode>>
  BY DEF Aggregate, ListInv, ListTypes, HeldTied, ProperWorkers, ProperCopies
<1>2. ListInv' /\ cache' \in [Policies -> ProperCopies]
  BY AggregateKeeps DEF ListInv, ListTypes
<1>3. \A q \in Policies : Tied(cache[q], q)' BY <1>2 DEF ListInv
<1>. DEFINE Step(K, tail) ==
        IF K = {}
        THEN UNCHANGED <<lists, cache>> /\ StartWalk(Me, op.held)
        ELSE /\ TryUpdate(Me, op.held, op.held.list \o tail)
             /\ IF op.held.stale THEN op' = Idle
                ELSE StartWalk(Me, [op.held EXCEPT !.list = op.held.list \o tail])
<1>a. PICK K \in Aggregated : \E tail \in SetToSeqs(K) : Step(K, tail) BY DEF Aggregate
<1>b. PICK tail \in SetToSeqs(K) : Step(K, tail) BY <1>a
<1>4. CASE K = {}
  <2>1. UNCHANGED cache /\ StartWalk(Me, op.held) BY <1>b, <1>4
  <2>2. \A q \in Policies : ~cache'[q].stale BY <2>1 DEF UpToDate
  <2>. QED BY <1>1, <1>2, <1>3, <2>1, <2>2, StartWalkIsListed
<1>5. CASE K # {}
  <2>. DEFINE l == op.held.list \o tail
              copy == [op.held EXCEPT !.list = l]
  <2>1. TryUpdate(Me, op.held, l) BY <1>b, <1>5
  <2>2. \A q \in Policies : ~cache'[q].stale BY <1>1, <2>1, WriteIsSeen
  <2>3. CASE op.held.stale
    <3>1. op' = Idle BY <1>b, <1>5, <2>3
    <3>. QED BY <3>1, IdleIsProper, NoWalk
  <2>4. CASE ~op.held.stale
    <3>1. StartWalk(Me, copy) BY <1>b, <1>5, <2>4
    <3>2. tail \in Seq(Nodes)
      <4>1. K \in SUBSET Nodes BY DEF Aggregated, Staying, Missing
      <4>. QED BY <4>1, SetToSeqsIsProper
    <3>3. copy \in ProperCopies
      <4>1. l \in ProperLists BY <1>1, <3>2, JoinIsProper DEF ProperLists
      <4>. QED BY <1>1, <4>1 DEF ProperCopies
    <3>. HIDE DEF copy
    <3>. QED BY <1>1, <1>2, <1>3, <2>2, <3>1, <3>3, StartWalkIsListed
  <2>. QED BY <2>3, <2>4
<1>. QED BY <1>4, <1>5

LEMMA MoveStaysListed ==
    ASSUME ListInv, NEW n \in Nodes, Move(n)
    PROVE  StaysListed
<1>. DEFINE cr == active[n]
            l == RemoveNode(cache[cr].list, n)
<1>1. /\ cr \in Policies /\ cr # Me /\ Me \in Policies /\ cache[cr].list \in ProperLists
      /\ lists \in [Policies -> ProperLists]
  BY DEF Move, Visiting, ListInv, ListTypes, HeldTied, NodeTypes, ProperCopies
<1>2. CASE cache[cr].list = <<>>
  <2>1. lists' = lists BY <1>2 DEF Move
  <2>. QED BY <2>1 DEF StaysListed
<1>3. CASE cache[cr].list # <<>>
  <2>1. TryUpdate(cr, cache[cr], l) BY <1>3 DEF Move
  <2>2. l \in ProperLists BY <1>1, RemoveNodeIsProper
  <2>. HIDE DEF l
  <2>3. lists' = IF cache[cr].stale THEN lists ELSE [lists EXCEPT ![cr] = l]
    BY <1>1, <2>1, <2>2, UpdateKeepsCache
  <2>. QED BY <1>1, <2>3 DEF StaysListed
<1>. QED BY <1>2, <1>3

LEMMA UserListsStaysListed ==
    ASSUME ListInv, op.pc # "idle", NEW p \in Policies, NEW n \in Nodes, UserLists(p, n)
    PROVE  StaysListed
<1>. DEFINE l == IF lists[p] = <<EmptyNode>> THEN <<n>> ELSE Append(lists[p], n)
<1>1. lists \in [Policies -> ProperLists] /\ Me \in Policies BY DEF ListInv, ListTypes, HeldTied
<1>2. WriteList(p, l) BY DEF UserLists, UserEdits
<1>3. l \in ProperLists /\ ToSet(lists[p]) \cap Nodes \subseteq ToSet(l)
  <2>1. CASE lists[p] = <<EmptyNode>>
    <3>1. <<n>> \in ProperLists BY DEF ProperLists
    <3>2. ToSet(lists[p]) \cap Nodes = {} BY <2>1, OnlyPlaceholder, ListAssumption
    <3>. QED BY <2>1, <3>1, <3>2
  <2>2. CASE lists[p] # <<EmptyNode>>
    <3>1. lists[p] \in Seq(Nodes) BY <1>1, <2>2 DEF ProperLists
    <3>2. /\ l \in Seq(Nodes) /\ Len(l) = Len(lists[p]) + 1
          /\ \A i \in 1..Len(lists[p]) : l[i] = lists[p][i]
      BY <2>2, <3>1, AppendProperties
    <3>3. /\ DOMAIN lists[p] = 1..Len(lists[p]) /\ DOMAIN l = 1..Len(l)
          /\ Len(lists[p]) \in Nat
      BY <3>1, <3>2, LenProperties
    <3>. HIDE DEF l
    <3>4. ToSet(lists[p]) \subseteq ToSet(l) BY <3>2, <3>3 DEF ToSet
    <3>. QED BY <3>2, <3>4 DEF ProperLists
  <2>. QED BY <2>1, <2>2
<1>. HIDE DEF l
<1>4. lists' = [lists EXCEPT ![p] = l] BY <1>2, <1>3, WriteKeepsCache
<1>. QED BY <1>1, <1>3, <1>4 DEF StaysListed

LEMMA WalkIsListedKept ==
    ASSUME ListInv, UpToDate, NoRollback, WalkIsListed, budget["remove"] = 0, [Next]_vars
    PROVE  WalkIsListed'
<1>0. op \in ProperWorkers BY DEF ListInv, ListTypes
<1>1. CASE Fill BY <1>1, FillStartsNoWalk
<1>2. CASE Aggregate BY <1>2, AggregateStartsListed
<1>3. ~UnlistFromPolicy /\ ~RestorePrior BY DEF UnlistFromPolicy, RestorePrior, WalkIsListed
<1>4. \A n \in Nodes : ~ListUnderPrior(n)
  BY DEF ListUnderPrior, RollsBack, NoRollback, NoneFailed
<1>5. ASSUME NEW n \in Nodes, Move(n) PROVE WalkIsListed'
  <2>1. CASE op' = Idle BY <2>1, IdleIsProper, NoWalk
  <2>2. CASE op' = op
    BY <1>5, <2>2, MoveStaysListed, WalkGoesOn DEF Move, Visiting
  <2>. QED BY <1>5, <2>1, <2>2 DEF Move
<1>6. ASSUME NEW n \in Nodes, Adopt(n) \/ SwitchVersion(n) PROVE WalkIsListed'
  BY <1>6, WalkGoesOn DEF Adopt, SwitchVersion, Visiting, StaysListed
<1>7. CASE Wait BY <1>7, WalkGoesOn DEF Wait, StaysListed
<1>8. CASE PassEnds
  <2>1. CASE op' = Idle BY <2>1, IdleIsProper, NoWalk
  <2>2. CASE op' = [Idle EXCEPT !.pc = "fill", !.policy = Me, !.held = op.held]
    <3>1. op'.pc = "fill" BY <2>2 DEF Idle
    <3>. QED BY <3>1, NoWalk
  <2>. QED BY <1>8, <2>1, <2>2 DEF PassEnds
<1>9. CASE \E p \in Policies : Reconcile(p)
  <2>1. op'.pc = "fill" BY <1>9 DEF Reconcile, Idle
  <2>. QED BY <2>1, NoWalk
<1>10. CASE OperatorCrashes BY <1>10, IdleIsProper, NoWalk DEF OperatorCrashes
<1>11. ASSUME NEW p \in Policies, NEW n \in Nodes, UserLists(p, n) PROVE WalkIsListed'
  <2>1. op'.pc = op.pc /\ op'.array = op.array /\ op'.at = op.at /\ Me' = Me
    BY <1>0, <1>11 DEF UserLists, UserEdits, ProperWorkers, Me
  <2>2. op.pc = "walk" => StaysListed BY <1>11, UserListsStaysListed
  <2>. QED BY <2>1, <2>2 DEF WalkIsListed, StaysListed
<1>12. \A p \in Policies, n \in Nodes : ~UserUnlists(p, n) BY DEF UserUnlists, Spend
<1>13. CASE lists' = lists /\ op' = op BY <1>13 DEF WalkIsListed, Me
<1>14. ASSUME NEW n \in Nodes, Verdict(n) PROVE lists' = lists /\ op' = op
  BY <1>14 DEF Verdict
<1>15. ASSUME NEW p \in Policies, Sync(p) PROVE lists' = lists /\ op' = op
  BY <1>15 DEF Sync
<1>16. CASE UNCHANGED vars BY <1>13, <1>16 DEF vars
<1>. QED
  BY <1>1, <1>2, <1>3, <1>4, <1>5, <1>6, <1>7, <1>8, <1>9, <1>10, <1>11, <1>12, <1>13,
     <1>14, <1>15, <1>16
  DEF Next, WorkerStep, Visits

LEMMA OnlyMoveBlocks ==
    ASSUME ListInv, [Next]_vars, NEW n \in Nodes, blocked[n] = None, blocked'[n] # None
    PROVE  Move(n) /\ blocked'[n] = Me
<1>0. NodeTypes BY DEF ListInv
<1>1. ASSUME NEW m \in Nodes, Move(m) PROVE Move(n) /\ blocked'[n] = Me
  <2>1. blocked' # blocked BY <1>0
  <2>2. blocked' = [blocked EXCEPT ![m] = Me] BY <1>1, <2>1 DEF Move, nodes
  <2>3. n = m BY <1>0, <2>2 DEF NodeTypes
  <2>. QED BY <1>0, <1>1, <2>2, <2>3 DEF NodeTypes
<1>2. ASSUME NEW m \in Nodes, SwitchVersion(m) PROVE FALSE
  BY <1>0, <1>2 DEF SwitchVersion, NodeTypes
<1>3. CASE blocked' = blocked BY <1>3
<1>4. [Next]_vars => (\E m \in Nodes : Move(m) \/ SwitchVersion(m)) \/ blocked' = blocked
  BY DEF Next, WorkerStep, Visits, Fill, Aggregate, Wait, UnlistFromPolicy, RestorePrior,
         PassEnds, Adopt, ListUnderPrior, Reconcile, Sync, UserLists, UserUnlists,
         UserEdits, Verdict, OperatorCrashes, nodes, vars
<1>. QED BY <1>1, <1>2, <1>3, <1>4

(* A node is moved only to a policy that lists it, as long as nothing is   *)
(* rolled back (a rollback shifts the array under the walk: there the      *)
(* property fails), users take no node off a list in the middle of a walk  *)
(* and the cache does not lag; crashes and further nodes listed at any     *)
(* time included.                                                          *)
THEOREM MovesStayListed ==
    ASSUME NeverRollsBack, NeverHappens("remove"), NeverHappens("lag")
    PROVE  Spec => MovesOnlyListedNodes
<1>. DEFINE Inv == ListInv /\ UpToDate /\ NoRollback /\ WalkIsListed /\ budget["remove"] = 0
            Moves == \A n \in Nodes : blocked[n] = None /\ blocked'[n] # None
                        => n \in ToSet(lists[blocked'[n]])
<1>1. Init => Inv
  <2>1. Init => UpToDate /\ budget["remove"] = 0 BY DEF Init, NeverHappens, UpToDate
  <2>2. Init => NoRollback BY DEF Init, NeverRollsBack, NeverHappens, NoRollback, NoneFailed
  <2>3. Init => WalkIsListed BY IdleIsProper DEF Init, WalkIsListed
  <2>. QED BY <2>1, <2>2, <2>3, InitIsTied
<1>2. Inv /\ [Next]_vars => Inv'
  <2>. SUFFICES ASSUME Inv, [Next]_vars PROVE NoRollback'
    BY NextKeepsTied, UpToDateKept, WalkIsListedKept, NothingSpent DEF Events
  <2>. QED BY NoneFailedKept DEF NoRollback
<1>3. Inv /\ [Next]_vars => [Moves]_vars
  <2>. SUFFICES ASSUME Inv, [Next]_vars, NEW n \in Nodes, blocked[n] = None, blocked'[n] # None
                PROVE  n \in ToSet(lists[blocked'[n]])
    OBVIOUS
  <2>1. Move(n) /\ blocked'[n] = Me BY OnlyMoveBlocks
  <2>2. op.pc = "walk" /\ op.at <= Len(op.array) /\ op.array[op.at] = n /\ op.at > 0
    BY <2>1 DEF Move, Visiting, WalkIsListed
  <2>3. op.at \in DOMAIN op.array
    BY <2>2, LenProperties DEF ListInv, ListTypes, ProperWorkers, Lists
  <2>4. n \in ToSet(op.array) BY <2>2, <2>3 DEF ToSet
  <2>. QED BY <2>1, <2>2, <2>4 DEF WalkIsListed
<1>. QED BY <1>1, <1>2, <1>3, PTL DEF Spec, MovesOnlyListedNodes
=============================================================================
