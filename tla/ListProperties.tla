--------------------------- MODULE ListProperties ---------------------------
(* What makes PolicyLists correct.                                         *)
EXTENDS PolicyLists

(* The placeholder stands alone: beside a node it would be taken for the   *)
(* place to remove, and the "only the placeholder" test would not see it   *)
(* (rollbackHandler, labelX100NodeswithCR).                                *)
PlaceholderAlone ==
    \A p \in Policies : EmptyNode \in ToSet(lists[p]) => lists[p] = <<EmptyNode>>

(* The operator never empties a list: an empty list means every free node, *)
(* so that the policy would help itself to nodes nobody gave to it.        *)
NeverEmptied ==
    [][ WorkerStep => \A p \in Policies : lists'[p] = <<>> => lists[p] = <<>> ]_vars

(* No list names a node twice: a removal takes only the first.             *)
NoDuplicates ==
    \A p \in Policies : \A i, j \in DOMAIN lists[p] : lists[p][i] = lists[p][j] => i = j

(* "Process only nodes that are in the policy nodeSelectorList": a node is *)
(* moved only to a policy that lists it.                                   *)
MovesOnlyListedNodes ==
    [][ \A n \in Nodes : blocked[n] = None /\ blocked'[n] # None
            => n \in ToSet(lists[blocked'[n]]) ]_vars

(* "If there are nodes that are not part of policy selectorlist but are    *)
(* having the activeCR as current policy we need to aggregate these": a    *)
(* node that its policy's list lacks is listed again, or moves on.         *)
Unlisted(n, p) == active[n] = p /\ blocked[n] = None /\ n \notin ToSet(lists[p])

Reaggregated == \A n \in Nodes, p \in Policies : Unlisted(n, p) ~> ~Unlisted(n, p)

(* In the end every node is on the list of its policy and on no other one, *)
(* however the lists overlapped and whichever policy was taken up first; a *)
(* node of no policy is on no list.                                        *)
EventuallyHome ==
    <>[](\A n \in Nodes :
            {p \in Policies : n \in ToSet(lists[p])} = {active[n]} \ {None})
=============================================================================
