--------------------------- MODULE MCPolicyLists ---------------------------
(* Instances of PolicyLists for TLC.                                       *)
EXTENDS ListProperties

CONSTANTS p1, p2, n1, n2, n3

NoEvents == [e \in Events |-> 0]

Scenario(l1, l2, events) ==
    [start |-> [p \in {p1, p2} |-> IF p = p1 THEN l1 ELSE l2], budget |-> events]

Happen(e, k) == [NoEvents EXCEPT ![e] = k]
AddFail == [NoEvents EXCEPT !["add"] = 1, !["fail"] = 1]

(* Two moves that succeed, from a list emptied before, from an empty list  *)
(* and from one that overlaps; and a move that is rolled back to a policy  *)
(* which it left with the placeholder.                                     *)
MovesAndOneRollback ==
    { Scenario(<<n1, n2>>, <<EmptyNode>>, Happen("add", 2)),
      Scenario(<<>>, <<n1>>, Happen("add", 2)),
      Scenario(<<n1, n2>>, <<n1>>, Happen("add", 2)),
      Scenario(<<n1>>, <<n2>>, AddFail) }

(* Two moves with two crashes; nodes taken off the list by the user while  *)
(* the cache lags, or while the operator crashes.                          *)
FaultsAndEdits ==
    { Scenario(<<n1, n2>>, <<EmptyNode>>, [Happen("add", 2) EXCEPT !["crash"] = 2]),
      Scenario(<<n1, n2>>, <<EmptyNode>>, [Happen("remove", 1) EXCEPT !["lag"] = 1]),
      Scenario(<<>>, <<EmptyNode>>, [Happen("remove", 1) EXCEPT !["lag"] = 1]),
      Scenario(<<>>, <<EmptyNode>>, [Happen("remove", 2) EXCEPT !["crash"] = 1]) }

(* A third node: two of the moves that overlapping lists make fail, and    *)
(* are rolled back in one walk.                                            *)
TwoRollbacks == { Scenario(<<n1, n2, n3>>, <<n1, n2, n3>>, Happen("fail", 2)) }

MovesEditsAndFaults == MovesAndOneRollback \cup FaultsAndEdits
=============================================================================
