------------------------- MODULE MCPolicyReconciler -------------------------
(* Instances of PolicyReconciler for TLC.                                  *)
EXTENDS ReconcilerProperties

CONSTANTS p1, p2, n1, n2

Fresh == [adopted |-> FALSE, ready |-> TRUE, cordoned |-> FALSE,
          sel |-> {}, up |-> {}, flags |-> {}]
Done == [Fresh EXCEPT !.adopted = TRUE, !.sel = Assets, !.up = Assets,
                      !.flags = {"present", "judged", "marked"}]
Failed == [Done EXCEPT !.flags = @ \cup {"failed"}]

OnePolicy == [n \in {n1, n2} |-> p1]
Separate == [n \in {n1, n2} |-> IF n = n1 THEN p1 ELSE p2]

Events(f) == [e \in Faults |-> IF e \in DOMAIN f THEN f[e] ELSE 0]

Scenario(layout, s1, s2, events) ==
    [listed |-> layout, node |-> [n \in {n1, n2} |-> IF n = n1 THEN s1 ELSE s2],
     budget |-> Events(events)]

(* Policies with one node each, from the first request on.                 *)
OneNodeEach ==
    { Scenario(Separate, Fresh, Fresh, [crash |-> 1, glitch |-> 1, slow |-> 1]),
      Scenario(Separate, Fresh, Done, [crash |-> 2, slow |-> 1]) }

(* A policy with two nodes that was Operational before; in the last one an *)
(* upgrade had failed.                                                     *)
TwoNodes ==
    { Scenario(OnePolicy, Done, Done, [reboot |-> 2]),
      Scenario(OnePolicy, Done, Done, [reboot |-> 1, crash |-> 1, lostNotReady |-> 1]),
      Scenario(OnePolicy, Done, Done, [reboot |-> 1, cordon |-> 1, glitch |-> 1]),
      Scenario(OnePolicy, Failed, Done, [reboot |-> 2]) }

OneAndTwoNodes == OneNodeEach \cup TwoNodes

(* A policy with two nodes, from the first request on, and nothing amiss.  *)
TwoFreshNodes == { Scenario(OnePolicy, Fresh, Fresh, [reboot |-> 0]) }
=============================================================================
