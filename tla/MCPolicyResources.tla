-------------------------- MODULE MCPolicyResources --------------------------
(* Instances of PolicyResources for TLC.                                   *)
EXTENDS ResourceProperties

CONSTANTS p1, p2, v1, v2

Allow(f) == [e \in Events |-> IF e \in DOMAIN f THEN f[e] ELSE 0]

Empty(events) ==
    [policy |-> [p \in Policies |-> Absent], owner |-> [o \in Objects |-> None],
     budget |-> Allow(events)]

(* A policy of an earlier operator, which made it the owner of everything. *)
Upgraded(events) ==
    [policy |-> [p \in Policies |-> IF p = p1 THEN [phase |-> "live", uid |-> 1, version |-> v1,
                                                    finalizer |-> TRUE]
                                    ELSE Absent],
     owner |-> [o \in Objects |-> IF o[2] \in {None, v1} THEN 1 ELSE None],
     budget |-> Allow(events)]

(* Policies come and go, with a crash or a failure; or one changes its     *)
(* version; or two are admitted with one version.                          *)
ComeAndGo ==
    { Empty([create |-> 3, delete |-> 1]),
      Empty([create |-> 2, delete |-> 2, crash |-> 1]),
      Empty([create |-> 1, edit |-> 2, delete |-> 1, glitch |-> 1]),
      Empty([create |-> 2, delete |-> 1, stale |-> 1, glitch |-> 1]),
      Upgraded([create |-> 1, delete |-> 1, glitch |-> 1]) }

TwoPolicies == { Empty([create |-> 2, delete |-> 1]) }
=============================================================================
