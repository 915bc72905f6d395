---------------------------- MODULE MCNodeUpdate ----------------------------
(* Instances of NodeUpdate for TLC.                                        *)
EXTENDS UpdateProperties

CONSTANTS active, torn, timer, other, x

SetLabel(k) == [kind |-> "label", key |-> k, value |-> x, verify |-> k, type |-> "addition"]
DeleteLabel(k) == [kind |-> "label", key |-> k, value |-> Absent, verify |-> k, type |-> "deletion"]
DeleteTimer == [kind |-> "annotation", key |-> timer, value |-> Absent, verify |-> timer, type |-> "deletion"]
SetTimer == [kind |-> "annotation", key |-> timer, value |-> x, verify |-> timer, type |-> "addition"]

(* Calls that verify what they change.                                     *)
VerifiedCalls == {SetLabel(active), SetLabel(torn), DeleteLabel(torn), SetTimer, DeleteTimer}

Happens(calls, foreign, glitch, lost, crash) ==
    [e \in Events |-> CASE e = "call" -> calls [] e = "foreign" -> foreign
                        [] e = "glitch" -> glitch [] e = "lost" -> lost [] OTHER -> crash]

(* Three calls with one other writer, a failed Update and a crash or a     *)
(* lost answer.                                                            *)
ThreeCalls == {Happens(3, 1, 1, 0, 1), Happens(3, 1, 0, 1, 0)}
=============================================================================
