-------------------------- MODULE MCNodeLifecycle --------------------------
(* Instances of NodeLifecycle for TLC: the outside events of each run.     *)
EXTENDS NodeProperties, TLC

Symmetry == Permutations(Policies)

NoFaults == [f \in Faults |-> 0]

Moves2Timeout == [NoFaults EXCEPT !.move = 2, !.timeout = 1]
Moves2CrashTimeoutApiFail == [NoFaults EXCEPT !.move = 2, !.crash = 1, !.timeout = 1, !.apifail = 1]
Moves2Reboots2 == [NoFaults EXCEPT !.move = 2, !.reboot = 2]
Moves2Deletions2 == [NoFaults EXCEPT !.move = 2, !.delete = 2]
Moves2CrashIsolateFlap == [NoFaults EXCEPT !.move = 2, !.crash = 1, !.isolate = 1, !.flap = 1]
Moves2Crash == [NoFaults EXCEPT !.move = 2, !.crash = 1]
MoveDeletionPodFailure == [NoFaults EXCEPT !.move = 1, !.delete = 1, !.podfail = 1]
MoveRebootDeletion == [NoFaults EXCEPT !.move = 1, !.reboot = 1, !.delete = 1]
MoveReboot == [NoFaults EXCEPT !.move = 1, !.reboot = 1]

(* The scenarios of each run.                                              *)
Plain == {Moves2Timeout}
Everything == {Moves2CrashTimeoutApiFail, Moves2Reboots2, Moves2Deletions2, Moves2CrashIsolateFlap}
Recoverable == {Moves2Crash, MoveDeletionPodFailure, MoveRebootDeletion}
OneCrash == {Moves2Crash}
OneReboot == {MoveReboot}
=============================================================================
