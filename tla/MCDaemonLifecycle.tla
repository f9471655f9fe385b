------------------------- MODULE MCDaemonLifecycle -------------------------
(* Finite instances of DaemonLifecycle for TLC. *)
EXTENDS DaemonLifecycle

CONSTANTS main, scanner, w1

TwoThreads == {main, scanner}
OneWaiter == {w1}
DaemonRequests == {Scanning, Ready, Terminating}
HealthyTargets == {Scanning, Ready, Terminating}
=============================================================================
