-------------------------- MODULE DaemonManagerMC --------------------------
(* Small instances of DaemonManager: up to three processes, each of which  *)
(* can reboot any number of times.                                         *)
EXTENDS DaemonManager, TLC

CONSTANTS p1, p2, p3

MCSymmetry == Permutations({p1, p2})
=============================================================================
