------------------------ MODULE MCLinuxSecretStore ------------------------
(***************************************************************************)
(* LinuxSecretStore on small instances.                                    *)
(***************************************************************************)
EXTENDS LinuxSecretStore, TLC

CONSTANTS p1, p2, k1, v1, v2

\* Processes and plaintexts are interchangeable.
MCSymmetry == Permutations(Procs) \cup Permutations(Values)
=============================================================================
