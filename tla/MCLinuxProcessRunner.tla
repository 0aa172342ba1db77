------------------------ MODULE MCLinuxProcessRunner ------------------------
(***************************************************************************)
(* LinuxProcessRunner for TLC: both cleanup scopes, MaxFaults faults.      *)
(***************************************************************************)
EXTENDS LinuxProcessRunner
=============================================================================
