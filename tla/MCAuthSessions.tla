---------------------------- MODULE MCAuthSessions ----------------------------
(***************************************************************************)
(* Two users, three requests at a time.                                     *)
(***************************************************************************)
EXTENDS AuthSessions
=============================================================================
