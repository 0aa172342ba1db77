------------------------ MODULE MCCredentialRotation ------------------------
(***************************************************************************)
(* CredentialRotation on small instances.  One recovery token is enough for *)
(* a second installation, one or two keys for a rotation after a rotation.  *)
(***************************************************************************)
EXTENDS CredentialRotation

=============================================================================
