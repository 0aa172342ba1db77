--------------------------- MODULE MCArtifactStore ---------------------------
(***************************************************************************)
(* ArtifactStore on small instances; every constant is given in the cfg.    *)
(***************************************************************************)
EXTENDS ArtifactStore

=============================================================================
