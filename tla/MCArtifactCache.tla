--------------------------- MODULE MCArtifactCache ---------------------------
(***************************************************************************)
(* Small instances of ArtifactCache for TLC.                               *)
(***************************************************************************)
EXTENDS ArtifactCache

CONSTANTS t1, t2, original, rebuilt, unsigned
=============================================================================
