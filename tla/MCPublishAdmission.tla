------------------------- MODULE MCPublishAdmission -------------------------
(***************************************************************************)
(* Small instances of PublishAdmission for TLC.                            *)
(***************************************************************************)
EXTENDS PublishAdmission

CONSTANTS t1, t2, w1, v1, v2, scope, l1, l2

\* Two versions of a namespace that may have one, of one byte.
OneNamespace == [c \in Coordinates |-> scope]
One == [n \in Namespaces |-> 1]

Ask(c, n, o) == [coord |-> c, bytes |-> n, overwrite |-> o]

\* A version that may be overwritten and one that may not.
AllRequests == {Ask(v1, 1, TRUE), Ask(v2, 1, FALSE)}
=============================================================================
