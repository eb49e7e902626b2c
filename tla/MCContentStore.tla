--------------------------- MODULE MCContentStore ---------------------------
(***************************************************************************)
(* Small instances of ContentStore for TLC.                                *)
(***************************************************************************)
EXTENDS ContentStore, TLC

CONSTANTS p1, p2, s1, s2, r1, c1, c2, fileA, fileB, d1, d2

Publish(c, files) == [comp |-> c, files |-> files]
File(f, d) == [path |-> f, digest |-> d]

\* Two versions that ship the same bytes, and one that ships two files.
SharedRequests ==
    {Publish(c1, {File(fileA, d1)}),
     Publish(c2, {File(fileA, d1), File(fileB, d2)})}

\* Two versions, one digest: the smallest instance with deduplication.
OneBlobRequests == {Publish(c1, {File(fileA, d1)}), Publish(c2, {File(fileA, d1)})}

\* Publishers differ in nothing but their name.
Symmetry == Permutations(Publishers)
=============================================================================
