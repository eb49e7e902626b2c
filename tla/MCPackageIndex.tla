--------------------------- MODULE MCPackageIndex ---------------------------
(***************************************************************************)
(* Small instances of PackageIndex for TLC.                                *)
(***************************************************************************)
EXTENDS PackageIndex, TLC

CONSTANTS t1, t2, v1, v2, v3, wheel, sdist

\* Requests and files are interchangeable.
Symmetry == Permutations({t1, t2}) \cup Permutations({wheel, sdist})

\* A history that is mixed stays so, and the invariants are about the others.
Unmixed == history # "mixed"
=============================================================================
