--------------------------- MODULE MCQuarantine ---------------------------
(* Instances of Quarantine for TLC: coordinates a and b, digests d1 .. d3.  *)
EXTENDS Quarantine

CONSTANTS a, b, d1, d2, d3

\* One artifact, blocked.
Single == {[coord |-> a, digests |-> <<d1>>, overwrite |-> FALSE]}
\* Two versions that each ship a blocked artifact, one with a harmless one too; one
\* of them may overwrite.
Distinct == {[coord |-> a, digests |-> <<d1, d3>>, overwrite |-> TRUE],
             [coord |-> b, digests |-> <<d2>>, overwrite |-> FALSE]}
\* Two packages with one artifact in common.
Shared == {[coord |-> a, digests |-> <<d1>>, overwrite |-> TRUE],
           [coord |-> b, digests |-> <<d1>>, overwrite |-> FALSE]}
\* One package with two blocked artifacts.
TwoBlocked == {[coord |-> a, digests |-> <<d1, d2>>, overwrite |-> FALSE]}

\* A proxied artifact with the bytes of a hosted one.
ProxiedTwin == {<<<<b, 1>>, d1>>}
NoProxied == {}
===========================================================================
