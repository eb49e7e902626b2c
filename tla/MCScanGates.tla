---------------------------- MODULE MCScanGates ----------------------------
(* Instances of ScanGates for TLC: artifacts a and b, digests d1 and d2,    *)
(* keys k1 and k2.                                                          *)
EXTENDS ScanGates

CONSTANTS a, b, d1, d2, k1, k2, t1, t2, o1

Plain == [strict |-> TRUE, onServe |-> TRUE, quarantine |-> TRUE, requireSignature |-> FALSE,
          requireProvenance |-> FALSE, signCached |-> FALSE, mode |-> "off",
          signer |-> Nothing, known |-> {}]
Denying == [Plain EXCEPT !.quarantine = FALSE]
Lenient == [Plain EXCEPT !.strict = FALSE]
Unscanned == [Plain EXCEPT !.onServe = FALSE]
\* A key that is rotated, then disabled.
First == [Unscanned EXCEPT !.requireSignature = TRUE, !.requireProvenance = TRUE,
          !.signCached = TRUE, !.mode = "sign_and_verify", !.signer = k1, !.known = {k1}]
Rotated == [First EXCEPT !.signer = k2, !.known = {k1, k2}]
Retired == [First EXCEPT !.requireSignature = FALSE, !.signer = k2, !.known = {k2}]
\* Signatures are checked, and none are made.
Verifying == [Unscanned EXCEPT !.requireSignature = TRUE, !.signCached = TRUE,
              !.mode = "verify_only", !.known = {k1}]

None == [advisories |-> 0, evictions |-> 0, faults |-> 0, restarts |-> 0]
Some(n, e, f, r) == [advisories |-> n, evictions |-> e, faults |-> f, restarts |-> r]
Deployed(actors, policies, hosted, upstream, preloaded, limits) ==
    [actors |-> actors, sweeps |-> limits.advisories > 0, policies |-> policies, hosted |-> hosted, upstream |-> upstream,
     preloaded |-> preloaded, limits |-> limits, used |-> None]

\* A hosted artifact and an upstream one with the same bytes, as advisories land.
Twins(actors, limits) == Deployed(actors, {Plain}, {<<a, d1>>}, {<<b, d1>>}, {}, limits)
Served(actors, policies, limits) == Deployed(actors, policies, {}, {<<b, d1>>}, {<<a, d1>>, <<b, d1>>}, limits)
\* A hosted artifact that is published again with other bytes.
Overwritten(actors, limits) == Deployed(actors, {Denying}, {<<a, d2>>}, {}, {<<a, d1>>}, limits)
Mixed(actors, policies, limits) == Deployed(actors, policies, {<<a, d1>>}, {<<b, d1>>}, {}, limits)

AllSites ==
    {Twins({t1, t2}, Some(1, 0, 0, 0)), Twins({t1, o1}, Some(2, 0, 0, 0)),
     Twins({t1, o1}, Some(1, 1, 1, 0)),
     Served({t1, t2, o1}, {Plain}, Some(1, 0, 0, 0)),
     Served({t1, o1}, {Plain, Lenient}, Some(1, 1, 0, 1)),
     Overwritten({t1, t2}, Some(1, 0, 0, 0)), Overwritten({t1}, Some(1, 0, 1, 0)),
     Mixed({t1, t2}, {First, Rotated, Retired}, Some(0, 1, 0, 1)),
     Mixed({t1, t2}, {Verifying}, Some(0, 0, 1, 0))}

\* The deployments that show what the code does not keep.
RefutedSites ==
    {Twins({t1, t2}, Some(1, 0, 0, 0)), Overwritten({t1}, Some(1, 0, 0, 0)),
     Overwritten({t1}, Some(1, 0, 2, 0)), Twins({t1}, Some(1, 0, 2, 0)),
     Mixed({t1, t2}, {First}, Some(0, 0, 1, 0))}
===========================================================================
