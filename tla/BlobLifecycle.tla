---------------------------- MODULE BlobLifecycle ----------------------------
(***************************************************************************)
(* What the content store promises of one blob, with tables, storage,      *)
(* publishes and sweeps left out (ADR-0020: mark, soft-delete with a grace *)
(* window, compact): a blob goes round the cycle absent, live, grace,      *)
(* expired, absent; its bytes are written while its row is there and taken *)
(* away only when the grace window is over, before the row goes.           *)
(***************************************************************************)
CONSTANT Digests

VARIABLES
    phase,  \* where each blob is in the cycle
    bytes   \* the blobs whose bytes are in storage

vars == <<phase, bytes>>

Init ==
    /\ phase = [d \in Digests |-> "absent"]
    /\ bytes = {}

Move(d, from, to) ==
    /\ phase[d] = from
    /\ phase' = [phase EXCEPT ![d] = to]
    /\ UNCHANGED bytes

Insert(d) == d \notin bytes /\ Move(d, "absent", "live")

Write(d) ==
    /\ phase[d] \in {"live", "grace"}
    /\ bytes' = bytes \cup {d}
    /\ UNCHANGED phase

SoftDelete(d) == Move(d, "live", "grace")

\* Windows that were opened together run out together.
Elapse(D) ==
    /\ \A d \in D : phase[d] = "grace"
    /\ phase' = [d \in Digests |-> IF d \in D THEN "expired" ELSE phase[d]]
    /\ UNCHANGED bytes

Purge(d) ==
    /\ phase[d] = "expired"
    /\ bytes' = bytes \ {d}
    /\ UNCHANGED phase

Remove(d) == d \notin bytes /\ Move(d, "expired", "absent")

Next ==
    \/ \E d \in Digests :
         Insert(d) \/ Write(d) \/ SoftDelete(d) \/ Purge(d) \/ Remove(d)
    \/ \E D \in SUBSET Digests : Elapse(D)

Spec == Init /\ [][Next]_vars
=============================================================================
