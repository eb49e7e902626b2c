---------------------------- MODULE ArtifactCache ----------------------------
(***************************************************************************)
(* One artifact in object storage: its bytes and the .blake3 sidecar that  *)
(* every cache hit is verified against.  They are two keys of a store      *)
(* without transactions; downloads fill them from upstream, publishes      *)
(* overwrite them, the operator's cache command deletes them, and each of  *)
(* these is a sequence of storage calls that interleave with the others.   *)
(* A digest stands for the content it is the digest of.                    *)
(***************************************************************************)
EXTENDS FiniteSets

CONSTANTS
    Tasks,        \* concurrent operations on the artifact
    Contents,     \* what the artifact may consist of
    Upstream,     \* the content upstream serves, or Absent: no upstream has it
    Publications, \* contents a client may publish under this name
    Denied,       \* contents the signature and provenance gate refuses
    MayDelete,    \* may the operator delete the artifact from the cache?
    MayCancel,    \* may a task's future be dropped, or its process die?
    MayFail,      \* may a storage call, the scanner or the verifier fail?
    MayFailUndo,  \* may a rollback write fail (it is only logged)?
    MayRot,       \* may the stored bytes be corrupted?
    Corrupt,      \* what they are then
    Absent,
    NotStaged

ASSUME UpstreamAssumption == Upstream \in Contents \cup {Absent}
ASSUME PublicationsAssumption == Publications \subseteq Contents
ASSUME DeniedAssumption == Denied \subseteq Contents
ASSUME CorruptAssumption == Corrupt \notin Contents
ASSUME AbsentAssumption == Absent \notin Contents \cup {Corrupt}
ASSUME NotStagedAssumption == NotStaged \notin Contents \cup {Corrupt, Absent}
ASSUME SwitchAssumption == {MayDelete, MayCancel, MayFail, MayFailUndo, MayRot} \subseteq BOOLEAN

VARIABLES
    object,   \* what each of the two keys holds
    pc,       \* next step of each task
    kind,     \* what each task is: "get", "publish" or "delete"
    key,      \* the key it is at
    pending,  \* gets of a download that have not returned
    got,      \* what those that returned found
    data,     \* the content it writes
    staged,   \* what its staged writes replaced
    served,   \* the content its last download answered with
    history   \* "lone": no two operations overlapped, none was cut off between
              \* two writes that replace something; "fills": of those that
              \* overlapped all were downloads, and none rolled back; "mixed"

cacheVars == <<object, pc, kind, key, pending, got, data, staged, served, history>>

Keys == {"sidecar", "bytes"}
Value == Contents \cup {Corrupt, Absent}
Nothing == [k \in Keys |-> NotStaged]

CacheInit ==
    /\ object = [k \in Keys |-> Absent]
    /\ pc = [t \in Tasks |-> "idle"]
    /\ kind = [t \in Tasks |-> "none"]
    /\ key = [t \in Tasks |-> "sidecar"]
    /\ pending = [t \in Tasks |-> {}]
    /\ got = [t \in Tasks |-> [k \in Keys |-> Absent]]
    /\ data = [t \in Tasks |-> Absent]
    /\ staged = [t \in Tasks |-> Nothing]
    /\ served = [t \in Tasks |-> Absent]
    /\ history = "lone"

Goto(t, label) == pc' = [pc EXCEPT ![t] = label]

\* The task ends: with a content, or with an error or nothing to answer.
Return(t, answer) ==
    /\ Goto(t, "idle")
    /\ kind' = [kind EXCEPT ![t] = "none"]
    /\ key' = [key EXCEPT ![t] = "sidecar"]
    /\ pending' = [pending EXCEPT ![t] = {}]
    /\ got' = [got EXCEPT ![t] = [k \in Keys |-> Absent]]
    /\ data' = [data EXCEPT ![t] = Absent]
    /\ staged' = [staged EXCEPT ![t] = Nothing]
    /\ served' = [served EXCEPT ![t] = answer]

-----------------------------------------------------------------------------
(* A download: get_artifact *)

StartGet(t) ==
    /\ pc[t] = "idle"
    /\ kind' = [kind EXCEPT ![t] = "get"]
    /\ pending' = [pending EXCEPT ![t] = Keys]
    /\ served' = [served EXCEPT ![t] = Absent]
    /\ Goto(t, "get")
    /\ UNCHANGED <<object, key, got, data, staged>>

\* try_join! runs both gets; they reach the store in either order.
Get(t, k) ==
    /\ pc[t] = "get"
    /\ k \in pending[t]
    /\ pending' = [pending EXCEPT ![t] = @ \ {k}]
    /\ got' = [got EXCEPT ![t][k] = object[k]]
    /\ UNCHANGED <<object, pc, kind, key, data, staged, served>>

\* Variant: the hit is served without comparing it with its sidecar.
ServeCachedUnchecked(t) ==
    /\ pc[t] = "get" /\ pending[t] = {}
    /\ got[t]["bytes"] # Absent
    /\ Return(t, got[t]["bytes"])
    /\ UNCHANGED object

\* A hit is served if it is what its sidecar says and the gates let it pass.
ServeCached(t) ==
    LET hit == got[t] IN
    /\ pc[t] = "get" /\ pending[t] = {}
    /\ hit["bytes"] # Absent
    /\ \/ /\ hit["sidecar"] = hit["bytes"] /\ hit["bytes"] \notin Denied
          /\ Return(t, hit["bytes"])
       \/ /\ hit["sidecar"] # hit["bytes"] \/ hit["bytes"] \in Denied
          /\ Return(t, Absent)
    /\ UNCHANGED object

\* A miss: fetch, verify against the upstream's own hash, stage the sidecar
\* and then the bytes.
FetchUpstream(t) ==
    /\ pc[t] = "get" /\ pending[t] = {}
    /\ got[t]["bytes"] = Absent
    /\ \/ /\ Upstream # Absent
          /\ data' = [data EXCEPT ![t] = Upstream]
          /\ key' = [key EXCEPT ![t] = "sidecar"]
          /\ Goto(t, "track")
          /\ UNCHANGED <<object, kind, pending, got, staged, served>>
       \/ /\ Upstream = Absent \/ MayFail
          /\ Return(t, Absent)
          /\ UNCHANGED object

-----------------------------------------------------------------------------
(* A publish, as far as this artifact goes.  The publish lock admits one    *)
(* at a time.                                                               *)

StartPublish(t, c) ==
    /\ pc[t] = "idle"
    /\ \A u \in Tasks : kind[u] # "publish"
    /\ kind' = [kind EXCEPT ![t] = "publish"]
    /\ data' = [data EXCEPT ![t] = c]
    /\ served' = [served EXCEPT ![t] = Absent]
    /\ Goto(t, "track")
    /\ UNCHANGED <<object, key, pending, got, staged>>

-----------------------------------------------------------------------------
(* put_and_track, for the sidecar and then for the bytes *)

Track(t) ==
    /\ pc[t] = "track"
    /\ staged' = [staged EXCEPT ![t][key[t]] = object[key[t]]]
    /\ Goto(t, "put")
    /\ UNCHANGED <<object, kind, key, pending, got, data, served>>

Put(t) ==
    /\ pc[t] = "put"
    /\ object' = [object EXCEPT ![key[t]] = data[t]]
    /\ \/ key[t] = "sidecar" /\ key' = [key EXCEPT ![t] = "bytes"] /\ Goto(t, "track")
       \/ key[t] = "bytes" /\ Goto(t, "gate") /\ UNCHANGED key
    /\ UNCHANGED <<kind, pending, got, data, staged, served>>

\* The gates after the writes.  A denied download or publish is rolled back.
Gate(t) ==
    /\ pc[t] = "gate"
    /\ \/ /\ data[t] \notin Denied
          /\ Return(t, IF kind[t] = "get" THEN data[t] ELSE Absent)
       \/ /\ data[t] \in Denied
          /\ Goto(t, "undo")
          /\ UNCHANGED <<kind, key, pending, got, data, staged, served>>
    /\ UNCHANGED object

\* A storage call fails (a failed put may have been applied), the verifier
\* fails, or, in a publish, one of the writes that follow: roll back.
Fail(t) ==
    /\ MayFail
    /\ pc[t] \in {"track", "put", "gate"}
    /\ \/ UNCHANGED object
       \/ pc[t] = "put" /\ object' = [object EXCEPT ![key[t]] = data[t]]
    /\ Goto(t, "undo")
    /\ UNCHANGED <<kind, key, pending, got, data, staged, served>>

\* The scan gate of a download fails or denies: what it cached stays.
FailScan(t) ==
    /\ MayFail
    /\ pc[t] = "gate" /\ kind[t] = "get"
    /\ Return(t, Absent)
    /\ UNCHANGED object

\* Variant: only the write that failed is undone.
UndoLastWrite(t) ==
    /\ pc[t] = "undo"
    /\ \/ /\ staged[t][key[t]] # NotStaged
          /\ object' = [object EXCEPT ![key[t]] = staged[t][key[t]]]
       \/ staged[t][key[t]] = NotStaged /\ UNCHANGED object
    /\ Return(t, Absent)

\* The bytes were written last and are undone first.
UndoNext(t) ==
    \/ key[t] = "bytes" /\ key' = [key EXCEPT ![t] = "sidecar"]
       /\ UNCHANGED <<pc, kind, pending, got, data, staged, served>>
    \/ key[t] = "sidecar" /\ Return(t, Absent)

\* rollback_staged_writes: put back what each staged write replaced.
Undo(t) ==
    LET previous == staged[t][key[t]] IN
    /\ pc[t] = "undo"
    /\ \/ previous # NotStaged /\ object' = [object EXCEPT ![key[t]] = previous]
       \/ previous = NotStaged /\ UNCHANGED object
    /\ UndoNext(t)

\* That fails, which is only logged.
FailUndo(t) ==
    /\ MayFailUndo
    /\ pc[t] = "undo"
    /\ UndoNext(t)
    /\ UNCHANGED object

-----------------------------------------------------------------------------
(* delete_cached_artifact: the bytes, then the sidecar *)

StartDelete(t) ==
    /\ MayDelete
    /\ pc[t] = "idle"
    /\ kind' = [kind EXCEPT ![t] = "delete"]
    /\ key' = [key EXCEPT ![t] = "bytes"]
    /\ served' = [served EXCEPT ![t] = Absent]
    /\ Goto(t, "exists")
    /\ UNCHANGED <<object, pending, got, data, staged>>

NextDelete(t) ==
    \/ key[t] = "bytes" /\ key' = [key EXCEPT ![t] = "sidecar"] /\ Goto(t, "exists")
       /\ UNCHANGED <<kind, pending, got, data, staged, served>>
    \/ key[t] = "sidecar" /\ Return(t, Absent)

Exists(t) ==
    /\ pc[t] = "exists"
    /\ \/ object[key[t]] = Absent /\ NextDelete(t)
       \/ object[key[t]] # Absent /\ Goto(t, "delete")
          /\ UNCHANGED <<kind, key, pending, got, data, staged, served>>
    /\ UNCHANGED object

Delete(t) ==
    /\ pc[t] = "delete"
    /\ object' = [object EXCEPT ![key[t]] = Absent]
    /\ NextDelete(t)

\* The client disconnects and the handler's future is dropped, or the process
\* dies: what is written stays, nothing is rolled back.  A delete or the gets
\* of a download that fail end the same way.
Cancel(t) ==
    /\ \/ MayCancel /\ pc[t] # "idle"
       \/ MayFail /\ pc[t] \in {"get", "exists", "delete"}
    /\ Return(t, Absent)
    /\ UNCHANGED object

\* Bit rot in the store: nothing hashes to what is left.
Rot ==
    /\ MayRot
    /\ object["bytes"] # Absent
    /\ object' = [object EXCEPT !["bytes"] = Corrupt]
    /\ UNCHANGED <<pc, kind, key, pending, got, data, staged, served>>

-----------------------------------------------------------------------------
Operate(t) ==
    \/ \E k \in Keys : Get(t, k)
    \/ ServeCached(t) \/ FetchUpstream(t)
    \/ Track(t) \/ Put(t) \/ Gate(t) \/ Fail(t) \/ FailScan(t)
    \/ Exists(t) \/ Delete(t)

Alone(t) == \A u \in Tasks \ {t} : pc[u] = "idle"
AmongFills(t) == \A u \in Tasks \ {t} : kind[u] \in {"none", "get"} /\ pc[u] # "undo"

\* The history goes from "lone" over "fills" to "mixed".
Enter(next) == history' = IF history = "mixed" THEN history ELSE next
Keep == UNCHANGED history

\* What starts: on its own, a fill among fills, or anything else.
Overlap(t) ==
    IF Alone(t) THEN Keep
    ELSE Enter(IF kind'[t] = "get" /\ AmongFills(t) THEN "fills" ELSE "mixed")

CacheNext ==
    \/ \E t \in Tasks :
         \/ (StartGet(t) \/ StartDelete(t)) /\ Overlap(t)
         \/ \E c \in Publications : StartPublish(t, c) /\ Overlap(t)
         \/ Operate(t) /\ Keep
         \/ Undo(t) /\ Enter(IF history = "lone" THEN "lone" ELSE "mixed")
         \/ FailUndo(t) /\ Enter("mixed")
         \/ Cancel(t) /\ Enter(IF kind[t] = "publish" \/ pc[t] = "undo" THEN "mixed" ELSE history)
    \/ Rot /\ Enter("mixed")

CacheSpec == CacheInit /\ [][CacheNext]_cacheVars

-----------------------------------------------------------------------------
\* The types of the two keys and of what the tasks hold of them: what a put, a
\* rollback or a fill writes is always a content or nothing.
CacheTypeOK ==
    /\ object \in [Keys -> Value]
    /\ pc \in [Tasks -> {"idle", "get", "track", "put", "gate", "undo", "exists", "delete"}]
    /\ kind \in [Tasks -> {"none", "get", "publish", "delete"}]
    /\ key \in [Tasks -> Keys]
    /\ pending \in [Tasks -> SUBSET Keys]
    /\ got \in [Tasks -> [Keys -> Value]]
    /\ data \in [Tasks -> Value]
    /\ staged \in [Tasks -> [Keys -> Value \cup {NotStaged}]]
    /\ served \in [Tasks -> Value]
    /\ history \in {"lone", "fills", "mixed"}
    /\ \A t \in Tasks : pc[t] \in {"track", "put", "gate", "undo"} => data[t] \in Contents

-----------------------------------------------------------------------------
\* "Sidecar first, then bytes", and ADR-0003: cache writes are "recoverable
\* without transactions".  Fills that overlap and are cut off anywhere, and lone
\* operations that fail and roll back, leave the artifact absent or such that it
\* passes its own verification.
SettledIsReadable ==
    history # "mixed" /\ (\A t \in Tasks : pc[t] = "idle") /\ object["bytes"] # Absent =>
        object["sidecar"] = object["bytes"]

\* What a download answers with was neither refused by the gate nor corrupted in
\* the store, through whatever overwrites, deletions, rollbacks and failures it
\* met on its way.
ServedIsSound == \A t \in Tasks : served[t] \notin Denied \cup {Corrupt}

\* "A signature/provenance denial at cache-fill must not leave the just-cached
\* (unverifiable) bytes behind": not once the downloads are over.
DeniedIsNotKept ==
    (\A t \in Tasks : pc[t] = "idle") => object["bytes"] \notin Denied
=============================================================================
