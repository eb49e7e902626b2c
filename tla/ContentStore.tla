---------------------------- MODULE ContentStore ----------------------------
(***************************************************************************)
(* The universal content model (ADR-0020) as the running process drives    *)
(* it: publish requests write component, asset, blob and reference rows    *)
(* while garbage-collection sweeps and retention sweeps remove them.  The  *)
(* database commits statement by statement and the blob bytes live in      *)
(* another system, so every statement and every storage call is a step of  *)
(* its own and the steps of all the tasks interleave.                      *)
(*                                                                         *)
(* Time is the time left of a blob's grace window: SoftDelete starts it at *)
(* Grace, Tick shortens every running window by one, and at zero           *)
(* "grace_expires_at < now" holds.                                         *)
(***************************************************************************)
EXTENDS Naturals, FiniteSets

CONSTANTS
    Publishers,  \* concurrent publish requests
    Sweepers,    \* concurrent GC sweeps: the scheduler and the admin endpoint
    Retainers,   \* concurrent retention sweeps: likewise
    Components,  \* ecosystem/name/version coordinates
    Paths,       \* file names within a component
    Digests,     \* Blake3 digests
    Requests,    \* the publish requests a client may send
    Grace,       \* metadata.gc_grace, in ticks
    MaxFaults,   \* how many publishes and sweeps may fail or be killed half-way
    SlowPuts,    \* may a storage put outlast a tick of the grace clock?
    NotDeleted,  \* soft_deleted_at IS NULL
    None         \* no component, no artifact, no digest

Artifact == [path : Paths, digest : Digests]
Request == [comp : Components, files : SUBSET Artifact]
Asset == Components \X Paths

ASSUME GraceAssumption == Grace \in Nat
ASSUME FaultsAssumption == MaxFaults \in Nat
ASSUME RequestsAssumption == Requests \subseteq Request
ASSUME NotDeletedAssumption == NotDeleted \notin Nat
ASSUME NoneAssumption == None \notin Artifact \cup Digests \cup Components
ASSUME SlowPutsAssumption == SlowPuts \in BOOLEAN

VARIABLES
    blobs,       \* rows of table blobs
    marked,      \* blobs.marked
    expires,     \* what is left of the grace window, or NotDeleted
    stored,      \* digests whose bytes are in object storage
    components,  \* rows of table components
    assets,      \* rows of table assets
    refs,        \* rows of table asset_blobs
    pubPc,       \* next step of each publish
    pubComp,     \* its coordinate
    pubFiles,    \* its artifacts
    pubLeft,     \* those still to store
    pubCur,      \* the artifact being stored
    gcPc,        \* next step of each GC sweep
    gcTodo,      \* digests of its current list still to process
    gcCur,       \* the digest being processed
    doomed,      \* component rows each retention sweep has yet to delete
    faults       \* publishes and sweeps that failed so far

blobVars == <<blobs, marked, expires, stored>>
modelVars == <<components, assets, refs>>
pubVars == <<pubPc, pubComp, pubFiles, pubLeft, pubCur>>
gcVars == <<gcPc, gcTodo, gcCur>>
vars == <<blobVars, modelVars, pubVars, gcVars, doomed, faults>>

-----------------------------------------------------------------------------
Referenced(d) == \E a \in Asset : <<a, d>> \in refs

\* Variant: the query forgets "soft_deleted_at IS NULL".
UnreferencedOrDeleted == {d \in blobs : ~Referenced(d)}

Unreferenced == {d \in blobs : expires[d] = NotDeleted /\ ~Referenced(d)}

\* Variant: the query forgets "grace_expires_at < now".
EverySoftDeleted == {d \in blobs : expires[d] # NotDeleted}

Expired == {d \in blobs : expires[d] = 0}

Init ==
    /\ blobs = {} /\ marked = {} /\ stored = {}
    /\ expires = [d \in Digests |-> NotDeleted]
    /\ components = {} /\ assets = {} /\ refs = {}
    /\ pubPc = [p \in Publishers |-> "idle"]
    /\ pubComp = [p \in Publishers |-> None]
    /\ pubFiles = [p \in Publishers |-> {}]
    /\ pubLeft = [p \in Publishers |-> {}]
    /\ pubCur = [p \in Publishers |-> None]
    /\ gcPc = [s \in Sweepers |-> "idle"]
    /\ gcTodo = [s \in Sweepers |-> {}]
    /\ gcCur = [s \in Sweepers |-> None]
    /\ doomed = [r \in Retainers |-> {}]
    /\ faults = 0

-----------------------------------------------------------------------------
(* A publish, from the moment it holds its coordinate's publish lock and   *)
(* enters store_content_model.                                             *)

PubGoto(p, pc) == pubPc' = [pubPc EXCEPT ![p] = pc]

\* The publish returns, with success or with an error: the rows and bytes it
\* wrote stay (rollback_staged_writes undoes cache keys only).
PubReturn(p) ==
    /\ PubGoto(p, "idle")
    /\ pubComp' = [pubComp EXCEPT ![p] = None]
    /\ pubFiles' = [pubFiles EXCEPT ![p] = {}]
    /\ pubLeft' = [pubLeft EXCEPT ![p] = {}]
    /\ pubCur' = [pubCur EXCEPT ![p] = None]

\* The lock admits one publish per coordinate; request.artifacts is not empty.
StartPublish(p, q) ==
    /\ pubPc[p] = "idle"
    /\ q.files # {}
    /\ \A o \in Publishers : pubComp[o] # q.comp
    /\ PubGoto(p, "component")
    /\ pubComp' = [pubComp EXCEPT ![p] = q.comp]
    /\ pubFiles' = [pubFiles EXCEPT ![p] = q.files]
    /\ pubLeft' = [pubLeft EXCEPT ![p] = q.files]
    /\ UNCHANGED <<blobVars, modelVars, pubCur, gcVars, doomed, faults>>

UpsertComponent(p) ==
    /\ pubPc[p] = "component"
    /\ components' = components \cup {pubComp[p]}
    /\ PubGoto(p, "asset")
    /\ UNCHANGED <<blobVars, assets, refs, pubComp, pubFiles, pubLeft, pubCur, gcVars, doomed, faults>>

\* The head of the loop over the artifacts.  "component not found for asset"
\* when a retention sweep deleted the row meanwhile.
UpsertAsset(p, f) ==
    /\ pubPc[p] = "asset"
    /\ f \in pubLeft[p]
    /\ \/ /\ pubComp[p] \in components
          /\ assets' = assets \cup {<<pubComp[p], f.path>>}
          /\ pubLeft' = [pubLeft EXCEPT ![p] = @ \ {f}]
          /\ pubCur' = [pubCur EXCEPT ![p] = f]
          /\ PubGoto(p, "insert")
          /\ UNCHANGED <<pubComp, pubFiles>>
       \/ /\ pubComp[p] \notin components
          /\ PubReturn(p)
          /\ UNCHANGED assets
    /\ UNCHANGED <<blobVars, components, refs, gcVars, doomed, faults>>

\* INSERT ... ON CONFLICT DO NOTHING RETURNING digest: only a new row makes
\* the caller write bytes; an existing row is left as it is, soft-deleted or
\* not.
InsertBlob(p) ==
    LET d == pubCur[p].digest IN
    /\ pubPc[p] = "insert"
    /\ \/ /\ d \notin blobs
          /\ blobs' = blobs \cup {d}
          /\ PubGoto(p, "put")
       \/ /\ d \in blobs
          /\ PubGoto(p, "check")
          /\ UNCHANGED blobs
    /\ UNCHANGED <<marked, expires, stored, modelVars, pubComp, pubFiles, pubLeft, pubCur, gcVars, doomed, faults>>

PutBytes(p) ==
    /\ pubPc[p] = "put"
    /\ stored' = stored \cup {pubCur[p].digest}
    /\ PubGoto(p, "check")
    /\ UNCHANGED <<blobs, marked, expires, modelVars, pubComp, pubFiles, pubLeft, pubCur, gcVars, doomed, faults>>

\* The closing get_blob: "blob missing immediately after insert".
CheckBlob(p) ==
    /\ pubPc[p] = "check"
    /\ \/ /\ pubCur[p].digest \in blobs
          /\ PubGoto(p, "reference")
          /\ UNCHANGED <<pubComp, pubFiles, pubLeft, pubCur>>
       \/ /\ pubCur[p].digest \notin blobs
          /\ PubReturn(p)
    /\ UNCHANGED <<blobVars, modelVars, gcVars, doomed, faults>>

\* Variant: returns from inside the loop, after the first artifact.
AddFirstReference(p) ==
    LET d == pubCur[p].digest
        a == <<pubComp[p], pubCur[p].path>>
    IN
    /\ pubPc[p] = "reference"
    /\ \/ /\ a \in assets /\ d \in blobs
          /\ refs' = refs \cup {<<a, d>>}
          /\ PubGoto(p, "done")
          /\ UNCHANGED <<pubComp, pubFiles, pubLeft, pubCur>>
       \/ /\ a \notin assets \/ d \notin blobs
          /\ PubReturn(p)
          /\ UNCHANGED refs
    /\ UNCHANGED <<blobVars, components, assets, gcVars, doomed, faults>>

\* resolve_asset_id, then the INSERT; both foreign keys of asset_blobs must
\* hold.  After the last artifact the publish is done.
AddReference(p) ==
    LET d == pubCur[p].digest
        a == <<pubComp[p], pubCur[p].path>>
    IN
    /\ pubPc[p] = "reference"
    /\ \/ /\ a \in assets /\ d \in blobs
          /\ refs' = refs \cup {<<a, d>>}
          /\ \/ /\ pubLeft[p] # {}
                /\ PubGoto(p, "asset")
                /\ UNCHANGED <<pubComp, pubFiles, pubLeft, pubCur>>
             \/ /\ pubLeft[p] = {}
                /\ PubGoto(p, "done")
                /\ UNCHANGED <<pubComp, pubFiles, pubLeft, pubCur>>
       \/ /\ a \notin assets \/ d \notin blobs
          /\ PubReturn(p)
          /\ UNCHANGED refs
    /\ UNCHANGED <<blobVars, components, assets, gcVars, doomed, faults>>

\* The transactional block returned Ok: the publish answers with success and
\* drops its coordinate's lock.
Acknowledge(p) ==
    /\ pubPc[p] = "done"
    /\ PubReturn(p)
    /\ UNCHANGED <<blobVars, modelVars, gcVars, doomed, faults>>

\* A database error, a failed put, a client that disconnects (the handler's
\* future is dropped) or a process crash, at any point of the publish.
AbortPublish(p) ==
    /\ pubPc[p] \notin {"idle", "done"}
    /\ faults < MaxFaults
    /\ faults' = faults + 1
    /\ PubReturn(p)
    /\ UNCHANGED <<blobVars, modelVars, gcVars, doomed>>

-----------------------------------------------------------------------------
(* run_gc_sweep *)

GcGoto(s, pc) == gcPc' = [gcPc EXCEPT ![s] = pc]

GcReturn(s) ==
    /\ GcGoto(s, "idle")
    /\ gcTodo' = [gcTodo EXCEPT ![s] = {}]
    /\ gcCur' = [gcCur EXCEPT ![s] = None]

ListUnreferenced(s) ==
    /\ gcPc[s] = "idle"
    /\ gcTodo' = [gcTodo EXCEPT ![s] = Unreferenced]
    /\ GcGoto(s, "mark")
    /\ UNCHANGED <<blobVars, modelVars, pubVars, gcCur, doomed, faults>>

MarkUnreferenced(s, d) ==
    /\ gcPc[s] = "mark"
    /\ d \in gcTodo[s]
    /\ marked' = marked \cup ({d} \cap blobs)
    /\ gcTodo' = [gcTodo EXCEPT ![s] = @ \ {d}]
    /\ gcCur' = [gcCur EXCEPT ![s] = d]
    /\ GcGoto(s, "soft_delete")
    /\ UNCHANGED <<blobs, expires, stored, modelVars, pubVars, doomed, faults>>

\* UPDATE ... WHERE digest = $1: whether the blob is still unreferenced is
\* not asked again.
SoftDelete(s) ==
    /\ gcPc[s] = "soft_delete"
    /\ expires' = IF gcCur[s] \in blobs THEN [expires EXCEPT ![gcCur[s]] = Grace] ELSE expires
    /\ gcCur' = [gcCur EXCEPT ![s] = None]
    /\ GcGoto(s, "mark")
    /\ UNCHANGED <<blobs, marked, stored, modelVars, pubVars, gcTodo, doomed, faults>>

\* Variant: compact() takes every soft-deleted blob.
ListSoftDeleted(s) ==
    /\ gcPc[s] = "mark"
    /\ gcTodo[s] = {}
    /\ gcTodo' = [gcTodo EXCEPT ![s] = {d \in blobs : expires[d] # NotDeleted}]
    /\ GcGoto(s, "delete_bytes")
    /\ UNCHANGED <<blobVars, modelVars, pubVars, gcCur, doomed, faults>>

\* compact(): the candidates are all soft-deleted, list what has expired.
ListExpired(s) ==
    /\ gcPc[s] = "mark"
    /\ gcTodo[s] = {}
    /\ gcTodo' = [gcTodo EXCEPT ![s] = Expired]
    /\ GcGoto(s, "delete_bytes")
    /\ UNCHANGED <<blobVars, modelVars, pubVars, gcCur, doomed, faults>>

\* Variant: a storage error is logged and the row is deleted all the same.
DeleteBytesUnchecked(s, d) ==
    /\ gcPc[s] = "delete_bytes"
    /\ d \in gcTodo[s]
    /\ stored' \in {stored, stored \ {d}}
    /\ gcTodo' = [gcTodo EXCEPT ![s] = @ \ {d}]
    /\ gcCur' = [gcCur EXCEPT ![s] = d]
    /\ GcGoto(s, "delete_row")
    /\ UNCHANGED <<blobs, marked, expires, modelVars, pubVars, doomed, faults>>

DeleteBytes(s, d) ==
    /\ gcPc[s] = "delete_bytes"
    /\ d \in gcTodo[s]
    /\ stored' = stored \ {d}
    /\ gcTodo' = [gcTodo EXCEPT ![s] = @ \ {d}]
    /\ gcCur' = [gcCur EXCEPT ![s] = d]
    /\ GcGoto(s, "delete_row")
    /\ UNCHANGED <<blobs, marked, expires, modelVars, pubVars, doomed, faults>>

\* Variant: the schema without asset_blobs' foreign key to blobs.
DeleteRowUnchecked(s) ==
    /\ gcPc[s] = "delete_row"
    /\ blobs' = blobs \ {gcCur[s]}
    /\ marked' = marked \ {gcCur[s]}
    /\ expires' = [expires EXCEPT ![gcCur[s]] = NotDeleted]
    /\ gcCur' = [gcCur EXCEPT ![s] = None]
    /\ GcGoto(s, "delete_bytes")
    /\ UNCHANGED <<gcTodo, stored, modelVars, pubVars, doomed, faults>>

\* asset_blobs.blob_digest has no ON DELETE: deleting a referenced row is an
\* error, and the error leaves compact() with the rest of the list undone.
DeleteRow(s) ==
    LET d == gcCur[s] IN
    /\ gcPc[s] = "delete_row"
    /\ \/ /\ ~Referenced(d)
          /\ blobs' = blobs \ {d}
          /\ marked' = marked \ {d}
          /\ expires' = [expires EXCEPT ![d] = NotDeleted]
          /\ gcCur' = [gcCur EXCEPT ![s] = None]
          /\ GcGoto(s, "delete_bytes")
          /\ UNCHANGED gcTodo
       \/ /\ Referenced(d)
          /\ GcReturn(s)
          /\ UNCHANGED <<blobs, marked, expires>>
    /\ UNCHANGED <<stored, modelVars, pubVars, doomed, faults>>

FinishSweep(s) ==
    /\ gcPc[s] = "delete_bytes"
    /\ gcTodo[s] = {}
    /\ GcReturn(s)
    /\ UNCHANGED <<blobVars, modelVars, pubVars, doomed, faults>>

\* A storage or database error, or a crash: the sweep ends where it stands.
AbortSweep(s) ==
    /\ gcPc[s] # "idle"
    /\ faults < MaxFaults
    /\ faults' = faults + 1
    /\ GcReturn(s)
    /\ UNCHANGED <<blobVars, modelVars, pubVars, doomed>>

-----------------------------------------------------------------------------
(* retention_sweep: the rules select some of the listed versions, whatever  *)
(* they are; the rows are then deleted one by one, by row id.               *)

ListVersions(r, selected) ==
    /\ doomed[r] = {}
    /\ selected # {}
    /\ doomed' = [doomed EXCEPT ![r] = selected]
    /\ UNCHANGED <<blobVars, modelVars, pubVars, gcVars, faults>>

\* ON DELETE CASCADE drops the assets and their references.  Row ids are not
\* reused, so no other sweep's list names a later row of this coordinate.
DeleteComponent(r, c) ==
    /\ c \in doomed[r]
    /\ components' = components \ {c}
    /\ assets' = {a \in assets : a[1] # c}
    /\ refs' = {ref \in refs : ref[1][1] # c}
    /\ doomed' = [o \in Retainers |-> doomed[o] \ {c}]
    /\ UNCHANGED <<blobVars, pubVars, gcVars, faults>>

AbortRetention(r) ==
    /\ doomed[r] # {}
    /\ doomed' = [doomed EXCEPT ![r] = {}]
    /\ UNCHANGED <<blobVars, modelVars, pubVars, gcVars, faults>>

-----------------------------------------------------------------------------
(* The clock.  Unless SlowPuts, a storage put is over before the clock of   *)
(* the grace windows (24 hours by default) moves.                           *)

Tick ==
    /\ SlowPuts \/ \A p \in Publishers : pubPc[p] # "put"
    /\ \E d \in Digests : expires[d] \notin {NotDeleted, 0}
    /\ expires' = [d \in Digests |->
                     IF expires[d] \in {NotDeleted, 0} THEN expires[d] ELSE expires[d] - 1]
    /\ UNCHANGED <<blobs, marked, stored, modelVars, pubVars, gcVars, doomed, faults>>

PublishStep(p) ==
    \/ UpsertComponent(p)
    \/ \E f \in pubLeft[p] : UpsertAsset(p, f)
    \/ InsertBlob(p)
    \/ PutBytes(p)
    \/ CheckBlob(p)
    \/ AddReference(p)
    \/ Acknowledge(p)

SweepStep(s) ==
    \/ ListUnreferenced(s)
    \/ \E d \in gcTodo[s] : MarkUnreferenced(s, d) \/ DeleteBytes(s, d)
    \/ SoftDelete(s)
    \/ ListExpired(s)
    \/ DeleteRow(s)
    \/ FinishSweep(s)

Retention(r) ==
    \/ \E selected \in SUBSET components : ListVersions(r, selected)
    \/ \E c \in doomed[r] : DeleteComponent(r, c)
    \/ AbortRetention(r)

Next ==
    \/ \E p \in Publishers :
         \/ \E q \in Requests : StartPublish(p, q)
         \/ PublishStep(p)
         \/ AbortPublish(p)
    \/ \E s \in Sweepers : SweepStep(s) \/ AbortSweep(s)
    \/ \E r \in Retainers : Retention(r)
    \/ Tick

Spec == Init /\ [][Next]_vars

\* The scheduler starts a sweep every period and a sweep is a task that runs
\* to its end; time passes; a publish in flight finishes or fails.  Nothing
\* makes a client publish or a retention rule select anything.
Fairness ==
    /\ WF_vars(Tick)
    /\ \A s \in Sweepers : WF_vars(SweepStep(s))
    /\ \A p \in Publishers : WF_vars(PublishStep(p))

FairSpec == Spec /\ Fairness

-----------------------------------------------------------------------------
\* The types of the tables, of the storage and of what the tasks hold: windows
\* stay within Grace, and a task past a step knows what it works on.
TypeOK ==
    /\ blobs \subseteq Digests
    /\ marked \subseteq Digests
    /\ expires \in [Digests -> (0 .. Grace) \cup {NotDeleted}]
    /\ stored \subseteq Digests
    /\ components \subseteq Components
    /\ assets \subseteq Asset
    /\ refs \subseteq Asset \X Digests
    /\ pubPc \in [Publishers -> {"idle", "component", "asset", "insert", "put", "check", "reference", "done"}]
    /\ pubComp \in [Publishers -> Components \cup {None}]
    /\ pubFiles \in [Publishers -> SUBSET Artifact]
    /\ pubLeft \in [Publishers -> SUBSET Artifact]
    /\ pubCur \in [Publishers -> Artifact \cup {None}]
    /\ \A p \in Publishers :
         /\ pubPc[p] # "idle" => pubComp[p] \in Components
         /\ pubPc[p] \in {"insert", "put", "check", "reference", "done"} => pubCur[p] \in Artifact
    /\ gcPc \in [Sweepers -> {"idle", "mark", "soft_delete", "delete_bytes", "delete_row"}]
    /\ gcTodo \in [Sweepers -> SUBSET Digests]
    /\ gcCur \in [Sweepers -> Digests \cup {None}]
    /\ \A s \in Sweepers : gcPc[s] \in {"soft_delete", "delete_row"} => gcCur[s] \in Digests
    /\ doomed \in [Retainers -> SUBSET Components]
    /\ faults \in 0 .. MaxFaults

-----------------------------------------------------------------------------
\* The foreign keys of the schema: an asset belongs to a component, and a
\* reference joins an asset to a blob row (retention cascades, compact() is
\* refused).
ReferentialIntegrity ==
    /\ \A a \in assets : a[1] \in components
    /\ \A ref \in refs : ref[1] \in assets /\ ref[2] \in blobs

\* A publish that answers with success has recorded a reference for every
\* artifact of its request, whatever a retention sweep did to its rows while
\* store_content_model ran; the only way out is that the version is gone again.
AcknowledgedIsReferenced ==
    \A p \in Publishers :
        pubPc[p] = "done" /\ pubComp[p] \in components =>
            \A f \in pubFiles[p] : <<<<pubComp[p], f.path>>, f.digest>> \in refs

\* compact() deletes bytes before the row "rather than orphaning bytes with no
\* metadata": no failure and no race leaves bytes that no blob row accounts for.
NoOrphanBytes == stored \subseteq blobs

\* compact() takes the bytes of a blob only if it was soft-deleted and its grace
\* window has run out; a live blob never loses its bytes.
BytesOutliveGrace == [][stored \ stored' \subseteq Expired]_vars

\* Where a blob's row and clock place it in the promised cycle.
BlobPhase ==
    [d \in Digests |-> IF d \notin blobs THEN "absent"
                       ELSE IF expires[d] = NotDeleted THEN "live"
                       ELSE IF expires[d] = 0 THEN "expired"
                       ELSE "grace"]

Lifecycle == INSTANCE BlobLifecycle WITH phase <- BlobPhase, bytes <- stored

\* The interleaved publishes and sweeps take every blob round the promised cycle
\* of mark, soft-delete, grace and compact, and skip no stage of it.
ImplementsLifecycle == Lifecycle!Spec

\* Every unreferenced blob is reclaimed, or referenced again, whatever becomes of
\* the others.
EveryUnreferencedIsReclaimed ==
    \A d \in Digests : []<>(d \notin blobs \/ Referenced(d))

\* A row that was soft-deleted and is referenced again: nothing undeletes it, and
\* once its window is over the foreign key makes it the end of every compact().
Revived == {d \in blobs : expires[d] # NotDeleted /\ Referenced(d)}

\* "Self-healing": a blob that is left without references is reclaimed, through
\* failed sweeps and aborted publishes, unless it is referenced again; and only a
\* revived row of another blob can keep it from being reclaimed for good.
UnreferencedIsReclaimed ==
    \A d \in Digests :
        \/ []<>(d \notin blobs \/ Referenced(d))
        \/ []<>(Revived \ {d} # {})

\* ADR-0020: a blob is eligible for deletion only when no asset references it, so
\* the bytes behind a reference are there; a blob being uploaded is excused.
ReferencedHasBytes ==
    \A ref \in refs :
        \/ ref[2] \in stored
        \/ \E p \in Publishers : pubPc[p] = "put" /\ pubCur[p].digest = ref[2]

\* "Identical bytes always resolve to one stored object": when a publish answers
\* with success, the bytes of its artifacts are in storage.
AcknowledgedHasBytes ==
    \A p \in Publishers :
        pubPc[p] = "done" => \A f \in pubFiles[p] : f.digest \in stored
=============================================================================
