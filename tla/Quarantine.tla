----------------------------- MODULE Quarantine -----------------------------
(***************************************************************************)
(* Quarantine of artifacts the scanner blocks (ADR-0024).  A hosted        *)
(* publish with a blocked artifact is parked: bytes, a manifest and a      *)
(* record, the last two keyed by the digest of that artifact.  An operator *)
(* promotes it, which replays the publish, or rejects it.  A blocked       *)
(* artifact that is already published or proxied is held when it is        *)
(* served, by a record under the same kind of key.                         *)
(*                                                                         *)
(* All of it is objects in a store without transactions: every get, put    *)
(* and delete is a step.  Reviews and serves hold no lock; a publish holds *)
(* the lock of its coordinate (see PublishAdmission).                      *)
(***************************************************************************)
EXTENDS Naturals, Sequences, FiniteSets

CONSTANTS
    Clients,      \* tasks that publish
    Operators,    \* tasks that review
    Servers,      \* tasks that serve downloads
    Coordinates,  \* ecosystem/name/version
    Digests,      \* Blake3 digests
    Blocked,      \* those whose scan blocks them
    Requests,     \* the publishes clients may send
    Proxied,      \* upstream artifacts that may be served: <<artifact, digest>>
    MayFail,      \* may a storage call fail?
    MayCancel,    \* may a review be cut off half-way?
    MayResend,    \* may clients publish the same thing again?
    Nothing       \* no record, no manifest, no digest

\* A publish has at least one artifact.  Its adapter says whether it may replace
\* a version that exists (allow_overwrite); Maven's always may.
Request == [coord : Coordinates, digests : Seq(Digests) \ {<<>>}, overwrite : BOOLEAN]
ArtifactId == Coordinates \X (Nat \ {0})
Record == [artifact : ArtifactId, origin : {"ingest", "serve"},
           state : {"quarantined", "promoted", "rejected"}]

ASSUME RequestsAssumption == Requests \subseteq Request
ASSUME BlockedAssumption == Blocked \subseteq Digests
ASSUME ProxiedAssumption == Proxied \subseteq ArtifactId \X Digests
ASSUME RolesAssumption ==
    Clients \cap Operators = {} /\ Clients \cap Servers = {} /\ Operators \cap Servers = {}
ASSUME NothingAssumption == Nothing \notin Record \cup Request \cup Digests
ASSUME SwitchAssumption == {MayFail, MayCancel, MayResend} \subseteq BOOLEAN

Tasks == Clients \cup Operators \cup Servers

VARIABLES
    record,    \* _starmetal/quarantine/<digest>.json
    manifest,  \* _starmetal/held/<digest>.manifest.json
    held,      \* _starmetal/held/<digest>
    landed,    \* publishes that took effect
    pc,        \* next step of each task
    op,        \* what each task is doing
    req,       \* the publish it carries out, replays or purges
    idx,       \* the artifact of req it is at
    hold,      \* the artifact of req that blocks it
    subject,   \* the digest it reviews or serves
    copy,      \* the record it has read or will write
    approved,  \* <<artifact, digest>> an operator promoted (history)
    owed,      \* publishes whose client was told Ok and that await review (history)
    rejected,  \* publishes an operator rejected before they landed (history)
    halfway    \* <<digest, decision>> of reviews that did not get through (history)

store == <<record, manifest, held, landed>>
taskVars == <<pc, op, req, idx, hold, subject, copy>>
history == <<approved, owed, rejected, halfway>>
vars == <<store, taskVars, history>>

Init ==
    /\ record = [d \in Digests |-> Nothing]
    /\ manifest = [d \in Digests |-> Nothing]
    /\ held = {} /\ landed = {}
    /\ pc = [t \in Tasks |-> "idle"]
    /\ op = [t \in Tasks |-> "none"]
    /\ req = [t \in Tasks |-> Nothing]
    /\ idx = [t \in Tasks |-> 1]
    /\ hold = [t \in Tasks |-> 1]
    /\ subject = [t \in Tasks |-> Nothing]
    /\ copy = [t \in Tasks |-> Nothing]
    /\ approved = {} /\ owed = {} /\ rejected = {} /\ halfway = {}

Goto(t, label) == pc' = [pc EXCEPT ![t] = label]

Artifact(t) == <<req[t].coord, idx[t]>>
Digest(t) == req[t].digests[idx[t]]
Last(t) == idx[t] = Len(req[t].digests)

\* On to the next artifact of the request, or to the step after the loop.
Advance(t, label) ==
    \/ ~Last(t) /\ idx' = [idx EXCEPT ![t] = @ + 1] /\ UNCHANGED pc
    \/ Last(t) /\ idx' = [idx EXCEPT ![t] = 1] /\ Goto(t, label)

Return(t) ==
    /\ Goto(t, "idle")
    /\ op' = [op EXCEPT ![t] = "none"]
    /\ req' = [req EXCEPT ![t] = Nothing]
    /\ idx' = [idx EXCEPT ![t] = 1]
    /\ hold' = [hold EXCEPT ![t] = 1]
    /\ subject' = [subject EXCEPT ![t] = Nothing]
    /\ copy' = [copy EXCEPT ![t] = Nothing]

Decided(r, state) == [r EXCEPT !.state = state]

-----------------------------------------------------------------------------
(* publish_package, called by a client or by promote_ingest *)

Publishing == {"gate", "land", "park", "manifest", "record"}

\* A publish that is sent again is no longer one that was rejected.
StartPublish(t, q) ==
    /\ pc[t] = "idle"
    /\ MayResend \/ q \notin owed \cup landed \cup rejected \cup {req[u] : u \in Clients}
    /\ op' = [op EXCEPT ![t] = "publish"]
    /\ req' = [req EXCEPT ![t] = q]
    /\ rejected' = rejected \ {q}
    /\ Goto(t, "lock")
    /\ UNCHANGED <<store, idx, hold, subject, copy, approved, owed, halfway>>

PublishOk(t) ==
    \/ op[t] = "publish" /\ Return(t)
    \/ op[t] = "promote" /\ Goto(t, "purge") /\ UNCHANGED <<op, req, idx, hold, subject, copy>>

PublishErr(t) ==
    \/ op[t] = "publish" /\ Return(t)
    \/ op[t] = "promote" /\ Goto(t, "revert")
       /\ idx' = [idx EXCEPT ![t] = 1]
       /\ UNCHANGED <<op, req, hold, subject, copy>>

\* The publish lock, and under it the duplicate check: a version that exists is
\* refused unless the publish may overwrite it.
LockAndCheck(t) ==
    /\ pc[t] = "lock"
    /\ \A u \in Tasks : pc[u] \in Publishing => req[u].coord # req[t].coord
    /\ \/ /\ ~req[t].overwrite /\ \E q \in landed : q.coord = req[t].coord
          /\ PublishErr(t)
       \/ /\ req[t].overwrite \/ \A q \in landed : q.coord # req[t].coord
          /\ Goto(t, "gate")
          /\ UNCHANGED <<op, req, idx, hold, subject, copy>>
    /\ UNCHANGED <<store, history>>

\* Variant: any promotion of the digest clears the artifact.
ClearedByDigest(t) ==
    LET r == record[Digest(t)] IN
    Digest(t) \in Blocked => r # Nothing /\ r.state = "promoted"

\* scan_artifacts_for_publish: the first blocked artifact that has not been
\* promoted under its own coordinate parks the whole publish.
Cleared(t) ==
    LET r == record[Digest(t)] IN
    Digest(t) \in Blocked => r # Nothing /\ r.state = "promoted" /\ r.artifact = Artifact(t)

ScanGate(t) ==
    /\ pc[t] = "gate"
    /\ \/ Cleared(t) /\ Advance(t, "land") /\ UNCHANGED hold
       \/ /\ ~Cleared(t)
          /\ hold' = [hold EXCEPT ![t] = idx[t]]
          /\ idx' = [idx EXCEPT ![t] = 1]
          /\ Goto(t, "park")
    /\ UNCHANGED <<store, op, req, subject, copy, history>>

\* The quota gate and the transactional block, which commits or rolls back.
Land(t) ==
    /\ pc[t] = "land"
    /\ \/ /\ landed' = landed \cup {req[t]}
          /\ owed' = owed \ {req[t]}
          /\ PublishOk(t)
       \/ /\ MayFail
          /\ PublishErr(t)
          /\ UNCHANGED <<landed, owed>>
    /\ UNCHANGED <<record, manifest, held, approved, rejected, halfway>>

\* hold_ingest_publish: the bytes of every artifact, ...
ParkBytes(t) ==
    /\ pc[t] = "park"
    /\ held' = held \cup {Digest(t)}
    /\ Advance(t, "manifest")
    /\ UNCHANGED <<record, manifest, landed, op, req, hold, subject, copy, history>>

\* ... the manifest, ...
ParkManifest(t) ==
    /\ pc[t] = "manifest"
    /\ manifest' = [manifest EXCEPT ![req[t].digests[hold[t]]] = req[t]]
    /\ Goto(t, "record")
    /\ UNCHANGED <<record, held, landed, op, req, idx, hold, subject, copy, history>>

\* ... and the record, after which the publish answers Ok.
ParkRecord(t) ==
    /\ pc[t] = "record"
    /\ record' = [record EXCEPT ![req[t].digests[hold[t]]] =
                    [artifact |-> <<req[t].coord, hold[t]>>, origin |-> "ingest", state |-> "quarantined"]]
    /\ owed' = owed \cup {req[t]}
    /\ PublishOk(t)
    /\ UNCHANGED <<manifest, held, landed, approved, rejected, halfway>>

\* The scanner, or a put of the parked publish, fails; what is parked stays.
FailToPublish(t) ==
    /\ MayFail
    /\ pc[t] \in {"gate", "park", "manifest", "record"}
    /\ PublishErr(t)
    /\ UNCHANGED <<store, history>>

-----------------------------------------------------------------------------
(* The operator's decision on a digest *)

\* The admin handler looks at the record's origin to choose the handle.
StartReview(t, d, decision) ==
    /\ pc[t] = "idle"
    /\ record[d] # Nothing
    /\ op' = [op EXCEPT ![t] = decision]
    /\ subject' = [subject EXCEPT ![t] = d]
    /\ Goto(t, IF record[d].origin = "ingest" THEN "load" ELSE "review")
    /\ UNCHANGED <<store, req, idx, hold, copy, history>>

\* transition_quarantine: a serve-time hold is decided by rewriting its record.
LoadRecord(t) ==
    /\ pc[t] = "review"
    /\ copy' = [copy EXCEPT ![t] = record[subject[t]]]
    /\ Goto(t, "stamp")
    /\ UNCHANGED <<store, op, req, idx, hold, subject, history>>

StampRecord(t) ==
    /\ pc[t] = "stamp"
    /\ \/ op[t] = "promote"
          /\ record' = [record EXCEPT ![subject[t]] = Decided(copy[t], "promoted")]
          /\ approved' = approved \cup {<<copy[t].artifact, subject[t]>>}
       \/ op[t] = "reject"
          /\ record' = [record EXCEPT ![subject[t]] = Decided(copy[t], "rejected")]
          /\ UNCHANGED approved
    /\ Return(t)
    /\ UNCHANGED <<manifest, held, landed, owed, rejected, halfway>>

\* load_ingest_record: the hold must be ingest-origin, whatever its state.
LoadIngestRecord(t) ==
    LET r == record[subject[t]] IN
    /\ pc[t] = "load"
    /\ \/ /\ r.origin = "ingest"
          /\ copy' = [copy EXCEPT ![t] = r]
          /\ Goto(t, "rebuild")
          /\ UNCHANGED <<op, req, idx, hold, subject>>
       \/ r.origin # "ingest" /\ Return(t)
    /\ UNCHANGED <<store, history>>

\* rebuild_held_request found something missing, or could not read it: a
\* promotion ends, a rejection goes on without purging.
NotRebuilt(t) ==
    \/ op[t] = "promote" /\ Return(t)
    \/ op[t] = "reject" /\ Goto(t, "reject")
       /\ req' = [req EXCEPT ![t] = Nothing]
       /\ idx' = [idx EXCEPT ![t] = 1]
       /\ UNCHANGED <<op, hold, subject, copy>>

ReadManifest(t) ==
    /\ pc[t] = "rebuild"
    /\ \/ /\ manifest[subject[t]] # Nothing
          /\ req' = [req EXCEPT ![t] = manifest[subject[t]]]
          /\ Goto(t, "read_bytes")
          /\ UNCHANGED <<op, idx, hold, subject, copy>>
       \/ (manifest[subject[t]] = Nothing \/ MayFail) /\ NotRebuilt(t)
    /\ UNCHANGED <<store, history>>

\* Variant: a rejection only writes the record.
RejectUnpurged(t) ==
    /\ pc[t] = "read_bytes"
    /\ \/ /\ Digest(t) \in held
          /\ Advance(t, op[t])
          /\ UNCHANGED <<op, req, hold, subject, copy>>
       \/ (Digest(t) \notin held \/ MayFail) /\ NotRebuilt(t)
    /\ UNCHANGED <<store, history>>

ReadBytes(t) ==
    /\ pc[t] = "read_bytes"
    /\ \/ /\ Digest(t) \in held
          /\ Advance(t, IF op[t] = "promote" THEN "promote" ELSE "purge")
          /\ UNCHANGED <<op, req, hold, subject, copy>>
       \/ (Digest(t) \notin held \/ MayFail) /\ NotRebuilt(t)
    /\ UNCHANGED <<store, history>>

\* promote_ingest marks the record so that the replay clears the gate.
MarkPromoted(t) ==
    /\ pc[t] = "promote"
    /\ record' = [record EXCEPT ![subject[t]] = Decided(copy[t], "promoted")]
    /\ approved' = approved \cup {<<copy[t].artifact, subject[t]>>}
    /\ Goto(t, "lock")
    /\ UNCHANGED <<manifest, held, landed, op, req, idx, hold, subject, copy, owed, rejected, halfway>>

\* Variant: the failed replay leaves the record promoted.
RevertNothing(t) ==
    /\ pc[t] = "revert"
    /\ Return(t)
    /\ UNCHANGED <<store, history>>

\* The replay failed: the record goes back to quarantined, and the hold is as it
\* was parked.  (An error of this put is discarded, see FailReview.)
Revert(t) ==
    /\ pc[t] = "revert"
    /\ record' = [record EXCEPT ![subject[t]] = Decided(copy[t], "quarantined")]
    /\ halfway' = {h \in halfway : h[1] # subject[t]}
    /\ Return(t)
    /\ UNCHANGED <<manifest, held, landed, approved, owed, rejected>>

\* purge_held_publish: every artifact's bytes, ...
PurgeBytes(t) ==
    /\ pc[t] = "purge"
    /\ held' = held \ {Digest(t)}
    /\ Advance(t, "purge_manifest")
    /\ UNCHANGED <<record, manifest, landed, op, req, hold, subject, copy, history>>

\* ... then the manifest.  A promotion is done, a rejection has its record to
\* write.
PurgeManifest(t) ==
    /\ pc[t] = "purge_manifest"
    /\ manifest' = [manifest EXCEPT ![subject[t]] = Nothing]
    /\ \/ op[t] = "promote" /\ Return(t)
       \/ op[t] = "reject" /\ Goto(t, "reject") /\ UNCHANGED <<op, req, idx, hold, subject, copy>>
    /\ UNCHANGED <<record, held, landed, history>>

\* reject_ingest: "the record transition is the authoritative outcome".  The
\* rejection of a hold it could not rebuild has purged nothing.
MarkRejected(t) ==
    LET settled == {req[t]} \ (landed \cup {Nothing}) IN
    /\ pc[t] = "reject"
    /\ record' = [record EXCEPT ![subject[t]] = Decided(copy[t], "rejected")]
    /\ rejected' = rejected \cup settled
    /\ owed' = owed \ settled
    /\ halfway' = halfway \cup {<<subject[t], "reject">> : q \in {req[t]} \cap {Nothing}}
    /\ Return(t)
    /\ UNCHANGED <<manifest, held, landed, approved>>

\* A review that ends here has written a part of what it decided.
IsHalfway(t) ==
    \/ op[t] = "promote" /\ pc[t] \in Publishing \cup {"lock", "revert"}
    \/ op[t] = "reject" /\ pc[t] \in {"purge", "purge_manifest", "reject"}

Stop(t) ==
    /\ halfway' = IF IsHalfway(t) THEN halfway \cup {<<subject[t], op[t]>>} ELSE halfway
    /\ Return(t)
    /\ UNCHANGED <<store, approved, owed, rejected>>

\* A storage call of the review fails, which ends it; that of the reverting put
\* is ignored, with nothing left to do.
FailReview(t) ==
    /\ MayFail
    /\ pc[t] \in {"review", "stamp", "load", "promote", "revert", "purge", "purge_manifest", "reject"}
    /\ Stop(t)

\* The operator disconnects, or the process dies.
CancelReview(t) ==
    /\ MayCancel
    /\ t \in Operators
    /\ pc[t] # "idle"
    /\ Stop(t)

-----------------------------------------------------------------------------
(* The gate of a download: enforce_quarantine *)

\* What a download may have found published: it may have read the metadata of a
\* version that was overwritten since.
Files(q) == {<<<<q.coord, i>>, q.digests[i]>> : i \in DOMAIN q.digests}
Servable == Proxied \cup UNION {Files(q) : q \in landed}

\* A record of this very artifact decides, whatever its state.  Otherwise the
\* artifact is about to be held.
CheckServe(t, a, d) ==
    LET r == record[d] IN
    /\ pc[t] = "idle"
    /\ d \in Blocked
    /\ r # Nothing => r.artifact # a
    /\ subject' = [subject EXCEPT ![t] = d]
    /\ copy' = [copy EXCEPT ![t] = [artifact |-> a, origin |-> "serve", state |-> "quarantined"]]
    /\ Goto(t, "hold")
    /\ UNCHANGED <<store, op, req, idx, hold, history>>

HoldServe(t) ==
    /\ pc[t] = "hold"
    /\ record' = [record EXCEPT ![subject[t]] = copy[t]]
    /\ Return(t)
    /\ UNCHANGED <<manifest, held, landed, history>>

-----------------------------------------------------------------------------
Publish(t) ==
    \/ LockAndCheck(t) \/ ScanGate(t) \/ Land(t)
    \/ ParkBytes(t) \/ ParkManifest(t) \/ ParkRecord(t) \/ FailToPublish(t)

Review(t) ==
    \/ LoadRecord(t) \/ StampRecord(t)
    \/ LoadIngestRecord(t) \/ ReadManifest(t) \/ ReadBytes(t)
    \/ MarkPromoted(t) \/ Revert(t)
    \/ PurgeBytes(t) \/ PurgeManifest(t) \/ MarkRejected(t)
    \/ FailReview(t)

Next ==
    \/ \E t \in Clients, q \in Requests : StartPublish(t, q)
    \/ \E t \in Clients \cup Operators : Publish(t)
    \/ \E t \in Operators :
         \/ \E d \in Digests, decision \in {"promote", "reject"} : StartReview(t, d, decision)
         \/ Review(t)
         \/ CancelReview(t)
    \/ \E t \in Servers :
         \/ \E s \in Servable : CheckServe(t, s[1], s[2])
         \/ HoldServe(t)

Spec == Init /\ [][Next]_vars

-----------------------------------------------------------------------------
(* Properties *)

Labels == Publishing \cup {"idle", "lock", "load", "review", "stamp", "rebuild", "read_bytes",
    "promote", "revert", "purge", "purge_manifest", "reject", "hold"}

\* The labels at which a task is carrying out a request, before the first of its
\* artifacts or at one of them, and those at which it is deciding a digest by the
\* record it has read.
HasRequest == Publishing \cup {"lock", "read_bytes", "promote", "purge"}
HasArtifact == Publishing \cup {"read_bytes", "purge"}
AtStart == {"idle", "load", "rebuild", "promote", "lock"}
HasRecord(t) ==
    \/ pc[t] \in {"stamp", "rebuild", "read_bytes", "promote", "revert",
                  "purge", "purge_manifest", "reject", "hold"}
    \/ pc[t] \in Publishing \cup {"lock"} /\ op[t] = "promote"

\* Types of everything the reviews, the publishes and the serves touch: a task
\* that publishes or purges knows its request and is within it, and a record is
\* only ever written from a copy that was read or built.
TypeOK ==
    /\ record \in [Digests -> Record \cup {Nothing}]
    /\ manifest \in [Digests -> Requests \cup {Nothing}]
    /\ held \subseteq Digests /\ landed \subseteq Requests
    /\ pc \in [Tasks -> Labels]
    /\ op \in [Tasks -> {"none", "publish", "promote", "reject"}]
    /\ req \in [Tasks -> Requests \cup {Nothing}]
    /\ idx \in [Tasks -> Nat \ {0}]
    /\ hold \in [Tasks -> Nat \ {0}]
    /\ subject \in [Tasks -> Digests \cup {Nothing}]
    /\ copy \in [Tasks -> Record \cup {Nothing}]
    /\ \A t \in Tasks :
         /\ pc[t] \in HasRequest => req[t] # Nothing
         /\ pc[t] \in HasArtifact => idx[t] \in DOMAIN req[t].digests
         /\ pc[t] \in AtStart => idx[t] = 1
         /\ HasRecord(t) => copy[t] # Nothing /\ subject[t] # Nothing
         /\ pc[t] \in {"load", "review"} => subject[t] # Nothing /\ record[subject[t]] # Nothing
    /\ approved \subseteq ArtifactId \X Digests
    /\ owed \subseteq Requests /\ rejected \subseteq Requests
    /\ halfway \subseteq Digests \X {"promote", "reject"}

\* coordinate_is_promoted: a blocked artifact is published only when an
\* operator promoted it under its own coordinate, however reviews, replays,
\* serves and publishes of other packages with the same bytes interleave.
LandedIsApproved ==
    \A q \in landed : \A f \in Files(q) : f[2] \in Blocked => f \in approved

\* Nobody works on the publish q or on one of its digests.
Quiet(q) == \A t \in Tasks :
    /\ req[t] # q
    /\ \A i \in DOMAIN q.digests : subject[t] # q.digests[i]

\* The review of q by one of its digests, or none of it, is left half done.
Halfway(q, decision) == \E i \in DOMAIN q.digests : <<q.digests[i], decision>> \in halfway

\* An operator can review q, can promote it, and finds it as it was parked.
Reviewable(q) == \E i \in DOMAIN q.digests :
    LET r == record[q.digests[i]] IN r # Nothing /\ r.artifact = <<q.coord, i>> /\ r.origin = "ingest"

Promotable(q) ==
    /\ \A i \in DOMAIN q.digests : q.digests[i] \in held
    /\ \E i \in DOMAIN q.digests :
          LET r == record[q.digests[i]] IN
          /\ manifest[q.digests[i]] = q
          /\ r # Nothing /\ r.artifact = <<q.coord, i>> /\ r.origin = "ingest"

AsParked(q) ==
    /\ \A i \in DOMAIN q.digests : q.digests[i] \in held
    /\ \E i \in DOMAIN q.digests :
          LET d == q.digests[i] IN
          manifest[d] = q /\ record[d] = [artifact |-> <<q.coord, i>>, origin |-> "ingest", state |-> "quarantined"]

\* promote_ingest: "revert the record to quarantined so the hold stays
\* recoverable".  A publish whose client was told Ok, that has neither landed
\* nor been rejected, can be reviewed again however its reviews were cut off or
\* failed; it can be promoted unless a rejection got half-way; and it is back to
\* quarantined unless a promotion did (its put of the reverted record failed).
HeldIsRecoverable == \A q \in owed : Quiet(q) =>
    /\ Reviewable(q)
    /\ ~Halfway(q, "reject") => Promotable(q)
    /\ ~Halfway(q, "reject") /\ ~Halfway(q, "promote") => AsParked(q)

\* The same of every promotion that failed, not so: the error of the reverting put
\* is discarded, which leaves the record promoted and nothing published.
FailedPromotionReverts == \A q \in owed : Quiet(q) /\ ~Halfway(q, "reject") => AsParked(q)

\* reject_ingest: "so the publish can never land".
RejectedNeverLands == rejected \cap landed = {}

\* The same of every rejection that was reported, not so: one that could not read
\* the held publish keeps it, to be promoted.
RejectedIsPurged == \A q \in Requests : Quiet(q) =>
    \A i \in DOMAIN q.digests :
        LET d == q.digests[i] IN
        record[d] # Nothing /\ record[d].state = "rejected" => manifest[d] = Nothing

=============================================================================
