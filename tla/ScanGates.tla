------------------------------ MODULE ScanGates ------------------------------
(***************************************************************************)
(* The supply-chain gates (ADR-0024) over time: the scan reports that      *)
(* publishes and downloads store by digest, the sweep that scans again     *)
(* what is stored, the quarantine records of blocked downloads, and the    *)
(* signatures and provenance attestations beside the artifacts.            *)
(*                                                                         *)
(* The advisory feed changes while all this runs.  It is asked by          *)
(* coordinate, the reports are kept by digest, and coordinates may share   *)
(* bytes.  Every call of the store and of the scanner is a step, but that  *)
(* an artifact and its .blake3 sidecar are one object here (ArtifactCache  *)
(* tells them apart), and so are the read and the write of put_and_track    *)
(* and the two reads with which the sweep takes up a subject.              *)
(* A blocked publish ends here: Quarantine has what becomes of it.         *)
(***************************************************************************)
EXTENDS Naturals, Sequences

CONSTANTS
    Tasks,        \* tasks that serve downloads and publish
    Operators,    \* people who review quarantine records
    Coordinates,  \* artifacts: ecosystem/name/version/filename
    Digests,      \* Blake3 digests
    Signers,      \* ids of signing keys
    Sites,        \* the deployments that are looked at
    Nothing       \* no object, no digest, no key

Verdicts == {"clean", "flawed", "incomplete"}
Modes == {"off", "sign_only", "sign_and_verify", "verify_only"}

\* strict: a flaw exceeds policies.max_vuln_severity.  signer: the active key
\* scoped to the artifacts, known: the keys that are not disabled.
Policy == [strict : BOOLEAN, onServe : BOOLEAN, quarantine : BOOLEAN,
           requireSignature : BOOLEAN, requireProvenance : BOOLEAN, signCached : BOOLEAN,
           mode : Modes, signer : Signers \cup {Nothing}, known : SUBSET Signers]

Report == [artifact : Coordinates, subject : Digests, verdict : Verdicts]
Record == [artifact : Coordinates, state : {"quarantined", "promoted", "rejected"}]
Signed == [key : Signers, artifact : Coordinates, digest : Digests]
Budget == [advisories : Nat, evictions : Nat, faults : Nat, restarts : Nat]

\* actors: who is there; sweeps: is there a recorrelation interval; policies: what the server may be started with; hosted: the publishes that
\* may be sent; upstream: what the upstreams have; preloaded: what is stored,
\* signed and found clean before; limits: how often the environment may act,
\* and how often it did.
Site == [actors : SUBSET (Tasks \cup Operators), sweeps : BOOLEAN, policies : SUBSET Policy,
         hosted : SUBSET (Coordinates \X Digests), upstream : SUBSET (Coordinates \X Digests),
         preloaded : SUBSET (Coordinates \X Digests), limits : Budget, used : Budget]

ASSUME RolesAssumption == Tasks \cap Operators = {}
ASSUME NothingAssumption ==
    Nothing \notin Coordinates \cup Digests \cup Signers \cup Report \cup Record \cup Signed
\* Gating on signatures or provenance without signing does not start, and keys
\* that are disabled are not even loaded.
ASSUME SitesAssumption ==
    \A s \in Sites :
      /\ s \in Site /\ \A kind \in DOMAIN s.used : s.used[kind] = 0
      /\ \A p \in s.policies :
           /\ p.requireSignature \/ p.requireProvenance => p.mode # "off"
           /\ p.signer \in p.known \cup {Nothing}

Actors == Tasks \cup Operators

\* The objects that are staged and rolled back.
Kinds == {"bytes", "signature", "attestation"}
Keys == ({"report"} \X Digests) \cup (Kinds \X Coordinates)

VARIABLES
    policy,    \* the configuration in force
    advisory,  \* what the feed says of each artifact
    store,     \* staged objects, by key
    record,    \* _starmetal/quarantine/<digest>.json
    sent,      \* publishes that were sent
    pc,        \* next step of each actor
    op,        \* what it is doing
    artifact,  \* the artifact it is about
    digest,    \* the digest of its bytes, once known
    found,     \* the report or record it works with
    plan,      \* keys it still has to write
    staged,    \* what it wrote: <<key, previous object>>, oldest first
    sweepPc,   \* next step of the sweep, subject by subject
    stored,    \* the report a subject was found with
    fresh,     \* and the one its scan brought
    newly,     \* subjects the summary will call newly blocking
    broken,    \* did a storage call of the sweep fail?
    site,      \* the deployment, and how often its environment has acted
    approved,  \* <<artifact, digest>> an operator promoted (history)
    shield,    \* downloads that ought to be refused (history)
    untold     \* subjects that began to block, in no summary yet (history)

objects == <<store, record>>
task == <<pc, op, artifact, digest, found, plan, staged>>
sweep == <<sweepPc, stored, fresh, newly, broken>>
vars == <<policy, advisory, objects, sent, task, sweep, site, approved, shield, untold>>

NoTask(set, none) == [t \in set |-> none]

\* What earlier publishes and downloads left behind.
InitialObject(kind, of) ==
    IF kind = "report"
    THEN IF \E c \in Coordinates : <<c, of>> \in site.preloaded
         THEN [artifact |-> CHOOSE c \in Coordinates : <<c, of>> \in site.preloaded,
               subject |-> of, verdict |-> "clean"]
         ELSE Nothing
    ELSE IF \E d \in Digests : <<of, d>> \in site.preloaded
         THEN LET d == CHOOSE d \in Digests : <<of, d>> \in site.preloaded
              IN  IF kind = "bytes" THEN d
                  ELSE IF policy.signer = Nothing THEN Nothing
                  ELSE [key |-> policy.signer, artifact |-> of, digest |-> d]
         ELSE Nothing

Init ==
    /\ site \in Sites /\ policy \in site.policies
    /\ advisory = [c \in Coordinates |-> "clean"]
    /\ store = [k \in Keys |-> InitialObject(k[1], k[2])]
    /\ record = [d \in Digests |-> Nothing]
    /\ sent = {}
    /\ pc = [a \in Actors |-> "idle"] /\ op = [a \in Actors |-> "none"]
    /\ artifact = [a \in Actors |-> Nothing] /\ digest = [a \in Actors |-> Nothing]
    /\ found = [a \in Actors |-> Nothing]
    /\ plan = [t \in Tasks |-> <<>>] /\ staged = [t \in Tasks |-> <<>>]
    /\ sweepPc = [d \in Digests |-> "idle"]
    /\ stored = [d \in Digests |-> Nothing] /\ fresh = [d \in Digests |-> Nothing]
    /\ newly = {} /\ broken = FALSE
    /\ approved = {} /\ shield = {} /\ untold = {}

-----------------------------------------------------------------------------
(* Decisions *)

\* evaluate_scan_report.
Blocks(report) ==
    \/ report.verdict = "incomplete"
    \/ report.verdict = "flawed" /\ policy.strict

\* The answer of the scanner: by coordinate, bound to the bytes it was given.
Scanned(c, d) == [artifact |-> c, subject |-> d, verdict |-> advisory[c]]

\* Variant: any promotion of these bytes releases them.
ReleasedForAll(c, r) == r # Nothing /\ r.state = "promoted"
Released(c, r) == r # Nothing /\ r.artifact = c /\ r.state = "promoted"

Signing == policy.mode \in {"sign_only", "sign_and_verify"}
SignsCached == policy.signCached /\ Signing
VerifyOnRead ==
    policy.mode \in {"sign_and_verify", "verify_only"} /\ ~policy.requireSignature

\* verify_storage_signature, verify_provenance: a sidecar by a key that is not
\* disabled, for this artifact with these bytes.
Verified(kind, c, d) ==
    /\ store[<<kind, c>>] # Nothing
    /\ store[<<kind, c>>].key \in policy.known
    /\ store[<<kind, c>>].artifact = c /\ store[<<kind, c>>].digest = d

SignatureHolds(c, d) == policy.mode = "off" \/ Verified("signature", c, d)

\* Variant: the bytes come first.
PlanBytesFirst(t) ==
    IF op[t] = "publish" THEN <<"report", "bytes", "signature">> ELSE <<"bytes", "signature">>

\* What a publish and a download that missed write, in order.
Plan(t) ==
    LET publish == op[t] = "publish"
        sidecars == (IF (publish /\ policy.mode # "off") \/ SignsCached THEN <<"signature">> ELSE <<>>)
                    \o (IF policy.requireProvenance /\ (publish \/ SignsCached)
                        THEN <<"attestation">> ELSE <<>>)
    IN  IF op[t] = "publish" THEN <<"report", "bytes">> \o sidecars ELSE sidecars \o <<"bytes">>

-----------------------------------------------------------------------------
(* Steps of a task *)

Goto(a, label) == pc' = [pc EXCEPT ![a] = label]

Return(a) ==
    /\ Goto(a, "idle")
    /\ op' = [op EXCEPT ![a] = "none"]
    /\ artifact' = [artifact EXCEPT ![a] = Nothing]
    /\ digest' = [digest EXCEPT ![a] = Nothing]
    /\ found' = [found EXCEPT ![a] = Nothing]
    /\ IF a \in Tasks
       THEN plan' = [plan EXCEPT ![a] = <<>>] /\ staged' = [staged EXCEPT ![a] = <<>>]
       ELSE UNCHANGED <<plan, staged>>

\* The call is over for the client, what it wrote stays.
Refuse(a) == Return(a)

Left(kind) == site.used[kind] < site.limits[kind]
Spend(kind) == site' = [site EXCEPT !.used[kind] = @ + 1]

Begin(a, what, c, d, label) ==
    /\ pc[a] = "idle" /\ a \in site.actors
    /\ Goto(a, label)
    /\ op' = [op EXCEPT ![a] = what]
    /\ artifact' = [artifact EXCEPT ![a] = c]
    /\ digest' = [digest EXCEPT ![a] = d]
    /\ UNCHANGED <<policy, advisory, objects, found, plan, staged, sweep, site, approved, untold>>

\* get_artifact reads the bytes and their sidecar at once.
Request(t, c) ==
    /\ UNCHANGED sent
    /\ \/ /\ store[<<"bytes", c>>] # Nothing
          /\ Begin(t, "serve", c, store[<<"bytes", c>>], IF VerifyOnRead THEN "verify on read" ELSE "report")
       \/ /\ store[<<"bytes", c>>] = Nothing
          /\ Begin(t, "serve", c, Nothing, "fetch")

VerifyCached(t) ==
    /\ pc[t] = "verify on read"
    /\ \/ /\ SignatureHolds(artifact[t], digest[t])
          /\ Goto(t, "report") /\ UNCHANGED <<op, artifact, digest, found, plan, staged>>
       \/ ~SignatureHolds(artifact[t], digest[t]) /\ Refuse(t)
    /\ UNCHANGED <<policy, advisory, objects, sent, sweep, site, approved, untold>>

Fetch(t) ==
    /\ pc[t] = "fetch"
    /\ \/ \E d \in Digests :
             /\ <<artifact[t], d>> \in site.upstream
             /\ digest' = [digest EXCEPT ![t] = d]
             /\ plan' = [plan EXCEPT ![t] = Plan(t)]
             /\ Goto(t, "write")
             /\ UNCHANGED <<op, artifact, found, staged>>
       \/ (\A d \in Digests : <<artifact[t], d>> \notin site.upstream) /\ Refuse(t)
    /\ UNCHANGED <<policy, advisory, objects, sent, sweep, site, approved, untold>>

\* publish_package under the lock of its coordinate, overwriting allowed.
Publish(t, c, d) ==
    /\ <<c, d>> \notin sent
    /\ \A u \in Tasks : op[u] = "publish" => artifact[u] # c
    /\ sent' = sent \cup {<<c, d>>}
    /\ Begin(t, "publish", c, d, "scan")

-----------------------------------------------------------------------------
(* Writes, and their rollback *)

Key(t, kind) == IF kind = "report" THEN <<kind, digest[t]>> ELSE <<kind, artifact[t]>>

Object(t, kind) ==
    CASE kind = "report" -> found[t]
      [] kind = "bytes" -> digest[t]
      [] OTHER -> [key |-> policy.signer, artifact |-> artifact[t], digest |-> digest[t]]

\* Where enforce_verification begins, and where it leads.
Admitted(t) == IF op[t] = "publish" THEN "commit" ELSE "served"
Attested(t) == IF policy.requireProvenance THEN "provenance" ELSE Admitted(t)
Verification(t) == IF policy.requireSignature THEN "signature" ELSE Attested(t)

Put(t, key, object) ==
    /\ store' = [store EXCEPT ![key] = object]
    /\ staged' = [staged EXCEPT ![t] = Append(@, <<key, store[key]>>)]

CanMake(kind) ==
    kind \in {"signature", "attestation"} => Signing /\ policy.signer # Nothing

\* put_and_track, for the next object of the plan; no key, no signature.
Write(t) ==
    /\ pc[t] = "write" /\ plan[t] # <<>>
    /\ \/ ~CanMake(Head(plan[t])) /\ Goto(t, "rollback") /\ UNCHANGED <<store, staged, plan>>
       \/ /\ CanMake(Head(plan[t]))
          /\ Put(t, Key(t, Head(plan[t])), Object(t, Head(plan[t])))
          /\ plan' = [plan EXCEPT ![t] = Tail(@)]
          /\ IF Len(plan[t]) > 1 THEN UNCHANGED pc
             ELSE Goto(t, IF op[t] = "publish" THEN Verification(t) ELSE "report")
    /\ UNCHANGED <<policy, advisory, record, sent, op, artifact, digest, found, sweep, site, approved>>
    /\ UNCHANGED untold

\* rollback_staged_writes, latest first: what was there when this task wrote.
Rollback(t) ==
    /\ pc[t] = "rollback"
    /\ \/ staged[t] = <<>> /\ Return(t) /\ UNCHANGED store
       \/ /\ staged[t] # <<>>
          /\ LET write == staged[t][Len(staged[t])]
             IN  store' = [store EXCEPT ![write[1]] = write[2]]
          /\ staged' = [staged EXCEPT ![t] = SubSeq(@, 1, Len(@) - 1)]
          /\ UNCHANGED <<pc, op, artifact, digest, found, plan>>
    /\ UNCHANGED <<policy, advisory, record, sent, sweep, site, approved, untold>>

-----------------------------------------------------------------------------
(* The scan gate *)

\* scan_artifacts_for_publish.
ScanPublish(t) ==
    /\ pc[t] = "scan" /\ op[t] = "publish"
    /\ found' = [found EXCEPT ![t] = Scanned(artifact[t], digest[t])]
    /\ \/ /\ ~Blocks(Scanned(artifact[t], digest[t]))
          /\ Goto(t, "write") /\ plan' = [plan EXCEPT ![t] = Plan(t)]
       \/ /\ Blocks(Scanned(artifact[t], digest[t]))
          /\ Goto(t, "admit") /\ UNCHANGED plan
    /\ UNCHANGED <<policy, advisory, objects, sent, op, artifact, digest, staged, sweep, site, approved>>
    /\ UNCHANGED untold

\* coordinate_is_promoted; else the publish is denied or held.
AdmitPublish(t) ==
    /\ pc[t] = "admit"
    /\ \/ /\ Released(artifact[t], record[digest[t]])
          /\ Goto(t, "write") /\ plan' = [plan EXCEPT ![t] = Plan(t)]
          /\ UNCHANGED <<op, artifact, digest, found, staged>>
       \/ ~Released(artifact[t], record[digest[t]]) /\ Refuse(t)
    /\ UNCHANGED <<policy, advisory, objects, sent, sweep, site, approved, untold>>

\* What a download does with the report it has.
Decide(t, report) ==
    \/ /\ policy.quarantine \/ ~Blocks(report)
       /\ found' = [found EXCEPT ![t] = report]
       /\ Goto(t, IF Blocks(report) THEN "record" ELSE Verification(t))
       /\ UNCHANGED <<op, artifact, digest, plan, staged>>
    \/ ~policy.quarantine /\ Blocks(report) /\ Refuse(t)

\* Variant: any report of the artifact will do.
ReadReportOfArtifact(t) ==
    /\ pc[t] = "report" /\ policy.onServe
    /\ \/ \E d \in Digests :
            LET report == store[<<"report", d>>]
            IN  report # Nothing /\ report.artifact = artifact[t] /\ Decide(t, report)
       \/ /\ store[<<"report", digest[t]>>] = Nothing
          /\ Goto(t, "scan")
          /\ UNCHANGED <<op, artifact, digest, found, plan, staged>>
    /\ UNCHANGED <<policy, advisory, objects, sent, sweep, site, approved, untold>>

ReadReport(t) ==
    /\ pc[t] = "report"
    /\ LET report == store[<<"report", digest[t]>>]
       IN  \/ /\ ~policy.onServe
              /\ Goto(t, Verification(t))
              /\ UNCHANGED <<op, artifact, digest, found, plan, staged>>
           \/ /\ policy.onServe /\ report = Nothing
              /\ Goto(t, "scan")
              /\ UNCHANGED <<op, artifact, digest, found, plan, staged>>
           \/ policy.onServe /\ report # Nothing /\ Decide(t, report)
    /\ UNCHANGED <<policy, advisory, objects, sent, sweep, site, approved, untold>>

ScanServed(t) ==
    /\ pc[t] = "scan" /\ op[t] = "serve"
    /\ found' = [found EXCEPT ![t] = Scanned(artifact[t], digest[t])]
    /\ Goto(t, "keep report")
    /\ UNCHANGED <<policy, advisory, objects, sent, op, artifact, digest, plan, staged, sweep, site>>
    /\ UNCHANGED <<approved, untold>>

KeepReport(t) ==
    /\ pc[t] = "keep report"
    /\ store' = [store EXCEPT ![<<"report", digest[t]>>] = found[t]]
    /\ Decide(t, found[t])
    /\ UNCHANGED <<policy, advisory, record, sent, sweep, site, approved, untold>>

\* enforce_quarantine: only a record of this very artifact decides.
EnforceQuarantine(t) ==
    /\ pc[t] = "record"
    /\ LET r == record[digest[t]]
       IN  \/ /\ Released(artifact[t], r)
              /\ Goto(t, Verification(t))
              /\ UNCHANGED <<op, artifact, digest, found, plan, staged>>
           \/ r # Nothing /\ r.artifact = artifact[t] /\ ~Released(artifact[t], r) /\ Refuse(t)
           \/ /\ r # Nothing => r.artifact # artifact[t]
              /\ Goto(t, "hold")
              /\ UNCHANGED <<op, artifact, digest, found, plan, staged>>
    /\ UNCHANGED <<policy, advisory, objects, sent, sweep, site, approved, untold>>

Hold(t) ==
    /\ pc[t] = "hold"
    /\ record' = [record EXCEPT ![digest[t]] = [artifact |-> artifact[t], state |-> "quarantined"]]
    /\ Refuse(t)
    /\ UNCHANGED <<policy, advisory, store, sent, sweep, site, approved, untold>>

-----------------------------------------------------------------------------
(* The signature and provenance gate *)

\* A failed check takes back what this task wrote: nothing, on a hit.
Check(t, label, holds, next) ==
    /\ pc[t] = label
    /\ \/ holds /\ Goto(t, next)
       \/ ~holds /\ Goto(t, "rollback")
    /\ UNCHANGED <<policy, advisory, objects, sent, op, artifact, digest, found, plan, staged>>
    /\ UNCHANGED <<sweep, site, approved, untold>>

CheckSignature(t) ==
    Check(t, "signature", SignatureHolds(artifact[t], digest[t]), Attested(t))
CheckProvenance(t) ==
    Check(t, "provenance", Verified("attestation", artifact[t], digest[t]), Admitted(t))

\* The rest of a publish (PackageIndex, ContentStore), or the answer.
Finish(t) ==
    /\ pc[t] \in {"commit", "served"}
    /\ Return(t)
    /\ UNCHANGED <<policy, advisory, objects, sent, sweep, site, approved, untold>>

\* A call of the store or the scanner fails; a failed put may have been made.
Fail(t) ==
    /\ pc[t] \notin {"idle", "served", "rollback"}
    /\ Left("faults") /\ Spend("faults")
    /\ \/ pc[t] \in {"write", "signature", "provenance", "commit"} /\ Goto(t, "rollback")
          /\ UNCHANGED <<op, artifact, digest, found, plan>>
          /\ \/ UNCHANGED <<store, staged>>
             \/ pc[t] = "write" /\ CanMake(Head(plan[t])) /\ Put(t, Key(t, Head(plan[t])), Object(t, Head(plan[t])))
       \/ pc[t] \notin {"write", "signature", "provenance", "commit"} /\ Refuse(t) /\ UNCHANGED store
    /\ UNCHANGED <<policy, advisory, record, sent, sweep, approved, untold>>

-----------------------------------------------------------------------------
(* Scheduled re-correlation: one sweep at a time, all its subjects at once  *)
(* as long as there are no more of them than RECORRELATION_CONCURRENCY.     *)

sweepRest == <<policy, advisory, record, sent, task, approved>>

SweepIdle == \A d \in Digests : sweepPc[d] = "idle"

StartSweep ==
    /\ site.sweeps /\ SweepIdle
    /\ sweepPc' = [d \in Digests |-> IF store[<<"report", d>>] # Nothing THEN "read" ELSE "idle"]
    /\ newly' = {} /\ broken' = FALSE
    /\ UNCHANGED <<sweepRest, store, stored, fresh, site, untold>>

SweepGoto(d, label) == sweepPc' = [sweepPc EXCEPT ![d] = label]

\* The report, and the artifact it was made for with the bytes it has now; a
\* subject without either is skipped.
SweepRead(d) ==
    /\ sweepPc[d] = "read"
    /\ LET report == store[<<"report", d>>]
           bytes == IF report = Nothing THEN Nothing ELSE store[<<"bytes", report.artifact>>]
       IN  \/ bytes = Nothing /\ SweepGoto(d, "over") /\ UNCHANGED <<stored, fresh>>
           \/ /\ bytes # Nothing
              /\ stored' = [stored EXCEPT ![d] = report]
              /\ fresh' = [fresh EXCEPT ![d] = [report EXCEPT !.subject = bytes]]
              /\ SweepGoto(d, "scan")
    /\ UNCHANGED <<sweepRest, store, newly, broken, site, untold>>

\* Variants: a report that is over the threshold already is kept; whether it
\* was is asked after the scan.
SweepScanOnce(d) ==
    /\ sweepPc[d] = "scan"
    /\ LET report == Scanned(stored[d].artifact, fresh[d].subject)
       IN  /\ fresh' = [fresh EXCEPT ![d] = report]
           /\ SweepGoto(d, IF report = stored[d] \/ Blocks(stored[d]) THEN "over" ELSE "put")
    /\ UNCHANGED <<sweepRest, store, stored, newly, broken, site, untold>>

SweepScan(d) ==
    /\ sweepPc[d] = "scan"
    /\ LET report == Scanned(stored[d].artifact, fresh[d].subject)
       IN  /\ fresh' = [fresh EXCEPT ![d] = report]
           /\ SweepGoto(d, IF report = stored[d] THEN "over" ELSE "put")
    /\ UNCHANGED <<sweepRest, store, stored, newly, broken, site, untold>>

NewlyBlocksRewritten(d) == Blocks(fresh[d]) /\ ~Blocks(store'[<<"report", d>>])
NewlyBlocks(d) == Blocks(fresh[d]) /\ ~Blocks(stored[d])

SweepPut(d) ==
    /\ sweepPc[d] = "put"
    /\ store' = [store EXCEPT ![<<"report", d>>] = fresh[d]]
    /\ newly' = IF NewlyBlocks(d) THEN newly \cup {d} ELSE newly
    /\ untold' = IF Blocks(fresh[d]) /\ ~Blocks(stored[d]) THEN untold \cup {d} ELSE untold
    /\ SweepGoto(d, "over")
    /\ UNCHANGED <<sweepRest, stored, fresh, broken, site>>

\* A scan that fails is counted and its report is kept, a storage call that
\* fails breaks the sweep; the other subjects go on either way.
SweepFail(d) ==
    /\ sweepPc[d] \in {"read", "scan", "put"}
    /\ Left("faults") /\ Spend("faults")
    /\ broken' = (broken \/ sweepPc[d] # "scan")
    /\ SweepGoto(d, "over")
    /\ UNCHANGED <<sweepRest, store, stored, fresh, newly, untold>>

\* The summary; without one if the sweep broke.
EndSweep ==
    /\ ~SweepIdle /\ \A d \in Digests : sweepPc[d] \in {"idle", "over"}
    /\ sweepPc' = [d \in Digests |-> "idle"]
    /\ stored' = [d \in Digests |-> Nothing] /\ fresh' = [d \in Digests |-> Nothing]
    /\ untold' = IF broken THEN untold ELSE untold \ newly
    /\ newly' = {} /\ broken' = FALSE
    /\ UNCHANGED <<sweepRest, store, site>>

-----------------------------------------------------------------------------
(* People *)

\* transition_quarantine: the record of the digest, whosever it is.
ReviewRecord(o, d, state) ==
    /\ record[d] # Nothing
    /\ pc[o] = "idle" /\ o \in site.actors
    /\ Goto(o, state) /\ op' = [op EXCEPT ![o] = "review"]
    /\ digest' = [digest EXCEPT ![o] = d]
    /\ found' = [found EXCEPT ![o] = [record[d] EXCEPT !.state = state]]
    /\ UNCHANGED <<policy, advisory, objects, sent, artifact, plan, staged, sweep, site, approved, untold>>

DecideRecord(o) ==
    /\ pc[o] \in {"promoted", "rejected"}
    /\ record' = [record EXCEPT ![digest[o]] = found[o]]
    /\ approved' = IF pc[o] = "promoted" THEN approved \cup {<<found[o].artifact, digest[o]>>}
                   ELSE approved
    /\ Return(o)
    /\ UNCHANGED <<policy, advisory, store, sent, sweep, site, untold>>

\* The advisory feed, and what the scanner can make of an artifact.
Advise(c, verdict) ==
    /\ verdict # advisory[c] /\ Left("advisories") /\ Spend("advisories")
    /\ advisory' = [advisory EXCEPT ![c] = verdict]
    /\ UNCHANGED <<policy, objects, sent, task, sweep, approved, untold>>

\* delete_cached_artifact: neither its report nor its signatures.
Evict(c) ==
    /\ store[<<"bytes", c>>] # Nothing /\ Left("evictions") /\ Spend("evictions")
    /\ store' = [store EXCEPT ![<<"bytes", c>>] = Nothing]
    /\ UNCHANGED <<policy, advisory, record, sent, task, sweep, approved, untold>>

\* The process dies and is started again, perhaps with other settings.
Restart(p) ==
    /\ Left("restarts") /\ Spend("restarts")
    /\ policy' = p
    /\ pc' = [a \in Actors |-> "idle"] /\ op' = [a \in Actors |-> "none"]
    /\ artifact' = [a \in Actors |-> Nothing] /\ digest' = [a \in Actors |-> Nothing]
    /\ found' = [a \in Actors |-> Nothing]
    /\ plan' = [t \in Tasks |-> <<>>] /\ staged' = [t \in Tasks |-> <<>>]
    /\ sweepPc' = [d \in Digests |-> "idle"]
    /\ stored' = [d \in Digests |-> Nothing] /\ fresh' = [d \in Digests |-> Nothing]
    /\ newly' = {} /\ broken' = FALSE
    /\ UNCHANGED <<advisory, objects, sent, approved, untold>>

-----------------------------------------------------------------------------
\* A report of the bytes t is to serve blocks, and nobody released them.
StandsBlocked(t) ==
    /\ op[t] = "serve" /\ digest[t] # Nothing /\ policy.onServe
    /\ store[<<"report", digest[t]>>] # Nothing /\ Blocks(store[<<"report", digest[t]>>])
    /\ ~Released(artifact[t], record[digest[t]])

\* The downloads it has been so for since they knew what to serve.
Observe == shield' = {t \in Tasks : StandsBlocked(t)' /\ (digest[t] = Nothing \/ t \in shield)}

TaskStep(t) ==
    \/ VerifyCached(t) \/ Fetch(t) \/ Write(t) \/ Rollback(t)
    \/ ScanPublish(t) \/ AdmitPublish(t) \/ ReadReport(t) \/ ScanServed(t) \/ KeepReport(t)
    \/ EnforceQuarantine(t) \/ Hold(t)
    \/ CheckSignature(t) \/ CheckProvenance(t) \/ Finish(t)

SweepStep ==
    \/ StartSweep \/ EndSweep
    \/ \E d \in Digests : SweepRead(d) \/ SweepScan(d) \/ SweepPut(d)

Environment ==
    \/ \E t \in Tasks :
         \/ \E c \in Coordinates : Request(t, c)
         \/ \E p \in site.hosted : Publish(t, p[1], p[2])
         \/ Fail(t)
    \/ \E d \in Digests : SweepFail(d)
    \/ \E o \in Operators :
         \/ \E d \in Digests, state \in {"promoted", "rejected"} : ReviewRecord(o, d, state)
         \/ DecideRecord(o)
    \/ \E c \in Coordinates : Evict(c) \/ \E v \in Verdicts : Advise(c, v)
    \/ \E p \in site.policies : Restart(p)

Next == ((\E t \in Tasks : TaskStep(t)) \/ SweepStep \/ Environment) /\ Observe

\* Calls return, and the scheduler sweeps at every interval.
Spec ==
    /\ Init /\ [][Next]_vars
    /\ \A t \in Tasks : WF_vars(TaskStep(t) /\ Observe)
    /\ WF_vars(SweepStep /\ Observe)

-----------------------------------------------------------------------------
Labels == {"idle", "verify on read", "fetch", "write", "rollback", "scan", "admit", "report",
           "keep report", "record", "hold", "signature", "provenance", "commit",
           "served", "promoted", "rejected"}
SweepLabels == {"idle", "read", "scan", "put", "over"}

\* Every variable has the type its comment promises.
TypeOK ==
    /\ site \in Site /\ policy \in site.policies /\ advisory \in [Coordinates -> Verdicts]
    /\ store \in [Keys -> Digests \cup Report \cup Signed \cup {Nothing}]
    /\ \A d \in Digests : store[<<"report", d>>] \in Report \cup {Nothing}
    /\ \A c \in Coordinates :
         /\ store[<<"bytes", c>>] \in Digests \cup {Nothing}
         /\ store[<<"signature", c>>] \in Signed \cup {Nothing}
         /\ store[<<"attestation", c>>] \in Signed \cup {Nothing}
    /\ record \in [Digests -> Record \cup {Nothing}]
    /\ sent \subseteq site.hosted
    /\ pc \in [Actors -> Labels] /\ op \in [Actors -> {"none", "serve", "publish", "review"}]
    /\ artifact \in [Actors -> Coordinates \cup {Nothing}]
    /\ digest \in [Actors -> Digests \cup {Nothing}]
    /\ found \in [Actors -> Report \cup Record \cup {Nothing}]
    /\ plan \in [Tasks -> Seq({"report"} \cup Kinds)]
    /\ \A t \in Tasks : \A i \in DOMAIN staged[t] : staged[t][i][1] \in Keys
    /\ sweepPc \in [Digests -> SweepLabels]
    /\ stored \in [Digests -> Report \cup {Nothing}] /\ fresh \in [Digests -> Report \cup {Nothing}]
    /\ newly \subseteq Digests /\ broken \in BOOLEAN
    /\ approved \subseteq Coordinates \X Digests /\ shield \subseteq Tasks /\ untold \subseteq Digests

\* A download that finds its bytes under a report that blocks them, and all
\* the while nobody releases it and no other report is stored, is refused
\* (enforce_serve_scan), whatever publishes, reviews and the sweep do.
BlockedIsNotServed == \A t \in Tasks : pc[t] = "served" => t \notin shield

\* What a blocking report was found for is served only to those whose own
\* artifact an operator promoted, with these bytes: "only a decision made for
\* this exact coordinate may release or refuse it" (gate.rs:232).
OnlyReviewReleases ==
    \A t \in Tasks :
      pc[t] = "served" /\ policy.onServe /\ Blocks(found[t]) =>
        policy.quarantine /\ <<artifact[t], digest[t]>> \in approved

\* The artifacts a sweep found to exceed the gate, which did not before, are
\* in a summary (recorrelate), unless a fault or a restart takes it away.
FlipsAreTold ==
    SweepIdle /\ site.used.faults = 0 /\ site.used.restarts = 0 => untold = {}

\* Upstream bytes are stored after their signature, and taken back before it:
\* a restart leaves none behind that the signature gate refuses for ever
\* (fetch_and_cache_artifact).  Storage faults aside: see CachedStaysSigned.
CachedIsSigned ==
    (\A p \in site.policies : p.signCached /\ p.signer # Nothing /\ p.mode \in {"sign_only", "sign_and_verify"})
      /\ site.used.faults = 0 =>
    \A c \in Coordinates, d \in Digests :
      (\A x \in Digests : <<c, x>> \notin site.hosted) /\ store[<<"bytes", c>>] = d =>
        /\ store[<<"signature", c>>] # Nothing
        /\ store[<<"signature", c>>].artifact = c /\ store[<<"signature", c>>].digest = d

\* Once the feed is still, every stored report of an artifact that is still
\* there comes to say what the feed says of it: "an artifact that was clean
\* when first scanned is re-evaluated as new advisories land"
\* (supply_chain.rs:376).
ReportsCatchUp ==
    <>[](site.sweeps => \A d \in Digests :
           LET report == store[<<"report", d>>]
           IN  report # Nothing /\ store[<<"bytes", report.artifact>>] # Nothing =>
                 report.verdict = advisory[report.artifact])

-----------------------------------------------------------------------------
(* Not so.  What the code does not keep, each shown by TLC. *)

\* A report is of the bytes it is kept under ("Blake3 digest of the scanned
\* artifact this report is bound to", supply_chain.rs:321).
ReportIsOfItsDigest ==
    \A d \in Digests : store[<<"report", d>>] # Nothing => store[<<"report", d>>].subject = d

\* A rollback takes back what its publish wrote, not what was written since.
RollbackKeepsWhatIsNewer ==
    [][\A t \in Tasks, d \in Digests :
         Rollback(t) /\ store'[<<"report", d>>] # store[<<"report", d>>] =>
           store[<<"report", d>>] = found[t]]_vars

\* With storage faults too, what is cached can be served again.
CachedStaysSigned ==
    \A c \in Coordinates :
      store[<<"bytes", c>>] # Nothing /\ site.upstream # {} => store[<<"signature", c>>] # Nothing

\* A download judged by a stored report is judged by one for its own artifact.
JudgedByItsOwnReport ==
    \A t \in Tasks : pc[t] = "served" /\ policy.onServe => found[t].artifact = artifact[t]

\* A summary is not lost with one subject.
EveryFlipIsTold == SweepIdle => untold = {}
=============================================================================
