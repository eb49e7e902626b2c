---------------------------- MODULE PackageIndex ----------------------------
(***************************************************************************)
(* The index of one package in object storage: for every version its       *)
(* metadata, the published manifest and the publish record, and for the    *)
(* package one list of its versions.  Publishes, yanks and the fills of a  *)
(* read that missed are sequences of storage calls, each of which may      *)
(* interleave with those of the others.  Publishes of one version exclude  *)
(* each other; nothing else does.  Signatures, artifacts and quota, which  *)
(* are written or charged on the way, are left to the other modules.       *)
(***************************************************************************)
EXTENDS Naturals, FiniteSets

CONSTANTS
    Tasks,          \* requests being served
    Versions,
    Files,          \* artifacts a version may consist of
    Upstream,       \* versions upstream has; {}: it does not know the package
    MayYank,        \* do clients yank?
    MayOverwrite,   \* publishing.allow_overwrite
    MaxFaults,      \* failures: of a storage call, a rollback write or upstream,
                    \* and requests that are dropped or die with the process
    NoVersion,
    Absent,
    NotStaged

ASSUME VersionsAssumption == Versions # {}
ASSUME UpstreamAssumption == Upstream \subseteq Versions
ASSUME SwitchAssumption == {MayYank, MayOverwrite} \subseteq BOOLEAN
ASSUME FaultsAssumption == MaxFaults \in Nat
ASSUME NoVersionAssumption == NoVersion \notin Versions

VARIABLES
    object,     \* what each storage key holds
    task,       \* what each request is doing
    published,  \* by version, the files of the publishes that were acknowledged
    history,    \* "lone": no two requests overlapped, and none was cut off between
                \* its writes; "publishes": no yank was among those that did, and
                \* every rollback succeeded; "mixed"
    faults      \* failures so far

vars == <<object, task, published, history, faults>>

\* The keys of a version in the order in which they are written; the list,
\* which is written last, is the package's.
Order == <<"metadata", "manifest", "record", "versions">>
KeyNames == {Order[i] : i \in 1..4}
Key(name, v) == <<name, IF name = "versions" THEN NoVersion ELSE v>>
Keys == {Key(name, v) : name \in KeyNames, v \in Versions}

Entry == [files : SUBSET Files, yanked : BOOLEAN]
List == UNION {[S -> BOOLEAN] : S \in SUBSET Versions}
Nothing == [name \in KeyNames |-> NotStaged]

ASSUME MarkersAssumption ==
    /\ Absent # NotStaged
    /\ \A x \in Entry : x \notin {Absent, NotStaged}
    /\ \A x \in List : x \notin {Absent, NotStaged}

Idle ==
    [pc |-> "idle", kind |-> "none", version |-> NoVersion, yanked |-> FALSE,
     content |-> Absent, value |-> Absent, at |-> 1, staged |-> Nothing]

\* What upstream answers to a request for the versions.
UpstreamList == [v \in Upstream |-> FALSE]

Init ==
    /\ object = [k \in Keys |-> Absent]
    /\ task = [t \in Tasks |-> Idle]
    /\ published = [v \in Versions |-> {}]
    /\ history = "lone"
    /\ faults = 0

Name(t) == Order[task[t].at]
At(t) == Key(Name(t), task[t].version)
Goto(t, label) == task' = [task EXCEPT ![t].pc = label]
Return(t) == task' = [task EXCEPT ![t] = Idle]

Fault == faults < MaxFaults /\ faults' = faults + 1

\* The history goes from "lone" over "publishes" to "mixed".
Enter(next) == history' = IF history = "mixed" THEN history ELSE next

\* A task starts: alone, among publishes and fills, or as or beside a yank.
Begin(t, kind, v) ==
    LET others == {task[u].kind : u \in Tasks \ {t}} \ {"none"} IN
    /\ task[t].pc = "idle"
    /\ Enter(CASE others = {} -> history
              [] "yank" \in others \cup {kind} -> "mixed"
              [] OTHER -> "publishes")
    /\ UNCHANGED <<object, published, faults>>

-----------------------------------------------------------------------------
(* publish_package, up to the first write *)

\* Variant: nothing keeps two publishes of a version apart.
StartPublishUnlocked(t, v, f) ==
    /\ Begin(t, "publish", v)
    /\ task' = [task EXCEPT ![t] = [Idle EXCEPT
                   !.pc = "check", !.kind = "publish", !.version = v,
                   !.content = [files |-> f, yanked |-> FALSE]]]

\* The publish lock of the version is free.
StartPublish(t, v, f) ==
    /\ \A u \in Tasks : task[u].kind = "publish" => task[u].version # v
    /\ Begin(t, "publish", v)
    /\ task' = [task EXCEPT ![t] = [Idle EXCEPT
                   !.pc = "check", !.kind = "publish", !.version = v,
                   !.content = [files |-> f, yanked |-> FALSE]]]

\* An existing version is overwritten only if that is allowed, and one that
\* upstream is known to have is not shadowed: an upstream that does not answer
\* is taken not to have it.
CheckPublish(t) ==
    LET v == task[t].version
        exists == object[Key("metadata", v)] # Absent
    IN
    /\ task[t].pc = "check"
    /\ \/ /\ (exists /\ ~MayOverwrite) \/ v \in Upstream
          /\ Return(t)
          /\ UNCHANGED faults
       \/ /\ exists => MayOverwrite
          /\ IF v \in Upstream THEN Fault ELSE UNCHANGED faults
          /\ Goto(t, IF exists THEN "merge" ELSE "track")
    /\ UNCHANGED <<object, published, history>>

\* Variant: the artifacts of the publish replace those the version has.
ReplaceExisting(t) ==
    /\ task[t].pc = "merge"
    /\ Goto(t, "track")
    /\ UNCHANGED <<object, published, history, faults>>

\* An overwriting publish adds its artifacts to those the version has.
MergeExisting(t) ==
    LET existing == object[Key("metadata", task[t].version)] IN
    /\ task[t].pc = "merge"
    /\ existing # Absent
    /\ task' = [task EXCEPT ![t].pc = "track",
                            ![t].content.files = @ \cup existing.files]
    /\ UNCHANGED <<object, published, history, faults>>

\* A gate refuses, or a storage call fails, before anything was written.
Refuse(t) ==
    /\ task[t].pc \in {"check", "merge", "read"}
    /\ Return(t)
    /\ UNCHANGED <<object, published, history, faults>>

-----------------------------------------------------------------------------
(* set_yanked, up to the first write *)

StartYank(t, v, y) ==
    /\ MayYank
    /\ Begin(t, "yank", v)
    /\ task' = [task EXCEPT ![t] = [Idle EXCEPT
                   !.pc = "read", !.kind = "yank", !.version = v, !.yanked = y]]

\* Only a version with metadata can be yanked.
ReadMetadata(t) ==
    LET stored == object[Key("metadata", task[t].version)] IN
    /\ task[t].pc = "read"
    /\ \/ stored = Absent /\ Return(t)
       \/ /\ stored # Absent
          /\ task' = [task EXCEPT ![t].pc = "track",
                                  ![t].content = [stored EXCEPT !.yanked = task[t].yanked]]
    /\ UNCHANGED <<object, published, history, faults>>

-----------------------------------------------------------------------------
(* The staged writes: put_and_track for one key after the other *)

\* What the next key is to hold is known, or has to be read first.
NextWrite(t) ==
    LET next == Order[task[t].at + 1] IN
    task' = [task EXCEPT ![t].at = @ + 1, ![t].pc =
                IF next = "versions" \/ (next = "record" /\ task[t].kind = "yank")
                THEN "prepare" ELSE "track"]

\* A yank changes the record of a version that has one.
PrepareRecord(t) ==
    /\ task[t].pc = "prepare" /\ Name(t) = "record"
    /\ \/ object[At(t)] = Absent /\ NextWrite(t)
       \/ /\ object[At(t)] # Absent
          /\ task' = [task EXCEPT ![t].pc = "track",
                         ![t].value = [object[At(t)] EXCEPT !.yanked = task[t].yanked]]
    /\ UNCHANGED <<object, published, history, faults>>

\* load_versions_for_publish: the list there is, or else upstream's.
Loaded(t) == IF object[At(t)] # Absent THEN object[At(t)] ELSE UpstreamList

PrepareVersions(t) ==
    LET v == task[t].version IN
    /\ task[t].pc = "prepare" /\ Name(t) = "versions"
    /\ task' = [task EXCEPT ![t].pc = "track",
                   ![t].value = [w \in DOMAIN Loaded(t) \cup {v} |->
                                   IF w = v THEN task[t].yanked ELSE Loaded(t)[w]]]
    /\ UNCHANGED <<object, published, history, faults>>

\* The value before the first write to a key is remembered.
Track(t) ==
    /\ task[t].pc = "track"
    /\ task' = [task EXCEPT ![t].pc = "put", ![t].staged[Name(t)] = object[At(t)]]
    /\ UNCHANGED <<object, published, history, faults>>

Written(t) ==
    IF Name(t) = "versions" \/ (Name(t) = "record" /\ task[t].kind = "yank")
    THEN task[t].value ELSE task[t].content

Put(t) ==
    /\ task[t].pc = "put"
    /\ object' = [object EXCEPT ![At(t)] = Written(t)]
    /\ \/ task[t].kind = "metadata" /\ Return(t)
       \/ task[t].kind # "metadata" /\ Name(t) = "versions" /\ Goto(t, "commit")
       \/ task[t].kind # "metadata" /\ Name(t) # "versions" /\ NextWrite(t)
    /\ UNCHANGED <<published, history, faults>>

\* The content model is stored, a publish is acknowledged.
Commit(t) ==
    /\ task[t].pc = "commit"
    /\ published' = IF task[t].kind = "publish"
                    THEN [published EXCEPT ![task[t].version] = @ \cup task[t].content.files]
                    ELSE published
    /\ Return(t)
    /\ UNCHANGED <<object, history, faults>>

\* A storage call fails (a failed put may have been applied), or upstream's
\* list, or a gate or the content model after the writes: roll back.
Fail(t) ==
    /\ \/ task[t].pc \in {"prepare", "track", "put"}
       \/ task[t].pc = "commit" /\ task[t].kind = "publish"
    /\ Fault
    /\ \/ UNCHANGED object
       \/ task[t].pc = "put" /\ object' = [object EXCEPT ![At(t)] = Written(t)]
    /\ Goto(t, "undo")
    /\ UNCHANGED <<published, history>>

UndoNext(t) ==
    IF task[t].at = 1 THEN Return(t) ELSE task' = [task EXCEPT ![t].at = @ - 1]

\* Variant: the list is not among the writes that are undone.
UndoButVersions(t) ==
    LET previous == task[t].staged[Name(t)] IN
    /\ task[t].pc = "undo"
    /\ \/ previous # NotStaged /\ Name(t) # "versions"
          /\ object' = [object EXCEPT ![At(t)] = previous]
       \/ (previous = NotStaged \/ Name(t) = "versions") /\ UNCHANGED object
    /\ UndoNext(t)
    /\ UNCHANGED <<published, history, faults>>

\* rollback_staged_writes: in reverse, each key as it was when it was staged.
Undo(t) ==
    LET previous == task[t].staged[Name(t)] IN
    /\ task[t].pc = "undo"
    /\ \/ previous # NotStaged /\ object' = [object EXCEPT ![At(t)] = previous]
       \/ previous = NotStaged /\ UNCHANGED object
    /\ UndoNext(t)
    /\ UNCHANGED <<published, history, faults>>

\* That fails, which is only logged.
FailUndo(t) ==
    /\ task[t].pc = "undo"
    /\ Fault
    /\ UndoNext(t)
    /\ Enter("mixed")
    /\ UNCHANGED <<object, published>>

-----------------------------------------------------------------------------
(* Reads that miss: list_versions and get_version_metadata *)

\* A hit, or an upstream that has nothing to offer, changes nothing.
StartList(t) ==
    /\ Upstream # {}
    /\ object[Key("versions", NoVersion)] = Absent
    /\ Begin(t, "list", NoVersion)
    /\ task' = [task EXCEPT ![t] = [Idle EXCEPT !.pc = "fill", !.kind = "list"]]

\* Upstream's answer is stored, whatever is stored by now.
FillList(t) ==
    /\ task[t].pc = "fill"
    /\ object' = [object EXCEPT ![Key("versions", NoVersion)] = UpstreamList]
    /\ Return(t)
    /\ UNCHANGED <<published, history, faults>>

\* The metadata of a version is staged like that of a publish.
StartMetadata(t, v) ==
    /\ v \in Upstream
    /\ object[Key("metadata", v)] = Absent
    /\ Begin(t, "metadata", v)
    /\ task' = [task EXCEPT ![t] = [Idle EXCEPT
                   !.pc = "track", !.kind = "metadata", !.version = v,
                   !.content = [files |-> Files, yanked |-> FALSE]]]

\* The request is dropped, or the process dies: nothing is rolled back.  A
\* fill of the list that fails ends the same way.
Cancel(t) ==
    /\ task[t].pc # "idle"
    /\ Fault
    /\ Enter(IF task[t].staged = Nothing THEN history ELSE "publishes")
    /\ Return(t)
    /\ UNCHANGED <<object, published>>

-----------------------------------------------------------------------------
Next ==
    \E t \in Tasks :
        \/ \E v \in Versions, f \in (SUBSET Files) \ {{}} : StartPublish(t, v, f)
        \/ \E v \in Versions, y \in BOOLEAN : StartYank(t, v, y)
        \/ \E v \in Versions : StartMetadata(t, v)
        \/ StartList(t) \/ FillList(t)
        \/ CheckPublish(t) \/ MergeExisting(t) \/ ReadMetadata(t) \/ Refuse(t)
        \/ PrepareRecord(t) \/ PrepareVersions(t)
        \/ Track(t) \/ Put(t) \/ Commit(t)
        \/ Fail(t) \/ Undo(t) \/ FailUndo(t) \/ Cancel(t)

Spec == Init /\ [][Next]_vars

-----------------------------------------------------------------------------
\* The types of the storage keys and of what a request holds of them: what is
\* written, staged or put back under a key is what belongs there.
TypeOK ==
    /\ DOMAIN object = Keys
    /\ \A k \in Keys : object[k] # Absent =>
         object[k] \in (IF k[1] = "versions" THEN List ELSE Entry)
    /\ \A t \in Tasks :
         /\ task[t].pc \in {"idle", "check", "merge", "read", "prepare", "track",
                            "put", "commit", "undo", "fill"}
         /\ task[t].at \in 1..4
         /\ task[t].pc \in {"track", "put"} =>
              Written(t) \in (IF Name(t) = "versions" THEN List ELSE Entry)
    /\ published \in [Versions -> SUBSET Files]
    /\ history \in {"lone", "publishes", "mixed"}
    /\ faults \in 0..MaxFaults

-----------------------------------------------------------------------------
Stored(name, v) == object[Key(name, v)]
VersionList == object[Key("versions", NoVersion)]
Quiet == \A t \in Tasks : task[t].pc = "idle"

\* An overwrite "merges artifacts for existing version": a file whose publish was
\* acknowledged stays in the version's metadata through every overwrite, rollback
\* and cut-off that follows, as long as no yank overlaps them.  (A version of
\* upstream's that is shadowed may be overwritten by a fill that missed before.)
AcknowledgedFilesRemain ==
    history # "mixed" => \A v \in Versions \ Upstream : published[v] # {} =>
        Stored("metadata", v) # Absent /\ published[v] \subseteq Stored("metadata", v).files

\* Requests that do not overlap, whatever fails in them, leave an index that
\* agrees with itself: a published version has equal metadata and manifest, its
\* record and its place in the list carry the same yanked flag, and the list
\* holds nothing that is neither published nor upstream's.
SettledIsConsistent ==
    Quiet /\ history = "lone" =>
        /\ \A v \in Versions : Stored("record", v) # Absent =>
             /\ Stored("metadata", v) = Stored("manifest", v)
             /\ Stored("metadata", v) = Stored("record", v)
             /\ VersionList # Absent /\ v \in DOMAIN VersionList
             /\ VersionList[v] = Stored("record", v).yanked
        /\ VersionList # Absent =>
             \A v \in DOMAIN VersionList : v \in Upstream \/ Stored("record", v) # Absent

\* "publish_package_stores_metadata_artifact_and_versions": once the requests are
\* over, a version whose publish was acknowledged is in the list.
AcknowledgedIsListed ==
    Quiet => \A v \in Versions : published[v] # {} =>
                 VersionList # Absent /\ v \in DOMAIN VersionList

\* "Shadowing upstream package versions is blocked by default."
NothingIsShadowed == \A v \in Upstream : published[v] = {}
=============================================================================
