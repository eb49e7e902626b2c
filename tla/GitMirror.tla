----------------------------- MODULE GitMirror -----------------------------
(***************************************************************************)
(* The git mirror and its readers, the Go, Swift and Zig adapters.  One     *)
(* repository is mirrored to disk; any number of requests check, create,   *)
(* fetch and stamp the mirror on blocking threads that take no lock and    *)
(* that outlive a client that goes away, and read it one call at a time.   *)
(* The archives Swift builds are cached by commit.                         *)
(*                                                                         *)
(* Commits are numbered as upstream makes them, 0 is no commit.  gix is    *)
(* external: creating a repository takes two steps, a fetch two.           *)
(***************************************************************************)
EXTENDS Integers, Sequences, FiniteSets

CONSTANTS
    Readers,        \* the requests that are served at a time
    Tags,
    FirstTags,      \* those upstream has from the start, of its first commit
    MaxCommits,     \* commits that upstream makes
    MaxMirrorFaults,
    Capacity        \* SWIFT_ARCHIVE_CACHE_CAPACITY

ASSUME TagsAssumption == FirstTags \subseteq Tags
ASSUME CommitsAssumption == MaxCommits \in Nat \ {0}
ASSUME CapacityAssumption == Capacity \in Nat \ {0}
ASSUME MirrorFaultsAssumption == MaxMirrorFaults \in Nat

Commits == 1..MaxCommits
TagMap == [Tags -> Commits \cup {0}]

\* versions: GOPROXY @v/list and the releases of Swift; latest: @latest; file: what
\* is read at a tag (.info, .mod, .zip, a Zig tarball, Package.swift); archive: the
\* release metadata and the archive of Swift.
Kinds == {"versions", "latest", "file", "archive"}

VARIABLES
    remote,         \* upstream's tags
    head,           \* upstream's last commit
    directory,      \* of the mirror: "absent", "partial" or "ready"
    refs,           \* the mirror's tags
    stamp,          \* "none", "fresh", or "stale" once the refresh interval is over
    entries,        \* SwiftArchiveCache: by commit, the commit it was built from, or 0
    order,          \* its keys as they were inserted
    task,
    mirrorFaults

mirrorVars == <<remote, head, directory, refs, stamp, entries, order, task, mirrorFaults>>
disk == <<directory, refs, stamp>>
cache == <<entries, order>>
world == <<remote, head, mirrorFaults>>

-----------------------------------------------------------------------------
Free == [pc |-> "free", kind |-> "versions", tag |-> "none", client |-> FALSE,
         fetched |-> [t \in Tags |-> 0], overtaken |-> FALSE, commit |-> 0, built |-> 0]

MirrorInit ==
    /\ head = 1
    /\ remote = [t \in Tags |-> IF t \in FirstTags THEN 1 ELSE 0]
    /\ directory = "absent"
    /\ refs = [t \in Tags |-> 0]
    /\ stamp = "none"
    /\ entries = [c \in Commits |-> 0] /\ order = <<>>
    /\ task = [r \in Readers |-> Free]
    /\ mirrorFaults = 0

At(r, label) == task[r].pc = label
Go(r, label) == task' = [task EXCEPT ![r].pc = label]
Finish(r) == task' = [task EXCEPT ![r] = Free]

-----------------------------------------------------------------------------
(* ensure_blocking                                                         *)

StartRead(r, kind, t) ==
    /\ At(r, "free")
    /\ kind \in {"versions", "latest"} => t = "none"
    /\ kind \in {"file", "archive"} => t \in Tags
    /\ task' = [task EXCEPT ![r] = [Free EXCEPT !.pc = "check", !.kind = kind, !.tag = t, !.client = TRUE]]
    /\ UNCHANGED <<world, disk, cache>>

\* The thread is done; the handler goes on unless its client went away.
Ensured(r) == IF task[r].client THEN Go(r, "list") ELSE Finish(r)

\* Variant: a mirror that exists is taken for one that was fetched.
CheckExists(r) ==
    /\ At(r, "check")
    /\ IF directory # "absent" /\ stamp # "stale" THEN Ensured(r) ELSE Go(r, "enter")
    /\ UNCHANGED <<world, disk, cache>>

CheckFresh(r) ==
    /\ At(r, "check")
    /\ IF directory # "absent" /\ stamp = "fresh" THEN Ensured(r) ELSE Go(r, "enter")
    /\ UNCHANGED <<world, disk, cache>>

\* Whether to open or to create is decided before either is done; a repository that
\* somebody is still creating cannot be opened.
OpenMirror(r) ==
    /\ At(r, "enter")
    /\ CASE directory = "absent" -> Go(r, "create")
         [] directory = "ready" -> Go(r, "connect")
         [] OTHER -> Finish(r)
    /\ UNCHANGED <<world, disk, cache>>

\* init_bare refuses a directory that is not empty.
CreateMirror(r) ==
    /\ At(r, "create")
    /\ IF directory = "absent"
       THEN directory' = "partial" /\ Go(r, "complete")
       ELSE Finish(r) /\ UNCHANGED directory
    /\ UNCHANGED <<world, refs, stamp, cache>>

CompleteMirror(r) ==
    /\ At(r, "complete")
    /\ directory' = "ready"
    /\ Go(r, "connect")
    /\ UNCHANGED <<world, refs, stamp, cache>>

\* fetch_all: upstream advertises its tags ...
Connect(r) ==
    /\ At(r, "connect")
    /\ task' = [task EXCEPT ![r].pc = "receive", ![r].fetched = remote, ![r].overtaken = FALSE]
    /\ UNCHANGED <<world, disk, cache>>

Received(r, tags) ==
    /\ At(r, "receive")
    /\ refs' = tags
    /\ task' = [u \in Readers |->
          IF u = r THEN [task[u] EXCEPT !.pc = "stamp", !.fetched = Free.fetched, !.overtaken = FALSE]
          ELSE [task[u] EXCEPT !.overtaken = At(u, "receive")]]
    /\ UNCHANGED <<world, directory, stamp, cache>>

\* Variant: what upstream no longer has is pruned.
ReceiveAndPrune(r) == Received(r, task[r].fetched)

\* ... and each of them replaces the mirror's, "+refs/tags/*:refs/tags/*".
Receive(r) == Received(r, [t \in Tags |-> IF task[r].fetched[t] = 0 THEN refs[t] ELSE task[r].fetched[t]])

WriteStamp(r) ==
    /\ At(r, "stamp")
    /\ stamp' = "fresh"
    /\ Ensured(r)
    /\ UNCHANGED <<world, directory, refs, cache>>

-----------------------------------------------------------------------------
(* list_refs, read_blob, commit_time, archive, resolve: each opens the mirror anew *)

Known == {t \in Tags : refs[t] # 0}

\* ensure_known_version, ensure_known_tag and resolve_tag refuse an unknown tag; the
\* latest version is picked, then looked for again by module_info.
ListRefs(r) ==
    /\ At(r, "list")
    /\ \/ task[r].kind = "versions" /\ Finish(r)
       \/ task[r].kind = "latest" /\ Known = {} /\ Finish(r)
       \/ /\ task[r].kind = "latest"
          /\ \E t \in Known : task' = [task EXCEPT ![r].kind = "file", ![r].tag = t]
       \/ task[r].kind = "file" /\ IF task[r].tag \in Known THEN Go(r, "read") ELSE Finish(r)
       \/ task[r].kind = "archive" /\ IF task[r].tag \in Known THEN Go(r, "resolve") ELSE Finish(r)
    /\ UNCHANGED <<world, disk, cache>>

ReadTag(r) ==
    /\ At(r, "read")
    /\ Finish(r)
    /\ UNCHANGED <<world, disk, cache>>

\* get_or_build_archive.
Resolve(r) ==
    LET commit == refs[task[r].tag] IN
    /\ At(r, "resolve")
    /\ IF commit = 0 \/ entries[commit] # 0 THEN Finish(r)
       ELSE task' = [task EXCEPT ![r].pc = "build", ![r].commit = commit]
    /\ UNCHANGED <<world, disk, cache>>

\* Variant: the archive is made from the tag that was resolved.
BuildFromTag(r) ==
    /\ At(r, "build")
    /\ task' = [task EXCEPT ![r].pc = "insert", ![r].built = refs[task[r].tag]]
    /\ UNCHANGED <<world, disk, cache>>

BuildArchive(r) ==
    /\ At(r, "build")
    /\ task' = [task EXCEPT ![r].pc = "insert", ![r].built = task[r].commit]
    /\ UNCHANGED <<world, disk, cache>>

\* SwiftArchiveCache::insert: the first build of a commit stays, the oldest goes.
InsertArchive(r) ==
    LET full == Len(order) >= Capacity
        kept == IF full THEN [entries EXCEPT ![order[1]] = 0] ELSE entries
    IN
    /\ At(r, "insert")
    /\ IF entries[task[r].commit] # 0 THEN UNCHANGED cache
       ELSE /\ entries' = [kept EXCEPT ![task[r].commit] = task[r].built]
            /\ order' = Append(IF full THEN Tail(order) ELSE order, task[r].commit)
    /\ Finish(r)
    /\ UNCHANGED <<world, disk>>

-----------------------------------------------------------------------------
(* Upstream, time and faults                                               *)

\* A release: a new tag, or one that is moved by force.
Push(t) ==
    /\ head < MaxCommits
    /\ head' = head + 1
    /\ remote' = [remote EXCEPT ![t] = head + 1]
    /\ UNCHANGED <<disk, cache, task, mirrorFaults>>

DeleteTag(t) ==
    /\ remote[t] # 0
    /\ remote' = [remote EXCEPT ![t] = 0]
    /\ UNCHANGED <<head, disk, cache, task, mirrorFaults>>

\* The refresh interval has passed.
Expire ==
    /\ stamp = "fresh"
    /\ stamp' = "stale"
    /\ UNCHANGED <<world, directory, refs, cache, task>>

Threads == {"check", "enter", "create", "complete", "connect", "receive", "stamp"}

\* The client goes away: the blocking thread of its handler does not.
Leave(r) ==
    /\ ~At(r, "free") /\ task[r].client
    /\ mirrorFaults < MaxMirrorFaults /\ mirrorFaults' = mirrorFaults + 1
    /\ IF task[r].pc \in Threads THEN task' = [task EXCEPT ![r].client = FALSE] ELSE Finish(r)
    /\ UNCHANGED <<remote, head, disk, cache>>

\* An I/O error, upstream's refusal, or an archive above the configured size.
FailRead(r) ==
    /\ task[r].pc \in {"connect", "receive", "stamp", "list", "read", "build"}
    /\ mirrorFaults < MaxMirrorFaults /\ mirrorFaults' = mirrorFaults + 1
    /\ Finish(r)
    /\ UNCHANGED <<remote, head, disk, cache>>

\* The process ends; its cache and threads are gone, its disk is not.
Restart ==
    /\ \E r \in Readers : ~At(r, "free")
    /\ mirrorFaults < MaxMirrorFaults /\ mirrorFaults' = mirrorFaults + 1
    /\ task' = [r \in Readers |-> Free]
    /\ entries' = [c \in Commits |-> 0] /\ order' = <<>>
    /\ UNCHANGED <<remote, head, disk>>

MirrorNext ==
    \/ \E r \in Readers :
         \/ \E kind \in Kinds, t \in Tags \cup {"none"} : StartRead(r, kind, t)
         \/ CheckFresh(r) \/ OpenMirror(r) \/ CreateMirror(r) \/ CompleteMirror(r)
         \/ Connect(r) \/ Receive(r) \/ WriteStamp(r)
         \/ ListRefs(r) \/ ReadTag(r) \/ Resolve(r) \/ BuildArchive(r) \/ InsertArchive(r)
         \/ Leave(r) \/ FailRead(r)
    \/ \E t \in Tags : Push(t) \/ DeleteTag(t)
    \/ Expire \/ Restart

MirrorSpec == MirrorInit /\ [][MirrorNext]_mirrorVars

-----------------------------------------------------------------------------
\* What a thread at each step has found: who fetches has a repository to fetch into,
\* who builds has a commit, and only the one who creates a repository completes it.
MirrorTypeOK ==
    /\ remote \in TagMap /\ refs \in TagMap /\ head \in Commits
    /\ \A t \in Tags : remote[t] <= head /\ refs[t] <= head
    /\ directory \in {"absent", "partial", "ready"} /\ stamp \in {"none", "fresh", "stale"}
    /\ entries \in [Commits -> Commits \cup {0}] /\ order \in Seq(Commits)
    /\ mirrorFaults \in 0..MaxMirrorFaults
    /\ DOMAIN task = Readers
    /\ \A r \in Readers :
         /\ task[r].pc \in {"connect", "receive", "stamp"} => directory = "ready"
         /\ At(r, "complete") => directory = "partial"
         /\ task[r].pc \in {"build", "insert"} => task[r].commit \in Commits
         /\ ~At(r, "free") /\ task[r].pc \notin Threads => task[r].client

\* ensure_mirror: "Ensure a fresh local mirror exists".  A request never lists a
\* mirror that was only created, or whose fetch was cut off: a tag upstream has
\* left alone from the start is there, at whatever point a thread, a client or the
\* process stopped.
EnsuredIsComplete ==
    (\E r \in Readers : task[r].pc \in {"list", "read", "resolve"}) =>
        /\ directory = "ready" /\ stamp # "none"
        /\ \A t \in FirstTags : remote[t] = 1 => refs[t] # 0

\* "Keyed by (git_url, commit_oid) ... rather than serving a stale archive under the
\* old commit": also when the tag is moved between its resolution and the build.
ArchiveIsOfItsCommit ==
    \A c \in Commits : entries[c] \in {0, c}

\* A tag of the mirror goes back to an earlier commit, or is lost, only by a fetch
\* that another one, begun later or ended earlier, has overtaken.
TagsOnlyAdvance ==
    [][\A t \in Tags : refs'[t] < refs[t] =>
          \E r \in Readers : At(r, "receive") /\ task[r].overtaken]_mirrorVars

\* What TLC refutes, with configurations that are kept beside the run: a slower fetch
\* puts a tag back, and stamps the mirror fresh; a process that ends while it creates
\* the repository leaves one that no later request can open.
TagsNeverGoBack == [][\A t \in Tags : refs'[t] >= refs[t]]_mirrorVars
MirrorCanBeOpened == directory = "partial" => \E r \in Readers : At(r, "complete")
=============================================================================
