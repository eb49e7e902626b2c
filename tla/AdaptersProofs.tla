--------------------------- MODULE AdaptersProofs ---------------------------
(***************************************************************************)
(* Proofs about the mounted registries: their parts run as each does by    *)
(* itself (ComponentsRun).  For any number of requests, tags and commits   *)
(* of the git mirror, who reads it finds it fetched, its tags go back only *)
(* by a fetch that was overtaken, and a cached archive is of the commit it *)
(* is cached under.  For any history of an upstream no client uses a       *)
(* document that was superseded for as long as the time to live and the    *)
(* timeout together.  For any packages and clients of the registries that  *)
(* keep documents, what the index of all gems, or a Hex registry entry,    *)
(* names of a package can be read, and an index that is rebuilt has all    *)
(* that had been published and that no publish took off the list.          *)
(***************************************************************************)
EXTENDS Adapters, TLAPS
Orders == INSTANCE WellFoundedInduction

-----------------------------------------------------------------------------
(* The registries share no state *)

\* A server that mounts one registry at a time runs the documents, the mirror and
\* the upstream clients each as it runs alone; what is proved of one of them is so
\* of the server.
THEOREM ComponentsRun == AdaptersSpec => Spec /\ MirrorSpec /\ FetchSpec
<1>1. AdaptersInit => Init /\ MirrorInit /\ FetchInit
  BY DEF AdaptersInit
<1>2. [AdaptersNext]_<<vars, mirrorVars, fetchVars>> =>
        [Next]_vars /\ [MirrorNext]_mirrorVars /\ [FetchNext]_fetchVars
  BY DEF AdaptersNext, DocumentStep, GitStep, UpstreamStep
<1> QED
  BY <1>1, <1>2, PTL DEF AdaptersSpec, Spec, MirrorSpec, FetchSpec

-----------------------------------------------------------------------------
(* The git mirror *)

-----------------------------------------------------------------------------
(* The invariant, in parts *)

Task == [pc : Threads \cup {"free", "list", "read", "resolve", "build", "insert"}, kind : Kinds,
         tag : Tags \cup {"none"}, client : BOOLEAN, fetched : TagMap, overtaken : BOOLEAN,
         commit : Commits \cup {0}, built : Commits \cup {0}]

UpstreamOK ==
    /\ remote \in TagMap /\ head \in Commits
    /\ \A t \in Tags : remote[t] <= head
    /\ mirrorFaults \in 0..MaxMirrorFaults

\* What a fetch brings in is at most what upstream has, unless that is gone.
Behind(tags) ==
    \A t \in Tags : tags[t] <= head /\ (remote[t] # 0 => tags[t] <= remote[t])

\* A tag that upstream has left alone from the start.
Complete(tags) == \A t \in FirstTags : remote[t] = 1 => tags[t] # 0

DiskOK ==
    /\ directory \in {"absent", "partial", "ready"} /\ stamp \in {"none", "fresh", "stale"}
    /\ refs \in TagMap /\ Behind(refs)
    /\ stamp # "none" => directory = "ready" /\ Complete(refs)

CacheOK ==
    /\ entries \in [Commits -> Commits \cup {0}] /\ order \in Seq(Commits)
    /\ \A c \in Commits : entries[c] \in {0, c}

\* What a thread at each step has found.
ReaderOK(r) ==
    /\ At(r, "complete") => directory = "partial"
    /\ task[r].pc \in {"connect", "receive", "stamp"} => directory = "ready"
    /\ At(r, "receive") => Behind(task[r].fetched) /\ Complete(task[r].fetched)
    /\ At(r, "receive") /\ ~task[r].overtaken =>
         \A t \in Tags : task[r].fetched[t] = 0 \/ refs[t] <= task[r].fetched[t]
    /\ At(r, "stamp") => Complete(refs)
    /\ task[r].pc \in {"list", "read", "resolve", "build", "insert"} => stamp # "none"
    /\ At(r, "resolve") => task[r].tag \in Tags
    /\ task[r].pc \in {"build", "insert"} => task[r].commit \in Commits
    /\ At(r, "insert") => task[r].built = task[r].commit
    /\ ~At(r, "free") /\ task[r].pc \notin Threads => task[r].client

\* Only one request completes the repository that it began to create.
OneCreates == \A r, u \in Readers : At(r, "complete") /\ At(u, "complete") => r = u

MirrorInv ==
    /\ UpstreamOK /\ DiskOK /\ CacheOK /\ task \in [Readers -> Task]
    /\ \A r \in Readers : ReaderOK(r)
    /\ OneCreates

-----------------------------------------------------------------------------
(* Steps of one request *)

\* A request that is free, and what it is about to do.
LEMMA FreeShape == Free \in Task /\ Free.pc = "free"
  BY DEF Free, Task, Kinds, TagMap

\* The others are where they were.
OtherReaders(r) == \A u \in Readers \ {r} : task'[u] = task[u]

\* A request that goes on, from one step to another.
LEMMA Goes ==
    ASSUME task \in [Readers -> Task], NEW r \in Readers,
           NEW label \in Threads \cup {"free", "list", "read", "resolve", "build", "insert"}, Go(r, label)
    PROVE  /\ task' \in [Readers -> Task] /\ OtherReaders(r)
           /\ task'[r].pc = label /\ task'[r].fetched = task[r].fetched
           /\ task'[r].overtaken = task[r].overtaken /\ task'[r].commit = task[r].commit
           /\ task'[r].built = task[r].built /\ task'[r].client = task[r].client
           /\ task'[r].tag = task[r].tag
<1> DEFINE next == [task[r] EXCEPT !.pc = label]
<1>1. task' = [task EXCEPT ![r] = next]
  BY DEF Go
<1>2. task[r] \in Task
  OBVIOUS
<1>3. /\ next \in Task /\ next.pc = label /\ next.fetched = task[r].fetched
      /\ next.overtaken = task[r].overtaken /\ next.commit = task[r].commit
      /\ next.built = task[r].built /\ next.client = task[r].client
      /\ next.tag = task[r].tag
  BY <1>2 DEF Task
<1> HIDE DEF next
<1> QED
  BY <1>1, <1>3 DEF OtherReaders

LEMMA Finishes ==
    ASSUME task \in [Readers -> Task], NEW r \in Readers, Finish(r)
    PROVE  task' \in [Readers -> Task] /\ OtherReaders(r) /\ task'[r].pc = "free"
  BY FreeShape DEF Finish, OtherReaders

\* A step that leaves the mirror and upstream alone.
LEMMA MirrorQuiet ==
    ASSUME MirrorInv, NEW r \in Readers, UNCHANGED <<disk, remote, head>>, mirrorFaults' \in 0..MaxMirrorFaults,
           CacheOK', task' \in [Readers -> Task], OtherReaders(r), ReaderOK(r)', task'[r].pc # "complete"
    PROVE  MirrorInv'
<1>1. \A u \in Readers \ {r} : ReaderOK(u)'
  BY DEF MirrorInv, ReaderOK, OtherReaders, At, Behind, Complete, disk
<1>2. UpstreamOK' /\ DiskOK'
  BY DEF MirrorInv, UpstreamOK, DiskOK, Behind, Complete, disk
<1>3. OneCreates'
  BY DEF MirrorInv, OneCreates, OtherReaders, At
<1> QED
  BY <1>1, <1>2, <1>3 DEF MirrorInv

\* A request that is over leaves the mirror to the others.
LEMMA FinishMove ==
    ASSUME MirrorInv, NEW r \in Readers, UNCHANGED <<disk, remote, head>>, mirrorFaults' \in 0..MaxMirrorFaults,
           CacheOK', Finish(r)
    PROVE  MirrorInv'
<1>1. task' \in [Readers -> Task] /\ OtherReaders(r) /\ task'[r].pc = "free"
  BY Finishes DEF MirrorInv
<1>2. ReaderOK(r)'
  BY <1>1 DEF ReaderOK, At, Threads
<1> QED
  BY <1>1, <1>2, MirrorQuiet

LEMMA Untouched ==
    ASSUME MirrorInv, UNCHANGED <<world, cache>>
    PROVE  UNCHANGED <<remote, head>> /\ mirrorFaults' \in 0..MaxMirrorFaults /\ CacheOK' /\ UpstreamOK'
  BY DEF MirrorInv, world, cache, CacheOK, UpstreamOK

LEMMA OfStartRead ==
    ASSUME MirrorInv, NEW r \in Readers, NEW kind \in Kinds, NEW t \in Tags \cup {"none"}, StartRead(r, kind, t)
    PROVE  MirrorInv'
<1> DEFINE next == [Free EXCEPT !.pc = "check", !.kind = kind, !.tag = t, !.client = TRUE]
<1>1. next \in Task /\ next.pc = "check"
  BY FreeShape DEF Free, Task, Threads, TagMap
<1>2. task' = [task EXCEPT ![r] = next]
  BY DEF StartRead
<1> HIDE DEF next
<1>3. task' \in [Readers -> Task] /\ OtherReaders(r) /\ task'[r].pc = "check"
  BY <1>1, <1>2 DEF MirrorInv, OtherReaders
<1>4. ReaderOK(r)'
  BY <1>3 DEF ReaderOK, At, Threads
<1> QED
  BY <1>3, <1>4, MirrorQuiet, Untouched DEF StartRead

\* The end of ensure_blocking, for whom the client waits.
LEMMA EnsuredShape ==
    ASSUME MirrorInv, NEW r \in Readers, Ensured(r)
    PROVE  /\ task' \in [Readers -> Task] /\ OtherReaders(r)
           /\ task'[r].pc = "free" \/ (task'[r].pc = "list" /\ task'[r].client)
  BY Goes, Finishes DEF Ensured, MirrorInv

LEMMA OfCheckFresh == ASSUME MirrorInv, NEW r \in Readers, CheckFresh(r) PROVE MirrorInv'
<1>1. CASE stamp = "fresh" /\ Ensured(r)
  <2>1. /\ task' \in [Readers -> Task] /\ OtherReaders(r)
        /\ task'[r].pc = "free" \/ (task'[r].pc = "list" /\ task'[r].client)
    BY <1>1, EnsuredShape
  <2>2. ReaderOK(r)'
    BY <1>1, <2>1 DEF ReaderOK, At, Threads, CheckFresh, disk
  <2> QED
    BY <2>1, <2>2, MirrorQuiet, Untouched DEF CheckFresh
<1>2. CASE Go(r, "enter")
  <2>1. task' \in [Readers -> Task] /\ OtherReaders(r) /\ task'[r].pc = "enter"
    BY <1>2, Goes DEF MirrorInv, Threads
  <2>2. ReaderOK(r)'
    BY <2>1 DEF ReaderOK, At, Threads
  <2> QED
    BY <2>1, <2>2, MirrorQuiet, Untouched DEF CheckFresh
<1> QED
  BY <1>1, <1>2 DEF CheckFresh

LEMMA OfOpenMirror == ASSUME MirrorInv, NEW r \in Readers, OpenMirror(r) PROVE MirrorInv'
<1>1. CASE Go(r, "create") \/ (directory = "ready" /\ Go(r, "connect"))
  <2>1. /\ task' \in [Readers -> Task] /\ OtherReaders(r)
        /\ task'[r].pc = "create" \/ (task'[r].pc = "connect" /\ directory = "ready")
    BY <1>1, Goes DEF MirrorInv, Threads
  <2>2. ReaderOK(r)'
    BY <2>1 DEF ReaderOK, At, Threads, OpenMirror, disk
  <2> QED
    BY <2>1, <2>2, MirrorQuiet, Untouched DEF OpenMirror
<1>2. CASE Finish(r)
  BY <1>2, FinishMove, Untouched DEF OpenMirror
<1> QED
  BY <1>1, <1>2 DEF OpenMirror

-----------------------------------------------------------------------------
(* Steps that change the mirror *)

\* Nobody else can be fetching while a repository is created.
LEMMA OfCreateMirror == ASSUME MirrorInv, NEW r \in Readers, CreateMirror(r) PROVE MirrorInv'
<1>1. CASE Finish(r) /\ UNCHANGED directory
  BY <1>1, FinishMove, Untouched DEF CreateMirror, disk
<1>2. CASE directory = "absent" /\ directory' = "partial" /\ Go(r, "complete")
  <2>1. task' \in [Readers -> Task] /\ OtherReaders(r) /\ task'[r].pc = "complete"
    BY <1>2, Goes DEF MirrorInv, Threads
  <2>2. stamp = "none" /\ UNCHANGED <<refs, stamp, remote, head>>
    BY <1>2 DEF MirrorInv, DiskOK, CreateMirror, world
  <2>3. DiskOK'
    BY <1>2, <2>2 DEF MirrorInv, DiskOK, Behind
  <2>4. \A u \in Readers \ {r} : ReaderOK(u)' /\ ~At(u, "complete")
    BY <1>2, <2>1, <2>2 DEF MirrorInv, ReaderOK, OtherReaders, At, Behind, Complete
  <2>5. ReaderOK(r)'
    BY <1>2, <2>1 DEF ReaderOK, At, Threads
  <2>6. OneCreates'
    BY <2>1, <2>4 DEF OneCreates, OtherReaders, At
  <2> QED
    BY <2>1, <2>3, <2>4, <2>5, <2>6, Untouched DEF MirrorInv, CreateMirror
<1> QED
  BY <1>1, <1>2 DEF CreateMirror

LEMMA OfCompleteMirror == ASSUME MirrorInv, NEW r \in Readers, CompleteMirror(r) PROVE MirrorInv'
<1>1. task' \in [Readers -> Task] /\ OtherReaders(r) /\ task'[r].pc = "connect"
  BY Goes DEF MirrorInv, Threads, CompleteMirror
<1>2. directory' = "ready" /\ UNCHANGED <<refs, stamp, remote, head>> /\ At(r, "complete")
  BY DEF CompleteMirror, world
<1>3. DiskOK'
  BY <1>2 DEF MirrorInv, DiskOK, Behind, Complete
<1>4. \A u \in Readers \ {r} : ReaderOK(u)' /\ ~At(u, "complete")
  BY <1>1, <1>2 DEF MirrorInv, ReaderOK, OneCreates, OtherReaders, At, Behind, Complete
<1>5. ReaderOK(r)'
  BY <1>1, <1>2 DEF ReaderOK, At, Threads
<1>6. OneCreates'
  BY <1>1, <1>4 DEF OneCreates, OtherReaders, At
<1> QED
  BY <1>1, <1>3, <1>4, <1>5, <1>6, Untouched DEF MirrorInv, CompleteMirror

LEMMA OfConnect == ASSUME MirrorInv, NEW r \in Readers, Connect(r) PROVE MirrorInv'
<1> DEFINE next == [task[r] EXCEPT !.pc = "receive", !.fetched = remote, !.overtaken = FALSE]
<1>1. task[r] \in Task /\ remote \in TagMap
  BY DEF MirrorInv, UpstreamOK
<1>2. next \in Task /\ next.pc = "receive" /\ next.fetched = remote /\ next.overtaken = FALSE
  BY <1>1 DEF Task, Threads
<1>3. task' = [task EXCEPT ![r] = next]
  BY DEF Connect
<1> HIDE DEF next
<1>4. /\ task' \in [Readers -> Task] /\ OtherReaders(r) /\ task'[r].pc = "receive"
      /\ task'[r].fetched = remote /\ task'[r].overtaken = FALSE
  BY <1>2, <1>3 DEF MirrorInv, OtherReaders
<1>5. Behind(remote) /\ Complete(remote) /\ UNCHANGED <<remote, head, refs, directory, stamp>>
  BY DEF MirrorInv, UpstreamOK, Behind, Complete, Connect, world, disk, TagMap, Commits
<1>6. Behind(task[r].fetched)' /\ Complete(task[r].fetched)'
  BY <1>4, <1>5 DEF Behind, Complete
<1>7. \A t \in Tags : remote[t] = 0 \/ refs[t] <= remote[t]
  BY DEF MirrorInv, DiskOK, Behind
<1>8. directory = "ready"
  BY DEF MirrorInv, ReaderOK, Connect, At
<1>9. ReaderOK(r)'
  BY <1>4, <1>5, <1>6, <1>7, <1>8 DEF ReaderOK, At, Threads
<1> QED
  BY <1>4, <1>9, MirrorQuiet, Untouched DEF Connect

\* The merged tags are behind upstream, and all there.
LEMMA OfReceive == ASSUME MirrorInv, NEW r \in Readers, Receive(r) PROVE MirrorInv'
<1> DEFINE tags == [t \in Tags |-> IF task[r].fetched[t] = 0 THEN refs[t] ELSE task[r].fetched[t]]
           next(u) == IF u = r THEN [task[u] EXCEPT !.pc = "stamp", !.fetched = Free.fetched, !.overtaken = FALSE]
                      ELSE [task[u] EXCEPT !.overtaken = At(u, "receive")]
<1>1. /\ refs' = tags /\ task' = [u \in Readers |-> next(u)]
      /\ UNCHANGED <<remote, head, directory, stamp>> /\ At(r, "receive")
  BY DEF Receive, Received, world
<1>2. task[r] \in Task /\ task[r].fetched \in TagMap /\ refs \in TagMap
  BY DEF MirrorInv, DiskOK, Task
<1>3. /\ tags \in TagMap /\ \A t \in Tags : tags[t] \in {refs[t], task[r].fetched[t]}
      /\ \A t \in Tags : refs[t] # 0 \/ task[r].fetched[t] # 0 => tags[t] # 0
  BY <1>2 DEF TagMap
<1>4. Behind(refs) /\ Behind(task[r].fetched) /\ Complete(task[r].fetched)
      /\ (stamp # "none" => Complete(refs)) /\ directory = "ready"
  BY <1>1 DEF MirrorInv, ReaderOK, DiskOK, At
<1> HIDE DEF tags
<1>5. Behind(refs)' /\ Complete(refs)'
  BY <1>1, <1>3, <1>4, TagsAssumption DEF Behind, Complete
<1>6. DiskOK'
  BY <1>1, <1>3, <1>4, <1>5 DEF MirrorInv, DiskOK
<1>7. \A u \in Readers : task'[u] = next(u)
  BY <1>1
<1>8. ASSUME NEW u \in Readers
      PROVE  /\ next(u) \in Task
             /\ u = r => next(u).pc = "stamp"
             /\ u # r => /\ next(u).pc = task[u].pc /\ next(u).fetched = task[u].fetched
                         /\ next(u).client = task[u].client /\ next(u).tag = task[u].tag
                         /\ next(u).commit = task[u].commit /\ next(u).built = task[u].built
                         /\ At(u, "receive") => next(u).overtaken
  <2>1. task[u] \in Task
    BY DEF MirrorInv
  <2>2. Free.fetched \in TagMap
    BY FreeShape DEF Task
  <2> QED
    BY <2>1, <2>2 DEF Task, Threads, At
<1> HIDE DEF next
<1>9. task' \in [Readers -> Task]
  BY <1>1, <1>8
<1>10. ASSUME NEW u \in Readers PROVE ReaderOK(u)'
  <2>1. CASE u = r
    BY <1>1, <1>4, <1>5, <1>7, <1>8, <2>1 DEF ReaderOK, At, Threads
  <2>2. CASE u # r
    <3>1. /\ task'[u].pc = task[u].pc /\ task'[u].fetched = task[u].fetched
          /\ task'[u].client = task[u].client /\ task'[u].tag = task[u].tag
          /\ task'[u].commit = task[u].commit /\ task'[u].built = task[u].built
          /\ At(u, "receive") => task'[u].overtaken
      BY <1>7, <1>8, <2>2
    <3>2. ReaderOK(u) /\ (Behind(task[u].fetched) => Behind(task[u].fetched)')
          /\ (Complete(task[u].fetched) => Complete(task[u].fetched)')
      BY <1>1, <3>1 DEF MirrorInv, Behind, Complete
    <3> QED
      BY <1>1, <1>5, <3>1, <3>2 DEF ReaderOK, At
  <2> QED
    BY <2>1, <2>2
<1>11. OneCreates'
  <2>1. \A u \in Readers : task'[u].pc = "complete" => u # r /\ task[u].pc = "complete"
    BY <1>7, <1>8
  <2> QED
    BY <2>1 DEF MirrorInv, OneCreates, At
<1>12. UpstreamOK' /\ CacheOK'
  BY Untouched DEF Receive, Received
<1> QED
  BY <1>6, <1>9, <1>10, <1>11, <1>12 DEF MirrorInv

LEMMA OfWriteStamp == ASSUME MirrorInv, NEW r \in Readers, WriteStamp(r) PROVE MirrorInv'
<1>1. /\ task' \in [Readers -> Task] /\ OtherReaders(r)
      /\ task'[r].pc = "free" \/ (task'[r].pc = "list" /\ task'[r].client)
  BY EnsuredShape DEF WriteStamp
<1>2. /\ stamp' = "fresh" /\ UNCHANGED <<remote, head, directory, refs>>
      /\ directory = "ready" /\ Complete(refs)
  BY DEF WriteStamp, MirrorInv, ReaderOK, At, world
<1>3. DiskOK'
  BY <1>2 DEF MirrorInv, DiskOK, Behind, Complete
<1>4. \A u \in Readers \ {r} : ReaderOK(u)'
  BY <1>1, <1>2 DEF MirrorInv, ReaderOK, OtherReaders, At, Behind, Complete
<1>5. ReaderOK(r)'
  BY <1>1, <1>2 DEF ReaderOK, At, Threads
<1>6. OneCreates'
  BY <1>1 DEF MirrorInv, OneCreates, OtherReaders, At
<1> QED
  BY <1>1, <1>3, <1>4, <1>5, <1>6, Untouched DEF MirrorInv, WriteStamp

-----------------------------------------------------------------------------
(* Steps that read the mirror, or change the cache *)

LEMMA OfListRefs == ASSUME MirrorInv, NEW r \in Readers, ListRefs(r) PROVE MirrorInv'
<1>1. task[r] \in Task /\ ReaderOK(r) /\ At(r, "list") /\ task \in [Readers -> Task]
  BY DEF MirrorInv, ListRefs
<1>2. CASE Finish(r)
  BY <1>2, FinishMove, Untouched DEF ListRefs
<1>3. ASSUME NEW label \in {"read", "resolve"}, Go(r, label), task[r].tag \in Known PROVE MirrorInv'
  <2>1. /\ task' \in [Readers -> Task] /\ OtherReaders(r) /\ task'[r].pc = label
        /\ task'[r].client = task[r].client /\ task'[r].tag \in Tags
    BY <1>1, <1>3, Goes DEF Known
  <2>2. ReaderOK(r)'
    BY <1>1, <2>1 DEF ReaderOK, At, Threads, ListRefs, disk
  <2> QED
    BY <2>1, <2>2, MirrorQuiet, Untouched DEF ListRefs
<1>4. ASSUME NEW t \in Known, task' = [task EXCEPT ![r].kind = "file", ![r].tag = t] PROVE MirrorInv'
  <2> DEFINE next == [task[r] EXCEPT !.kind = "file", !.tag = t]
  <2>1. t \in Tags
    BY DEF Known
  <2>2. next \in Task /\ next.pc = "list" /\ next.client = task[r].client
    BY <1>1, <2>1 DEF Task, Kinds, At
  <2>3. task' = [task EXCEPT ![r] = next]
    BY <1>4
  <2> HIDE DEF next
  <2>4. task' \in [Readers -> Task] /\ OtherReaders(r) /\ task'[r].pc = "list" /\ task'[r].client = task[r].client
    BY <1>1, <2>2, <2>3 DEF OtherReaders
  <2>5. ReaderOK(r)'
    BY <1>1, <2>4 DEF ReaderOK, At, Threads, ListRefs, disk
  <2> QED
    BY <2>4, <2>5, MirrorQuiet, Untouched DEF ListRefs
<1> QED
  BY <1>2, <1>3, <1>4 DEF ListRefs

LEMMA OfReadTag == ASSUME MirrorInv, NEW r \in Readers, ReadTag(r) PROVE MirrorInv'
  BY FinishMove, Untouched DEF ReadTag

LEMMA OfResolve == ASSUME MirrorInv, NEW r \in Readers, Resolve(r) PROVE MirrorInv'
<1> DEFINE commit == refs[task[r].tag]
<1>1. task[r] \in Task /\ ReaderOK(r) /\ At(r, "resolve") /\ task \in [Readers -> Task]
  BY DEF MirrorInv, Resolve
<1>2. CASE Finish(r)
  BY <1>2, FinishMove, Untouched DEF Resolve
<1>3. CASE commit # 0 /\ task' = [task EXCEPT ![r].pc = "build", ![r].commit = commit]
  <2> DEFINE next == [task[r] EXCEPT !.pc = "build", !.commit = commit]
  <2>1. commit \in Commits
    BY <1>1, <1>3 DEF MirrorInv, DiskOK, TagMap, ReaderOK
  <2>2. next \in Task /\ next.pc = "build" /\ next.commit = commit /\ next.client = task[r].client
    BY <1>1, <2>1 DEF Task
  <2>3. task' = [task EXCEPT ![r] = next]
    BY <1>3
  <2> HIDE DEF next
  <2>4. /\ task' \in [Readers -> Task] /\ OtherReaders(r) /\ task'[r].pc = "build"
        /\ task'[r].commit \in Commits /\ task'[r].client = task[r].client
    BY <1>1, <2>1, <2>2, <2>3 DEF OtherReaders
  <2>5. ReaderOK(r)'
    BY <1>1, <2>4 DEF ReaderOK, At, Threads, Resolve, disk
  <2> QED
    BY <2>4, <2>5, MirrorQuiet, Untouched DEF Resolve
<1> QED
  BY <1>2, <1>3 DEF Resolve

LEMMA OfBuildArchive == ASSUME MirrorInv, NEW r \in Readers, BuildArchive(r) PROVE MirrorInv'
<1> DEFINE next == [task[r] EXCEPT !.pc = "insert", !.built = task[r].commit]
<1>1. task[r] \in Task /\ ReaderOK(r) /\ At(r, "build") /\ task \in [Readers -> Task]
  BY DEF MirrorInv, BuildArchive
<1>2. /\ next \in Task /\ next.pc = "insert" /\ next.commit = task[r].commit
      /\ next.built = task[r].commit /\ next.client = task[r].client
  BY <1>1 DEF Task
<1>3. task' = [task EXCEPT ![r] = next]
  BY DEF BuildArchive
<1> HIDE DEF next
<1>4. /\ task' \in [Readers -> Task] /\ OtherReaders(r) /\ task'[r].pc = "insert"
      /\ task'[r].commit = task[r].commit /\ task'[r].built = task[r].commit
      /\ task'[r].client = task[r].client
  BY <1>1, <1>2, <1>3 DEF OtherReaders
<1>5. ReaderOK(r)'
  BY <1>1, <1>4 DEF ReaderOK, At, Threads, BuildArchive, disk
<1> QED
  BY <1>4, <1>5, MirrorQuiet, Untouched DEF BuildArchive

\* What is cached under a commit was built from it.
LEMMA OfInsertArchive == ASSUME MirrorInv, NEW r \in Readers, InsertArchive(r) PROVE MirrorInv'
<1> DEFINE full == Len(order) >= Capacity
           remaining == IF full THEN [entries EXCEPT ![order[1]] = 0] ELSE entries
<1>1. CacheOK /\ ReaderOK(r) /\ At(r, "insert")
  BY DEF MirrorInv, InsertArchive
<1>2. task[r].commit \in Commits /\ task[r].built = task[r].commit
  BY <1>1 DEF ReaderOK, At
<1>3. CASE UNCHANGED cache
  BY <1>1, <1>3, FinishMove DEF InsertArchive, world, CacheOK, cache, MirrorInv, UpstreamOK
<1>4. CASE /\ entries' = [remaining EXCEPT ![task[r].commit] = task[r].built]
           /\ order' = Append(IF full THEN Tail(order) ELSE order, task[r].commit)
  <2>1. full => order # <<>> /\ order[1] \in Commits
    BY <1>1, CapacityAssumption DEF CacheOK
  <2>2. remaining \in [Commits -> Commits \cup {0}] /\ \A c \in Commits : remaining[c] \in {0, c}
    BY <1>1, <2>1 DEF CacheOK
  <2>3. (IF full THEN Tail(order) ELSE order) \in Seq(Commits)
    BY <1>1, <2>1 DEF CacheOK
  <2> HIDE DEF remaining, full
  <2>4. CacheOK'
    BY <1>2, <1>4, <2>2, <2>3 DEF CacheOK
  <2> QED
    BY <2>4, FinishMove DEF InsertArchive, world, MirrorInv, UpstreamOK
<1> QED
  BY <1>3, <1>4 DEF InsertArchive

-----------------------------------------------------------------------------
(* Upstream, time and faults *)

\* What upstream does is beyond every commit that was fetched.
LEMMA UpstreamMoves ==
    ASSUME MirrorInv, NEW t \in Tags, Push(t) \/ DeleteTag(t)
    PROVE  MirrorInv'
<1>1. /\ UNCHANGED <<directory, refs, stamp, entries, order, task, mirrorFaults>>
      /\ remote \in TagMap /\ head \in Commits /\ MaxCommits \in Nat
      /\ \/ head < MaxCommits /\ head' = head + 1 /\ remote' = [remote EXCEPT ![t] = head + 1]
         \/ head' = head /\ remote' = [remote EXCEPT ![t] = 0]
  BY CommitsAssumption DEF Push, DeleteTag, disk, cache, MirrorInv, UpstreamOK
<1>2. UpstreamOK'
  BY <1>1 DEF MirrorInv, UpstreamOK, TagMap, Commits
<1>3. ASSUME NEW tags \in TagMap, Behind(tags)
      PROVE  \A x \in Tags : tags[x] <= head' /\ (remote'[x] # 0 => tags[x] <= remote'[x])
  BY <1>1, <1>3 DEF Behind, TagMap, Commits
<1>4. ASSUME NEW tags \in TagMap, Complete(tags)
      PROVE  \A x \in FirstTags : remote'[x] = 1 => tags[x] # 0
  BY <1>1, <1>4, TagsAssumption DEF Complete, TagMap, Commits
<1>5. DiskOK'
  BY <1>1, <1>3, <1>4 DEF MirrorInv, DiskOK, Behind, Complete
<1>6. ASSUME NEW r \in Readers PROVE ReaderOK(r)'
  <2>1. ReaderOK(r) /\ task[r].fetched \in TagMap /\ refs \in TagMap /\ DiskOK
    BY DEF MirrorInv, DiskOK, Task
  <2>2. Behind(task[r].fetched) => Behind(task[r].fetched)'
    BY <1>1, <1>3, <2>1 DEF Behind
  <2>3. /\ Complete(task[r].fetched) => Complete(task[r].fetched)'
        /\ Complete(refs) => Complete(refs)'
    BY <1>1, <1>4, <2>1 DEF Complete
  <2> QED
    BY <1>1, <2>1, <2>2, <2>3 DEF ReaderOK, At
<1>7. OneCreates' /\ CacheOK' /\ task' \in [Readers -> Task]
  BY <1>1 DEF MirrorInv, OneCreates, CacheOK, At
<1> QED
  BY <1>2, <1>5, <1>6, <1>7 DEF MirrorInv

LEMMA OfExpire == ASSUME MirrorInv, Expire PROVE MirrorInv'
<1>1. /\ UNCHANGED <<remote, head, directory, refs, task>> /\ stamp = "fresh" /\ stamp' = "stale"
  BY DEF Expire, world
<1>2. DiskOK' /\ OneCreates' /\ \A r \in Readers : ReaderOK(r)'
  BY <1>1 DEF MirrorInv, DiskOK, OneCreates, ReaderOK, At, Behind, Complete
<1> QED
  BY <1>1, <1>2, Untouched DEF MirrorInv, Expire

\* A fault is counted.
LEMMA Counted ==
    ASSUME MirrorInv, mirrorFaults < MaxMirrorFaults, mirrorFaults' = mirrorFaults + 1
    PROVE  mirrorFaults' \in 0..MaxMirrorFaults
  BY MirrorFaultsAssumption DEF MirrorInv, UpstreamOK

LEMMA OfLeave == ASSUME MirrorInv, NEW r \in Readers, Leave(r) PROVE MirrorInv'
<1>1. /\ mirrorFaults' \in 0..MaxMirrorFaults /\ UNCHANGED <<disk, remote, head>> /\ CacheOK'
      /\ task[r] \in Task /\ ReaderOK(r) /\ task \in [Readers -> Task]
  BY Counted DEF Leave, MirrorInv, CacheOK, cache
<1>2. CASE Finish(r)
  BY <1>1, <1>2, FinishMove
<1>3. CASE task[r].pc \in Threads /\ task' = [task EXCEPT ![r].client = FALSE]
  <2> DEFINE next == [task[r] EXCEPT !.client = FALSE]
  <2>1. /\ next \in Task /\ next.pc = task[r].pc /\ next.fetched = task[r].fetched
        /\ next.overtaken = task[r].overtaken
    BY <1>1 DEF Task
  <2>2. task' = [task EXCEPT ![r] = next]
    BY <1>3
  <2> HIDE DEF next
  <2>3. /\ task' \in [Readers -> Task] /\ OtherReaders(r) /\ task'[r].pc = task[r].pc
        /\ task'[r].fetched = task[r].fetched /\ task'[r].overtaken = task[r].overtaken
    BY <1>1, <2>1, <2>2 DEF OtherReaders
  <2>4. ReaderOK(r)'
    BY <1>1, <1>3, <2>3 DEF ReaderOK, At, Threads, Behind, Complete, disk
  <2>5. /\ \A u \in Readers \ {r} : ReaderOK(u)'
        /\ OneCreates' /\ UpstreamOK' /\ DiskOK'
    BY <1>1, <2>3 DEF MirrorInv, ReaderOK, OneCreates, UpstreamOK, DiskOK, OtherReaders, At, Behind, Complete, disk
  <2> QED
    BY <1>1, <2>3, <2>4, <2>5 DEF MirrorInv
<1> QED
  BY <1>2, <1>3 DEF Leave

LEMMA OfFailRead == ASSUME MirrorInv, NEW r \in Readers, FailRead(r) PROVE MirrorInv'
<1>1. mirrorFaults' \in 0..MaxMirrorFaults /\ UNCHANGED <<disk, remote, head>> /\ CacheOK'
  BY Counted DEF FailRead, MirrorInv, CacheOK, cache
<1> QED
  BY <1>1, FinishMove DEF FailRead

LEMMA OfRestart == ASSUME MirrorInv, Restart PROVE MirrorInv'
<1>1. mirrorFaults' \in 0..MaxMirrorFaults
  BY Counted DEF Restart
<1>2. task' = [r \in Readers |-> Free] /\ UNCHANGED <<remote, head, directory, refs, stamp>>
  BY DEF Restart, disk
<1>3. \A r \in Readers : ReaderOK(r)' /\ task'[r].pc = "free"
  BY <1>2, FreeShape DEF ReaderOK, At, Threads
<1>4. OneCreates' /\ DiskOK' /\ UpstreamOK'
  BY <1>1, <1>2, <1>3 DEF OneCreates, MirrorInv, DiskOK, UpstreamOK, Behind, Complete, At
<1>5. CacheOK'
  BY DEF Restart, CacheOK
<1> QED
  BY <1>2, <1>3, <1>4, <1>5, FreeShape DEF MirrorInv

-----------------------------------------------------------------------------
(* The theorems *)

LEMMA MirrorInvInit == MirrorInit => MirrorInv
<1> SUFFICES ASSUME MirrorInit PROVE MirrorInv
  OBVIOUS
<1>1. UpstreamOK /\ DiskOK
  BY CommitsAssumption, TagsAssumption, MirrorFaultsAssumption
     DEF MirrorInit, UpstreamOK, DiskOK, TagMap, Commits, Behind
<1>2. CacheOK
  BY DEF MirrorInit, CacheOK
<1>3. task \in [Readers -> Task] /\ \A r \in Readers : task[r].pc = "free"
  BY FreeShape DEF MirrorInit
<1>4. OneCreates /\ \A r \in Readers : ReaderOK(r)
  BY <1>3 DEF OneCreates, ReaderOK, At, Threads
<1> QED
  BY <1>1, <1>2, <1>3, <1>4 DEF MirrorInv

LEMMA MirrorStutter == ASSUME MirrorInv, UNCHANGED mirrorVars PROVE MirrorInv'
  BY DEF MirrorInv, UpstreamOK, DiskOK, CacheOK, ReaderOK, OneCreates, At, Behind, Complete, mirrorVars

\* MirrorInv is inductive: every step of every request, and of upstream, keeps it.
LEMMA MirrorStep == MirrorInv /\ [MirrorNext]_mirrorVars => MirrorInv'
  BY OfStartRead, OfCheckFresh, OfOpenMirror, OfCreateMirror, OfCompleteMirror, OfConnect, OfReceive,
     OfWriteStamp, OfListRefs, OfReadTag, OfResolve, OfBuildArchive, OfInsertArchive, OfLeave, OfFailRead,
     UpstreamMoves, OfExpire, OfRestart, MirrorStutter DEF MirrorNext

\* The types of MirrorTypeOK, and what a thread at each step has found.
THEOREM MirrorTyped == MirrorSpec => []MirrorTypeOK
<1>1. MirrorInv => MirrorTypeOK
  <2> SUFFICES ASSUME MirrorInv PROVE MirrorTypeOK
    OBVIOUS
  <2>1. \A t \in Tags : remote[t] <= head /\ refs[t] <= head
    BY DEF MirrorInv, UpstreamOK, DiskOK, Behind
  <2>2. \A r \in Readers :
           /\ task[r].pc \in {"connect", "receive", "stamp"} => directory = "ready"
           /\ At(r, "complete") => directory = "partial"
           /\ task[r].pc \in {"build", "insert"} => task[r].commit \in Commits
           /\ ~At(r, "free") /\ task[r].pc \notin Threads => task[r].client
    BY DEF MirrorInv, ReaderOK
  <2>3. /\ remote \in TagMap /\ refs \in TagMap /\ head \in Commits
        /\ directory \in {"absent", "partial", "ready"} /\ stamp \in {"none", "fresh", "stale"}
        /\ entries \in [Commits -> Commits \cup {0}] /\ order \in Seq(Commits)
        /\ mirrorFaults \in 0..MaxMirrorFaults /\ DOMAIN task = Readers
    BY DEF MirrorInv, UpstreamOK, DiskOK, CacheOK
  <2> QED
    BY <2>1, <2>2, <2>3 DEF MirrorTypeOK
<1> QED
  BY <1>1, MirrorInvInit, MirrorStep, PTL DEF MirrorSpec

\* A request that reads the mirror finds every tag that upstream has left alone:
\* whoever stopped where, what was not fetched is not stamped (ensure_blocking).
THEOREM EnsuredComplete == MirrorSpec => []EnsuredIsComplete
<1>1. MirrorInv => EnsuredIsComplete
  BY DEF MirrorInv, ReaderOK, DiskOK, Complete, EnsuredIsComplete
<1> QED
  BY <1>1, MirrorInvInit, MirrorStep, PTL DEF MirrorSpec

\* The archive under a commit was built from that commit (get_or_build_archive).
THEOREM OfItsCommit == MirrorSpec => []ArchiveIsOfItsCommit
<1>1. MirrorInv => ArchiveIsOfItsCommit
  BY DEF MirrorInv, CacheOK, ArchiveIsOfItsCommit
<1> QED
  BY <1>1, MirrorInvInit, MirrorStep, PTL DEF MirrorSpec

\* The step that puts a tag back is a fetch that another one has overtaken.
LEMMA AdvanceStep ==
    ASSUME MirrorInv, [MirrorNext]_mirrorVars
    PROVE  \A t \in Tags : refs'[t] < refs[t] => \E r \in Readers : At(r, "receive") /\ task[r].overtaken
<1>1. ASSUME NEW r \in Readers, Receive(r), NEW t \in Tags, refs'[t] < refs[t]
      PROVE  At(r, "receive") /\ task[r].overtaken
  <2>1. At(r, "receive") /\ refs'[t] = IF task[r].fetched[t] = 0 THEN refs[t] ELSE task[r].fetched[t]
    BY <1>1 DEF Receive, Received
  <2>2. refs[t] \in Nat /\ task[r].fetched[t] \in Nat
    BY CommitsAssumption DEF MirrorInv, DiskOK, Task, TagMap, Commits
  <2>3. ~task[r].overtaken => task[r].fetched[t] = 0 \/ refs[t] <= task[r].fetched[t]
    BY <2>1 DEF MirrorInv, ReaderOK
  <2> QED
    BY <1>1, <2>1, <2>2, <2>3
<1>2. ASSUME refs' = refs, NEW t \in Tags PROVE ~(refs'[t] < refs[t])
  BY <1>2, CommitsAssumption DEF MirrorInv, DiskOK, TagMap, Commits
<1>3. refs' = refs \/ \E r \in Readers : Receive(r)
  BY DEF MirrorNext, mirrorVars, disk, world, StartRead, CheckFresh, OpenMirror, CreateMirror,
     CompleteMirror, Connect, WriteStamp, ListRefs, ReadTag, Resolve, BuildArchive, InsertArchive,
     Push, DeleteTag, Expire, Leave, FailRead, Restart
<1> QED
  BY <1>1, <1>2, <1>3

\* Tags of the mirror go back only in that case (fetch_all takes no lock).
THEOREM OnlyOvertaken == MirrorSpec => TagsOnlyAdvance
<1>1. MirrorInv /\ [MirrorNext]_mirrorVars =>
        [\A t \in Tags : refs'[t] < refs[t] =>
            \E r \in Readers : At(r, "receive") /\ task[r].overtaken]_mirrorVars
  BY AdvanceStep
<1> QED
  BY <1>1, MirrorInvInit, MirrorStep, PTL DEF MirrorSpec, TagsOnlyAdvance

-----------------------------------------------------------------------------
(* The upstream clients *)

Editions == DOMAIN History

\* A request is a record of these fields.
Fields == {"pc", "kind", "version", "file", "digests", "got", "answer", "wait"}
IsFetch(f) == DOMAIN f = Fields /\ f = [i \in Fields |-> f[i]]

\* Only what is no longer the latest has been superseded.
EditionsOK ==
    /\ edition \in Editions
    /\ superseded \in [Editions -> 0..Oldest]
    /\ \A e \in Editions : e >= edition => superseded[e] = 0

\* An answer is as old as the request that waited for it.
FetchOK(k) ==
    /\ IsFetch(fetch[k])
    /\ Doing(k, "asked") =>
         /\ fetch[k].answer \in Editions /\ fetch[k].wait \in 0..Timeout
         /\ superseded[fetch[k].answer] <= fetch[k].wait

\* A document that is remembered was an answer when it was stored.
MemoryOK(s) ==
    /\ remembered[s] = [edition |-> remembered[s].edition, age |-> remembered[s].age]
    /\ remembered[s].age \in 0..TTL
    /\ remembered[s].edition # 0 =>
         /\ remembered[s].edition \in Editions
         /\ superseded[remembered[s].edition] <= remembered[s].age + Timeout

FetchInv ==
    /\ EditionsOK
    /\ DOMAIN fetch = Fetchers /\ fetch = [k \in Fetchers |-> fetch[k]]
    /\ \A k \in Fetchers : FetchOK(k)
    /\ DOMAIN remembered = {"document", "registry"}
    /\ \A s \in {"document", "registry"} : MemoryOK(s)
    /\ StaleIsBounded

-----------------------------------------------------------------------------
LEMMA Numbers ==
    /\ TTL \in Nat \ {0} /\ Timeout \in Nat /\ Oldest = TTL + Timeout
    /\ Len(History) \in Nat \ {0} /\ Editions = 1..Len(History)
  BY TimesAssumption, HistoryAssumption DEF Oldest, Editions

LEMMA RestingShape == IsFetch(Resting) /\ Resting.pc = "idle"
  BY DEF IsFetch, Fields, Resting

\* Assignments to fields leave a request with its fields.
LEMMA Asked ==
    ASSUME NEW f, IsFetch(f), NEW e
    PROVE  LET next == [f EXCEPT !.pc = "asked", !.answer = e, !.wait = 0]
           IN IsFetch(next) /\ next.pc = "asked" /\ next.answer = e /\ next.wait = 0
  BY DEF IsFetch, Fields

LEMMA ReadsOn ==
    ASSUME NEW f, IsFetch(f), NEW got
    PROVE  LET next == [f EXCEPT !.pc = "read", !.got = got]
           IN IsFetch(next) /\ next.pc = "read"
  BY DEF IsFetch, Fields

\* The others are where they were.
OtherFetchers(k) == DOMAIN fetch' = Fetchers /\ fetch' = [x \in Fetchers |-> fetch'[x]]
             /\ \A x \in Fetchers \ {k} : fetch'[x] = fetch[x]

\* A step of one request, in no time.
LEMMA FetchMoves ==
    ASSUME FetchInv, NEW k \in Fetchers, OtherFetchers(k), FetchOK(k)', UNCHANGED <<edition, superseded>>,
           DOMAIN remembered' = {"document", "registry"},
           \A s \in {"document", "registry"} : MemoryOK(s)', StaleIsBounded'
    PROVE  FetchInv'
<1>1. \A x \in Fetchers : FetchOK(x)'
  BY DEF FetchInv, FetchOK, IsFetch, Doing, OtherFetchers
<1> QED
  BY <1>1 DEF FetchInv, EditionsOK, OtherFetchers

\* One that leaves what is remembered.
LEMMA FetchQuiet ==
    ASSUME FetchInv, NEW k \in Fetchers, OtherFetchers(k), FetchOK(k)', UNCHANGED <<edition, superseded, remembered, stale>>
    PROVE  FetchInv'
<1>1. \A s \in {"document", "registry"} : MemoryOK(s)'
  BY DEF FetchInv, MemoryOK
<1> QED
  BY <1>1, FetchMoves DEF FetchInv, StaleIsBounded

LEMMA Rests == ASSUME FetchInv, NEW k \in Fetchers, Rest(k) PROVE OtherFetchers(k) /\ FetchOK(k)'
  BY RestingShape DEF Rest, FetchInv, OtherFetchers, FetchOK, Doing

LEMMA OfBegin ==
    ASSUME FetchInv, NEW k \in Fetchers, NEW kind, NEW v, NEW file, Begin(k, kind, v, file) PROVE FetchInv'
<1> DEFINE first == IF Reads(kind) = <<>> THEN "download" ELSE "read"
           digests == IF kind = "artifact" THEN kept[v][file] ELSE <<>>
           next == [Resting EXCEPT !.pc = first, !.kind = kind, !.version = v, !.file = file,
                                   !.digests = digests]
<1>1. first # "asked"
  OBVIOUS
<1>2. fetch' = [fetch EXCEPT ![k] = next] /\ UNCHANGED <<edition, superseded, remembered, stale>>
  BY DEF Begin, upstreamVars, memories
<1> HIDE DEF first, digests
<1>3. IsFetch(next) /\ next.pc # "asked"
  BY <1>1, RestingShape DEF IsFetch, Fields
<1> HIDE DEF next
<1>4. OtherFetchers(k) /\ FetchOK(k)'
  BY <1>2, <1>3 DEF FetchInv, OtherFetchers, FetchOK, Doing
<1> QED
  BY <1>2, <1>4, FetchQuiet

LEMMA OfUseUrl == ASSUME FetchInv, NEW k \in Fetchers, UseUrl(k) PROVE FetchInv'
<1> DEFINE next == [fetch[k] EXCEPT !.pc = "download"]
<1>1. IsFetch(next) /\ next.pc = "download"
  BY DEF FetchInv, FetchOK, IsFetch, Fields
<1>2. fetch' = [fetch EXCEPT ![k] = next] /\ UNCHANGED <<edition, superseded, remembered, stale>>
  BY DEF UseUrl, upstreamVars, memories
<1> HIDE DEF next
<1>3. OtherFetchers(k) /\ FetchOK(k)'
  BY <1>1, <1>2 DEF FetchInv, OtherFetchers, FetchOK, Doing
<1> QED
  BY <1>2, <1>3, FetchQuiet

\* What a document does to the request it is for.
LEMMA GotShape ==
    ASSUME FetchInv, NEW k \in Fetchers, NEW e \in Editions, Got(k, e), superseded[e] < TTL + Timeout
    PROVE  /\ OtherFetchers(k) /\ FetchOK(k)' /\ StaleIsBounded' /\ UNCHANGED <<edition, superseded>>
<1> DEFINE got == Append(fetch[k].got, e)
           f == fetch[k]
           done == Len(got) = Len(Reads(f.kind))
           located == Located(k, e)
           next == IF ~done THEN [f EXCEPT !.pc = "read", !.got = got]
                   ELSE IF f.kind = "artifact" /\ located THEN [f EXCEPT !.pc = "download"]
                   ELSE Resting
<1>1. fetch' = [fetch EXCEPT ![k] = next] /\ UNCHANGED <<edition, superseded>>
  BY DEF Got, upstreamVars
<1>2. IsFetch(f)
  BY DEF FetchInv, FetchOK
<1> HIDE DEF got, f, done, located
<1>3. IsFetch(next) /\ next.pc # "asked"
  <2>1. IsFetch([f EXCEPT !.pc = "read", !.got = got]) /\ [f EXCEPT !.pc = "read", !.got = got].pc = "read"
    BY <1>2, ReadsOn
  <2>2. IsFetch([f EXCEPT !.pc = "download"]) /\ [f EXCEPT !.pc = "download"].pc = "download"
    BY <1>2 DEF IsFetch, Fields
  <2> QED
    BY <2>1, <2>2, RestingShape
<1> HIDE DEF next
<1>4. OtherFetchers(k) /\ FetchOK(k)'
  BY <1>1, <1>3 DEF FetchInv, OtherFetchers, FetchOK, Doing
<1>5. StaleIsBounded'
  <2>1. superseded[e] \in Nat /\ ~(superseded[e] >= TTL + Timeout)
    BY Numbers DEF FetchInv, EditionsOK
  <2>2. stale' = (stale \/ superseded[e] >= TTL + Timeout)
    BY DEF Got
  <2>3. ~stale
    BY DEF FetchInv, StaleIsBounded
  <2> QED
    BY <2>1, <2>2, <2>3 DEF StaleIsBounded
<1> QED
  BY <1>1, <1>4, <1>5

LEMMA OfFromCache == ASSUME FetchInv, NEW k \in Fetchers, FromCache(k) PROVE FetchInv'
<1> DEFINE e == remembered[Source(k)].edition
<1>1. /\ Source(k) \in {"document", "registry"} /\ e # 0 /\ remembered[Source(k)].age < TTL
      /\ remembered' = remembered /\ Got(k, e)
  BY DEF FromCache, Fresh, FetchInv, memories
<1>2. e \in Editions /\ superseded[e] < TTL + Timeout
  BY <1>1, Numbers DEF FetchInv, MemoryOK, EditionsOK
<1> HIDE DEF e
<1>3. OtherFetchers(k) /\ FetchOK(k)' /\ StaleIsBounded' /\ UNCHANGED <<edition, superseded>>
  BY <1>1, <1>2, GotShape
<1>4. \A s \in {"document", "registry"} : MemoryOK(s)'
  BY <1>1, <1>3 DEF FetchInv, MemoryOK
<1> QED
  BY <1>1, <1>3, <1>4, FetchMoves DEF FetchInv

LEMMA OfAsk == ASSUME FetchInv, NEW k \in Fetchers, Ask(k) PROVE FetchInv'
<1> DEFINE next == [fetch[k] EXCEPT !.pc = "asked", !.answer = edition, !.wait = 0]
<1>1. IsFetch(next) /\ next.pc = "asked" /\ next.answer = edition /\ next.wait = 0
  BY Asked DEF FetchInv, FetchOK
<1>2. fetch' = [fetch EXCEPT ![k] = next] /\ UNCHANGED <<edition, superseded, remembered, stale>>
  BY DEF Ask, upstreamVars, memories
<1>3. edition \in Editions /\ superseded[edition] = 0
  BY Numbers DEF FetchInv, EditionsOK
<1> HIDE DEF next
<1>4. OtherFetchers(k) /\ FetchOK(k)'
  BY <1>1, <1>2, <1>3, Numbers DEF FetchInv, OtherFetchers, FetchOK, Doing
<1> QED
  BY <1>2, <1>4, FetchQuiet

\* The answer is used and remembered, no older than its request.
LEMMA OfKeep == ASSUME FetchInv, NEW k \in Fetchers, Keep(k) PROVE FetchInv'
<1> DEFINE e == fetch[k].answer
           new(s) == IF s = Source(k) THEN [edition |-> e, age |-> 0] ELSE remembered[s]
<1>1. /\ e \in Editions /\ superseded[e] <= Timeout /\ superseded[e] \in Nat
  BY Numbers DEF FetchInv, FetchOK, Keep, EditionsOK
<1>2. Got(k, e) /\ remembered' = [s \in DOMAIN remembered |-> new(s)]
  BY DEF Keep
<1> HIDE DEF e
<1>3. superseded[e] < TTL + Timeout
  BY <1>1, Numbers
<1>4. OtherFetchers(k) /\ FetchOK(k)' /\ StaleIsBounded' /\ UNCHANGED <<edition, superseded>>
  BY <1>1, <1>2, <1>3, GotShape
<1>5. DOMAIN remembered' = {"document", "registry"}
      /\ \A s \in {"document", "registry"} : remembered'[s] = new(s)
  BY <1>2 DEF FetchInv
<1>6. ASSUME NEW s \in {"document", "registry"} PROVE MemoryOK(s)'
  <2>1. CASE s = Source(k)
    <3>1. remembered'[s] = [edition |-> e, age |-> 0]
      BY <1>5, <2>1
    <3> QED
      BY <1>1, <1>4, <3>1, Numbers DEF MemoryOK
  <2>2. CASE s # Source(k)
    BY <1>4, <1>5, <2>2 DEF FetchInv, MemoryOK
  <2> QED
    BY <2>1, <2>2
<1> QED
  BY <1>4, <1>5, <1>6, FetchMoves

LEMMA OfDownload == ASSUME FetchInv, NEW k \in Fetchers, Download(k) PROVE FetchInv'
  BY Rests, FetchQuiet DEF Download, upstreamVars, memories

LEMMA OfFailFetch == ASSUME FetchInv, NEW k \in Fetchers, FailFetch(k) PROVE FetchInv'
  BY Rests, FetchQuiet DEF FailFetch, upstreamVars, memories

\* The new edition has not been superseded.
LEMMA OfOffer == ASSUME FetchInv, Offer PROVE FetchInv'
<1>1. /\ UNCHANGED <<superseded, remembered, fetch, stale>> /\ edition' = edition + 1
      /\ edition < Len(History)
  BY DEF Offer, memories
<1>2. EditionsOK'
  BY <1>1, Numbers DEF FetchInv, EditionsOK
<1> QED
  BY <1>1, <1>2 DEF FetchInv, FetchOK, MemoryOK, IsFetch, Doing, StaleIsBounded

\* A tick ages what is remembered and who waits at least as much as what was
\* superseded, and no request waits longer than the timeout.
LEMMA OfTick == ASSUME FetchInv, Tick PROVE FetchInv'
<1>1. /\ edition' = edition /\ stale' = stale
      /\ \A e \in Editions : superseded'[e] = IF e < edition THEN Aged(superseded[e], Oldest) ELSE 0
      /\ superseded' = [e \in Editions |-> superseded'[e]]
      /\ \A k \in Fetchers : Doing(k, "asked") => fetch[k].wait < Timeout
  BY DEF Tick, upstreamVars, Editions
<1>2. EditionsOK'
  BY <1>1, Numbers DEF FetchInv, EditionsOK, Aged
<1>3. \A e \in Editions :
         /\ superseded'[e] <= superseded[e] + 1 /\ superseded'[e] <= Oldest
         /\ superseded'[e] \in Nat /\ superseded[e] \in Nat
  BY <1>1, Numbers DEF FetchInv, EditionsOK, Aged
<1>4. /\ DOMAIN fetch' = Fetchers /\ fetch' = [k \in Fetchers |-> fetch'[k]]
      /\ \A k \in Fetchers :
           fetch'[k] = IF Doing(k, "asked") THEN [fetch[k] EXCEPT !.wait = @ + 1] ELSE fetch[k]
  BY DEF Tick
<1>5. ASSUME NEW k \in Fetchers PROVE FetchOK(k)'
  <2>1. CASE Doing(k, "asked")
    <3> DEFINE next == [fetch[k] EXCEPT !.wait = @ + 1]
    <3>1. FetchOK(k) /\ fetch'[k] = next
      BY <1>4, <2>1 DEF FetchInv
    <3>2. IsFetch(next) /\ next.pc = "asked" /\ next.answer = fetch[k].answer /\ next.wait = fetch[k].wait + 1
      BY <2>1, <3>1 DEF FetchOK, IsFetch, Fields, Doing
    <3> HIDE DEF next
    <3>3. fetch[k].pc = "asked" /\ fetch[k].wait < Timeout
      BY <1>1, <2>1 DEF Doing
    <3>4. /\ fetch[k].answer \in Editions /\ fetch[k].wait \in 0..Timeout
          /\ superseded[fetch[k].answer] <= fetch[k].wait
      BY <2>1, <3>1 DEF FetchOK
    <3>5. next.wait \in 0..Timeout
      BY <3>2, <3>3, <3>4, Numbers
    <3>6. superseded'[next.answer] <= next.wait
      <4>1. /\ superseded'[next.answer] <= superseded[next.answer] + 1
            /\ superseded'[next.answer] \in Nat /\ superseded[next.answer] \in Nat
        BY <1>3, <3>2, <3>4
      <4> QED
        BY <3>2, <3>4, <4>1, Numbers
    <3> QED
      BY <3>1, <3>2, <3>4, <3>5, <3>6 DEF FetchOK, IsFetch
  <2>2. CASE ~Doing(k, "asked")
    BY <1>4, <2>2 DEF FetchInv, FetchOK, Doing, IsFetch
  <2> QED
    BY <2>1, <2>2
<1>6. /\ DOMAIN remembered' = {"document", "registry"}
      /\ \A s \in {"document", "registry"} :
           remembered'[s] = [remembered[s] EXCEPT !.age = IF remembered[s].edition = 0 THEN 0 ELSE Aged(@, TTL)]
  BY DEF Tick, FetchInv
<1>7. ASSUME NEW s \in {"document", "registry"} PROVE MemoryOK(s)'
  <2> DEFINE age == IF remembered[s].edition = 0 THEN 0 ELSE Aged(remembered[s].age, TTL)
             e == remembered[s].edition
  <2>1. MemoryOK(s) /\ remembered'[s] = [remembered[s] EXCEPT !.age = age]
    BY <1>6 DEF FetchInv
  <2>2. age \in 0..TTL /\ (e # 0 => age = remembered[s].age + 1 \/ age = TTL)
    BY <2>1, Numbers DEF MemoryOK, Aged
  <2> HIDE DEF age
  <2>3. remembered'[s] = [edition |-> e, age |-> age]
    BY <2>1 DEF MemoryOK
  <2>4. e # 0 => e \in Editions /\ superseded'[e] <= age + Timeout
    <3> SUFFICES ASSUME e # 0 PROVE e \in Editions /\ superseded'[e] <= age + Timeout
      OBVIOUS
    <3>1. /\ e \in Editions /\ superseded[e] <= remembered[s].age + Timeout
          /\ remembered[s].age \in Nat /\ age \in Nat
          /\ age = remembered[s].age + 1 \/ age = TTL
      BY <2>1, <2>2, Numbers DEF MemoryOK
    <3>2. /\ superseded'[e] <= superseded[e] + 1 /\ superseded'[e] <= Oldest
          /\ superseded'[e] \in Nat /\ superseded[e] \in Nat
      BY <1>3, <3>1
    <3>3. Oldest = TTL + Timeout /\ TTL \in Nat /\ Timeout \in Nat
      BY Numbers
    <3>4. CASE age = TTL
      BY <3>1, <3>2, <3>3, <3>4
    <3>5. CASE age = remembered[s].age + 1
      BY <3>1, <3>2, <3>3, <3>5
    <3> QED
      BY <3>1, <3>4, <3>5
  <2> HIDE DEF e
  <2> QED
    BY <2>2, <2>3, <2>4 DEF MemoryOK
<1> QED
  BY <1>1, <1>2, <1>4, <1>5, <1>6, <1>7 DEF FetchInv, StaleIsBounded

-----------------------------------------------------------------------------
(* The theorem *)

LEMMA FetchInvInit == FetchInit => FetchInv
<1> SUFFICES ASSUME FetchInit PROVE FetchInv
  OBVIOUS
<1>1. EditionsOK
  BY Numbers DEF FetchInit, EditionsOK, Editions
<1>2. \A k \in Fetchers : FetchOK(k)
  BY RestingShape DEF FetchInit, FetchOK, Doing
<1>3. \A s \in {"document", "registry"} : MemoryOK(s)
  BY Numbers DEF FetchInit, MemoryOK
<1> QED
  BY <1>1, <1>2, <1>3 DEF FetchInit, FetchInv, StaleIsBounded

LEMMA FetchStutter == ASSUME FetchInv, UNCHANGED fetchVars PROVE FetchInv'
  BY DEF FetchInv, EditionsOK, FetchOK, MemoryOK, IsFetch, Doing, StaleIsBounded, fetchVars

\* FetchInv is inductive: every step of every request, and every tick, keeps it.
LEMMA FetchStep == FetchInv /\ [FetchNext]_fetchVars => FetchInv'
<1> SUFFICES ASSUME FetchInv, [FetchNext]_fetchVars PROVE FetchInv'
  OBVIOUS
<1>1. ASSUME NEW k \in Fetchers,
             \/ FetchVersions(k)
             \/ \E v \in AllVersions : FetchMetadata(k, v)
             \/ \E file \in AllFiles : FetchArtifact(k, file)
      PROVE  FetchInv'
  BY <1>1, OfBegin DEF FetchVersions, FetchMetadata, FetchArtifact
<1>2. ASSUME NEW k \in Fetchers,
             UseUrl(k) \/ FromCache(k) \/ Ask(k) \/ Keep(k) \/ Download(k) \/ FailFetch(k)
      PROVE  FetchInv'
  BY <1>2, OfUseUrl, OfFromCache, OfAsk, OfKeep, OfDownload, OfFailFetch
<1> QED
  BY <1>1, <1>2, OfOffer, OfTick, FetchStutter DEF FetchNext

\* A document is used no longer than the time to live after it was stored, and stored
\* no later than the timeout after it was given (PACKAGE_CACHE_TTL, the client's timeout).
THEOREM Bounded == FetchSpec => []StaleIsBounded
<1>1. FetchInv => StaleIsBounded
  BY DEF FetchInv
<1> QED
  BY <1>1, FetchInvInit, FetchStep, PTL DEF FetchSpec

-----------------------------------------------------------------------------
(* What the upstream clients keep *)

\* Upstream announces a release once: its digests are the same in every edition.
StableReleases == \A r, s \in AllReleases : r.version = s.version => r = s

\* Some edition says nothing of the file that its client can use.
Unused(v, file) == \E e \in DOMAIN History : Unusable(History[e], v, file)

\* Digests that let nothing else through, of the clients that keep what is announced.
Strict(file, digests) ==
    client \in {"pypi", "npm", "cargo", "pub"} /\ Announced(file) =>
        \A data : Verified(data, digests) => data \in {Other, file}

LEMMA ReleaseOf ==
    ASSUME NEW e \in Editions, NEW v, Has(History[e], v)
    PROVE  Release(History[e], v) \in AllReleases /\ Release(History[e], v).version = v
<1>1. PICK i \in DOMAIN History[e] : History[e][i].version = v
  BY DEF Has
<1>2. History[e][i] \in {History[e][j] : j \in DOMAIN History[e]}
  OBVIOUS
<1>3. Release(History[e], v) \in Offered(e) /\ Release(History[e], v).version = v
  BY <1>1, <1>2 DEF Release, Offered
<1> QED
  BY <1>3 DEF AllReleases, Editions

LEMMA ReleaseIn ==
    ASSUME NEW offer, NEW v, Has(offer, v)
    PROVE  \E i \in DOMAIN offer : offer[i] = Release(offer, v) /\ offer[i].version = v
<1>1. PICK i \in DOMAIN offer : offer[i].version = v
  BY DEF Has
<1>2. /\ Release(offer, v) \in {offer[j] : j \in DOMAIN offer}
      /\ Release(offer, v).version = v
  BY <1>1 DEF Release
<1> QED
  BY <1>2

\* verify_upstream_hash compares the first of these algorithms that has a digest.
Compared(data, d) ==
    /\ "integrity" \in DOMAIN d => d["integrity"] = data
    /\ "integrity" \notin DOMAIN d /\ "sha256" \in DOMAIN d => d["sha256"] = data
    /\ DOMAIN d \cap {"integrity", "sha256"} = {} /\ "sha1" \in DOMAIN d => d["sha1"] = data
    /\ DOMAIN d \cap {"integrity", "sha256", "sha1"} = {} /\ "sha512" \in DOMAIN d =>
         d["sha512"] = data

LEMMA FirstCompared ==
    ASSUME NEW data, NEW d
    PROVE  Verified(data, d) <=> Compared(data, d)
  BY DEF Verified, Compared

\* No digest, or one algorithm's.
LEMMA ComparedWith ==
    /\ \A data : Verified(data, <<>>)
    /\ \A data, d : DOMAIN d = {} => Verified(data, d)
    /\ \A data, file : \A S \in SUBSET {"sha256", "sha1"} :
         Verified(data, [a \in S |-> file]) <=> (S = {} \/ data = file)
    /\ \A data, file : Verified(data, [a \in {"sha256"} |-> file]) <=> data = file
    /\ \A data, file : \A S \in SUBSET {"sha512"} :
         Verified(data, [a \in S |-> file]) <=> (S = {} \/ data = file)
<1>2. \A data, d : DOMAIN d = {} => Verified(data, d)
  BY FirstCompared DEF Compared
<1>3. \A data : Verified(data, <<>>)
  BY <1>2
<1>4. ASSUME NEW data, NEW file, NEW S \in SUBSET {"sha256", "sha1"}
      PROVE  Verified(data, [a \in S |-> file]) <=> (S = {} \/ data = file)
  BY FirstCompared DEF Compared
<1>5. ASSUME NEW data, NEW file, NEW S \in SUBSET {"sha512"}
      PROVE  Verified(data, [a \in S |-> file]) <=> (S = {} \/ data = file)
  BY FirstCompared DEF Compared
<1>6. ASSUME NEW data, NEW file
      PROVE  Verified(data, [a \in {"sha256"} |-> file]) <=> data = file
  BY FirstCompared DEF Compared
<1> QED
  BY <1>2, <1>3, <1>4, <1>5, <1>6

LEMMA OwnSha256 == \A file : Verified(file, [a \in {"sha256"} |-> file])
  BY ComparedWith

\* A set of positions in a sequence has a last one.
LEMMA LastOf ==
    ASSUME NEW n \in Nat, NEW S \in SUBSET (1..n), S # {}
    PROVE  LET last == CHOOSE i \in S : \A j \in S : j <= i
           IN  last \in S /\ \A j \in S : j <= last
<1> DEFINE R == {ss \in Nat \X Nat : ss[1] < ss[2]}
<1>1. Orders!IsWellFoundedOn(R, Nat)
  BY Orders!NatLessThanWellFounded DEF Orders!OpToRel
<1> HIDE DEF R
<1> DEFINE T == {m \in Nat : n - m \in S}
<1>2. PICK i \in S : TRUE
  OBVIOUS
<1>3. n - i \in T
  <2>1. i \in 1..n /\ n - i \in Nat /\ n - (n - i) = i
    OBVIOUS
  <2> QED
    BY <1>2, <2>1
<1>4. T # {} /\ T \subseteq Nat
  BY <1>3
<1> HIDE DEF T
<1>5. PICK m \in T : \A k \in T : <<k, m>> \notin R
  BY <1>1, <1>4, Orders!WFMin
<1>6. ASSUME NEW k \in T PROVE ~(k < m)
  <2> DEFINE p == <<k, m>>
  <2>1. p \in Nat \X Nat /\ p[1] = k /\ p[2] = m
    BY <1>4
  <2>2. p \notin R
    BY <1>5, Zenon
  <2> HIDE DEF p
  <2> QED
    BY <2>1, <2>2 DEF R
<1>7. m \in Nat /\ n - m \in S
  BY DEF T
<1>8. ASSUME NEW j \in S PROVE j <= n - m
  <2>1. j \in 1..n /\ n - j \in Nat /\ n - (n - j) = j
    OBVIOUS
  <2>2. n - j \in T
    BY <2>1 DEF T
  <2>3. ~(n - j < m)
    BY <1>6, <2>2
  <2> QED
    BY <1>7, <2>1, <2>3
<1> QED
  BY <1>7, <1>8

\* The editions a metadata request was answered with.
Answers(got) == got[1] \in Editions /\ got[Len(got)] \in Editions

\* The digests of PyPI are hexadecimal ones of the file, but for the SHA-512.
LEMMA PypiCompared ==
    ASSUME NEW r, NEW file, NEW data, r.announced \cap {"sha256", "sha1"} # {}
    PROVE  Verified(data, PypiHashes(r, file)) <=> data = file
<1> DEFINE d == PypiHashes(r, file)
           S == r.announced \cap {"sha256", "sha1", "sha512"}
<1>1. DOMAIN d = S /\ \A a \in S : d[a] = IF a = "sha512" THEN Other ELSE file
  BY DEF PypiHashes
<1>2. Verified(data, d) <=> Compared(data, d)
  BY FirstCompared
<1> HIDE DEF d
<1>3. "integrity" \notin DOMAIN d
  BY <1>1
<1>4. Verified(data, d) <=> data = file
  <2>1. CASE "sha256" \in r.announced
    <3>1. "sha256" \in DOMAIN d /\ d["sha256"] = file
      BY <1>1, <2>1
    <3> QED
      BY <1>2, <1>3, <3>1 DEF Compared
  <2>2. CASE "sha256" \notin r.announced
    <3>1. "sha256" \notin DOMAIN d /\ "sha1" \in DOMAIN d /\ d["sha1"] = file
      BY <1>1, <2>2
    <3> QED
      BY <1>2, <1>3, <3>1 DEF Compared
  <2> QED
    BY <2>1, <2>2
<1> QED
  BY <1>4 DEF d

LEMMA NpmCompared ==
    ASSUME NEW r, NEW file, NEW data
    PROVE  /\ r.integrity # <<>> =>
                (Verified(data, NpmHashes(r, file)) <=> Subresource(r.integrity, file) = data)
           /\ r.integrity = <<>> =>
                (Verified(data, NpmHashes(r, file)) <=> ("sha1" \in r.announced => data = file))
<1> DEFINE d == NpmHashes(r, file)
           S == (IF r.integrity = <<>> THEN {} ELSE {"integrity"}) \cup (r.announced \cap {"sha1"})
<1>1. DOMAIN d = S
      /\ \A a \in S : d[a] = IF a = "integrity" THEN Subresource(r.integrity, file) ELSE file
  BY DEF NpmHashes
<1>2. Verified(data, d) <=> Compared(data, d)
  BY FirstCompared
<1> HIDE DEF d
<1>3. ASSUME r.integrity # <<>> PROVE Verified(data, d) <=> Subresource(r.integrity, file) = data
  <2>1. "integrity" \in DOMAIN d /\ d["integrity"] = Subresource(r.integrity, file)
    BY <1>1, <1>3
  <2> QED
    BY <1>2, <2>1 DEF Compared
<1>4. ASSUME r.integrity = <<>> PROVE Verified(data, d) <=> ("sha1" \in r.announced => data = file)
  <2>1. DOMAIN d = r.announced \cap {"sha1"} /\ ("sha1" \in r.announced => d["sha1"] = file)
    BY <1>1, <1>4
  <2> QED
    BY <1>2, <2>1 DEF Compared
<1> QED
  BY <1>3, <1>4 DEF d

\* The files of a release that is offered, and what their digests are made of.
LEMMA PypiMetadata ==
    ASSUME NEW e \in Editions, NEW v, NEW file \in DOMAIN PypiFilesToMetadata(History[e], v)
    PROVE  /\ Has(History[e], file[1])
           /\ PypiFilesToMetadata(History[e], v)[file] = PypiHashes(Release(History[e], file[1]), file)
<1> DEFINE offer == History[e]
           files == {<<offer[i].version, kind>> : i \in DOMAIN offer, kind \in {"archive", "wheel"}}
<1>1. file \in {f \in files : VersionFromFilename(f) = v}
      /\ PypiFilesToMetadata(offer, v)[file] = PypiHashes(Release(offer, file[1]), file)
  BY DEF PypiFilesToMetadata
<1>2. PICK i \in DOMAIN offer, kind \in {"archive", "wheel"} : file = <<offer[i].version, kind>>
  BY <1>1
<1>3. offer[i].version = file[1]
  BY <1>2
<1> QED
  BY <1>1, <1>3 DEF Has

LEMMA NpmMetadata ==
    ASSUME NEW e \in Editions, NEW v, NEW file \in DOMAIN ExtractVersionMetadata(History[e], v)
    PROVE  /\ Has(History[e], v) /\ file = <<v, "archive">> /\ file[1] = v
           /\ ExtractVersionMetadata(History[e], v)[file] = NpmHashes(Release(History[e], v), file)
  BY DEF ExtractVersionMetadata

LEMMA CargoMetadata ==
    ASSUME NEW e \in Editions, NEW v, NEW file \in DOMAIN CargoEntryToMetadata(History[e], v), NEW data
    PROVE  Verified(data, CargoEntryToMetadata(History[e], v)[file]) <=> data = file
<1>1. CargoEntryToMetadata(History[e], v)[file] = [a \in {"sha256"} |-> file]
  BY DEF CargoEntryToMetadata
<1>2. Verified(data, [a \in {"sha256"} |-> file]) <=> data = file
  BY ComparedWith
<1> QED
  BY <1>1, <1>2

LEMMA PubMetadata ==
    ASSUME NEW e \in Editions, NEW v, NEW file \in DOMAIN PubMetadataFromVersion(History[e], v), NEW data
    PROVE  /\ Has(History[e], v) /\ file[1] = v
           /\ Verified(data, PubMetadataFromVersion(History[e], v)[file])
                <=> ("sha256" \in Release(History[e], v).announced => data = file)
<1> DEFINE S == Release(History[e], v).announced \cap {"sha256"}
<1>1. /\ Has(History[e], v) /\ file[1] = v
      /\ PubMetadataFromVersion(History[e], v)[file] = [a \in S |-> file]
  BY DEF PubMetadataFromVersion
<1>2. S \in SUBSET {"sha256", "sha1"} /\ (S = {} <=> "sha256" \notin Release(History[e], v).announced)
  OBVIOUS
<1> HIDE DEF S
<1>3. Verified(data, [a \in S |-> file]) <=> (S = {} \/ data = file)
  BY <1>2, ComparedWith
<1> QED
  BY <1>1, <1>2, <1>3

\* Of one stable release, what is kept of its files lets nothing else through.
LEMMA StrictMetadata ==
    ASSUME StableReleases, NEW got, Answers(got), NEW v, NEW file \in DOMAIN Metadata(got, v)
    PROVE  Strict(file, Metadata(got, v)[file])
<1> SUFFICES ASSUME client \in {"pypi", "npm", "cargo", "pub"}, Announced(file),
                    NEW data, Verified(data, Metadata(got, v)[file])
             PROVE  data \in {Other, file}
  BY DEF Strict
<1> DEFINE e == got[1]
<1>1. e \in Editions
  BY DEF Answers
<1>2. PICK r \in AllReleases :
        /\ r.version = file[1]
        /\ client = "pypi" => r.announced \cap {"sha256", "sha1"} # {}
        /\ client = "npm" => r.integrity # <<>> \/ "sha1" \in r.announced
        /\ client = "pub" => "sha256" \in r.announced
  BY DEF Announced
<1>3. Has(History[e], file[1]) => Release(History[e], file[1]) = r
  BY <1>1, <1>2, ReleaseOf DEF StableReleases
<1>4. CASE client = "pypi"
  <2>1. Metadata(got, v) = PypiFilesToMetadata(History[e], v)
    BY <1>4 DEF Metadata
  <2> QED
    BY <1>1, <1>2, <1>3, <1>4, <2>1, PypiMetadata, PypiCompared
<1>5. CASE client = "npm"
  <2>1. Metadata(got, v) = ExtractVersionMetadata(History[e], v)
    BY <1>5 DEF Metadata
  <2>2. Verified(data, NpmHashes(r, file))
    BY <1>1, <1>3, <2>1, NpmMetadata
  <2>3. Subresource(r.integrity, file) \in {Other, file}
    BY DEF Subresource
  <2> QED
    BY <1>2, <1>5, <2>2, <2>3, NpmCompared
<1>6. CASE client = "cargo"
  <2>1. Metadata(got, v) = CargoEntryToMetadata(History[e], v)
    BY <1>6 DEF Metadata
  <2> QED
    BY <1>1, <2>1, CargoMetadata
<1>7. CASE client = "pub"
  <2>1. Metadata(got, v) = PubMetadataFromVersion(History[e], v)
    BY <1>7 DEF Metadata
  <2> HIDE DEF e
  <2>2. file \in DOMAIN PubMetadataFromVersion(History[e], v)
        /\ Verified(data, PubMetadataFromVersion(History[e], v)[file])
    BY <2>1
  <2>3. Has(History[e], v) /\ file[1] = v
        /\ ("sha256" \in Release(History[e], v).announced => data = file)
    BY <1>1, <2>2, PubMetadata
  <2> QED
    BY <1>2, <1>3, <1>7, <2>3
<1> QED
  BY <1>4, <1>5, <1>6, <1>7

\* The digests of a file let it through, unless it has none that its client can use.
LEMMA AcceptingMetadata ==
    ASSUME client \in Sources, NEW got, Answers(got), NEW v \in AllVersions,
           NEW file \in DOMAIN Metadata(got, v)
    PROVE  Verified(file, Metadata(got, v)[file]) \/ Unused(v, file)
<1> DEFINE e == got[1]
           last == got[Len(got)]
           d == Metadata(got, v)[file]
<1>1. e \in Editions /\ last \in Editions /\ Editions = DOMAIN History
  BY HistoryAssumption DEF Answers, Editions
<1>2. CASE client = "pypi"
  <2> DEFINE r == Release(History[e], file[1])
  <2>1. file \in DOMAIN PypiFilesToMetadata(History[e], v)
        /\ d = PypiFilesToMetadata(History[e], v)[file]
    BY <1>2 DEF Metadata
  <2> HIDE DEF d
  <2>a. Has(History[e], file[1]) /\ d = PypiHashes(r, file)
    BY <1>1, <2>1, PypiMetadata
  <2>b. PICK i \in DOMAIN History[e] : History[e][i] = r /\ r.version = file[1]
    BY <2>a, ReleaseIn
  <2>2. d = PypiHashes(r, file)
    BY <2>a
  <2> HIDE DEF r, e
  <2>3. CASE r.announced \cap {"sha256", "sha1", "sha512"} = {"sha512"}
    BY <1>1, <1>2, <2>b, <2>3 DEF Unused, Unusable
  <2>4. CASE r.announced \cap {"sha256", "sha1", "sha512"} = {}
    <3>1. DOMAIN PypiHashes(r, file) = {}
      BY <2>4 DEF PypiHashes
    <3> QED
      BY <2>2, <3>1, ComparedWith DEF d
  <2>5. CASE r.announced \cap {"sha256", "sha1"} # {}
    BY <2>2, <2>5, PypiCompared DEF d
  <2> QED
    BY <2>3, <2>4, <2>5
<1>3. CASE client = "npm"
  <2> DEFINE r == Release(History[e], v)
  <2>1. file \in DOMAIN ExtractVersionMetadata(History[e], v)
        /\ d = ExtractVersionMetadata(History[e], v)[file]
    BY <1>3 DEF Metadata
  <2> HIDE DEF d
  <2>a. Has(History[e], v) /\ d = NpmHashes(r, file)
    BY <1>1, <2>1, NpmMetadata
  <2>b. PICK i \in DOMAIN History[e] : History[e][i] = r /\ r.version = v
    BY <2>a, ReleaseIn
  <2>2. d = NpmHashes(r, file)
    BY <2>a
  <2> HIDE DEF r, e
  <2>3. CASE r.integrity = <<>> \/ Subresource(r.integrity, file) = file
    BY <2>2, <2>3, NpmCompared DEF d
  <2>4. CASE r.integrity # <<>> /\ Subresource(r.integrity, file) # file
    BY <1>1, <1>3, <2>b, <2>4 DEF Unused, Unusable, Subresource
  <2> QED
    BY <2>3, <2>4
<1>4. CASE client = "hex"
  <2>1. file \in DOMAIN HexReleaseToMetadata(History[e], History[last], v)
        /\ d = HexReleaseToMetadata(History[e], History[last], v)[file]
    BY <1>4 DEF Metadata
  <2>2. file = <<v, "archive">> /\ d = OuterChecksum(History[last], v)
    BY <2>1 DEF HexReleaseToMetadata
  <2> HIDE DEF d
  <2>3. CASE ~Has(History[last], v)
    <3>1. d = <<>>
      BY <2>2, <2>3 DEF OuterChecksum
    <3> QED
      BY <3>1, ComparedWith DEF d
  <2>4. CASE Has(History[last], v)
    <3>1. PICK i \in DOMAIN History[last] :
            History[last][i] = Release(History[last], v) /\ History[last][i].version = v
      BY <2>4, ReleaseIn
    <3>2. CASE "outer" \in Release(History[last], v).announced
      <4>1. d = [a \in {"sha256"} |-> file]
        BY <2>2, <2>4, <3>2 DEF OuterChecksum
      <4> QED
        BY <4>1, OwnSha256 DEF d
    <3>3. CASE "outer" \notin Release(History[last], v).announced
      <4> HIDE DEF last
      <4> QED
        BY <1>1, <1>4, <3>1, <3>3 DEF Unused, Unusable
    <3> QED
      BY <3>2, <3>3
  <2> QED
    BY <2>3, <2>4
<1>5. CASE client = "cargo"
  <2>1. Metadata(got, v) = CargoEntryToMetadata(History[e], v)
    BY <1>5 DEF Metadata
  <2> QED
    BY <1>1, <2>1, CargoMetadata
<1>6. CASE client = "maven"
  <2> DEFINE offer == IF file[2] = "pom" THEN History[e] ELSE History[last]
             announced == Release(offer, file[1]).announced
             S == IF "sha256" \in announced THEN {"sha256"} ELSE announced \cap {"sha1"}
  <2>1. d = MavenSidecar(offer, file)
    BY <1>6 DEF Metadata, MavenMetadata
  <2>2. d = <<>> \/ d = [a \in S |-> file]
    BY <2>1 DEF MavenSidecar
  <2>3. S \in SUBSET {"sha256", "sha1"}
    OBVIOUS
  <2> HIDE DEF d, S
  <2>4. ASSUME NEW data PROVE Verified(data, [a \in S |-> file]) <=> (S = {} \/ data = file)
    BY <2>3, ComparedWith
  <2>5. Verified(file, <<>>)
    BY ComparedWith
  <2> QED
    BY <2>2, <2>4, <2>5 DEF d
<1>7. CASE client = "nuget"
  <2> DEFINE S == Release(History[e], v).announced \cap {"sha512"}
  <2>1. d = <<>> \/ d = [a \in S |-> file]
    BY <1>7 DEF Metadata, NugetMetadata
  <2>2. S \in SUBSET {"sha512"}
    OBVIOUS
  <2> HIDE DEF d, S
  <2>3. ASSUME NEW data PROVE Verified(data, [a \in S |-> file]) <=> (S = {} \/ data = file)
    BY <2>2, ComparedWith
  <2>4. Verified(file, <<>>)
    BY ComparedWith
  <2> QED
    BY <2>1, <2>3, <2>4 DEF d
<1>8. CASE client = "rubygems"
  <2> DEFINE offer == History[e]
             lines == {i \in DOMAIN offer : StartsWith(offer[i], v) /\ "sha256" \in offer[i].announced}
             l == CHOOSE i \in lines : \A j \in lines : j <= i
  <2>1. file = <<v, "archive">>
        /\ d = IF lines = {} THEN <<>> ELSE [a \in {"sha256"} |-> <<offer[l].version, "archive">>]
    BY <1>8 DEF Metadata, GemMetadata
  <2>2. ASSUME lines # {}
        PROVE  /\ l \in DOMAIN offer /\ StartsWith(offer[l], v) /\ "sha256" \in offer[l].announced
               /\ \A j \in DOMAIN offer :
                    StartsWith(offer[j], v) /\ "sha256" \in offer[j].announced => j <= l
    <3>1. lines \in SUBSET (1..Len(offer)) /\ Len(offer) \in Nat
      BY <1>1, HistoryAssumption DEF Editions
    <3> HIDE DEF lines
    <3>2. l \in lines /\ \A j \in lines : j <= l
      BY <2>2, <3>1, LastOf
    <3> HIDE DEF l
    <3> QED
      BY <3>2 DEF lines
  <2> HIDE DEF d, l, lines
  <2>3. CASE lines = {} \/ offer[l].version = v
    <3>1. d = <<>> \/ d = [a \in {"sha256"} |-> file]
      BY <2>1, <2>3
    <3>2. Verified(file, <<>>)
      BY ComparedWith
    <3>3. Verified(file, [a \in {"sha256"} |-> file])
      BY OwnSha256
    <3> QED
      BY <3>1, <3>2, <3>3 DEF d
  <2>4. CASE lines # {} /\ offer[l].version # v
    <3> HIDE DEF e
    <3>1. Unusable(offer, v, file)
      BY <1>8, <2>2, <2>4 DEF Unusable
    <3> QED
      BY <1>1, <3>1 DEF Unused
  <2> QED
    BY <2>3, <2>4
<1>9. CASE client = "pub"
  <2>1. Metadata(got, v) = PubMetadataFromVersion(History[e], v)
    BY <1>9 DEF Metadata
  <2> QED
    BY <1>1, <2>1, PubMetadata
<1> QED
  BY <1>2, <1>3, <1>4, <1>5, <1>6, <1>7, <1>8, <1>9, SourcesAssumption

\* What requests are answered with are editions, and files are downloaded for those who
\* asked for them.
GotOK ==
    /\ client \in Sources
    /\ DOMAIN kept = AllVersions /\ DOMAIN bytes = AllFiles
    /\ \A k \in Fetchers :
         /\ fetch[k].got \in Seq(Editions)
         /\ fetch[k].pc = "download" => fetch[k].kind = "artifact"

\* What is kept, and what requests have in hand, lets nothing through but the files.
StrictOK ==
    /\ \A v \in AllVersions : \A file \in DOMAIN kept[v] : Strict(file, kept[v][file])
    /\ \A k \in Fetchers :
         fetch[k].kind = "artifact" /\ fetch[k].pc # "idle" => Strict(fetch[k].file, fetch[k].digests)

\* What a step is one of; a request begins, goes on, or uses a document.
Begins(k) == \/ FetchVersions(k) \/ \E v \in AllVersions : FetchMetadata(k, v)
             \/ \E file \in AllFiles : FetchArtifact(k, file)
GoesOn(k) == UseUrl(k) \/ Ask(k) \/ Download(k) \/ FailFetch(k)
Uses(k, e) == (FromCache(k) \/ Keep(k)) /\ Got(k, e)

LEMMA FetchCases ==
    ASSUME FetchInv, [FetchNext]_fetchVars
    PROVE  \/ \E k \in Fetchers : Begins(k) \/ GoesOn(k) \/ \E e \in Editions : Uses(k, e)
           \/ Offer \/ Tick \/ UNCHANGED fetchVars
<1>1. ASSUME NEW k \in Fetchers, FromCache(k) PROVE \E e \in Editions : Uses(k, e)
  <2>1. remembered[Source(k)].edition \in Editions /\ Got(k, remembered[Source(k)].edition)
    BY <1>1 DEF FromCache, Fresh, FetchInv, MemoryOK
  <2> QED
    BY <1>1, <2>1 DEF Uses
<1>2. ASSUME NEW k \in Fetchers, Keep(k) PROVE \E e \in Editions : Uses(k, e)
  <2>1. fetch[k].answer \in Editions /\ Got(k, fetch[k].answer)
    BY <1>2 DEF Keep, FetchInv, FetchOK
  <2> QED
    BY <1>2, <2>1 DEF Uses
<1> QED
  BY <1>1, <1>2, Zenon DEF FetchNext, Begins, GoesOn

\* What steps leave alone.
LEMMA Leaves ==
    ASSUME FetchInv, NEW k \in Fetchers
    PROVE  /\ Begins(k) => UNCHANGED <<client, kept, bytes>> /\ OtherFetchers(k)
           /\ GoesOn(k) => UNCHANGED <<client, kept>> /\ OtherFetchers(k)
           /\ \A e \in Editions : Uses(k, e) => UNCHANGED <<client, bytes>> /\ OtherFetchers(k)
           /\ GoesOn(k) /\ bytes' # bytes => Download(k)
<1>1. DOMAIN fetch = Fetchers /\ fetch = [x \in Fetchers |-> fetch[x]]
  BY DEF FetchInv
<1>2. ASSUME NEW new, fetch' = [fetch EXCEPT ![k] = new] PROVE OtherFetchers(k)
  BY <1>1, <1>2 DEF OtherFetchers
<1>3. ASSUME NEW kind, NEW v, NEW file, Begin(k, kind, v, file)
      PROVE  UNCHANGED <<client, kept, bytes>> /\ OtherFetchers(k)
  BY <1>2, <1>3 DEF Begin, upstreamVars, store
<1>4. Begins(k) => UNCHANGED <<client, kept, bytes>> /\ OtherFetchers(k)
  BY <1>3 DEF Begins, FetchVersions, FetchMetadata, FetchArtifact
<1>5. UseUrl(k) => UNCHANGED <<client, kept, bytes>> /\ OtherFetchers(k)
  BY <1>1, <1>2 DEF UseUrl, upstreamVars, store
<1>6. Ask(k) => UNCHANGED <<client, kept, bytes>> /\ OtherFetchers(k)
  <2>1. Ask(k) => fetch' = [fetch EXCEPT ![k] = [fetch[k] EXCEPT !.pc = "asked", !.answer = edition, !.wait = 0]]
    BY <1>1 DEF Ask
  <2> QED
    BY <1>2, <2>1 DEF Ask, upstreamVars, store
<1>7. Download(k) => UNCHANGED <<client, kept>> /\ OtherFetchers(k)
  BY <1>2 DEF Download, Rest, upstreamVars
<1>8. FailFetch(k) => UNCHANGED <<client, kept, bytes>> /\ OtherFetchers(k)
  BY <1>2 DEF FailFetch, Rest, upstreamVars, store
<1>9. ASSUME NEW e \in Editions, Got(k, e) PROVE UNCHANGED <<client, bytes>> /\ OtherFetchers(k)
  BY <1>2, <1>9 DEF Got, upstreamVars
<1> QED
  BY <1>4, <1>5, <1>6, <1>7, <1>8, <1>9 DEF GoesOn, Uses

LEMMA Elsewhere == Offer \/ Tick \/ UNCHANGED fetchVars => UNCHANGED <<client, kept, bytes>>
<1>1. Offer => UNCHANGED <<client, kept, bytes>>
  BY DEF Offer, store
<1>2. Tick => UNCHANGED <<client, kept, bytes>>
  BY DEF Tick, upstreamVars, store
<1> QED
  BY <1>1, <1>2 DEF fetchVars

\* The client is the one it was, and files are kept by downloads only.
LEMMA BytesBecome ==
    ASSUME FetchInv, [FetchNext]_fetchVars
    PROVE  client' = client /\ (bytes' # bytes => \E k \in Fetchers : Download(k))
<1>1. CASE Offer \/ Tick \/ UNCHANGED fetchVars
  BY <1>1, Elsewhere
<1>2. ASSUME NEW k \in Fetchers, Begins(k) \/ GoesOn(k) \/ \E e \in Editions : Uses(k, e)
      PROVE  client' = client /\ (bytes' # bytes => Download(k))
  BY <1>2, Leaves
<1> QED
  BY <1>1, <1>2, FetchCases

\* A step changes the metadata only by what Got makes of the answers.
LEMMA KeptBecomes ==
    ASSUME FetchInv, [FetchNext]_fetchVars, kept' # kept
    PROVE  \E k \in Fetchers, e \in Editions :
             kept' = [kept EXCEPT ![fetch[k].version] = Metadata(Append(fetch[k].got, e), fetch[k].version)]
<1>1. ~Offer /\ ~Tick /\ ~UNCHANGED fetchVars
  BY Elsewhere
<1>2. PICK k \in Fetchers : Begins(k) \/ GoesOn(k) \/ \E e \in Editions : Uses(k, e)
  BY <1>1, FetchCases
<1>3. ~Begins(k) /\ ~GoesOn(k)
  BY Leaves
<1>4. PICK e \in Editions : Got(k, e)
  BY <1>2, <1>3 DEF Uses
<1> QED
  BY <1>4 DEF Got

LEMMA AnswersOf ==
    ASSUME NEW got \in Seq(Editions), NEW e \in Editions
    PROVE  Answers(Append(got, e)) /\ Append(got, e) \in Seq(Editions)
  BY DEF Answers

\* A request after a step: its answers are editions, and its digests those it had, or
\* those of the file it was begun for.
FetchGoes(x) ==
    /\ fetch'[x].got \in Seq(Editions)
    /\ fetch'[x].pc = "download" => fetch'[x].kind = "artifact"
    /\ fetch'[x].kind = "artifact" /\ fetch'[x].pc # "idle" =>
         \/ /\ fetch[x].kind = "artifact" /\ fetch[x].pc # "idle"
            /\ fetch'[x].file = fetch[x].file /\ fetch'[x].digests = fetch[x].digests
         \/ \E v \in AllVersions : \E file \in DOMAIN kept[v] :
              fetch'[x].file = file /\ fetch'[x].digests = kept[v][file]

LEMMA FetchBecomes ==
    ASSUME FetchInv, GotOK, [FetchNext]_fetchVars, NEW x \in Fetchers
    PROVE  FetchGoes(x)
<1>1. /\ DOMAIN fetch = Fetchers /\ fetch[x].got \in Seq(Editions) /\ IsFetch(fetch[x])
      /\ fetch[x].pc = "download" => fetch[x].kind = "artifact"
  BY DEF FetchInv, GotOK, FetchOK
<1>2. Resting.got \in Seq(Editions) /\ Resting.pc = "idle" /\ Resting.kind = "versions"
  BY DEF Resting
<1>3. CASE fetch'[x] = fetch[x]
  BY <1>1, <1>3 DEF FetchGoes
<1>4. CASE fetch'[x] = Resting
  BY <1>2, <1>4 DEF FetchGoes
<1>5. ASSUME NEW kind \in {"versions", "metadata", "artifact"}, NEW v, NEW file, Begin(x, kind, v, file),
             kind = "artifact" => v \in AllVersions /\ file \in DOMAIN kept[v]
      PROVE  FetchGoes(x)
  <2> DEFINE first == IF Reads(kind) = <<>> THEN "download" ELSE "read"
             digests == IF kind = "artifact" THEN kept[v][file] ELSE <<>>
             next == [Resting EXCEPT !.pc = first, !.kind = kind, !.version = v, !.file = file,
                                     !.digests = digests]
  <2>1. fetch'[x] = next
    BY <1>1, <1>5 DEF Begin
  <2>2. first = "download" => kind = "artifact"
    BY SourcesAssumption DEF GotOK, Reads, PypiReads, NpmReads, HexReads, CargoReads, MavenReads, NugetReads,
       GemReads, PubReads
  <2> HIDE DEF first
  <2>3. next.got = <<>> /\ next.kind = kind /\ next.file = file /\ next.digests = digests
        /\ next.pc = first
    BY DEF Resting
  <2> HIDE DEF next
  <2> QED
    BY <1>5, <2>1, <2>2, <2>3 DEF FetchGoes
<1>6. ASSUME fetch'[x] = [fetch[x] EXCEPT !.pc = "download"], fetch[x].pc # "idle",
             fetch[x].kind = "artifact"
      PROVE  FetchGoes(x)
  BY <1>1, <1>6 DEF IsFetch, Fields, FetchGoes
<1>7. ASSUME NEW e \in Editions, Got(x, e), fetch[x].pc # "idle" PROVE FetchGoes(x)
  <2> DEFINE got == Append(fetch[x].got, e)
             f == fetch[x]
             done == Len(got) = Len(Reads(f.kind))
             located == Located(x, e)
             next == IF ~done THEN [f EXCEPT !.pc = "read", !.got = got]
                     ELSE IF f.kind = "artifact" /\ located THEN [f EXCEPT !.pc = "download"]
                     ELSE Resting
  <2>1. fetch'[x] = next
    BY <1>1, <1>7 DEF Got
  <2>2. got \in Seq(Editions)
    BY <1>1, AnswersOf
  <2> HIDE DEF got, done, located
  <2>3. CASE fetch'[x] = [f EXCEPT !.pc = "read", !.got = got]
    BY <1>1, <1>7, <2>2, <2>3 DEF IsFetch, Fields, FetchGoes
  <2>4. CASE f.kind = "artifact" /\ fetch'[x] = [f EXCEPT !.pc = "download"]
    BY <1>6, <1>7, <2>4 DEF f
  <2> QED
    BY <1>4, <2>1, <2>3, <2>4
<1>8. ASSUME Ask(x) PROVE FetchGoes(x)
  <2> DEFINE next == [fetch[x] EXCEPT !.pc = "asked", !.answer = edition, !.wait = 0]
  <2>1. fetch'[x] = next /\ fetch[x].pc = "read"
    BY <1>1, <1>8 DEF Ask, MustRead, Doing
  <2> QED
    BY <1>1, <2>1 DEF IsFetch, Fields, FetchGoes
<1>9. ASSUME Tick PROVE FetchGoes(x)
  <2>1. fetch'[x] = IF Doing(x, "asked") THEN [fetch[x] EXCEPT !.wait = @ + 1] ELSE fetch[x]
    BY <1>9 DEF Tick
  <2>2. CASE fetch'[x] = [fetch[x] EXCEPT !.wait = @ + 1]
    BY <1>1, <2>2 DEF IsFetch, Fields, FetchGoes
  <2> QED
    BY <1>3, <2>1, <2>2
<1>10. ASSUME NEW k \in Fetchers, k # x, Begins(k) \/ GoesOn(k) \/ \E e \in Editions : Uses(k, e)
       PROVE  fetch'[x] = fetch[x]
  BY <1>10, Leaves DEF OtherFetchers
<1>11. ASSUME Begins(x) PROVE FetchGoes(x)
  BY <1>5, <1>11 DEF Begins, FetchVersions, FetchMetadata, FetchArtifact
<1>12. ASSUME UseUrl(x) PROVE FetchGoes(x)
  BY <1>1, <1>6, <1>12 DEF UseUrl, Doing
<1>13. ASSUME NEW e \in Editions, Uses(x, e) PROVE FetchGoes(x)
  <2>1. Got(x, e) /\ fetch[x].pc # "idle"
    BY <1>13 DEF Uses, FromCache, Keep, MustRead, Doing
  <2> QED
    BY <1>7, <2>1
<1>14. ASSUME Download(x) \/ FailFetch(x) PROVE FetchGoes(x)
  BY <1>1, <1>4, <1>14 DEF Download, FailFetch, Rest
<1>15. ASSUME Offer \/ UNCHANGED fetchVars PROVE FetchGoes(x)
  BY <1>3, <1>15 DEF Offer, fetchVars
<1>16. ASSUME GoesOn(x) PROVE FetchGoes(x)
  BY <1>8, <1>12, <1>14, <1>16 DEF GoesOn
<1>17. ASSUME NEW k \in Fetchers, Begins(k) \/ GoesOn(k) \/ \E e \in Editions : Uses(k, e) PROVE FetchGoes(x)
  <2>1. CASE k = x
    BY <1>11, <1>13, <1>16, <1>17, <2>1
  <2>2. CASE k # x
    BY <1>3, <1>10, <1>17, <2>2
  <2> QED
    BY <2>1, <2>2
<1> QED
  BY <1>9, <1>15, <1>17, FetchCases

LEMMA GotStep == ASSUME FetchInv, GotOK, [FetchNext]_fetchVars PROVE GotOK'
<1>1. client' = client /\ DOMAIN kept' = AllVersions
  <2>1. client' = client
    BY BytesBecome
  <2>2. DOMAIN kept' = DOMAIN kept
    BY KeptBecomes
  <2> QED
    BY <2>1, <2>2 DEF GotOK
<1>2. DOMAIN bytes' = AllFiles
  <2>1. CASE bytes' = bytes
    BY <2>1 DEF GotOK
  <2>2. CASE bytes' # bytes
    <3>1. PICK k \in Fetchers : Download(k)
      BY <2>2, BytesBecome
    <3> QED
      BY <3>1 DEF Download, GotOK
  <2> QED
    BY <2>1, <2>2
<1>3. \A k \in Fetchers : fetch'[k].got \in Seq(Editions) /\ (fetch'[k].pc = "download" => fetch'[k].kind = "artifact")
  BY FetchBecomes DEF FetchGoes
<1> QED
  BY <1>1, <1>2, <1>3 DEF GotOK

\* The metadata after a step: what was kept, or what was made of the answers.
LEMMA MetadataBecomes ==
    ASSUME FetchInv, GotOK, [FetchNext]_fetchVars, NEW v \in AllVersions, kept'[v] # kept[v]
    PROVE  \E got : Answers(got) /\ kept'[v] = Metadata(got, v)
<1>1. PICK k \in Fetchers, e \in Editions :
        kept' = [kept EXCEPT ![fetch[k].version] = Metadata(Append(fetch[k].got, e), fetch[k].version)]
  BY KeptBecomes
<1>2. v = fetch[k].version /\ kept'[v] = Metadata(Append(fetch[k].got, e), v)
  BY <1>1 DEF GotOK
<1>3. Answers(Append(fetch[k].got, e))
  BY AnswersOf DEF GotOK
<1> QED
  BY <1>2, <1>3

LEMMA AcceptsStep ==
    ASSUME FetchInv, GotOK, GenuineIsAccepted, [FetchNext]_fetchVars
    PROVE  GenuineIsAccepted'
<1>1. client' = client
  BY BytesBecome
<1>2. ASSUME NEW v \in AllVersions, NEW file \in DOMAIN kept'[v]
      PROVE  Verified(file, kept'[v][file]) \/ Unused(v, file)
  <2>1. CASE kept'[v] = kept[v]
    BY <1>2, <2>1 DEF GenuineIsAccepted, Unused
  <2>2. CASE kept'[v] # kept[v]
    <3>1. PICK got : Answers(got) /\ kept'[v] = Metadata(got, v)
      BY <2>2, MetadataBecomes
    <3> QED
      BY <1>2, <3>1, AcceptingMetadata DEF GotOK
  <2> QED
    BY <2>1, <2>2
<1>3. ASSUME NEW v, NEW file PROVE Unused(v, file)' <=> Unused(v, file)
  BY <1>1 DEF Unused, Unusable
<1> QED
  BY <1>2, <1>3 DEF GenuineIsAccepted, Unused

\* What is strict stays so: the client is the one it was.
LEMMA StrictStays ==
    ASSUME client' = client, NEW file, NEW digests
    PROVE  Strict(file, digests)' <=> Strict(file, digests)
  BY DEF Strict, Announced

LEMMA StrictStep ==
    ASSUME StableReleases, FetchInv, GotOK, StrictOK, [FetchNext]_fetchVars
    PROVE  StrictOK'
<1>1. client' = client
  BY BytesBecome
<1>2. ASSUME NEW v \in AllVersions, NEW file \in DOMAIN kept'[v]
      PROVE  Strict(file, kept'[v][file])
  <2>1. CASE kept'[v] = kept[v]
    BY <1>2, <2>1 DEF StrictOK
  <2>2. CASE kept'[v] # kept[v]
    <3>1. PICK got : Answers(got) /\ kept'[v] = Metadata(got, v)
      BY <2>2, MetadataBecomes
    <3> QED
      BY <1>2, <3>1, StrictMetadata
  <2> QED
    BY <2>1, <2>2
<1>3. ASSUME NEW k \in Fetchers, fetch'[k].kind = "artifact", fetch'[k].pc # "idle"
      PROVE  Strict(fetch'[k].file, fetch'[k].digests)
  BY <1>3, FetchBecomes DEF FetchGoes, StrictOK
<1>4. ASSUME NEW v \in AllVersions, NEW file \in DOMAIN kept'[v]
      PROVE  Strict(file, kept[v][file])'
  BY <1>1, <1>2, <1>4 DEF Strict, Announced
<1>5. ASSUME NEW k \in Fetchers, fetch'[k].kind = "artifact", fetch'[k].pc # "idle"
      PROVE  Strict(fetch[k].file, fetch[k].digests)'
  BY <1>1, <1>3, <1>5 DEF Strict, Announced
<1> QED
  BY <1>4, <1>5 DEF StrictOK

\* verify_upstream_hash: what arrives is kept if the digests in hand let it through.
LEMMA AnnouncedStep ==
    ASSUME FetchInv, GotOK, StrictOK, KeptIsAnnounced, [FetchNext]_fetchVars
    PROVE  KeptIsAnnounced'
<1>1. client' = client
  BY BytesBecome
<1> SUFFICES ASSUME client \in {"pypi", "npm", "cargo", "pub"}, NEW file \in AllFiles, Announced(file)
             PROVE  bytes'[file] \in {Other, file}
  BY <1>1 DEF KeptIsAnnounced, Announced
<1>2. CASE bytes' = bytes
  BY <1>2 DEF KeptIsAnnounced
<1>3. CASE bytes' # bytes
  <2>1. PICK k \in Fetchers : Download(k)
    BY <1>3, BytesBecome
  <2>2. PICK data : bytes' = IF Verified(data, fetch[k].digests)
                             THEN [bytes EXCEPT ![fetch[k].file] = data] ELSE bytes
    BY <2>1 DEF Download
  <2>3. Verified(data, fetch[k].digests) /\ bytes' = [bytes EXCEPT ![fetch[k].file] = data]
    BY <1>3, <2>2
  <2>4. Strict(fetch[k].file, fetch[k].digests)
    BY <2>1 DEF Download, Doing, StrictOK, GotOK
  <2>5. CASE file = fetch[k].file
    BY <2>3, <2>4, <2>5 DEF Strict, GotOK
  <2>6. CASE file # fetch[k].file
    BY <2>3, <2>6 DEF KeptIsAnnounced, GotOK
  <2> QED
    BY <2>5, <2>6
<1> QED
  BY <1>2, <1>3

LEMMA KeepsNothing ==
    FetchInit => GotOK /\ StrictOK /\ GenuineIsAccepted /\ KeptIsAnnounced
<1> SUFFICES ASSUME FetchInit PROVE GotOK /\ StrictOK /\ GenuineIsAccepted /\ KeptIsAnnounced
  OBVIOUS
<1>1. \A k \in Fetchers : fetch[k].got \in Seq(Editions) /\ fetch[k].pc = "idle"
  <2>1. Resting.got = <<>> /\ Resting.pc = "idle"
    BY DEF Resting
  <2>2. \A k \in Fetchers : fetch[k] = Resting
    BY DEF FetchInit
  <2>3. <<>> \in Seq(Editions)
    OBVIOUS
  <2> QED
    BY <2>1, <2>2, <2>3, Zenon
<1>2. \A v \in AllVersions : kept[v] = <<>> /\ DOMAIN kept[v] = {}
  BY DEF FetchInit
<1>3. \A file \in AllFiles : bytes[file] = Other
  BY DEF FetchInit
<1>4. client \in Sources /\ DOMAIN kept = AllVersions /\ DOMAIN bytes = AllFiles
  BY DEF FetchInit
<1> QED
  BY <1>1, <1>2, <1>3, <1>4 DEF GotOK, StrictOK, GenuineIsAccepted, KeptIsAnnounced, AllFiles

\* What a client keeps of a file whose digest upstream announces is that file, of the four
\* that read releases and digests off one document, when upstream announces a release once.
\* What is overwritten in upstream under the same version, or gets its digest later, is not
\* noticed, as metadata is kept for ever.
THEOREM OnlyAnnounced == ASSUME StableReleases PROVE FetchSpec => []KeptIsAnnounced
<1>1. FetchInit => FetchInv /\ GotOK /\ StrictOK /\ KeptIsAnnounced
  BY FetchInvInit, KeepsNothing
<1>2. FetchInv /\ GotOK /\ StrictOK /\ KeptIsAnnounced /\ [FetchNext]_fetchVars
        => (FetchInv /\ GotOK /\ StrictOK /\ KeptIsAnnounced)'
  BY FetchStep, GotStep, StrictStep, AnnouncedStep
<1> QED
  BY <1>1, <1>2, PTL DEF FetchSpec

\* The genuine file is never refused for good, whatever the edition each document is of,
\* but where some edition has no digest of it that the client can use (fetch_metadata of
\* each client).
THEOREM GenuineAccepted == FetchSpec => []GenuineIsAccepted
<1>1. FetchInit => FetchInv /\ GotOK /\ GenuineIsAccepted
  BY FetchInvInit, KeepsNothing
<1>2. FetchInv /\ GotOK /\ GenuineIsAccepted /\ [FetchNext]_fetchVars
        => (FetchInv /\ GotOK /\ GenuineIsAccepted)'
  BY FetchStep, GotStep, AcceptsStep
<1> QED
  BY <1>1, <1>2, PTL DEF FetchSpec

-----------------------------------------------------------------------------
(* The protocol documents: the invariant, in parts *)

\* The registries that build an index over the service's list, or answer from it, and
\* those that have a second document for a package.
Rebuilders == {"npm", "pypi", "hex", "pub", "nuget"}
TwoDocuments == registry \in {"rubygems", "hex"}
Second(key) == key[1] # "package"

OpFields == {"pc", "release", "key", "step", "again", "base", "doc", "before"}
IsOp(o) == DOMAIN o = OpFields /\ o = [i \in OpFields |-> o[i]]

Readable(n) == document[Package(n)] \notin {None, {}}
Backed(S) == \A n \in Names : Of(n, S \ Upstream) # {} => Readable(n)

DocumentOK(key) ==
    document[key] # None =>
      /\ Second(key) => TwoDocuments /\ Backed(document[key])
      /\ TwoDocuments /\ ~Second(key) => document[key] # {}

ListOK(versions) == versions = None \/ (versions \subseteq Versions /\ versions # {})

StateOK ==
    /\ registry \in Registries /\ mount \in Mounts
    /\ listed \in [Names -> (SUBSET Versions) \cup {None}] /\ \A n \in Names : listed[n] # {}
    /\ document \in [Keys -> (SUBSET Releases) \cup {None}] /\ \A key \in Keys : DocumentOK(key)
    /\ published \subseteq stored /\ stored \subseteq Releases /\ dropped \subseteq published
    /\ \A r \in published \ dropped : listed[r[1]] # None /\ r[2] \in listed[r[1]]
    /\ memory \subseteq Names /\ \A n \in memory : Of(n, Upstream) # {}
    /\ faults \in 0..MaxFaults

\* A publish that would take its metadata back is of a release that is not published.
PublisherOK(o) ==
    o.pc \in Publishing =>
      /\ o.release \in stored /\ ListOK(o.base)
      /\ o.step = 0 \/ o.step = Len(Documents(o.release[1]))
      /\ o.again \/ o.release \notin published
      /\ o.pc = "keep" => o.doc # {}

\* The second document is about to be written when the first is there.
WriterOK(o) ==
    o.pc \in {"read", "put"} =>
      /\ o.release \in published /\ o.step \in DOMAIN Documents(o.release[1])
      /\ o.step = 2 => Readable(o.release[1])
      /\ o.pc = "put" => o.doc # {} /\ (o.step = 2 => Backed(o.doc))

\* A request for an index is of a package; before is what was published of it.
IndexOK(o) ==
    LET n == o.release[1] IN
    o.pc \in {"list", "save", "collect", "fetch", "answer"} =>
      /\ n \in Names /\ o.before \subseteq Of(n, published)
      /\ o.pc \in {"list", "save", "collect"} => registry = "nuget" \/ o.key = Package(n)
      /\ o.pc = "save" => Of(n, Upstream) # {}
      /\ o.pc = "collect" => registry # "nuget"
      /\ o.pc = "fetch" => /\ o.key \in Keys /\ ~Rebuilt(o.key) /\ (Second(o.key) => TwoDocuments)
                           /\ registry = "rubygems" \/ o.key \in {Package(n), RegistryEntry(n)}
      /\ o.pc = "answer" /\ registry # "nuget" =>
           /\ o.key \in Keys /\ (TwoDocuments => o.doc # {})
           /\ Second(o.key) => TwoDocuments /\ o.doc \subseteq Upstream
      /\ /\ o.pc = "answer" /\ registry \in Rebuilders /\ o.key # RegistryEntry(n) /\ Of(n, Upstream) = {}
         => o.before \ dropped \subseteq o.doc

Labels == Publishing \cup {"idle", "read", "put", "list", "save", "collect", "fetch", "answer"}

OpOK(k) ==
    /\ IsOp(op[k]) /\ op[k].pc \in Labels
    /\ op[k].pc = "idle" => op[k] = Idle
    /\ op[k].doc \subseteq Releases /\ op[k].before \subseteq published
    /\ PublisherOK(op[k]) /\ WriterOK(op[k]) /\ IndexOK(op[k])

\* The publish lock of a release is one request's.
OnePublishes ==
    \A k, u \in Clients :
        k # u /\ op[k].pc \in Publishing /\ op[u].pc \in Publishing => op[k].release # op[u].release

DocInv ==
    /\ StateOK
    /\ DOMAIN op = Clients
    /\ \A k \in Clients : OpOK(k)
    /\ OnePublishes

\* The documents of a package are keys, one or two of them, that of the package first.
LEMMA KeysShape ==
    ASSUME NEW n \in Names
    PROVE  /\ Package(n) \in Keys /\ RegistryEntry(n) \in Keys /\ EveryGem \in Keys
           /\ ~Second(Package(n)) /\ Second(RegistryEntry(n)) /\ Second(EveryGem)
BY DEF Keys, Second, Package, RegistryEntry, EveryGem

LEMMA DocumentsShape ==
    ASSUME NEW n \in Names
    PROVE  /\ Len(Documents(n)) \in 0..2 /\ DOMAIN Documents(n) = 1 .. Len(Documents(n))
           /\ \A i \in DOMAIN Documents(n) : i = 1 \/ i = 2
           /\ 1 \in DOMAIN Documents(n) => Documents(n)[1] = Package(n)
           /\ 2 \in DOMAIN Documents(n) =>
                TwoDocuments /\ Documents(n)[2] \in Keys /\ Second(Documents(n)[2])
<1>1. PICK a, b : a = Package(n) /\ b = IF registry = "hex" THEN RegistryEntry(n) ELSE EveryGem
  OBVIOUS
<1>2. a \in Keys /\ b \in Keys /\ Second(b)
  BY <1>1, KeysShape
<1>3. CASE registry \in {"rubygems", "hex"}
  <2>1. Documents(n) = <<a, b>> /\ TwoDocuments
    BY <1>1, <1>3 DEF Documents, TwoDocuments
  <2>2. Len(Documents(n)) = 2 /\ DOMAIN Documents(n) = 1 .. 2 /\ Documents(n)[1] = a /\ Documents(n)[2] = b
    BY <2>1
  <2>3. \A i \in 1 .. 2 : i = 1 \/ i = 2
    OBVIOUS
  <2> QED BY <1>1, <1>2, <2>1, <2>2, <2>3
<1>4. CASE registry \in {"cargo", "npm"}
  <2>1. Documents(n) = <<a>>
    BY <1>1, <1>4 DEF Documents
  <2>2. Len(Documents(n)) = 1 /\ DOMAIN Documents(n) = 1 .. 1 /\ Documents(n)[1] = a
    BY <2>1
  <2>3. 2 \notin 1 .. 1 /\ \A i \in 1 .. 1 : i = 1
    OBVIOUS
  <2>4. Len(Documents(n)) \in 0..2 /\ DOMAIN Documents(n) = 1 .. Len(Documents(n))
    BY <2>2
  <2> QED BY <1>1, <2>2, <2>3, <2>4
<1>5. CASE registry \notin {"cargo", "npm", "hex", "rubygems"}
  <2>1. Documents(n) = <<>>
    BY <1>5 DEF Documents
  <2>2. Len(Documents(n)) = 0 /\ DOMAIN Documents(n) = 1 .. 0 /\ 1 .. 0 = {}
    BY <2>1
  <2> QED BY <2>2
<1> QED BY <1>3, <1>4, <1>5

\* What is fetched from upstream and what is listed are no marker for their absence.
LEMMA NotNone ==
    /\ \A S \in SUBSET Releases : S # None
    /\ \A S \in SUBSET Versions : S # None
BY NoneAssumption

\* What is published, and the package documents of those that have a second one, stay.
Grows ==
    /\ UNCHANGED <<registry, mount>> /\ published \subseteq published' /\ dropped \subseteq dropped'
    /\ TwoDocuments => \A n \in Names : Readable(n) => Readable(n)'

\* A publish keeps its metadata, and its release is published by no other.
Undisturbed(o) ==
    o.pc \in Publishing =>
        o.release \in stored' /\ (o.again \/ o.release \notin published')

LEMMA SameDocuments ==
    ASSUME registry' = registry
    PROVE  /\ \A n : Documents(n)' = Documents(n)
           /\ TwoDocuments' = TwoDocuments /\ Merges' = Merges
           /\ \A key : Rebuilt(key)' = Rebuilt(key) /\ Second(key)' = Second(key)
BY DEF Documents, TwoDocuments, Merges, Rebuilt, Second

LEMMA BackedStays ==
    ASSUME Grows, TwoDocuments, NEW S, Backed(S) PROVE Backed(S)'
BY DEF Grows, Backed, Of

LEMMA WriterStays ==
    ASSUME Grows, published \subseteq Releases, NEW o, WriterOK(o)
    PROVE  WriterOK(o)'
<1> SUFFICES ASSUME o.pc \in {"read", "put"} PROVE WriterOK(o)'
  BY DEF WriterOK
<1>1. registry' = registry /\ published \subseteq published'
  BY DEF Grows
<1>2. /\ o.release \in published /\ o.step \in DOMAIN Documents(o.release[1]) /\ o.release[1] \in Names
      /\ o.step = 2 => Readable(o.release[1])
      /\ o.pc = "put" => o.doc # {} /\ (o.step = 2 => Backed(o.doc))
  BY DEF WriterOK, Releases
<1>3. ASSUME o.step = 2 PROVE Readable(o.release[1])' /\ (o.pc = "put" => Backed(o.doc)')
  <2>1. TwoDocuments
    BY <1>2, <1>3, DocumentsShape
  <2> QED BY <1>2, <1>3, <2>1, BackedStays DEF Grows
<1>4. Documents(o.release[1])' = Documents(o.release[1])
  BY <1>1, SameDocuments
<1> QED BY <1>1, <1>2, <1>3, <1>4 DEF WriterOK

LEMMA IndexStays ==
    ASSUME Grows, NEW o, IndexOK(o)
    PROVE  IndexOK(o)'
<1> SUFFICES ASSUME o.pc \in {"list", "save", "collect", "fetch", "answer"} PROVE IndexOK(o)'
  BY DEF IndexOK
<1>1. registry' = registry /\ published \subseteq published' /\ dropped \subseteq dropped'
  BY DEF Grows
<1>2. o.before \subseteq Of(o.release[1], published')
  BY <1>1 DEF IndexOK, Of
<1>3. /\ Rebuilt(o.key)' = Rebuilt(o.key) /\ TwoDocuments' = TwoDocuments
      /\ Second(o.key)' = Second(o.key)
  BY <1>1, SameDocuments
<1>4. o.before \ dropped \subseteq o.doc => o.before \ dropped' \subseteq o.doc
  BY <1>1
<1> QED BY <1>1, <1>2, <1>3, <1>4 DEF IndexOK

LEMMA OpStays ==
    ASSUME Grows, published \subseteq Releases, NEW u \in Clients, OpOK(u), op'[u] = op[u], Undisturbed(op[u])
    PROVE  OpOK(u)'
<1>1. PICK o : o = op[u]
  OBVIOUS
<1>2. WriterOK(o)' /\ IndexOK(o)'
  BY <1>1, WriterStays, IndexStays DEF OpOK
<1>3. op'[u] = o /\ published \subseteq published'
  BY <1>1 DEF Grows
<1>4. PublisherOK(o)'
  BY <1>1, SameDocuments DEF Grows, OpOK, PublisherOK, Undisturbed, ListOK
<1>5. PublisherOK(op[u])' /\ WriterOK(op[u])' /\ IndexOK(op[u])'
  BY <1>2, <1>3, <1>4 DEF PublisherOK, ListOK, WriterOK, Backed, Readable, IndexOK
<1> QED BY <1>1, <1>3, <1>5 DEF OpOK

\* The lock is kept, or was free.
Locks(k) ==
    op'[k].pc \in Publishing =>
      \/ op[k].pc \in Publishing /\ op'[k].release = op[k].release
      \/ \A u \in Clients : op[u].pc \in Publishing => op[u].release # op'[k].release

\* It is enough to look at the request that moves.
LEMMA DocOfStep ==
    ASSUME DocInv, NEW k \in Clients, Grows, StateOK', DOMAIN op' = Clients,
           \A u \in Clients \ {k} : op'[u] = op[u] /\ Undisturbed(op[u]),
           OpOK(k)', Locks(k)
    PROVE  DocInv'
<1>1. \A u \in Clients \ {k} : OpOK(u)'
  BY OpStays DEF DocInv, StateOK
<1>2. OnePublishes'
  <2> SUFFICES ASSUME NEW x \in Clients, NEW u \in Clients, x # u,
                      op'[x].pc \in Publishing, op'[u].pc \in Publishing
               PROVE  op'[x].release # op'[u].release
    BY DEF OnePublishes, Publishing
  <2>1. CASE x # k /\ u # k
    BY <2>1 DEF DocInv, OnePublishes
  <2>2. ASSUME NEW y \in Clients \ {k}, op'[y].pc \in Publishing, op'[k].pc \in Publishing
        PROVE  op'[y].release # op'[k].release
    BY <2>2 DEF DocInv, OnePublishes, Locks
  <2> QED BY <2>1, <2>2
<1> QED BY <1>1, <1>2 DEF DocInv

-----------------------------------------------------------------------------
(* Steps of a request *)

LEMMA IdleShape ==
    /\ IsOp(Idle) /\ Idle.pc = "idle" /\ Idle.doc = {} /\ Idle.before = {} /\ Idle.key = None
    /\ Idle.step = 0 /\ Idle.again = FALSE /\ Idle.base = None
    /\ PublisherOK(Idle) /\ WriterOK(Idle) /\ IndexOK(Idle)
<1>1. /\ IsOp(Idle) /\ Idle.pc = "idle" /\ Idle.doc = {} /\ Idle.before = {} /\ Idle.key = None
      /\ Idle.step = 0 /\ Idle.again = FALSE /\ Idle.base = None
  BY DEF IsOp, OpFields, Idle
<1> QED BY <1>1 DEF PublisherOK, Publishing, WriterOK, IndexOK

\* What a request has in hand next.
LEMMA OpIs ==
    ASSUME DOMAIN op = Clients, NEW k \in Clients, NEW o, op' = [op EXCEPT ![k] = o],
           IsOp(o), o.pc \in Labels, o.pc = "idle" => o = Idle,
           o.doc \subseteq Releases, o.before \subseteq published',
           PublisherOK(o)', WriterOK(o)', IndexOK(o)'
    PROVE  /\ OpOK(k)' /\ DOMAIN op' = Clients /\ op'[k] = o
           /\ \A u \in Clients \ {k} : op'[u] = op[u]
<1>1. op'[k] = o
  OBVIOUS
<1>2. PublisherOK(op[k])' /\ WriterOK(op[k])' /\ IndexOK(op[k])'
  BY <1>1 DEF PublisherOK, ListOK, WriterOK, Backed, Readable, IndexOK
<1> QED BY <1>1, <1>2 DEF OpOK, Labels

\* A step of a request that changes no object.
LEMMA QuietOp ==
    ASSUME DocInv, NEW k \in Clients, NEW o, op' = [op EXCEPT ![k] = o],
           UNCHANGED <<fixed, service, document>>, faults' \in 0..MaxFaults,
           IsOp(o), o.pc \in Labels, o.pc = "idle" => o = Idle,
           o.doc \subseteq Releases, o.before \subseteq published,
           PublisherOK(o), WriterOK(o), IndexOK(o),
           o.pc \in Publishing => op[k].pc \in Publishing /\ o.release = op[k].release
    PROVE  DocInv'
<1>1. UNCHANGED <<registry, mount, listed, memory, document, stored, published, dropped>>
  BY DEF fixed, service, list
<1>2. Grows
  BY <1>1 DEF Grows, Readable, Package
<1>3. PublisherOK(o)'
  BY <1>1, SameDocuments DEF PublisherOK, ListOK
<1>4. OpOK(k)' /\ DOMAIN op' = Clients /\ op'[k] = o /\ \A u \in Clients \ {k} : op'[u] = op[u]
  BY <1>1, <1>2, <1>3, OpIs, WriterStays, IndexStays DEF DocInv, StateOK
<1>5. StateOK'
  BY <1>1 DEF DocInv, StateOK, DocumentOK, TwoDocuments, Backed, Readable
<1>6. \A u \in Clients : Undisturbed(op[u])
  BY <1>1 DEF DocInv, OpOK, PublisherOK, Undisturbed
<1>7. Locks(k)
  BY <1>4 DEF Locks
<1> QED BY <1>2, <1>4, <1>5, <1>6, <1>7, DocOfStep

LEMMA QuietReturn ==
    ASSUME DocInv, NEW k \in Clients, Return(k),
           UNCHANGED <<fixed, service, document>>, faults' \in 0..MaxFaults
    PROVE  DocInv'
<1>1. op' = [op EXCEPT ![k] = Idle]
  BY DEF Return
<1> QED BY <1>1, IdleShape, QuietOp DEF Labels, Publishing

LEMMA DocOfCut == ASSUME DocInv, NEW k \in Clients, Cut(k) PROVE DocInv'
<1>1. faults' \in 0..MaxFaults
  BY FaultsAssumption DEF Cut, DocInv, StateOK
<1> QED BY <1>1, QuietReturn DEF Cut


-----------------------------------------------------------------------------
(* Steps of a publish *)

\* Of an operation the part that a step changes.
Takes(k, p, d) == op' = [op EXCEPT ![k].pc = p, ![k].doc = d]

LEMMA NextOp ==
    ASSUME DocInv, NEW k \in Clients, NEW p, NEW d, Takes(k, p, d)
    PROVE  \E o : /\ op' = [op EXCEPT ![k] = o] /\ IsOp(o) /\ o.pc = p /\ o.doc = d
                  /\ o.release = op[k].release /\ o.key = op[k].key /\ o.before = op[k].before
                  /\ o.step = op[k].step /\ o.again = op[k].again /\ o.base = op[k].base
<1>1. PICK f : f = op[k] /\ IsOp(f)
  BY DEF DocInv, OpOK
<1> DEFINE o == [f EXCEPT !.pc = p, !.doc = d]
<1>2. op' = [op EXCEPT ![k] = o]
  BY <1>1 DEF Takes
<1>3. /\ IsOp(o) /\ o.pc = p /\ o.doc = d
      /\ o.release = f.release /\ o.key = f.key /\ o.before = f.before
      /\ o.step = f.step /\ o.again = f.again /\ o.base = f.base
  BY <1>1 DEF IsOp, OpFields
<1> HIDE DEF o
<1> QED BY <1>1, <1>2, <1>3

\* The documents are left alone.
LEMMA NoDocument ==
    ASSUME DocInv, UNCHANGED <<registry, document>>
    PROVE  /\ document' \in [Keys -> (SUBSET Releases) \cup {None}] /\ \A key \in Keys : DocumentOK(key)'
           /\ \A n \in Names : Readable(n) => Readable(n)'
BY DEF DocInv, StateOK, DocumentOK, TwoDocuments, Backed, Readable

\* A list that is written has the published releases that are not dropped.
LEMMA OfWriteList ==
    ASSUME DocInv, NEW n \in Names, NEW V, ListOK(V), WriteList(n, V)
    PROVE  /\ listed' \in [Names -> (SUBSET Versions) \cup {None}] /\ (\A m \in Names : listed'[m] # {})
           /\ listed'[n] = V
           /\ dropped \subseteq dropped' /\ dropped' \subseteq published
           /\ \A r \in published \ dropped' : listed'[r[1]] # None /\ r[2] \in listed'[r[1]]
<1>1. /\ listed \in [Names -> (SUBSET Versions) \cup {None}] /\ (\A m \in Names : listed[m] # {})
      /\ published \subseteq Releases /\ dropped \subseteq published
      /\ \A r \in published \ dropped : listed[r[1]] # None /\ r[2] \in listed[r[1]]
  BY DEF DocInv, StateOK
<1>2. V \in (SUBSET Versions) \cup {None} /\ V # {}
  BY NotNone DEF ListOK
<1>3. listed' = [listed EXCEPT ![n] = V]
  BY DEF WriteList
<1>4. /\ listed' \in [Names -> (SUBSET Versions) \cup {None}] /\ listed'[n] = V
      /\ \A m \in Names \ {n} : listed'[m] = listed[m]
  BY <1>1, <1>2, <1>3
<1>5. /\ dropped' = dropped \cup {r \in Of(n, published) : V = None \/ r[2] \notin V}
      /\ Of(n, published) \subseteq published
  BY DEF WriteList, Of
<1>6. ASSUME NEW r \in published \ dropped' PROVE listed'[r[1]] # None /\ r[2] \in listed'[r[1]]
  <2>1. r[1] \in Names
    BY <1>1 DEF Releases
  <2>2. CASE r[1] = n
    <3>1. r \in Of(n, published)
      BY <2>2 DEF Of
    <3> QED BY <1>4, <1>5, <2>2, <3>1
  <2>3. CASE r[1] # n
    BY <1>1, <1>4, <1>5, <2>1, <2>3
  <2> QED BY <2>2, <2>3
<1>7. \A m \in Names : listed'[m] # {}
  BY <1>1, <1>2, <1>4
<1> QED BY <1>1, <1>4, <1>5, <1>6, <1>7

\* The metadata of a release is written by the one publish that has its lock.
LEMMA DocOfPublishPackage ==
    ASSUME DocInv, NEW k \in Clients, NEW r \in Releases, NEW overwrite, NEW step,
           step = 0 \/ step = Len(Documents(r[1])),
           PublishPackage(k, r, overwrite, step)
    PROVE  DocInv'
<1>1. PICK w \in BOOLEAN : w <=> r \in stored
  BY Zenon
<1> DEFINE o == [Idle EXCEPT !.pc = "load", !.release = r, !.step = step, !.again = w]
<1>2. op' = [op EXCEPT ![k] = [Idle EXCEPT !.pc = "load", !.release = r, !.step = step, !.again = r \in stored]]
  BY DEF PublishPackage
<1>3. (r \in stored) = w
  BY <1>1
<1>4. /\ op' = [op EXCEPT ![k] = o] /\ stored' = stored \cup {r}
      /\ UNCHANGED <<registry, mount, listed, dropped, document, published, faults>>
      /\ \A u \in Clients : op[u].pc \in Publishing => op[u].release # r
  BY <1>2, <1>3 DEF PublishPackage, fixed, list
<1>5. /\ IsOp(o) /\ o.pc = "load" /\ o.release = r /\ o.step = step /\ o.doc = {} /\ o.before = {}
      /\ o.base = None /\ o.again = w
  BY DEF IsOp, OpFields, Idle
<1> HIDE DEF o
<1>6. w \/ r \notin published
  BY <1>1 DEF DocInv, StateOK
<1>7. Documents(r[1])' = Documents(r[1])
  BY <1>4, SameDocuments
<1>8. WriterOK(o)' /\ IndexOK(o)'
  BY <1>5 DEF WriterOK, IndexOK
<1>9. (o.again \/ r \notin published)'
  BY <1>4, <1>5, <1>6, Zenon
<1>10. PublisherOK(o)'
  BY <1>4, <1>5, <1>7, <1>9 DEF PublisherOK, ListOK
<1>11. o.pc \in Labels /\ o.pc # "idle"
  BY <1>5 DEF Labels, Publishing
<1>12. OpOK(k)' /\ DOMAIN op' = Clients /\ op'[k] = o /\ \A u \in Clients \ {k} : op'[u] = op[u]
  BY <1>4, <1>5, <1>8, <1>10, <1>11, OpIs DEF DocInv
<1>13. Grows
  BY <1>4, NoDocument DEF Grows
<1>14. memory' \subseteq Names /\ \A m \in memory' : Of(m, Upstream) # {}
  <2>1. r[1] \in Names
    BY DEF Releases
  <2> QED BY <2>1 DEF PublishPackage, DocInv, StateOK
<1>15. StateOK'
  BY <1>4, <1>14, NoDocument DEF DocInv, StateOK
<1>16. \A u \in Clients : Undisturbed(op[u])
  BY <1>4 DEF DocInv, OpOK, PublisherOK, Undisturbed
<1>17. Locks(k)
  BY <1>4, <1>5, <1>12 DEF Locks
<1> QED BY <1>12, <1>13, <1>15, <1>16, <1>17, DocOfStep

\* What a publish has at hand.
LEMMA PublishesOf ==
    ASSUME DocInv, NEW k \in Clients, op[k].pc \in Publishing
    PROVE  /\ op[k].release \in stored /\ op[k].release \in Releases
           /\ op[k].release[1] \in Names /\ op[k].release[2] \in Versions
           /\ ListOK(op[k].base) /\ op[k].doc \subseteq Releases /\ op[k].before \subseteq published
           /\ op[k].step = 0 \/ op[k].step = Len(Documents(op[k].release[1]))
           /\ op[k].again \/ op[k].release \notin published
           /\ op[k].pc = "keep" => op[k].doc # {}
<1>1. OpOK(k) /\ stored \subseteq Releases
  BY DEF DocInv, StateOK
<1>2. op[k].release \in Releases
  BY <1>1 DEF OpOK, PublisherOK
<1> QED BY <1>1, <1>2 DEF OpOK, PublisherOK, Releases

LEMMA DocOfLoadVersions == ASSUME DocInv, NEW k \in Clients, LoadVersions(k) PROVE DocInv'
<1> DEFINE r == op[k].release
           versions == IF listed[r[1]] # None THEN listed[r[1]] ELSE UpstreamVersions(r[1])
<1>1. PICK d : d = {r[1]} \X (versions \cup {r[2]})
  OBVIOUS
<1>2. /\ op[k].pc = "load" /\ Takes(k, "keep", d)
      /\ UNCHANGED <<fixed, service, document, faults>>
  BY <1>1 DEF LoadVersions, Takes
<1>3. op[k].pc \in Publishing
  BY <1>2 DEF Publishing
<1>4. versions \subseteq Versions
  BY <1>3, PublishesOf, UpstreamAssumption DEF UpstreamVersions, Of, Releases, DocInv, StateOK
<1>5. d \subseteq Releases /\ d # {}
  BY <1>1, <1>3, <1>4, PublishesOf DEF Releases
<1>6. PICK o : /\ op' = [op EXCEPT ![k] = o] /\ IsOp(o) /\ o.pc = "keep" /\ o.doc = d
               /\ o.release = op[k].release /\ o.key = op[k].key /\ o.before = op[k].before
               /\ o.step = op[k].step /\ o.again = op[k].again /\ o.base = op[k].base
  BY <1>2, NextOp
<1>7. PublisherOK(o) /\ WriterOK(o) /\ IndexOK(o)
  BY <1>3, <1>5, <1>6, PublishesOf DEF PublisherOK, WriterOK, IndexOK
<1>8. faults' \in 0..MaxFaults /\ o.before \subseteq published
  BY <1>2, <1>3, <1>6, PublishesOf DEF DocInv, StateOK
<1>9. o.pc \in Labels /\ o.pc # "idle"
  BY <1>6 DEF Labels, Publishing
<1> QED BY <1>2, <1>3, <1>5, <1>6, <1>7, <1>8, <1>9, QuietOp

LEMMA DocOfPutVersions == ASSUME DocInv, NEW k \in Clients, PutVersions(k) PROVE DocInv'
<1>1. PICK f : f = op[k] /\ IsOp(f)
  BY DEF DocInv, OpOK
<1>2. PICK n \in Names : n = op[k].release[1]
  BY PublishesOf DEF PutVersions, Publishing
<1>3. PICK base : base = listed[n]
  OBVIOUS
<1> DEFINE o == [f EXCEPT !.pc = "commit", !.doc = {}, !.base = base]
<1>4. /\ f.pc = "keep" /\ WriteList(n, {r[2] : r \in f.doc}) /\ op' = [op EXCEPT ![k] = o]
      /\ UNCHANGED <<registry, mount, memory, stored, published, document, faults>>
  BY <1>1, <1>2, <1>3 DEF PutVersions, fixed
<1>5. /\ IsOp(o) /\ o.pc = "commit" /\ o.doc = {} /\ o.base = base
      /\ o.release = f.release /\ o.key = f.key /\ o.before = f.before
      /\ o.step = f.step /\ o.again = f.again
  BY <1>1 DEF IsOp, OpFields
<1> HIDE DEF o
<1>6. f.pc \in Publishing
  BY <1>4 DEF Publishing
<1>7. ListOK({r[2] : r \in f.doc})
  BY <1>1, <1>4, <1>6, PublishesOf DEF ListOK, Releases
<1>8. /\ listed' \in [Names -> (SUBSET Versions) \cup {None}] /\ (\A m \in Names : listed'[m] # {})
      /\ dropped \subseteq dropped' /\ dropped' \subseteq published
      /\ \A r \in published \ dropped' : listed'[r[1]] # None /\ r[2] \in listed'[r[1]]
  BY <1>4, <1>7, OfWriteList
<1>9. Grows
  BY <1>4, <1>8, NoDocument DEF Grows
<1>10. StateOK'
  BY <1>4, <1>8, NoDocument DEF DocInv, StateOK
<1>11. ListOK(base)
  BY <1>3 DEF ListOK, DocInv, StateOK
<1>12. Documents(f.release[1])' = Documents(f.release[1])
  BY <1>4, SameDocuments
<1>13. PublisherOK(o)' /\ WriterOK(o)' /\ IndexOK(o)'
  BY <1>1, <1>4, <1>5, <1>6, <1>11, <1>12, PublishesOf DEF PublisherOK, WriterOK, IndexOK, ListOK
<1>14. o.before \subseteq published'
  BY <1>1, <1>4, <1>5, <1>6, PublishesOf
<1>15. o.pc \in Labels /\ o.pc # "idle"
  BY <1>5 DEF Labels, Publishing
<1>16. OpOK(k)' /\ DOMAIN op' = Clients /\ op'[k] = o /\ \A u \in Clients \ {k} : op'[u] = op[u]
  BY <1>4, <1>5, <1>13, <1>14, <1>15, OpIs DEF DocInv
<1>17. \A u \in Clients : Undisturbed(op[u])
  BY <1>4 DEF DocInv, OpOK, PublisherOK, Undisturbed
<1>18. Locks(k)
  BY <1>1, <1>5, <1>6, <1>16 DEF Locks
<1> QED BY <1>9, <1>10, <1>16, <1>17, <1>18, DocOfStep

\* The metadata that a rollback takes away is of a release that no other publishes,
\* and that is not published.
LEMMA DocOfFailPublish == ASSUME DocInv, NEW k \in Clients, FailPublish(k) PROVE DocInv'
<1>1. PICK r \in Releases : r = op[k].release /\ r[1] \in Names
  BY PublishesOf DEF FailPublish
<1>2. /\ op[k].pc \in Publishing /\ faults' \in 0..MaxFaults
      /\ op' = [op EXCEPT ![k] = Idle]
      /\ UNCHANGED <<registry, mount, memory, published, document>>
  BY FaultsAssumption DEF FailPublish, fixed, Return, DocInv, StateOK
<1>3. /\ stored' \subseteq stored /\ stored \ {r} \subseteq stored' /\ published \subseteq stored'
  <2>1. stored' = IF op[k].again THEN stored ELSE stored \ {r}
    BY <1>1 DEF FailPublish
  <2>2. op[k].again \/ r \notin published
    BY <1>1, <1>2, PublishesOf
  <2> QED BY <2>1, <2>2 DEF DocInv, StateOK
<1>4. /\ listed' \in [Names -> (SUBSET Versions) \cup {None}] /\ (\A m \in Names : listed'[m] # {})
      /\ dropped \subseteq dropped' /\ dropped' \subseteq published
      /\ \A s \in published \ dropped' : listed'[s[1]] # None /\ s[2] \in listed'[s[1]]
  <2>1. CASE WriteList(r[1], op[k].base)
    <3>1. ListOK(op[k].base)
      BY <1>2, PublishesOf
    <3> QED BY <1>1, <2>1, <3>1, OfWriteList
  <2>2. CASE UNCHANGED list
    BY <2>2 DEF list, DocInv, StateOK
  <2> QED BY <1>1, <2>1, <2>2 DEF FailPublish
<1>5. Grows
  BY <1>2, <1>4, NoDocument DEF Grows
<1>6. StateOK'
  BY <1>2, <1>3, <1>4, NoDocument DEF DocInv, StateOK
<1>7. PublisherOK(Idle)' /\ WriterOK(Idle)' /\ IndexOK(Idle)'
  BY IdleShape DEF PublisherOK, Publishing, WriterOK, IndexOK
<1>8. Idle.pc \in Labels /\ Idle.pc \notin Publishing
  BY IdleShape DEF Labels, Publishing
<1>9. OpOK(k)' /\ DOMAIN op' = Clients /\ op'[k] = Idle /\ \A u \in Clients \ {k} : op'[u] = op[u]
  BY <1>2, <1>7, <1>8, IdleShape, OpIs DEF DocInv
<1>10. \A u \in Clients \ {k} : op[u].pc \in Publishing => op[u].release # r
  BY <1>1, <1>2 DEF DocInv, OnePublishes
<1>11. \A u \in Clients \ {k} : Undisturbed(op[u])
  BY <1>2, <1>3, <1>10 DEF DocInv, OpOK, PublisherOK, Undisturbed
<1>12. Locks(k)
  BY <1>8, <1>9 DEF Locks
<1> QED BY <1>5, <1>6, <1>9, <1>11, <1>12, DocOfStep

\* On to the next document of the release, or to the answer.
LEMMA DocOfWriteNext ==
    ASSUME DocInv, NEW k \in Clients, NEW r \in Releases, NEW step \in Nat,
           WriteNext(k, r, step), Grows, StateOK', r \in published',
           step = 1 /\ TwoDocuments => Readable(r[1])',
           \A u \in Clients \ {k} : Undisturbed(op[u])
    PROVE  DocInv'
<1>1. /\ r[1] \in Names /\ Len(Documents(r[1])) \in Nat
      /\ DOMAIN Documents(r[1]) = 1 .. Len(Documents(r[1])) /\ registry' = registry
      /\ 2 \in DOMAIN Documents(r[1]) => TwoDocuments
  BY DocumentsShape DEF Releases, Grows
<1>2. CASE /\ step < Len(Documents(r[1]))
           /\ op' = [op EXCEPT ![k] = [Idle EXCEPT !.pc = "read", !.release = r, !.step = step + 1]]
  <2> DEFINE o == [Idle EXCEPT !.pc = "read", !.release = r, !.step = step + 1]
  <2>1. /\ IsOp(o) /\ o.pc = "read" /\ o.release = r /\ o.step = step + 1 /\ o.doc = {} /\ o.before = {}
    BY DEF IsOp, OpFields, Idle
  <2>2. op' = [op EXCEPT ![k] = o]
    BY <1>2
  <2> HIDE DEF o
  <2>3. step + 1 \in DOMAIN Documents(r[1])
    BY <1>1, <1>2
  <2>4. Documents(r[1])' = Documents(r[1])
    BY <1>1, SameDocuments
  <2>5. step + 1 = 2 => Readable(r[1])'
    BY <1>1, <2>3
  <2>6. WriterOK(o)'
    BY <2>1, <2>3, <2>4, <2>5 DEF WriterOK
  <2>7. PublisherOK(o)' /\ IndexOK(o)'
    BY <2>1 DEF PublisherOK, Publishing, IndexOK
  <2>8. o.pc \in Labels /\ o.pc # "idle" /\ o.pc \notin Publishing
    BY <2>1 DEF Labels, Publishing
  <2>9. OpOK(k)' /\ DOMAIN op' = Clients /\ op'[k] = o /\ \A u \in Clients \ {k} : op'[u] = op[u]
    BY <2>1, <2>2, <2>6, <2>7, <2>8, OpIs DEF DocInv
  <2>10. Locks(k)
    BY <2>8, <2>9 DEF Locks
  <2> QED BY <2>9, <2>10, DocOfStep
<1>3. CASE Return(k)
  <2>1. op' = [op EXCEPT ![k] = Idle]
    BY <1>3 DEF Return
  <2>2. PublisherOK(Idle)' /\ WriterOK(Idle)' /\ IndexOK(Idle)'
    BY IdleShape DEF PublisherOK, Publishing, WriterOK, IndexOK
  <2>3. Idle.pc \in Labels /\ Idle.pc \notin Publishing
    BY IdleShape DEF Labels, Publishing
  <2>4. OpOK(k)' /\ DOMAIN op' = Clients /\ op'[k] = Idle /\ \A u \in Clients \ {k} : op'[u] = op[u]
    BY <2>1, <2>2, <2>3, IdleShape, OpIs DEF DocInv
  <2>5. Locks(k)
    BY <2>3, <2>4 DEF Locks
  <2> QED BY <2>4, <2>5, DocOfStep
<1> QED BY <1>2, <1>3 DEF WriteNext

LEMMA DocOfCommit == ASSUME DocInv, NEW k \in Clients, Commit(k) PROVE DocInv'
<1>1. PICK r \in Releases : r = op[k].release /\ r \in stored /\ r[1] \in Names
  BY PublishesOf DEF Commit, Publishing
<1>2. /\ op[k].pc = "commit" /\ op[k].pc \in Publishing
      /\ published' = published \cup {r} /\ WriteNext(k, r, op[k].step)
      /\ dropped' = IF listed[r[1]] = None \/ r[2] \notin listed[r[1]] THEN dropped \cup {r} ELSE dropped
      /\ UNCHANGED <<registry, mount, listed, memory, stored, document, faults>>
  BY <1>1 DEF Commit, fixed, Publishing
<1>3. Grows
  BY <1>2, NoDocument DEF Grows
<1>4. /\ dropped' \subseteq published'
      /\ \A s \in published' \ dropped' : listed[s[1]] # None /\ s[2] \in listed[s[1]]
  BY <1>2 DEF DocInv, StateOK
<1>5. StateOK'
  BY <1>1, <1>2, <1>4, NoDocument DEF DocInv, StateOK
<1>6. \A u \in Clients \ {k} : op[u].pc \in Publishing => op[u].release # r
  BY <1>1, <1>2 DEF DocInv, OnePublishes
<1>7. \A u \in Clients \ {k} : Undisturbed(op[u])
  BY <1>2, <1>6 DEF DocInv, OpOK, PublisherOK, Undisturbed
<1>8. CASE op[k].step = 0
  <2>1. 0 \in Nat /\ WriteNext(k, r, 0) /\ r \in published'
    BY <1>2, <1>8
  <2> QED BY <1>3, <1>5, <1>7, <2>1, DocOfWriteNext
<1>9. CASE op[k].step = Len(Documents(r[1]))
  <2>1. PICK step \in Nat : step = op[k].step
    BY <1>1, <1>9, DocumentsShape
  <2>2. ASSUME step = 1, TwoDocuments PROVE FALSE
    <3>1. Len(Documents(r[1])) = 2
      BY <2>2 DEF TwoDocuments, Documents
    <3>2. step = 2
      BY <1>9, <2>1, <3>1
    <3> QED BY <2>2, <3>2
  <2> QED BY <1>2, <1>3, <1>5, <1>7, <2>1, <2>2, DocOfWriteNext
<1> QED BY <1>1, <1>2, <1>8, <1>9, PublishesOf

LEMMA DocOfPublishRequest ==
    ASSUME DocInv, NEW k \in Clients, NEW n \in Names, NEW v \in Versions, PublishRequest(k, n, v)
    PROVE  DocInv'
<1>1. PICK r \in Releases : r = <<n, v>> /\ r[1] = n
  <2>1. <<n, v>> \in Releases
    BY DEF Releases
  <2> QED BY <2>1
<1>2. \E overwrite, step : /\ step = 0 \/ step = Len(Documents(r[1]))
                           /\ PublishPackage(k, r, overwrite, step)
  BY <1>1, Zenon
     DEF PublishRequest, PublishCrate, PublishPackument, LegacyUpload, PublishHexPackage, PutPath,
         PublishGem, PublishNupkg, PublishArchive, Publish, PublishDirect
<1> QED BY <1>2, DocOfPublishPackage

\* A document that is written names what upstream has, or what can be read of a package.
LEMMA OfPut ==
    ASSUME DocInv, NEW key \in Keys, NEW d \in SUBSET Releases, Put(key, d),
           Second(key) => TwoDocuments /\ Backed(d), TwoDocuments /\ ~Second(key) => d # {},
           UNCHANGED <<fixed, service>>, faults' \in 0..MaxFaults
    PROVE  /\ Grows /\ StateOK' /\ document'[key] = d
           /\ \A u \in Clients : Undisturbed(op[u])
<1>1. /\ document \in [Keys -> (SUBSET Releases) \cup {None}] /\ d # None
      /\ UNCHANGED <<registry, mount, listed, memory, stored, published, dropped>>
  BY NotNone DEF DocInv, StateOK, fixed, service, list
<1>2. /\ document' \in [Keys -> (SUBSET Releases) \cup {None}] /\ document'[key] = d
      /\ \A e \in Keys \ {key} : document'[e] = document[e]
  BY <1>1 DEF Put
<1>3. ASSUME TwoDocuments, NEW n \in Names, Readable(n) PROVE Readable(n)'
  <2>1. Package(n) \in Keys /\ ~Second(Package(n)) /\ Package(n)' = Package(n)
    BY KeysShape DEF Package
  <2>2. document'[Package(n)] \notin {None, {}}
    BY <1>1, <1>2, <1>3, <2>1 DEF Readable
  <2> QED BY <2>1, <2>2 DEF Readable
<1>4. Grows
  BY <1>1, <1>3 DEF Grows
<1>5. TwoDocuments' = TwoDocuments /\ \A e : Second(e)' = Second(e)
  BY <1>1, SameDocuments
<1>6. ASSUME NEW e \in Keys PROVE DocumentOK(e)'
  <2>1. CASE e = key
    <3>1. Second(e) => Backed(d)'
      BY <1>4, <2>1, BackedStays
    <3>2. document'[e] = d
      BY <1>2, <2>1
    <3> QED BY <1>5, <2>1, <3>1, <3>2 DEF DocumentOK, Backed
  <2>2. CASE e # key
    <3>1. PICK c : c = document[e] /\ document'[e] = c
      BY <1>2, <2>2
    <3>2. DocumentOK(e)
      BY DEF DocInv, StateOK
    <3>3. c # None => /\ Second(e) => TwoDocuments /\ Backed(c)
                      /\ TwoDocuments /\ ~Second(e) => c # {}
      BY <3>1, <3>2 DEF DocumentOK
    <3>4. c # None /\ Second(e) => Backed(c)'
      BY <1>4, <3>3, BackedStays
    <3> QED BY <1>5, <3>1, <3>3, <3>4 DEF DocumentOK, Backed
  <2> QED BY <2>1, <2>2
<1>7. StateOK'
  BY <1>1, <1>2, <1>6 DEF DocInv, StateOK
<1>8. \A u \in Clients : Undisturbed(op[u])
  BY <1>1 DEF DocInv, OpOK, PublisherOK, Undisturbed
<1> QED BY <1>2, <1>4, <1>7, <1>8

\* What a publish has at hand while it writes its documents.
LEMMA Writing ==
    ASSUME DocInv, NEW k \in Clients, op[k].pc \in {"read", "put"}
    PROVE  /\ op[k].release \in published /\ op[k].release \in Releases /\ op[k].release[1] \in Names
           /\ \/ op[k].step = 1 /\ WriteKey(k) = Package(op[k].release[1])
              \/ op[k].step = 2 /\ TwoDocuments /\ Second(WriteKey(k)) /\ Readable(op[k].release[1])
           /\ WriteKey(k) \in Keys
           /\ op[k].step \in DOMAIN Documents(op[k].release[1])
           /\ op[k].pc = "put" => op[k].doc # {} /\ (op[k].step = 2 => Backed(op[k].doc))
           /\ op[k].doc \subseteq Releases /\ op[k].before \subseteq published
<1>1. WriterOK(op[k]) /\ op[k].doc \subseteq Releases /\ op[k].before \subseteq published /\ published \subseteq Releases
  BY DEF DocInv, OpOK, StateOK
<1>2. /\ op[k].release \in published /\ op[k].release \in Releases /\ op[k].release[1] \in Names
      /\ op[k].step \in DOMAIN Documents(op[k].release[1])
      /\ op[k].step = 2 => Readable(op[k].release[1])
      /\ op[k].pc = "put" => op[k].doc # {} /\ (op[k].step = 2 => Backed(op[k].doc))
  BY <1>1 DEF WriterOK, Releases
<1>3. op[k].step = 1 \/ op[k].step = 2
  BY <1>2, DocumentsShape
<1>4. CASE op[k].step = 1
  <2>1. WriteKey(k) = Package(op[k].release[1])
    BY <1>2, <1>4, DocumentsShape DEF WriteKey
  <2> QED BY <1>1, <1>2, <1>4, <2>1, KeysShape
<1>5. CASE op[k].step = 2
  <2>1. TwoDocuments /\ Second(WriteKey(k)) /\ WriteKey(k) \in Keys
    BY <1>2, <1>5, DocumentsShape DEF WriteKey
  <2> QED BY <1>1, <1>2, <1>5, <2>1
<1> QED BY <1>3, <1>4, <1>5

\* The document that a publish is about to write has what is stored, and its release.
LEMMA DocOfAdd == ASSUME DocInv, NEW k \in Clients, Add(k) PROVE DocInv'
<1>1. PICK d : d = Stored(k) \cup {op[k].release}
  OBVIOUS
<1>2. op[k].pc = "read" /\ Takes(k, "put", d) /\ UNCHANGED <<fixed, service, document, faults>>
  BY <1>1 DEF Add, Takes
<1>3. PICK n \in Names : n = op[k].release[1]
  BY <1>2, Writing
<1>4. /\ Stored(k) \subseteq Releases /\ (Second(WriteKey(k)) => Backed(Stored(k)))
  <2>1. DocumentOK(WriteKey(k)) /\ (document[WriteKey(k)] = None \/ document[WriteKey(k)] \subseteq Releases)
    BY <1>2, Writing DEF DocInv, StateOK
  <2> QED BY <2>1 DEF DocumentOK, Stored, Backed, Of
<1>5. d \subseteq Releases /\ d # {}
  BY <1>1, <1>2, <1>4, Writing
<1>6. op[k].step = 2 => Backed(d)
  <2> SUFFICES ASSUME op[k].step = 2, NEW m \in Names, Of(m, d \ Upstream) # {} PROVE Readable(m)
    BY DEF Backed
  <2>1. Backed(Stored(k)) /\ Readable(n)
    BY <1>2, <1>3, <1>4, Writing
  <2>2. Of(m, Stored(k) \ Upstream) # {} \/ m = n
    BY <1>1, <1>3 DEF Of
  <2> QED BY <2>1, <2>2 DEF Backed
<1>7. PICK o : /\ op' = [op EXCEPT ![k] = o] /\ IsOp(o) /\ o.pc = "put" /\ o.doc = d
               /\ o.release = op[k].release /\ o.before = op[k].before /\ o.step = op[k].step
  BY <1>2, NextOp
<1>8. WriterOK(o)
  <2>1. op[k].step = 2 => Readable(o.release[1])
    BY <1>2, <1>7, Writing
  <2> QED BY <1>2, <1>5, <1>6, <1>7, <2>1, Writing DEF WriterOK
<1>9. PublisherOK(o) /\ IndexOK(o)
  BY <1>7 DEF PublisherOK, Publishing, IndexOK
<1>10. faults' \in 0..MaxFaults /\ o.before \subseteq published
  BY <1>2, <1>7, Writing DEF DocInv, StateOK
<1>11. o.pc \in Labels /\ o.pc # "idle" /\ o.pc \notin Publishing
  BY <1>7 DEF Labels, Publishing
<1> QED BY <1>2, <1>5, <1>7, <1>8, <1>9, <1>10, <1>11, QuietOp

\* A document is written, and what it names of a package can be read.
LEMMA DocOfWrite ==
    ASSUME DocInv, NEW k \in Clients, op[k].pc \in {"read", "put"}, NEW d \in SUBSET Releases,
           d # {}, op[k].step = 2 => Backed(d),
           Put(WriteKey(k), d), WriteNext(k, op[k].release, op[k].step),
           UNCHANGED <<fixed, service, faults>>
    PROVE  DocInv'
<1>1. PICK r \in Releases : r = op[k].release /\ r \in published /\ r[1] \in Names
  BY Writing
<1>2. PICK step \in Nat : step = op[k].step
  BY Writing
<1>3. PICK key \in Keys : /\ key = WriteKey(k)
                          /\ \/ step = 1 /\ key = Package(r[1])
                             \/ step = 2 /\ TwoDocuments /\ Second(key)
  BY <1>1, <1>2, Writing
<1>4. Second(key) => TwoDocuments /\ Backed(d)
  BY <1>1, <1>2, <1>3, KeysShape
<1>5. faults' \in 0..MaxFaults /\ published' = published
  BY DEF DocInv, StateOK, service
<1>6. Grows /\ StateOK' /\ document'[key] = d /\ \A u \in Clients : Undisturbed(op[u])
  BY <1>3, <1>4, <1>5, OfPut
<1>7. step = 1 => Readable(r[1])'
  <2>1. Package(r[1])' = Package(r[1]) /\ d # None
    BY NotNone DEF Package
  <2> QED BY <1>3, <1>6, <2>1 DEF Readable
<1> QED BY <1>1, <1>2, <1>5, <1>6, <1>7, DocOfWriteNext

LEMMA DocOfPutDocument == ASSUME DocInv, NEW k \in Clients, PutDocument(k) PROVE DocInv'
<1>1. op[k].pc = "put" /\ Put(WriteKey(k), op[k].doc) /\ WriteNext(k, op[k].release, op[k].step)
  BY DEF PutDocument
<1> QED BY <1>1, Writing, DocOfWrite DEF PutDocument

LEMMA DocOfReplace == ASSUME DocInv, NEW k \in Clients, Replace(k) PROVE DocInv'
<1>1. PICK d : d = {op[k].release}
  OBVIOUS
<1>2. op[k].pc = "read" /\ Put(WriteKey(k), d) /\ WriteNext(k, op[k].release, op[k].step)
  BY <1>1 DEF Replace
<1>3. d \in SUBSET Releases /\ d # {}
  BY <1>1, <1>2, Writing
<1>4. op[k].step = 2 => Backed(d)
  BY <1>1, <1>2, Writing DEF Backed, Of
<1> QED BY <1>2, <1>3, <1>4, DocOfWrite DEF Replace

\* Nothing else moves.
LEMMA DocOfQuiet ==
    ASSUME DocInv, Grows, StateOK', UNCHANGED op, \A u \in Clients : Undisturbed(op[u])
    PROVE  DocInv'
<1>1. \A u \in Clients : OpOK(u)'
  BY OpStays DEF DocInv, StateOK
<1> QED BY <1>1 DEF DocInv, OnePublishes

LEMMA DocOfPutMetadataXml ==
    ASSUME DocInv, NEW k \in Clients, NEW n \in Names, NEW doc \in Written[n], PutMetadataXml(k, n, doc)
    PROVE  DocInv'
<1>1. doc \in SUBSET Releases
  BY WrittenAssumption
<1>2. PICK key \in Keys : key = Package(n) /\ ~Second(key) /\ ~TwoDocuments
  BY KeysShape DEF PutMetadataXml, TwoDocuments
<1>3. Put(key, doc) /\ UNCHANGED <<fixed, service, op, faults>>
  BY <1>2 DEF PutMetadataXml
<1>4. faults' \in 0..MaxFaults
  BY <1>3 DEF DocInv, StateOK
<1>5. Grows /\ StateOK' /\ \A u \in Clients : Undisturbed(op[u])
  BY <1>1, <1>2, <1>3, <1>4, OfPut
<1> QED BY <1>3, <1>5, DocOfQuiet

LEMMA DocOfForget == ASSUME DocInv, NEW n \in Names, Forget(n) PROVE DocInv'
<1>1. UNCHANGED <<registry, mount, listed, dropped, stored, published, document, op, faults>>
  BY DEF Forget, fixed, list
<1>2. Grows
  BY <1>1, NoDocument DEF Grows
<1>3. StateOK'
  BY <1>1, NoDocument DEF Forget, DocInv, StateOK
<1>4. \A u \in Clients : Undisturbed(op[u])
  BY <1>1 DEF DocInv, OpOK, PublisherOK, Undisturbed
<1> QED BY <1>1, <1>2, <1>3, <1>4, DocOfQuiet

-----------------------------------------------------------------------------
(* Steps that build an index *)

\* What the service lists of a package.
LEMMA Listing ==
    ASSUME DocInv, NEW n \in Names
    PROVE  /\ listed[n] # None => listed[n] \subseteq Versions /\ listed[n] # {}
           /\ UpstreamVersions(n) \subseteq Versions
           /\ UpstreamVersions(n) # {} => Of(n, Upstream) # {}
           /\ Of(n, Upstream) \subseteq Releases
           /\ \A V \in SUBSET Versions : {n} \X V \subseteq Releases
           /\ \A S \in SUBSET Of(n, published) :
                /\ listed[n] # None => S \ dropped \subseteq {n} \X listed[n]
                /\ listed[n] = None => S \ dropped = {}
<1>1. /\ listed[n] # None => listed[n] \subseteq Versions /\ listed[n] # {}
      /\ published \subseteq Releases
      /\ \A r \in published \ dropped : listed[r[1]] # None /\ r[2] \in listed[r[1]]
  BY DEF DocInv, StateOK
<1>2. /\ UpstreamVersions(n) \subseteq Versions /\ (UpstreamVersions(n) # {} => Of(n, Upstream) # {})
      /\ Of(n, Upstream) \subseteq Releases /\ \A V \in SUBSET Versions : {n} \X V \subseteq Releases
  BY UpstreamAssumption DEF UpstreamVersions, Of, Releases
<1>3. ASSUME NEW S \in SUBSET Of(n, published)
      PROVE  /\ listed[n] # None => S \ dropped \subseteq {n} \X listed[n]
             /\ listed[n] = None => S \ dropped = {}
  <2>1. \A r \in published \ dropped : r[1] = n => listed[n] # None /\ r[2] \in listed[n]
    BY <1>1
  <2>2. S \subseteq Of(n, published)
    OBVIOUS
  <2>3. ASSUME NEW r \in S \ dropped PROVE listed[n] # None /\ r \in {n} \X listed[n]
    <3>1. r \in published \ dropped /\ r[1] = n
      BY <2>2 DEF Of
    <3>2. r = <<n, r[2]>>
      BY <1>1, <3>1 DEF Releases
    <3> QED BY <2>1, <3>1, <3>2
  <2> QED BY <2>3
<1> QED BY <1>1, <1>2, <1>3

\* What a request for an index has at hand.
LEMMA Asking ==
    ASSUME DocInv, NEW k \in Clients, op[k].pc \in {"list", "save", "collect", "fetch", "answer"}
    PROVE  /\ op[k].release[1] \in Names /\ op[k].before \subseteq Of(op[k].release[1], published)
           /\ op[k].before \subseteq published /\ op[k].doc \subseteq Releases /\ IndexOK(op[k])
BY DEF DocInv, OpOK, IndexOK

\* A request starts with what was published.
LEMMA DocOfRequest ==
    ASSUME DocInv, NEW k \in Clients, NEW n \in Names, NEW key, Request(k, n, key),
           key \in Keys \/ registry = "nuget", Second(key) => TwoDocuments \/ registry = "nuget",
           registry = "rubygems" \/ key \in {Package(n), RegistryEntry(n)} \/ registry = "nuget"
    PROVE  DocInv'
<1>1. UNCHANGED <<fixed, service, document, faults>> /\ faults' \in 0..MaxFaults
  BY DEF Request, DocInv, StateOK
<1>2. CASE UNCHANGED op
  <2>1. UNCHANGED <<registry, mount, listed, memory, document, stored, published, dropped>>
    BY <1>1 DEF fixed, service, list
  <2>2. Grows
    BY <2>1, NoDocument DEF Grows
  <2>3. StateOK'
    BY <1>1, <2>1, NoDocument DEF DocInv, StateOK
  <2>4. \A u \in Clients : Undisturbed(op[u])
    BY <2>1 DEF DocInv, OpOK, PublisherOK, Undisturbed
  <2> QED BY <1>2, <2>2, <2>3, <2>4, DocOfQuiet
<1>3. PICK p, b : /\ p = IF registry = "nuget" \/ Rebuilt(key) THEN "list" ELSE "fetch"
                  /\ b = Of(n, published)
  OBVIOUS
<1> DEFINE o == [Idle EXCEPT !.pc = p, !.release = <<n, None>>, !.key = key, !.before = b]
<1>4. CASE op' = [op EXCEPT ![k] = o]
  <2>1. /\ IsOp(o) /\ o.pc = p /\ o.release = <<n, None>> /\ o.key = key /\ o.before = b /\ o.doc = {}
    BY DEF IsOp, OpFields, Idle
  <2>2. Rebuilt(key) => registry # "rubygems" /\ key[1] = "package"
    BY DEF Rebuilt
  <2>3. /\ p = "list" => registry = "nuget" \/ key = Package(n)
        /\ p = "fetch" => registry # "nuget" /\ ~Rebuilt(key)
        /\ p \in {"list", "fetch"}
    BY <1>3, <2>2 DEF Package, RegistryEntry
  <2> HIDE DEF o
  <2>4. o.release[1] = n /\ b \subseteq Of(n, published) /\ b \subseteq published
    BY <1>3, <2>1 DEF Of
  <2>5. IndexOK(o)
    BY <2>1, <2>3, <2>4 DEF IndexOK
  <2>6. PublisherOK(o) /\ WriterOK(o)
    BY <2>1, <2>3 DEF PublisherOK, Publishing, WriterOK
  <2>7. o.pc \in Labels /\ o.pc # "idle" /\ o.pc \notin Publishing
    BY <2>1, <2>3 DEF Labels, Publishing
  <2> QED BY <1>1, <1>4, <2>1, <2>4, <2>5, <2>6, <2>7, QuietOp
<1> QED BY <1>2, <1>3, <1>4 DEF Request

LEMMA DocOfIndexRequest ==
    ASSUME DocInv, NEW k \in Clients, NEW n \in Names, IndexRequest(k, n)
    PROVE  DocInv'
<1>1. /\ Package(n) \in Keys /\ RegistryEntry(n) \in Keys /\ EveryGem \in Keys /\ ~Second(Package(n))
  BY KeysShape
<1>2. CASE ServeVersions(k, n)
  BY <1>2, DocOfRequest DEF ServeVersions
<1>3. CASE HexRegistryEntry(k, n)
  BY <1>1, <1>3, DocOfRequest DEF HexRegistryEntry, TwoDocuments
<1>4. CASE ServeRaw(k, n)
  BY <1>1, <1>4, DocOfRequest DEF ServeRaw, TwoDocuments
<1>5. CASE Request(k, n, Package(n))
  BY <1>1, <1>5, DocOfRequest
<1> QED BY <1>2, <1>3, <1>4, <1>5
     DEF IndexRequest, SparseIndex, ServePackument, SimpleProject, HexMetadata, ServeRawXml, PubPackage

\* A request goes on, and no object is changed.
LEMMA DocOfNext ==
    ASSUME DocInv, NEW k \in Clients, NEW p, NEW d \in SUBSET Releases, Takes(k, p, d),
           UNCHANGED <<fixed, service, document, faults>>,
           op[k].pc \in {"list", "save", "collect", "fetch"},
           \/ p = "list" /\ op[k].pc = "collect"
           \/ p = "collect" /\ op[k].pc = "list" /\ registry # "nuget"
           \/ p = "answer" /\ registry = "nuget" /\ op[k].before \ dropped \subseteq d
           \/ /\ p = "answer" /\ registry # "nuget" /\ op[k].key \in Keys /\ (TwoDocuments => d # {})
              /\ Second(op[k].key) => TwoDocuments /\ d \subseteq Upstream
              /\ /\ registry \in Rebuilders /\ op[k].key # RegistryEntry(op[k].release[1])
                 /\ Of(op[k].release[1], Upstream) = {}
                 => op[k].before \ dropped \subseteq d
    PROVE  DocInv'
<1>1. PICK o : /\ op' = [op EXCEPT ![k] = o] /\ IsOp(o) /\ o.pc = p /\ o.doc = d
               /\ o.release = op[k].release /\ o.key = op[k].key /\ o.before = op[k].before
  BY NextOp
<1>2. PICK n \in Names : /\ n = op[k].release[1] /\ n = o.release[1]
                         /\ o.before \subseteq Of(n, published) /\ o.before \subseteq published
                         /\ op[k].pc \in {"list", "save", "collect"} => registry = "nuget" \/ o.key = Package(n)
  BY <1>1, Asking DEF IndexOK
<1>3. p \in {"list", "collect", "answer"}
  OBVIOUS
<1>4. IndexOK(o)
  BY <1>1, <1>2, <1>3 DEF IndexOK
<1>5. PublisherOK(o) /\ WriterOK(o)
  BY <1>1, <1>3 DEF PublisherOK, Publishing, WriterOK
<1>6. o.pc \in Labels /\ o.pc # "idle" /\ o.pc \notin Publishing
  BY <1>1, <1>3 DEF Labels, Publishing
<1>7. faults' \in 0..MaxFaults
  BY DEF DocInv, StateOK
<1> QED BY <1>1, <1>2, <1>4, <1>5, <1>6, <1>7, QuietOp

\* The version list that a request has found.
LEMMA ListedTakes ==
    ASSUME NEW k \in Clients, NEW V, Listed(k, V)
    PROVE  \E p, d : /\ Takes(k, p, d)
                     /\ registry = "nuget" => p = "answer" /\ d = {op[k].release[1]} \X V
                     /\ registry # "nuget" => p = "collect" /\ d = {}
BY DEF Listed, Takes

LEMMA DocOfListVersions == ASSUME DocInv, NEW k \in Clients, ListVersions(k) PROVE DocInv'
<1>1. op[k].pc = "list" /\ UNCHANGED <<fixed, list, stored, published, document, faults>>
  BY DEF ListVersions
<1>2. PICK n \in Names : /\ n = op[k].release[1] /\ op[k].before \subseteq Of(n, published)
                         /\ op[k].before \subseteq published /\ op[k].doc \subseteq Releases
                         /\ (registry = "nuget" \/ op[k].key = Package(n))
  BY <1>1, Asking DEF IndexOK
<1>3. faults' \in 0..MaxFaults
  BY <1>1 DEF DocInv, StateOK
<1>4. CASE listed[n] # None /\ Listed(k, listed[n]) /\ UNCHANGED memory
  <2>1. PICK p, d : /\ Takes(k, p, d)
                    /\ registry = "nuget" => p = "answer" /\ d = {n} \X listed[n]
                    /\ registry # "nuget" => p = "collect" /\ d = {}
    BY <1>2, <1>4, ListedTakes
  <2>2. d \subseteq Releases /\ (registry = "nuget" => op[k].before \ dropped \subseteq d)
    BY <1>2, <1>4, <2>1, Listing
  <2>3. UNCHANGED <<fixed, service, document, faults>>
    BY <1>1, <1>4 DEF service
  <2>4. d \in SUBSET Releases
    BY <2>2
  <2>5. CASE registry = "nuget"
    BY <1>1, <2>1, <2>2, <2>3, <2>4, <2>5, DocOfNext
  <2>6. CASE registry # "nuget"
    BY <1>1, <2>1, <2>2, <2>3, <2>4, <2>6, DocOfNext
  <2> QED BY <2>5, <2>6
<1>5. CASE Return(k) /\ UNCHANGED memory
  <2>1. UNCHANGED <<fixed, service, document>>
    BY <1>1, <1>5 DEF service
  <2> QED BY <1>3, <1>5, <2>1, QuietReturn
<1>6. CASE /\ listed[n] = None /\ UpstreamVersions(n) # {}
           /\ op' = [op EXCEPT ![k].pc = "save"] /\ memory' = memory \cup {n}
  <2>1. PICK f : f = op[k] /\ IsOp(f)
    BY DEF DocInv, OpOK
  <2> DEFINE o == [f EXCEPT !.pc = "save"]
  <2>2. op' = [op EXCEPT ![k] = o]
    BY <1>6, <2>1
  <2>3. /\ IsOp(o) /\ o.pc = "save" /\ o.doc = f.doc
        /\ o.release = f.release /\ o.key = f.key /\ o.before = f.before
    BY <2>1 DEF IsOp, OpFields
  <2> HIDE DEF o
  <2>4. UNCHANGED <<registry, mount, listed, dropped, stored, published, document, faults>>
    BY <1>1 DEF fixed, list
  <2>5. Of(n, Upstream) # {} /\ o.release[1] = n /\ o.doc \subseteq Releases /\ o.before \subseteq published'
        /\ o.before \subseteq Of(n, published') /\ (registry' = "nuget" \/ o.key = Package(n))
    BY <1>2, <1>6, <2>1, <2>3, <2>4, Listing
  <2>6. IndexOK(o)'
    BY <2>3, <2>5 DEF IndexOK
  <2>7. PublisherOK(o)' /\ WriterOK(o)'
    BY <2>3 DEF PublisherOK, Publishing, WriterOK
  <2>8. o.pc \in Labels /\ o.pc # "idle" /\ o.pc \notin Publishing
    BY <2>3 DEF Labels, Publishing
  <2>9. OpOK(k)' /\ DOMAIN op' = Clients /\ op'[k] = o /\ \A u \in Clients \ {k} : op'[u] = op[u]
    BY <2>2, <2>3, <2>5, <2>6, <2>7, <2>8, OpIs DEF DocInv
  <2>10. Grows
    BY <2>4, NoDocument DEF Grows
  <2>11. memory' \subseteq Names /\ \A m \in memory' : Of(m, Upstream) # {}
    BY <1>6, <2>5 DEF DocInv, StateOK
  <2>12. StateOK'
    BY <2>4, <2>11, NoDocument DEF DocInv, StateOK
  <2>13. \A u \in Clients : Undisturbed(op[u])
    BY <2>4 DEF DocInv, OpOK, PublisherOK, Undisturbed
  <2>14. Locks(k)
    BY <2>8, <2>9 DEF Locks
  <2> QED BY <2>9, <2>10, <2>12, <2>13, <2>14, DocOfStep
<1> QED BY <1>2, <1>4, <1>5, <1>6 DEF ListVersions

LEMMA DocOfSaveVersions == ASSUME DocInv, NEW k \in Clients, SaveVersions(k) PROVE DocInv'
<1>1. /\ op[k].pc = "save"
      /\ UNCHANGED <<registry, mount, memory, stored, published, document, faults>>
  BY DEF SaveVersions, fixed
<1>2. PICK n \in Names : /\ n = op[k].release[1] /\ op[k].before \subseteq Of(n, published)
                         /\ op[k].before \subseteq published /\ Of(n, Upstream) # {}
                         /\ (registry = "nuget" \/ op[k].key = Package(n))
  BY <1>1, Asking DEF IndexOK
<1>3. PICK V : V = UpstreamVersions(n)
  OBVIOUS
<1>4. ListOK(V)
  BY <1>2, <1>3, Listing DEF ListOK, UpstreamVersions
<1>5. WriteList(n, V) /\ Listed(k, V)
  BY <1>2, <1>3 DEF SaveVersions
<1>6. /\ listed' \in [Names -> (SUBSET Versions) \cup {None}] /\ (\A m \in Names : listed'[m] # {})
      /\ listed'[n] = V
      /\ dropped \subseteq dropped' /\ dropped' \subseteq published
      /\ \A r \in published \ dropped' : listed'[r[1]] # None /\ r[2] \in listed'[r[1]]
  BY <1>4, <1>5, OfWriteList
<1>7. Grows
  BY <1>1, <1>6, NoDocument DEF Grows
<1>8. StateOK'
  BY <1>1, <1>6, NoDocument DEF DocInv, StateOK
<1>9. PICK p, d : /\ Takes(k, p, d)
                  /\ registry = "nuget" => p = "answer" /\ d = {n} \X V
                  /\ registry # "nuget" => p = "collect" /\ d = {}
  BY <1>2, <1>5, ListedTakes
<1>10. V \subseteq Versions
  BY <1>3, Listing
<1>11. d \subseteq Releases /\ p \in {"answer", "collect"}
  BY <1>9, <1>10, Listing
<1>12. op[k].before \ dropped' \subseteq {n} \X V
  <2>1. published \subseteq Releases
    BY DEF DocInv, StateOK
  <2>2. ASSUME NEW r \in op[k].before \ dropped' PROVE r \in {n} \X V
    <3>1. r \in published \ dropped' /\ r[1] = n
      BY <1>2 DEF Of
    <3>2. r = <<n, r[2]>>
      BY <2>1, <3>1 DEF Releases
    <3> QED BY <1>6, <3>1, <3>2
  <2> QED BY <2>2
<1>13. PICK o : /\ op' = [op EXCEPT ![k] = o] /\ IsOp(o) /\ o.pc = p /\ o.doc = d
                /\ o.release = op[k].release /\ o.key = op[k].key /\ o.before = op[k].before
  BY <1>9, NextOp
<1>14. IndexOK(o)'
  <2>1. o.before \subseteq Of(n, published') /\ o.release[1] = n /\ registry' = registry
    BY <1>1, <1>2, <1>13
  <2>2. CASE registry = "nuget"
    BY <1>9, <1>12, <1>13, <2>1, <2>2 DEF IndexOK
  <2>3. CASE registry # "nuget"
    <3>1. o.pc = "collect" /\ o.key = Package(n)
      BY <1>2, <1>9, <1>13, <2>3
    <3> QED BY <2>1, <2>3, <3>1 DEF IndexOK
  <2> QED BY <2>2, <2>3
<1>15. PublisherOK(o)' /\ WriterOK(o)'
  BY <1>11, <1>13 DEF PublisherOK, Publishing, WriterOK
<1>16. o.pc \in Labels /\ o.pc # "idle" /\ o.pc \notin Publishing
  BY <1>11, <1>13 DEF Labels, Publishing
<1>17. o.before \subseteq published'
  BY <1>1, <1>2, <1>13
<1>18. OpOK(k)' /\ DOMAIN op' = Clients /\ op'[k] = o /\ \A u \in Clients \ {k} : op'[u] = op[u]
  BY <1>11, <1>13, <1>14, <1>15, <1>16, <1>17, OpIs DEF DocInv
<1>19. \A u \in Clients : Undisturbed(op[u])
  BY <1>1 DEF DocInv, OpOK, PublisherOK, Undisturbed
<1>20. Locks(k)
  BY <1>16, <1>18 DEF Locks
<1> QED BY <1>7, <1>8, <1>18, <1>19, <1>20, DocOfStep

LEMMA DocOfListAgain == ASSUME DocInv, NEW k \in Clients, ListAgain(k) PROVE DocInv'
<1>1. PICK f : f = op[k] /\ IsOp(f) /\ f.doc \subseteq Releases /\ f.before \subseteq published /\ IndexOK(f)
  BY DEF DocInv, OpOK
<1>2. f.pc = "collect" /\ UNCHANGED <<fixed, service, document, faults>>
  BY <1>1 DEF ListAgain
<1> DEFINE o == [f EXCEPT !.pc = "list"]
<1>3. op' = [op EXCEPT ![k] = o]
  BY <1>1 DEF ListAgain
<1>4. /\ IsOp(o) /\ o.pc = "list" /\ o.doc = f.doc
      /\ o.release = f.release /\ o.key = f.key /\ o.before = f.before
  BY <1>1 DEF IsOp, OpFields
<1> HIDE DEF o
<1>5. IndexOK(o)
  BY <1>1, <1>2, <1>4 DEF IndexOK
<1>6. PublisherOK(o) /\ WriterOK(o)
  BY <1>4 DEF PublisherOK, Publishing, WriterOK
<1>7. o.pc \in Labels /\ o.pc # "idle" /\ o.pc \notin Publishing
  BY <1>4 DEF Labels, Publishing
<1>8. faults' \in 0..MaxFaults
  BY <1>2 DEF DocInv, StateOK
<1> QED BY <1>1, <1>2, <1>3, <1>4, <1>5, <1>6, <1>7, <1>8, QuietOp

\* What is built where upstream has nothing is what the service lists.
LEMMA DocOfBuilt ==
    ASSUME DocInv, NEW k \in Clients, NEW local \in SUBSET Releases, Built(k, Remembered(k, local)),
           registry = "cargo" \/ (listed[op[k].release[1]] # None /\ local = Local(k))
    PROVE  DocInv'
<1>1. op[k].pc = "collect" /\ UNCHANGED <<fixed, service, document, faults>>
  BY DEF Built
<1>2. PICK n \in Names : /\ n = op[k].release[1] /\ op[k].before \subseteq Of(n, published)
                         /\ op[k].key = Package(n) /\ registry # "nuget"
  BY <1>1, Asking DEF IndexOK
<1>3. PICK d : d = Remembered(k, local)
  OBVIOUS
<1>4. Of(n, Upstream) \subseteq Releases /\ (n \in memory => Of(n, Upstream) # {})
  BY Listing DEF DocInv, StateOK
<1>5. d \subseteq Releases
  BY <1>2, <1>3, <1>4 DEF Remembered
<1>6. registry # "cargo" => local # {} /\ op[k].before \ dropped \subseteq local
  <2> SUFFICES ASSUME registry # "cargo" PROVE local # {} /\ op[k].before \ dropped \subseteq local
    OBVIOUS
  <2>1. local = {n} \X listed[n] /\ listed[n] # None
    BY <1>2 DEF Local
  <2>2. listed[n] # {}
    BY <2>1, Listing
  <2>3. local # {}
    <3>1. PICK v \in listed[n] : TRUE
      BY <2>2
    <3>2. <<n, v>> \in {n} \X listed[n]
      BY <3>1
    <3> QED BY <2>1, <3>2
  <2>4. op[k].before \in SUBSET Of(n, published)
    BY <1>2
  <2> QED BY <2>1, <2>3, <2>4, Listing
<1>7. TwoDocuments => d # {}
  BY <1>2, <1>3, <1>4, <1>6 DEF Remembered, TwoDocuments
<1>8. registry \in Rebuilders /\ Of(n, Upstream) = {} => op[k].before \ dropped \subseteq d
  BY <1>2, <1>3, <1>4, <1>6 DEF Remembered, Rebuilders
<1>9. op[k].key \in Keys /\ ~Second(op[k].key)
  BY <1>2, KeysShape
<1>10. Takes(k, "answer", d)
  BY <1>3 DEF Built, Takes
<1> QED BY <1>1, <1>2, <1>5, <1>7, <1>8, <1>9, <1>10, DocOfNext

LEMMA DocOfCollect ==
    ASSUME DocInv, NEW k \in Clients,
           CollectCrate(k) \/ CollectHexPackage(k) \/ CollectPackument(k) \/ CollectProject(k)
    PROVE  DocInv'
<1>1. op[k].pc = "collect"
  BY DEF CollectCrate, CollectHexPackage, CollectPackument, CollectProject, CollectRead, Collect, Built
<1>2. op[k].release[1] \in Names
  BY <1>1, Asking
<1>3. Local(k) \subseteq Releases
  BY <1>2, Listing DEF Local
<1>4. ASSUME Collect(k, Local(k)) PROVE DocInv'
  BY <1>3, <1>4, DocOfBuilt DEF Collect
<1>5. CASE CollectCrate(k)
  <2>1. registry = "cargo" /\ Built(k, Remembered(k, {})) /\ {} \in SUBSET Releases
    BY <1>5 DEF CollectCrate
  <2> QED BY <2>1, DocOfBuilt
<1>6. CASE CollectHexPackage(k)
  BY <1>4, <1>6 DEF CollectHexPackage
<1>7. ASSUME CollectRead(k) PROVE DocInv'
  <2>1. CASE Return(k) /\ UNCHANGED <<fixed, service, document, faults>>
    <3>1. faults' \in 0..MaxFaults
      BY <2>1 DEF DocInv, StateOK
    <3> QED BY <2>1, <3>1, QuietReturn
  <2>2. CASE Collect(k, Local(k))
    BY <1>4, <2>2
  <2> QED BY <1>7, <2>1, <2>2 DEF CollectRead
<1> QED BY <1>5, <1>6, <1>7 DEF CollectPackument, CollectProject

\* What is fetched as it is is upstream's.
LEMMA DocOfFetched ==
    ASSUME DocInv, NEW k \in Clients, NEW found \in SUBSET Releases, NEW local \in SUBSET Releases,
           Fetch(k, found, local), registry # "nuget", op[k].key \in Keys,
           Second(op[k].key) => TwoDocuments /\ found \subseteq Upstream /\ local = {},
           /\ registry \in Rebuilders /\ op[k].key # RegistryEntry(op[k].release[1])
           /\ Of(op[k].release[1], Upstream) = {}
           => found = {} /\ op[k].before \ dropped \subseteq local
    PROVE  DocInv'
<1>1. op[k].pc = "fetch" /\ UNCHANGED <<fixed, service, document, faults>>
  BY DEF Fetch
<1>2. faults' \in 0..MaxFaults
  BY <1>1 DEF DocInv, StateOK
<1>3. CASE Return(k)
  BY <1>1, <1>2, <1>3, QuietReturn
<1>4. PICK d \in SUBSET Releases : d = IF found # {} THEN found ELSE local
  OBVIOUS
<1>5. CASE ~(found = {} /\ (local = {} \/ ~(local \subseteq stored))) /\ Takes(k, "answer", d)
  <2>1. d # {} /\ (Second(op[k].key) => d \subseteq Upstream)
    BY <1>4, <1>5
  <2>2. /\ registry \in Rebuilders /\ op[k].key # RegistryEntry(op[k].release[1])
        /\ Of(op[k].release[1], Upstream) = {}
        => op[k].before \ dropped \subseteq d
    BY <1>4
  <2> QED BY <1>1, <1>5, <2>1, <2>2, DocOfNext
<1> QED BY <1>3, <1>4, <1>5 DEF Fetch, Takes

LEMMA DocOfFetch ==
    ASSUME DocInv, NEW k \in Clients,
           FetchRegistryEntry(k) \/ FetchMavenMetadata(k) \/ FetchCompactIndex(k) \/ FetchPubPackage(k)
    PROVE  DocInv'
<1>1. op[k].pc = "fetch"
  BY DEF FetchRegistryEntry, FetchMavenMetadata, FetchCompactIndex, FetchPubPackage, Fetch
<1>2. PICK n \in Names : /\ n = op[k].release[1] /\ op[k].before \subseteq Of(n, published) /\ ~Rebuilt(op[k].key)
                         /\ op[k].key \in Keys /\ (Second(op[k].key) => TwoDocuments)
                         /\ (registry = "rubygems" \/ op[k].key \in {Package(n), RegistryEntry(n)})
  BY <1>1, Asking DEF IndexOK
<1>3. UpstreamOf(op[k].key) \subseteq Releases /\ UpstreamOf(op[k].key) \subseteq Upstream
  BY UpstreamAssumption DEF UpstreamOf, Of
<1>4. CASE FetchRegistryEntry(k) \/ FetchMavenMetadata(k) \/ FetchCompactIndex(k)
  <2>1. Fetch(k, UpstreamOf(op[k].key), {}) /\ {} \in SUBSET Releases
    BY <1>4 DEF FetchRegistryEntry, FetchMavenMetadata, FetchCompactIndex
  <2>2. registry \in {"hex", "maven", "rubygems"} /\ registry # "nuget"
    BY <1>4 DEF FetchRegistryEntry, FetchMavenMetadata, FetchCompactIndex
  <2>3. registry \in Rebuilders => op[k].key = RegistryEntry(n)
    BY <1>2, <2>2 DEF Rebuilders, Rebuilt, Package
  <2> QED BY <1>2, <1>3, <2>1, <2>2, <2>3, DocOfFetched
<1>5. CASE FetchPubPackage(k)
  <2>1. PICK local : local = Local(k)
    OBVIOUS
  <2>2. registry = "pub" /\ Fetch(k, UpstreamOf(op[k].key), local)
    BY <1>5, <2>1 DEF FetchPubPackage
  <2>3. local \subseteq Releases /\ op[k].before \ dropped \subseteq local
    BY <1>2, <2>1, Listing DEF Local
  <2>4. op[k].key # EveryGem /\ op[k].key[2] = n
    BY <1>2, <2>2 DEF Package, RegistryEntry, EveryGem
  <2>5. UpstreamOf(op[k].key) = Of(n, Upstream)
    BY <2>4 DEF UpstreamOf
  <2>6. ~Second(op[k].key) /\ registry # "nuget"
    BY <1>2, <2>2 DEF TwoDocuments
  <2>7. Of(n, Upstream) = {} => UpstreamOf(op[k].key) = {}
    BY <2>5
  <2>8. UpstreamOf(op[k].key) \in SUBSET Releases /\ local \in SUBSET Releases
    BY <1>3, <2>3
  <2> QED BY <1>2, <2>2, <2>3, <2>6, <2>7, <2>8, DocOfFetched
<1> QED BY <1>4, <1>5

LEMMA DocOfFillDocument == ASSUME DocInv, NEW k \in Clients, FillDocument(k) PROVE DocInv'
<1>1. op[k].pc = "answer" /\ Return(k) /\ UNCHANGED <<fixed, service>>
  BY DEF FillDocument
<1>2. faults' \in 0..MaxFaults
  BY FaultsAssumption DEF FillDocument, DocInv, StateOK
<1>3. CASE Keeps /\ Put(op[k].key, op[k].doc)
  <2>1. PICK key, d : key = op[k].key /\ d = op[k].doc /\ d \in SUBSET Releases
    BY <1>1, Asking
  <2>2. /\ key \in Keys /\ (TwoDocuments => d # {})
        /\ Second(key) => TwoDocuments /\ d \subseteq Upstream
    BY <1>1, <1>3, <2>1, Asking DEF IndexOK, Keeps
  <2>3. d \subseteq Upstream => Backed(d)
    BY DEF Backed, Of
  <2>4. Grows /\ StateOK' /\ \A u \in Clients : Undisturbed(op[u])
    BY <1>1, <1>2, <1>3, <2>1, <2>2, <2>3, OfPut
  <2>5. op' = [op EXCEPT ![k] = Idle]
    BY <1>1 DEF Return
  <2>6. PublisherOK(Idle)' /\ WriterOK(Idle)' /\ IndexOK(Idle)'
    BY IdleShape DEF PublisherOK, Publishing, WriterOK, IndexOK
  <2>7. Idle.pc \in Labels /\ Idle.pc \notin Publishing
    BY IdleShape DEF Labels, Publishing
  <2>8. OpOK(k)' /\ DOMAIN op' = Clients /\ op'[k] = Idle /\ \A u \in Clients \ {k} : op'[u] = op[u]
    BY <2>5, <2>6, <2>7, IdleShape, OpIs DEF DocInv
  <2>9. Locks(k)
    BY <2>7, <2>8 DEF Locks
  <2> QED BY <2>4, <2>8, <2>9, DocOfStep
<1>4. CASE UNCHANGED document
  BY <1>1, <1>2, <1>4, QuietReturn
<1> QED BY <1>3, <1>4 DEF FillDocument

-----------------------------------------------------------------------------
(* The theorems *)

LEMMA DocInit == Init => DocInv
<1> SUFFICES ASSUME Init PROVE DocInv
  OBVIOUS
<1>1. StateOK
  <2>1. listed \in [Names -> (SUBSET Versions) \cup {None}] /\ document \in [Keys -> (SUBSET Releases) \cup {None}]
    BY DEF Init
  <2>2. faults \in 0..MaxFaults
    BY FaultsAssumption DEF Init
  <2>3. \A n \in Names : listed[n] # {}
    BY NotNone DEF Init
  <2>4. \A key \in Keys : DocumentOK(key)
    BY DEF Init, DocumentOK
  <2> QED BY <2>1, <2>2, <2>3, <2>4 DEF Init, StateOK
<1>2. DOMAIN op = Clients /\ \A k \in Clients : op[k] = Idle
  BY DEF Init
<1>3. Idle.pc \in Labels /\ Idle.pc \notin Publishing
  BY IdleShape DEF Labels, Publishing
<1>4. \A k \in Clients : OpOK(k)
  BY <1>2, <1>3, IdleShape DEF OpOK
<1>5. OnePublishes
  BY <1>2, <1>3 DEF OnePublishes
<1> QED BY <1>1, <1>2, <1>4, <1>5 DEF DocInv

LEMMA DocStutter == ASSUME DocInv, UNCHANGED vars PROVE DocInv'
<1>1. UNCHANGED <<registry, mount, listed, memory, document, stored, published, dropped, op, faults>>
  BY DEF vars
<1>2. Grows
  BY <1>1, NoDocument DEF Grows
<1>3. StateOK'
  BY <1>1, NoDocument DEF DocInv, StateOK
<1>4. \A u \in Clients : Undisturbed(op[u])
  BY <1>1 DEF DocInv, OpOK, PublisherOK, Undisturbed
<1> QED BY <1>1, <1>2, <1>3, <1>4, DocOfQuiet

LEMMA DocStep == ASSUME DocInv, [Next]_vars PROVE DocInv'
<1>1. ASSUME NEW k \in Clients, NEW n \in Names,
             \/ \E v \in Versions : PublishRequest(k, n, v)
             \/ \E doc \in Written[n] : PutMetadataXml(k, n, doc)
             \/ IndexRequest(k, n)
      PROVE  DocInv'
  BY <1>1, DocOfPublishRequest, DocOfPutMetadataXml, DocOfIndexRequest
<1>2. ASSUME NEW k \in Clients, Publisher(k) PROVE DocInv'
  BY <1>2, DocOfLoadVersions, DocOfPutVersions, DocOfFailPublish, DocOfCommit, DocOfAdd, DocOfReplace,
     DocOfPutDocument
     DEF Publisher, AppendIndexEntry, UpsertCompactIndex, ReplacePackument, ReplaceHexMetadata
<1>3. ASSUME NEW k \in Clients, Reader(k) PROVE DocInv'
  BY <1>3, DocOfListVersions, DocOfSaveVersions, DocOfListAgain, DocOfCollect, DocOfFetch, DocOfFillDocument
     DEF Reader
<1> QED BY <1>1, <1>2, <1>3, DocOfCut, DocOfForget, DocStutter DEF Next

\* No interleaving of publishes that share no lock over the list, index requests,
\* fills, failures, dropped requests and restarts takes a handler to a stage whose data
\* it does not have, or a rollback to metadata that a publish which succeeded relies on.
THEOREM DocumentsTyped == Spec => []TypeOK
<1>1. DocInv => TypeOK
  <2> SUFFICES ASSUME DocInv PROVE TypeOK
    OBVIOUS
  <2>1. ASSUME NEW k \in Clients
        PROVE  /\ op[k].pc \in Publishing \cup
                    {"idle", "read", "put", "list", "save", "collect", "fetch", "answer"}
               /\ op[k].pc = "idle" => op[k] = Idle
               /\ op[k].pc \in Publishing => op[k].release \in stored
               /\ op[k].pc \in {"read", "put"} =>
                    op[k].release \in published /\ op[k].step \in DOMAIN Documents(op[k].release[1])
               /\ op[k].pc \in {"fetch", "answer"} => op[k].key \in Keys \/ registry = "nuget"
               /\ op[k].doc \subseteq Releases /\ op[k].before \subseteq published
    <3>1. OpOK(k)
      BY DEF DocInv
    <3>2. PublisherOK(op[k]) /\ WriterOK(op[k]) /\ IndexOK(op[k])
      BY <3>1 DEF OpOK
    <3>3. op[k].pc \in {"fetch", "answer"} => op[k].key \in Keys \/ registry = "nuget"
      BY <3>2 DEF IndexOK
    <3> QED BY <3>1, <3>2, <3>3 DEF OpOK, Labels, PublisherOK, WriterOK
  <2> QED BY <2>1 DEF DocInv, StateOK, TypeOK
<1> QED BY <1>1, DocInit, DocStep, PTL DEF Spec

\* Of the two documents of a gem or a Hex package the one of all, or of the registry,
\* never names a release that upstream does not have while the package's own is missing
\* or empty: publish_gem and publish_package put the package's first, no fill stores an
\* empty one, and none of the failures, dropped requests and overlapping puts between
\* those two takes the first away.
THEOREM IndexedReadable == Spec => []IndexedCanBeRead
<1>1. DocInv => IndexedCanBeRead
  <2> SUFFICES ASSUME DocInv, NEW n \in Names, NEW key \in {EveryGem, RegistryEntry(n)},
                      document[key] # None, Of(n, document[key] \ Upstream) # {}
               PROVE  document[Package(n)] \notin {None, {}}
    BY DEF IndexedCanBeRead
  <2>1. key \in Keys /\ Second(key)
    BY KeysShape
  <2>2. Backed(document[key])
    BY <2>1 DEF DocInv, StateOK, DocumentOK
  <2> QED BY <2>2 DEF Backed, Readable
<1> QED BY <1>1, DocInit, DocStep, PTL DEF Spec

\* The indexes that get_raw_upstream's callers build over the service's list, of a
\* package that upstream does not have, name all that had been published when the
\* request came in, but for what a publish, a rollback or a fill of the list that
\* overlapped has taken off it: what the client remembers of upstream hides nothing.
THEOREM RebuiltCurrent == Spec => []RebuiltIsCurrent
<1>1. DocInv => RebuiltIsCurrent
  <2> SUFFICES ASSUME DocInv, registry \in Rebuilders, NEW k \in Clients, op[k].pc = "answer",
                      op[k].key # RegistryEntry(op[k].release[1]), Of(op[k].release[1], Upstream) = {}
               PROVE  op[k].before \ dropped \subseteq op[k].doc
    BY DEF RebuiltIsCurrent, Rebuilders
  <2>1. IndexOK(op[k])
    BY DEF DocInv, OpOK
  <2> QED BY <2>1 DEF IndexOK
<1> QED BY <1>1, DocInit, DocStep, PTL DEF Spec
=============================================================================
