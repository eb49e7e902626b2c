------------------------ MODULE PackageIndexProofs ------------------------
(***************************************************************************)
(* Theorems about the index of a package, for any requests, versions and   *)
(* files and any number of failures.  The invariant says of each request   *)
(* which of the documents hold what it has written, what a rollback of it  *)
(* would restore, and that both versions of the index agree with           *)
(* themselves as long as it has the index for itself; and of each version  *)
(* that has acknowledged files who may be about to write it.               *)
(***************************************************************************)
EXTENDS PackageIndex, TLAPS

\* What may be stored under a key of that name.
Values(name) == {Absent} \cup IF name = "versions" THEN List ELSE Entry

Kinds == {"none", "publish", "yank", "list", "metadata"}
Writing == {"prepare", "track", "put", "commit", "undo"}
TaskFields == {"pc", "kind", "version", "yanked", "content", "value", "at", "staged"}
IsTask(o) == DOMAIN o = TaskFields /\ o = [i \in TaskFields |-> o[i]]

\* The key is written with what was prepared for it, or else with the content.
Computed(o) == o.at = 4 \/ (o.at = 3 /\ o.kind = "yank")

\* What is staged is of the keys up to the one that is being written.
StagedOK(o) ==
    /\ DOMAIN o.staged = KeyNames
    /\ \A i \in 1..4 : o.staged[Order[i]] \in {NotStaged} \cup Values(Order[i])
    /\ o.pc \in {"check", "merge", "read", "fill"} => \A i \in 1..4 : o.staged[Order[i]] = NotStaged
    /\ o.pc \in {"prepare", "track"} => \A i \in o.at..4 : o.staged[Order[i]] = NotStaged
    /\ o.pc = "put" => o.staged[Order[o.at]] # NotStaged /\ \A i \in o.at + 1..4 : o.staged[Order[i]] = NotStaged

\* What is written says of the version what the request does.
FlagsOK(o) ==
    /\ o.yanked \in BOOLEAN
    /\ o.kind \in {"publish", "metadata"} => o.yanked = FALSE
    /\ o.pc \in {"check", "merge"} \cup Writing => o.content.yanked = o.yanked

TaskOK(o) ==
    /\ IsTask(o) /\ o.kind \in Kinds /\ o.at \in 1..4
    /\ o.pc \in {"idle", "check", "merge", "read", "fill"} \cup Writing
    /\ o.pc = "idle" <=> o.kind = "none"
    /\ o.pc = "idle" => o = Idle
    /\ o.kind = "list" <=> o.pc = "fill"
    /\ o.kind = "list" => o.version = NoVersion
    /\ o.kind \in {"publish", "yank", "metadata"} => o.version \in Versions
    /\ o.kind = "metadata" => o.version \in Upstream /\ o.at = 1 /\ o.pc \in {"track", "put", "undo"}
    /\ o.pc \in {"check", "merge"} => o.kind = "publish"
    /\ o.pc = "read" => o.kind = "yank"
    /\ o.pc \in {"check", "merge", "read"} => o.at = 1
    /\ o.pc \in {"check", "merge"} \cup Writing => o.content \in Entry
    /\ o.pc = "prepare" => Computed(o)
    /\ o.pc \in {"track", "put"} /\ Computed(o) => o.value \in Values(Order[o.at]) \ {Absent}
    /\ o.pc = "commit" => o.at = 4
    /\ FlagsOK(o) /\ StagedOK(o)

StoreOK ==
    /\ DOMAIN object = Keys
    /\ \A name \in KeyNames, v \in Versions : object[Key(name, v)] \in Values(name)
    /\ published \in [Versions -> SUBSET Files]
    /\ history \in {"lone", "publishes", "mixed"} /\ faults \in 0..MaxFaults

\* Publishes of a version exclude each other; a yank that overlaps is on record,
\* and so is any overlap.
Overlaps ==
    \A t, u \in Tasks : t # u /\ task[t].kind # "none" /\ task[u].kind # "none" =>
      /\ history # "lone"
      /\ history # "mixed" => task[t].kind # "yank"
      /\ task[t].kind = "publish" /\ task[u].kind = "publish" => task[t].version # task[u].version

\* x has the files whose publish was acknowledged.
Keeps(x, v) == published[v] # {} => x # Absent /\ published[v] \subseteq x.files

KeptOK(o) ==
    o.kind \in {"publish", "yank"} /\ o.version \notin Upstream /\ o.pc \in Writing =>
      /\ Keeps(o.content, o.version)
      /\ o.staged["metadata"] # NotStaged => Keeps(o.staged["metadata"], o.version)
      /\ o.pc = "prepare" \/ (o.pc \in {"track", "put"} /\ o.at # 1) \/ o.pc = "commit" =>
           object[Key("metadata", o.version)] = o.content

KeptInv ==
    history # "mixed" =>
      /\ \A v \in Versions \ Upstream : Keeps(object[Key("metadata", v)], v)
      /\ \A t \in Tasks : KeptOK(task[t])

\* Documents that agree with each other.
Agree(O) ==
    /\ \A v \in Versions :
         /\ O[Key("record", v)] # Absent =>
              /\ O[Key("metadata", v)] = O[Key("record", v)] /\ O[Key("manifest", v)] = O[Key("record", v)]
              /\ O[Key("versions", v)] # Absent /\ v \in DOMAIN O[Key("versions", v)]
              /\ O[Key("versions", v)][v] = O[Key("record", v)].yanked
         /\ O[Key("metadata", v)] # Absent => v \in Upstream \/ O[Key("record", v)] # Absent
         /\ O[Key("versions", v)] # Absent =>
              \A w \in Versions : w \in DOMAIN O[Key("versions", v)] =>
                w \in Upstream \/ O[Key("record", w)] # Absent

\* The objects without what a request has written, which is what a rollback restores.
Old(o) == [k \in Keys |-> IF k = Key(k[1], o.version) /\ o.staged[k[1]] # NotStaged
                          THEN o.staged[k[1]] ELSE object[k]]

OldList(o) == Old(o)[Key("versions", o.version)]
NewList(o) ==
    LET before == IF OldList(o) # Absent THEN OldList(o) ELSE UpstreamList IN
    [w \in DOMAIN before \cup {o.version} |-> IF w = o.version THEN o.yanked ELSE before[w]]

\* A request that has had the index for itself has written it up to where it is.
Forward(o) ==
    LET has(name) == object[Key(name, o.version)]
        past(i) == o.at > i \/ o.pc = "commit"
        recorded == o.kind = "yank" => Old(o)[Key("record", o.version)] # Absent
    IN
    /\ o.kind = "yank" =>
         LET found == Old(o)[Key("metadata", o.version)] IN
         found # Absent /\ o.content = [found EXCEPT !.yanked = o.yanked]
    /\ past(1) => has("metadata") = o.content
    /\ past(2) => has("manifest") = o.content
    /\ past(3) => has("record") = IF recorded THEN o.content ELSE Absent
    /\ o.at = 3 /\ o.pc \in {"track", "put"} /\ o.kind = "yank" => recorded /\ o.value = o.content
    /\ o.at = 4 /\ o.pc \in {"track", "put"} => o.value = NewList(o)
    /\ past(4) => has("versions") = NewList(o)

LoneOK(o) ==
    /\ Agree(Old(o))
    /\ o.pc = "put" => object[Key(Order[o.at], o.version)] = o.staged[Order[o.at]]
    /\ o.kind = "list" => object[Key("versions", NoVersion)] = Absent
    /\ o.kind = "metadata" /\ o.pc # "undo" => object[Key("metadata", o.version)] = Absent
    /\ o.kind \in {"publish", "yank"} /\ o.pc \in Writing \ {"undo"} => Forward(o)
    /\ o.pc = "undo" => \A i \in o.at + 1 .. 4 :
         o.staged[Order[i]] # NotStaged => object[Key(Order[i], o.version)] = o.staged[Order[i]]

LoneInv ==
    history = "lone" =>
      /\ (\A t \in Tasks : task[t].kind = "none") => Agree(object)
      /\ \A o \in {task[t] : t \in Tasks} : o.kind # "none" => LoneOK(o)

IndexInv ==
    /\ StoreOK /\ DOMAIN task = Tasks /\ \A t \in Tasks : TaskOK(task[t])
    /\ Overlaps /\ KeptInv /\ LoneInv

LEMMA OrderIs ==
    /\ Order[1] = "metadata" /\ Order[2] = "manifest" /\ Order[3] = "record" /\ Order[4] = "versions"
    /\ KeyNames = {"metadata", "manifest", "record", "versions"}
    /\ \A i \in 1..4 : Order[i] \in KeyNames
    /\ \A i, j \in 1..4 : Order[i] = Order[j] => i = j
    /\ \A name \in KeyNames : \E i \in 1..4 : name = Order[i]
<1>1. Order[1] = "metadata" /\ Order[2] = "manifest" /\ Order[3] = "record" /\ Order[4] = "versions"
  BY DEF Order
<1>2. \A i \in 1..4 : i = 1 \/ i = 2 \/ i = 3 \/ i = 4
  OBVIOUS
<1>3. KeyNames = {"metadata", "manifest", "record", "versions"}
  BY <1>1, <1>2 DEF KeyNames
<1>4. \A i, j \in 1..4 : Order[i] = Order[j] => i = j
  BY <1>1, <1>2
<1> QED BY <1>1, <1>2, <1>3, <1>4

LEMMA KeyShape ==
    ASSUME NEW name \in KeyNames, NEW v \in Versions
    PROVE  /\ Key(name, v) \in Keys /\ Key(name, v)[1] = name
           /\ Key("versions", v) = Key("versions", NoVersion)
           /\ \A n \in KeyNames : \A w : n # name => Key(n, w) # Key(name, v)
           /\ \A w : name # "versions" /\ Key(name, w) = Key(name, v) => w = v
BY OrderIs DEF Key, Keys

LEMMA ListShape ==
    \A x : x \in List <=> \E S \in SUBSET Versions : x \in [S -> BOOLEAN]
BY DEF List

LEMMA ValuesShape ==
    ASSUME NEW name \in KeyNames
    PROVE  /\ NotStaged \notin Values(name) /\ Absent \in Values(name)
           /\ \A x \in Values(name) : x # Absent => x \in (IF name = "versions" THEN List ELSE Entry)
           /\ \A x \in Entry : x # Absent /\ x # NotStaged
           /\ \A x \in List : x # Absent /\ x # NotStaged
BY MarkersAssumption DEF Values

LEMMA IdleShape ==
    /\ TaskOK(Idle) /\ Idle.kind = "none" /\ Idle.pc = "idle" /\ Idle.version = NoVersion
    /\ Idle.staged = Nothing /\ \A i \in 1..4 : Nothing[Order[i]] = NotStaged
<1>1. \A i \in 1..4 : Nothing[Order[i]] = NotStaged
  BY OrderIs DEF Nothing
<1>2. /\ IsTask(Idle) /\ Idle.kind = "none" /\ Idle.pc = "idle" /\ Idle.at = 1 /\ Idle.yanked = FALSE
      /\ Idle.staged = Nothing /\ Idle.version = NoVersion
  BY DEF IsTask, TaskFields, Idle
<1>3. StagedOK(Idle)
  BY <1>1, <1>2 DEF StagedOK, Nothing
<1>4. Idle.yanked \in BOOLEAN
  BY <1>2
<1>5. FlagsOK(Idle)
  BY <1>2, <1>4 DEF FlagsOK, Writing
<1> QED BY <1>1, <1>2, <1>3, <1>5 DEF TaskOK, Kinds, Writing, Computed

\* What a request is writing.
WrittenOf(o) == IF Computed(o) THEN o.value ELSE o.content

LEMMA WrittenIs ==
    ASSUME NEW t \in Tasks, task[t].at \in 1..4
    PROVE  /\ Written(t) = WrittenOf(task[t]) /\ Name(t) = Order[task[t].at] /\ Name(t) \in KeyNames
           /\ At(t) = Key(Order[task[t].at], task[t].version)
BY OrderIs DEF Written, WrittenOf, Computed, Name, At

\* Only the value under one key counts, whatever the others are.
LEMMA AgreeSame ==
    ASSUME NEW O, NEW P, Agree(P), \A name \in KeyNames, v \in Versions : O[Key(name, v)] = P[Key(name, v)]
    PROVE  Agree(O)
<1> SUFFICES ASSUME NEW v \in Versions
             PROVE  /\ O[Key("record", v)] # Absent =>
                         /\ O[Key("metadata", v)] = O[Key("record", v)] /\ O[Key("manifest", v)] = O[Key("record", v)]
                         /\ O[Key("versions", v)] # Absent /\ v \in DOMAIN O[Key("versions", v)]
                         /\ O[Key("versions", v)][v] = O[Key("record", v)].yanked
                    /\ O[Key("metadata", v)] # Absent => v \in Upstream \/ O[Key("record", v)] # Absent
                    /\ O[Key("versions", v)] # Absent =>
                         \A w \in Versions : w \in DOMAIN O[Key("versions", v)] =>
                           w \in Upstream \/ O[Key("record", w)] # Absent
  BY DEF Agree
<1>1. \A name \in {"metadata", "manifest", "record", "versions"} : O[Key(name, v)] = P[Key(name, v)]
  BY OrderIs
<1>2. \A w \in Versions : O[Key("record", w)] = P[Key("record", w)]
  BY OrderIs
<1> QED BY <1>1, <1>2 DEF Agree

\* A rollback restores what is not staged as it is, and what is staged as it was.
LEMMA OldAt ==
    ASSUME NEW o, NEW name \in KeyNames, NEW v \in Versions
    PROVE  /\ o.staged[name] = NotStaged => Old(o)[Key(name, v)] = object[Key(name, v)]
           /\ Key(name, v) # Key(name, o.version) => Old(o)[Key(name, v)] = object[Key(name, v)]
           /\ Key(name, v) = Key(name, o.version) /\ o.staged[name] # NotStaged =>
                Old(o)[Key(name, v)] = o.staged[name]
<1>1. Key(name, v) \in Keys /\ Key(name, v)[1] = name
  BY KeyShape
<1> QED BY <1>1 DEF Old

LEMMA OldIsObject ==
    ASSUME NEW o, \A i \in 1..4 : o.staged[Order[i]] = NotStaged \/ object[Key(Order[i], o.version)] = o.staged[Order[i]],
           Agree(Old(o))
    PROVE  Agree(object)
<1>1. ASSUME NEW name \in KeyNames, NEW v \in Versions PROVE object[Key(name, v)] = Old(o)[Key(name, v)]
  <2>1. PICK i \in 1..4 : name = Order[i]
    BY OrderIs
  <2> QED BY <2>1, OldAt
<1> QED BY <1>1, AgreeSame

LEMMA OldIsObjectBack ==
    ASSUME NEW o, \A i \in 1..4 : o.staged[Order[i]] = NotStaged, Agree(object)
    PROVE  Agree(Old(o))
<1>1. ASSUME NEW name \in KeyNames, NEW v \in Versions PROVE Old(o)[Key(name, v)] = object[Key(name, v)]
  <2>1. PICK i \in 1..4 : name = Order[i]
    BY OrderIs
  <2> QED BY <2>1, OldAt
<1> QED BY <1>1, AgreeSame

\* It does not depend on what else a request has in hand, and not on what is written
\* over what was staged.
LEMMA OldSame ==
    ASSUME NEW o, NEW p, o.staged = p.staged, o.version = p.version
    PROVE  Old(o) = Old(p) /\ OldList(o) = OldList(p)
<1>1. Old(o) = Old(p)
  BY DEF Old
<1> QED BY <1>1 DEF OldList

LEMMA OldTracked ==
    ASSUME NEW o, NEW p, NEW name \in KeyNames, o.version = p.version,
           DOMAIN o.staged = KeyNames, o.staged[name] = NotStaged,
           p.staged = [o.staged EXCEPT ![name] = object[Key(name, o.version)]]
    PROVE  Old(o) = Old(p) /\ OldList(o) = OldList(p)
<1>1. ASSUME NEW k \in Keys
      PROVE  (IF k = Key(k[1], o.version) /\ o.staged[k[1]] # NotStaged THEN o.staged[k[1]] ELSE object[k])
           = (IF k = Key(k[1], p.version) /\ p.staged[k[1]] # NotStaged THEN p.staged[k[1]] ELSE object[k])
  <2>1. k[1] \in KeyNames
    BY DEF Keys, Key
  <2>2. CASE k[1] = name
    BY <2>1, <2>2
  <2>3. CASE k[1] # name
    BY <2>1, <2>3
  <2> QED BY <2>2, <2>3
<1>2. Old(o) = Old(p)
  BY <1>1 DEF Old
<1> QED BY <1>2 DEF OldList

LEMMA OldWritten ==
    ASSUME NEW o, NEW name \in KeyNames, NEW x, o.staged[name] # NotStaged,
           object' = [object EXCEPT ![Key(name, o.version)] = x], DOMAIN object = Keys,
           Key(name, o.version)[1] = name
    PROVE  Old(o)' = Old(o) /\ OldList(o)' = OldList(o)
<1>1. ASSUME NEW k \in Keys
      PROVE  (IF k = Key(k[1], o.version) /\ o.staged[k[1]] # NotStaged THEN o.staged[k[1]] ELSE object'[k])
           = (IF k = Key(k[1], o.version) /\ o.staged[k[1]] # NotStaged THEN o.staged[k[1]] ELSE object[k])
  <2>1. CASE k = Key(name, o.version)
    BY <2>1
  <2>2. CASE k # Key(name, o.version)
    BY <2>2
  <2> QED BY <2>1, <2>2
<1>2. Old(o)' = Old(o)
  BY <1>1 DEF Old
<1> QED BY <1>2 DEF OldList

LEMMA OldStays ==
    ASSUME NEW o, object' = object
    PROVE  /\ Old(o)' = Old(o) /\ (Agree(object) => Agree(object)')
           /\ (LoneOK(o) => LoneOK(o)')
<1>1. Old(o)' = Old(o) /\ OldList(o)' = OldList(o)
  BY DEF Old, OldList
<1>2. \A O : Agree(O)' <=> Agree(O)
  BY DEF Agree
<1>3. NewList(o)' = NewList(o)
  BY <1>1 DEF NewList
<1> QED BY <1>1, <1>2, <1>3 DEF LoneOK, Forward, Agree

-----------------------------------------------------------------------------
(* A request moves *)

\* It is enough to look at the request that moves and at what it has written.
LEMMA OfStep ==
    ASSUME IndexInv, NEW t \in Tasks, NEW f, f = task[t], NEW o, task' = [task EXCEPT ![t] = o],
           StoreOK', TaskOK(o),
           f.kind # "none", o.kind = "none" \/ (o.kind = f.kind /\ o.version = f.version),
           history' # "mixed" => history # "mixed", history' = "lone" => history = "lone",
           \A v \in Versions \ Upstream : v # f.version =>
             object'[Key("metadata", v)] = object[Key("metadata", v)] /\ published'[v] = published[v],
           history' # "mixed" /\ f.version \in Versions \ Upstream =>
             Keeps(object[Key("metadata", f.version)], f.version)',
           history' # "mixed" => KeptOK(o)',
           history' = "lone" => /\ o.kind = "none" => Agree(object)'
                                /\ o.kind # "none" => LoneOK(o)'
    PROVE  IndexInv'
<1>1. task'[t] = o /\ DOMAIN task' = Tasks /\ \A u \in Tasks \ {t} : task'[u] = task[u]
  BY DEF IndexInv
<1>2. \A u \in Tasks : TaskOK(task'[u])
  BY <1>1 DEF IndexInv
<1>3. Overlaps'
  <2> SUFFICES ASSUME NEW u \in Tasks, NEW w \in Tasks, u # w, task'[u].kind # "none", task'[w].kind # "none"
               PROVE  /\ history' # "lone"
                      /\ history' # "mixed" => task'[u].kind # "yank"
                      /\ task'[u].kind = "publish" /\ task'[w].kind = "publish" => task'[u].version # task'[w].version
    BY DEF Overlaps
  <2>1. /\ task'[u].kind = task[u].kind /\ task'[u].version = task[u].version
        /\ task'[w].kind = task[w].kind /\ task'[w].version = task[w].version
    BY <1>1
  <2> QED BY <2>1 DEF IndexInv, Overlaps
<1>4. ASSUME NEW u \in Tasks \ {t}, history' # "mixed", NEW g, g = task[u] PROVE KeptOK(g)'
  <2> SUFFICES ASSUME g.kind \in {"publish", "yank"}, g.version \notin Upstream, g.pc \in Writing PROVE KeptOK(g)'
    BY DEF KeptOK
  <2>1. g.version \in Versions /\ KeptOK(g)
    BY <1>4 DEF IndexInv, TaskOK, FlagsOK, KeptInv
  <2>2. g.version # f.version
    <3>1. TaskOK(f) /\ history # "mixed"
      BY <1>4 DEF IndexInv
    <3>2. CASE f.kind \in {"publish", "yank"}
      BY <1>4, <3>1, <3>2 DEF IndexInv, Overlaps
    <3>3. CASE f.kind \in {"list", "metadata"}
      BY <2>1, <3>1, <3>3, NoVersionAssumption DEF TaskOK, FlagsOK
    <3> QED BY <3>1, <3>2, <3>3 DEF TaskOK, FlagsOK, Kinds
  <2>3. /\ object'[Key("metadata", g.version)] = object[Key("metadata", g.version)]
        /\ published'[g.version] = published[g.version]
    BY <2>1, <2>2
  <2> QED BY <2>1, <2>3 DEF KeptOK, Keeps
<1>5. ASSUME history' # "mixed", NEW v \in Versions \ Upstream PROVE Keeps(object[Key("metadata", v)], v)'
  <2>1. CASE v = f.version
    BY <1>5, <2>1
  <2>2. CASE v # f.version
    BY <1>5, <2>2 DEF IndexInv, KeptInv, Keeps
  <2> QED BY <2>1, <2>2
<1>6. KeptInv'
  <2>1. ASSUME history' # "mixed", NEW u \in Tasks PROVE KeptOK(task[u])'
    <3>1. CASE u = t
      BY <1>1, <2>1, <3>1 DEF KeptOK
    <3>2. CASE u # t
      <4>1. PICK g : g = task[u]
        OBVIOUS
      <4>2. KeptOK(g)'
        BY <1>4, <2>1, <3>2, <4>1
      <4> QED BY <1>1, <3>2, <4>1, <4>2 DEF KeptOK
    <3> QED BY <3>1, <3>2
  <2> QED BY <1>5, <2>1 DEF KeptInv
<1>7. LoneInv'
  <2> SUFFICES ASSUME history' = "lone"
               PROVE  /\ (\A u \in Tasks : task'[u].kind = "none") => Agree(object)'
                      /\ \A g \in {task'[u] : u \in Tasks} : g.kind # "none" => LoneOK(g)'
    BY DEF LoneInv
  <2>1. \A u \in Tasks \ {t} : task'[u].kind = "none"
    BY <1>1 DEF IndexInv, Overlaps
  <2>2. ASSUME NEW g \in {task'[u] : u \in Tasks}, g.kind # "none" PROVE LoneOK(g)'
    <3>1. g = o
      BY <1>1, <2>1, <2>2
    <3> QED BY <2>2, <3>1
  <2> QED BY <1>1, <2>2
<1> QED BY <1>1, <1>2, <1>3, <1>6, <1>7 DEF IndexInv, TaskOK, FlagsOK, StagedOK, Values

\* A step that writes nothing.
LEMMA OfQuiet ==
    ASSUME IndexInv, NEW t \in Tasks, NEW f, f = task[t], NEW o, task' = [task EXCEPT ![t] = o],
           UNCHANGED <<object, published>>, faults' \in 0..MaxFaults, TaskOK(o),
           f.kind # "none", o.kind = "none" \/ (o.kind = f.kind /\ o.version = f.version),
           history' \in {history, "mixed"} \/ (history' = "publishes" /\ history # "mixed"),
           history' # "mixed" => KeptOK(o),
           history' = "lone" => /\ o.kind = "none" => Agree(object)
                                /\ o.kind # "none" => LoneOK(o)
    PROVE  IndexInv'
<1>1. StoreOK'
  BY DEF IndexInv, StoreOK
<1>2. history' # "mixed" => KeptOK(o)'
  BY DEF KeptOK, Keeps
<1>3. history' = "lone" => /\ o.kind = "none" => Agree(object)'
                           /\ o.kind # "none" => LoneOK(o)'
  BY OldStays
<1>4. history' # "mixed" /\ f.version \in Versions \ Upstream =>
        Keeps(object[Key("metadata", f.version)], f.version)'
  BY DEF IndexInv, KeptInv, Keeps
<1>5. (history' # "mixed" => history # "mixed") /\ (history' = "lone" => history = "lone")
  OBVIOUS
<1>6. \A v \in Versions \ Upstream : v # f.version =>
        object'[Key("metadata", v)] = object[Key("metadata", v)] /\ published'[v] = published[v]
  OBVIOUS
<1> QED BY <1>1, <1>2, <1>3, <1>4, <1>5, <1>6, OfStep

\* A request begins with nothing staged.
LEMMA OfBegin ==
    ASSUME IndexInv, NEW t \in Tasks, NEW o, NEW v, Begin(t, o.kind, v), task' = [task EXCEPT ![t] = o],
           TaskOK(o), o.kind # "none", o.staged = Nothing, o.pc \in {"check", "read", "fill", "track"},
           o.pc = "track" => o.kind = "metadata",
           o.kind = "publish" => \A u \in Tasks : task[u].kind = "publish" => task[u].version # o.version,
           o.kind = "list" => object[Key("versions", NoVersion)] = Absent,
           o.kind = "metadata" => object[Key("metadata", o.version)] = Absent
    PROVE  IndexInv'
<1> DEFINE others == {task[u].kind : u \in Tasks \ {t}} \ {"none"}
<1>1. /\ task'[t] = o /\ DOMAIN task' = Tasks /\ \A u \in Tasks \ {t} : task'[u] = task[u]
      /\ task[t].kind = "none" /\ UNCHANGED <<object, published, faults>>
  BY DEF IndexInv, Begin, TaskOK, FlagsOK
<1>2. /\ history' = IF history = "mixed" THEN history
                    ELSE CASE others = {} -> history
                           [] "yank" \in others \cup {o.kind} -> "mixed"
                           [] OTHER -> "publishes"
      /\ history \in {"lone", "publishes", "mixed"}
  BY DEF Begin, Enter, IndexInv, StoreOK
<1>3. \A u \in Tasks \ {t} : task[u].kind # "none" => task[u].kind \in others
  OBVIOUS
<1>4. others = {} => \A u \in Tasks \ {t} : task[u].kind = "none"
  BY <1>3
<1>5. /\ others # {} => history' # "lone"
      /\ others # {} /\ history' # "mixed" => "yank" \notin others /\ o.kind # "yank"
      /\ history' # "mixed" => history # "mixed"
      /\ history' = "lone" => history = "lone" /\ others = {}
      /\ history' \in {"lone", "publishes", "mixed"}
  <2> HIDE DEF others
  <2>1. CASE history = "mixed"
    BY <1>2, <2>1
  <2>2. CASE history # "mixed" /\ others = {}
    BY <1>2, <2>2
  <2>3. CASE history # "mixed" /\ others # {} /\ "yank" \in others \cup {o.kind}
    BY <1>2, <2>3
  <2>4. CASE history # "mixed" /\ others # {} /\ "yank" \notin others \cup {o.kind}
    BY <1>2, <2>4
  <2> QED BY <2>1, <2>2, <2>3, <2>4
<1>6. \A u \in Tasks : TaskOK(task'[u])
  BY <1>1 DEF IndexInv
<1>7. Overlaps'
  <2> SUFFICES ASSUME NEW u \in Tasks, NEW w \in Tasks, u # w, task'[u].kind # "none", task'[w].kind # "none"
               PROVE  /\ history' # "lone"
                      /\ history' # "mixed" => task'[u].kind # "yank"
                      /\ task'[u].kind = "publish" /\ task'[w].kind = "publish" => task'[u].version # task'[w].version
    BY DEF Overlaps
  <2>1. CASE u # t /\ w # t
    <3> HIDE DEF others
    <3> QED BY <1>1, <1>5, <2>1 DEF IndexInv, Overlaps
  <2>2. CASE u = t \/ w = t
    <3>1. others # {} /\ (u # t => task[u].kind \in others)
      BY <1>1, <1>3, <2>2
    <3> HIDE DEF others
    <3> QED BY <1>1, <1>5, <2>2, <3>1
  <2> QED BY <2>1, <2>2
<1>8. KeptInv'
  <2> SUFFICES ASSUME history' # "mixed"
               PROVE  /\ \A w \in Versions \ Upstream : Keeps(object[Key("metadata", w)], w)'
                      /\ \A u \in Tasks : KeptOK(task[u])'
    BY DEF KeptInv
  <2>1. KeptInv /\ history # "mixed"
    BY <1>5 DEF IndexInv
  <2>2. KeptOK(task[t])'
    BY <1>1 DEF KeptOK, Writing
  <2>3. \A u \in Tasks \ {t} : KeptOK(task[u])'
    BY <1>1, <2>1 DEF KeptInv, KeptOK, Keeps
  <2> QED BY <1>1, <2>1, <2>2, <2>3 DEF KeptInv, Keeps
<1>9. LoneInv'
  <2> SUFFICES ASSUME history' = "lone"
               PROVE  /\ \E u \in Tasks : task'[u].kind # "none"
                      /\ \A g \in {task'[u] : u \in Tasks} : g.kind # "none" => LoneOK(g)'
    BY DEF LoneInv
  <2>1. /\ \A u \in Tasks : task[u].kind = "none"
        /\ history = "lone"
    BY <1>1, <1>4, <1>5
  <2>2. Agree(object)
    BY <2>1 DEF IndexInv, LoneInv
  <2>3. \A i \in 1..4 : o.staged[Order[i]] = NotStaged
    BY IdleShape
  <2>4. Agree(Old(o))
    BY <2>2, <2>3, OldIsObjectBack
  <2>5. o.kind \in {"publish", "yank"} => o.pc \notin Writing
    BY DEF Writing
  <2>6. LoneOK(o)
    BY <2>4, <2>5 DEF LoneOK
  <2>7. LoneOK(o)'
    BY <1>1, <2>6, OldStays
  <2>8. ASSUME NEW g \in {task'[u] : u \in Tasks}, g.kind # "none" PROVE LoneOK(g)'
    <3>1. g = o
      BY <1>1, <2>1, <2>8
    <3> QED BY <2>7, <3>1
  <2> QED BY <1>1, <2>8
<1>10. StoreOK'
  BY <1>1, <1>5 DEF IndexInv, StoreOK
<1> QED BY <1>1, <1>6, <1>7, <1>8, <1>9, <1>10 DEF IndexInv, TaskOK, FlagsOK, StagedOK, Values

-----------------------------------------------------------------------------
(* Up to the first write *)

LEMMA NothingStaged ==
    ASSUME NEW o, o.staged = Nothing, o.at = 1, o.pc \in {"check", "merge", "read", "fill", "track"}
    PROVE  StagedOK(o)
<1>1. \A i \in 1..4 : o.staged[Order[i]] = NotStaged
  BY IdleShape
<1>2. DOMAIN o.staged = KeyNames
  BY DEF Nothing
<1> QED BY <1>1, <1>2 DEF StagedOK

LEMMA OfStartPublish ==
    ASSUME IndexInv, NEW t \in Tasks, NEW v \in Versions, NEW f \in (SUBSET Files) \ {{}}, StartPublish(t, v, f)
    PROVE  IndexInv'
<1> DEFINE o == [Idle EXCEPT !.pc = "check", !.kind = "publish", !.version = v,
                             !.content = [files |-> f, yanked |-> FALSE]]
<1>1. /\ IsTask(o) /\ o.pc = "check" /\ o.kind = "publish" /\ o.version = v /\ o.at = 1 /\ o.yanked = FALSE
      /\ o.content = [files |-> f, yanked |-> FALSE] /\ o.staged = Nothing
  BY DEF IsTask, TaskFields, Idle
<1>2. /\ task' = [task EXCEPT ![t] = o] /\ Begin(t, "publish", v)
      /\ \A u \in Tasks : task[u].kind = "publish" => task[u].version # v
  BY DEF StartPublish
<1> HIDE DEF o
<1>3. o.content \in Entry /\ o.content.yanked = o.yanked
  <2>1. o.content \in Entry
    BY <1>1 DEF Entry
  <2>2. o.content.yanked = FALSE
    BY <1>1
  <2> QED BY <1>1, <2>1, <2>2
<1>4. TaskOK(o)
  <2>1. StagedOK(o)
    BY <1>1, NothingStaged
  <2>2. o.yanked \in BOOLEAN
    BY <1>1
  <2>3. FlagsOK(o)
    BY <1>1, <1>3, <2>2 DEF FlagsOK, Writing
  <2> QED BY <1>1, <2>3, <1>3, <2>1 DEF TaskOK, Kinds, Writing
<1> QED BY <1>1, <1>2, <1>4, OfBegin

LEMMA OfStartYank ==
    ASSUME IndexInv, NEW t \in Tasks, NEW v \in Versions, NEW y \in BOOLEAN, StartYank(t, v, y)
    PROVE  IndexInv'
<1> DEFINE o == [Idle EXCEPT !.pc = "read", !.kind = "yank", !.version = v, !.yanked = y]
<1>1. /\ IsTask(o) /\ o.pc = "read" /\ o.kind = "yank" /\ o.version = v /\ o.at = 1 /\ o.yanked = y
      /\ o.staged = Nothing
  BY DEF IsTask, TaskFields, Idle
<1>2. task' = [task EXCEPT ![t] = o] /\ Begin(t, "yank", v)
  BY DEF StartYank
<1> HIDE DEF o
<1>3. TaskOK(o)
  <2>1. StagedOK(o)
    BY <1>1, NothingStaged
  <2>2. o.yanked \in BOOLEAN
    BY <1>1
  <2>3. FlagsOK(o)
    BY <1>1, <2>2 DEF FlagsOK, Writing
  <2> QED BY <1>1, <2>3, <2>1 DEF TaskOK, Kinds, Writing
<1> QED BY <1>1, <1>2, <1>3, OfBegin

LEMMA OfStartMetadata ==
    ASSUME IndexInv, NEW t \in Tasks, NEW v \in Versions, StartMetadata(t, v)
    PROVE  IndexInv'
<1> DEFINE o == [Idle EXCEPT !.pc = "track", !.kind = "metadata", !.version = v,
                             !.content = [files |-> Files, yanked |-> FALSE]]
<1>1. /\ IsTask(o) /\ o.pc = "track" /\ o.kind = "metadata" /\ o.version = v /\ o.at = 1 /\ o.yanked = FALSE
      /\ o.content = [files |-> Files, yanked |-> FALSE] /\ o.staged = Nothing
  BY DEF IsTask, TaskFields, Idle
<1>2. /\ task' = [task EXCEPT ![t] = o] /\ Begin(t, "metadata", v)
      /\ v \in Upstream /\ object[Key("metadata", v)] = Absent
  BY DEF StartMetadata
<1> HIDE DEF o
<1>3. o.content \in Entry /\ o.content.yanked = o.yanked
  <2>1. o.content \in Entry
    BY <1>1 DEF Entry
  <2>2. o.content.yanked = FALSE
    BY <1>1
  <2> QED BY <1>1, <2>1, <2>2
<1>4. TaskOK(o)
  <2>1. StagedOK(o)
    BY <1>1, NothingStaged
  <2>2. o.yanked \in BOOLEAN
    BY <1>1
  <2>3. FlagsOK(o)
    BY <1>1, <1>3, <2>2 DEF FlagsOK, Writing
  <2> QED BY <1>1, <2>3, <1>2, <1>3, <2>1 DEF TaskOK, Kinds, Writing, Computed
<1> QED BY <1>1, <1>2, <1>4, OfBegin

LEMMA OfStartList == ASSUME IndexInv, NEW t \in Tasks, StartList(t) PROVE IndexInv'
<1> DEFINE o == [Idle EXCEPT !.pc = "fill", !.kind = "list"]
<1>1. /\ IsTask(o) /\ o.pc = "fill" /\ o.kind = "list" /\ o.version = NoVersion /\ o.at = 1 /\ o.yanked = FALSE
      /\ o.staged = Nothing
  BY DEF IsTask, TaskFields, Idle
<1>2. /\ task' = [task EXCEPT ![t] = o] /\ Begin(t, "list", NoVersion)
      /\ object[Key("versions", NoVersion)] = Absent
  BY DEF StartList
<1> HIDE DEF o
<1>3. TaskOK(o)
  <2>1. StagedOK(o)
    BY <1>1, NothingStaged
  <2>2. o.yanked \in BOOLEAN
    BY <1>1
  <2>3. FlagsOK(o)
    BY <1>1, <2>2 DEF FlagsOK, Writing
  <2> QED BY <1>1, <2>3, <2>1 DEF TaskOK, Kinds, Writing
<1> QED BY <1>1, <1>2, <1>3, OfBegin

\* A request that has not written leaves the index as it was.
LEMMA Unwritten ==
    ASSUME IndexInv, NEW t \in Tasks, NEW f, f = task[t], f.kind # "none", history = "lone",
           \A i \in 1..4 : f.staged[Order[i]] = NotStaged
    PROVE  Agree(object)
<1>1. Agree(Old(f))
  BY DEF IndexInv, LoneInv, LoneOK
<1> QED BY <1>1, OldIsObject

LEMMA Returning ==
    ASSUME IndexInv, NEW t \in Tasks, NEW f, f = task[t], Return(t),
           UNCHANGED <<object, published>>, faults' \in 0..MaxFaults, f.kind # "none",
           history' \in {history, "mixed"} \/ (history' = "publishes" /\ history # "mixed"),
           history' = "lone" => Agree(object)
    PROVE  IndexInv'
<1>1. task' = [task EXCEPT ![t] = Idle]
  BY DEF Return
<1>2. KeptOK(Idle)
  BY IdleShape DEF KeptOK
<1> QED BY <1>1, <1>2, IdleShape, OfQuiet

\* A request with nothing staged that is done, or is refused.
LEMMA GivingUp ==
    ASSUME IndexInv, NEW t \in Tasks, Return(t), task[t].pc \in {"check", "merge", "read", "fill"},
           UNCHANGED <<object, published, history>>, faults' \in 0..MaxFaults
    PROVE  IndexInv'
<1>1. PICK f : f = task[t] /\ TaskOK(f) /\ f.pc \in {"check", "merge", "read", "fill"}
  BY DEF IndexInv
<1>2. f.kind # "none" /\ \A i \in 1..4 : f.staged[Order[i]] = NotStaged
  BY <1>1 DEF TaskOK, FlagsOK, StagedOK
<1> QED BY <1>1, <1>2, Unwritten, Returning

LEMMA OfRefuse == ASSUME IndexInv, NEW t \in Tasks, Refuse(t) PROVE IndexInv'
<1>1. faults' \in 0..MaxFaults
  BY DEF Refuse, IndexInv, StoreOK
<1> QED BY <1>1, GivingUp DEF Refuse

\* On to the writes, with content that has what was acknowledged.
LEMMA ToTrack ==
    ASSUME IndexInv, NEW t \in Tasks, NEW f, f = task[t], NEW o, task' = [task EXCEPT ![t] = o],
           UNCHANGED <<object, published, history>>, faults' \in 0..MaxFaults,
           f.pc \in {"check", "merge", "read"}, IsTask(o), o.pc = "track",
           o.kind = f.kind, o.version = f.version, o.yanked = f.yanked, o.at = f.at, o.staged = f.staged,
           o.content \in Entry, o.content.yanked = o.yanked,
           history # "mixed" /\ f.version \notin Upstream => Keeps(o.content, f.version),
           f.kind = "yank" => LET found == object[Key("metadata", f.version)] IN
             found # Absent /\ o.content = [found EXCEPT !.yanked = o.yanked]
    PROVE  IndexInv'
<1>1. TaskOK(f) /\ f.kind \in {"publish", "yank"} /\ f.version \in Versions /\ f.at = 1
      /\ \A i \in 1..4 : f.staged[Order[i]] = NotStaged
  BY DEF IndexInv, TaskOK, FlagsOK, StagedOK
<1>2. StagedOK(o)
  BY <1>1 DEF TaskOK, FlagsOK, StagedOK
<1>3. TaskOK(o)
  BY <1>1, <1>2 DEF TaskOK, FlagsOK, Writing, Computed
<1>4. o.staged["metadata"] = NotStaged
  BY <1>1, OrderIs
<1>5. history' # "mixed" => KeptOK(o)
  BY <1>1, <1>4 DEF KeptOK
<1>6. ASSUME history = "lone" PROVE LoneOK(o)
  <2>1. Old(f) = Old(o)
    BY OldSame
  <2>2. LoneOK(f)
    BY <1>1, <1>6 DEF IndexInv, LoneInv
  <2>3. Old(o)[Key("metadata", o.version)] = object[Key("metadata", f.version)]
    BY <1>1, <1>4, OrderIs, OldAt
  <2>4. Forward(o)
    BY <1>1, <2>3 DEF Forward
  <2> QED BY <1>1, <2>1, <2>2, <2>4 DEF LoneOK
<1> QED BY <1>1, <1>3, <1>5, <1>6, OfQuiet

LEMMA Stored1 ==
    ASSUME IndexInv, NEW v \in Versions, NEW name \in KeyNames
    PROVE  object[Key(name, v)] # Absent => object[Key(name, v)] \in (IF name = "versions" THEN List ELSE Entry)
BY ValuesShape DEF IndexInv, StoreOK

LEMMA OfCheckPublish == ASSUME IndexInv, NEW t \in Tasks, CheckPublish(t) PROVE IndexInv'
<1>1. PICK f : f = task[t] /\ TaskOK(f) /\ f.pc = "check"
  BY DEF IndexInv, CheckPublish
<1>2. /\ f.kind = "publish" /\ f.version \in Versions /\ f.at = 1 /\ IsTask(f)
      /\ f.content \in Entry /\ f.content.yanked = f.yanked
  BY <1>1 DEF TaskOK, FlagsOK
<1>3. UNCHANGED <<object, published, history>> /\ faults' \in 0..MaxFaults
  BY FaultsAssumption DEF CheckPublish, Fault, IndexInv, StoreOK
<1>4. CASE Return(t)
  BY <1>1, <1>3, <1>4, GivingUp
<1>5. ASSUME NEW x \in {"merge", "track"}, Goto(t, x),
             x = "track" => object[Key("metadata", f.version)] = Absent
      PROVE  IndexInv'
  <2> DEFINE o == [f EXCEPT !.pc = x]
  <2>1. task' = [task EXCEPT ![t] = o]
    BY <1>1, <1>5 DEF Goto
  <2>2. /\ IsTask(o) /\ o.pc = x /\ o.kind = f.kind /\ o.version = f.version /\ o.yanked = f.yanked
        /\ o.at = f.at /\ o.staged = f.staged /\ o.content = f.content
    BY <1>2 DEF IsTask, TaskFields
  <2> HIDE DEF o
  <2>3. CASE x = "track"
    <3>1. history # "mixed" /\ f.version \notin Upstream => Keeps(o.content, f.version)
      BY <1>2, <1>5, <2>3 DEF IndexInv, KeptInv, Keeps
    <3> QED BY <1>1, <1>2, <1>3, <2>1, <2>2, <2>3, <3>1, ToTrack
  <2>4. CASE x = "merge"
    <3>1. StagedOK(o)
      BY <1>1, <2>2, <2>4 DEF TaskOK, FlagsOK, StagedOK
    <3>2. TaskOK(o)
      BY <1>1, <1>2, <2>2, <2>4, <3>1 DEF TaskOK, FlagsOK, Writing
    <3>3. KeptOK(o)
      BY <2>2, <2>4 DEF KeptOK, Writing
    <3>4. ASSUME history = "lone" PROVE LoneOK(o)
      <4>1. Old(f) = Old(o)
        BY <2>2, OldSame
      <4>2. LoneOK(f)
        BY <1>1, <1>2, <3>4 DEF IndexInv, LoneInv
      <4> QED BY <1>2, <2>2, <2>4, <4>1, <4>2 DEF LoneOK, Writing
    <3> QED BY <1>1, <1>2, <1>3, <2>1, <2>2, <3>2, <3>3, <3>4, OfQuiet
  <2> QED BY <2>3, <2>4
<1>6. PICK x : x = IF object[Key("metadata", f.version)] # Absent THEN "merge" ELSE "track"
  OBVIOUS
<1>7. CASE Goto(t, x)
  BY <1>5, <1>6, <1>7
<1> QED BY <1>1, <1>4, <1>6, <1>7 DEF CheckPublish

LEMMA OfMergeExisting == ASSUME IndexInv, NEW t \in Tasks, MergeExisting(t) PROVE IndexInv'
<1>1. PICK f : f = task[t] /\ TaskOK(f) /\ f.pc = "merge"
  BY DEF IndexInv, MergeExisting
<1>2. /\ f.kind = "publish" /\ f.version \in Versions /\ f.at = 1 /\ IsTask(f)
      /\ f.content \in Entry /\ f.content.yanked = f.yanked
  BY <1>1 DEF TaskOK, FlagsOK
<1>3. PICK e \in Entry : e = object[Key("metadata", f.version)]
  BY <1>1, <1>2, Stored1, OrderIs DEF MergeExisting
<1> DEFINE c == [f.content EXCEPT !.files = @ \cup e.files]
           o == [f EXCEPT !.pc = "track", !.content = c]
<1>4. task' = [task EXCEPT ![t] = o] /\ UNCHANGED <<object, published, history, faults>>
  <2>1. task' = [task EXCEPT ![t].pc = "track", ![t].content.files = @ \cup e.files]
    BY <1>1, <1>3 DEF MergeExisting
  <2>2. DOMAIN task = Tasks /\ task[t] = f
    BY <1>1 DEF IndexInv
  <2>3. [f EXCEPT !.pc = "track"].content = f.content
    BY <1>2 DEF IsTask, TaskFields
  <2>4. task' = [task EXCEPT ![t] = [[f EXCEPT !.pc = "track"] EXCEPT !.content = c]]
    BY <2>1, <2>2, <2>3
  <2>5. [[f EXCEPT !.pc = "track"] EXCEPT !.content = c] = o
    OBVIOUS
  <2> QED BY <2>4, <2>5 DEF MergeExisting
<1>5. c \in Entry /\ c.yanked = f.yanked /\ c.files = f.content.files \cup e.files
  BY <1>2 DEF Entry
<1> HIDE DEF c
<1>6. /\ IsTask(o) /\ o.pc = "track" /\ o.kind = f.kind /\ o.version = f.version /\ o.yanked = f.yanked
      /\ o.at = f.at /\ o.staged = f.staged /\ o.content = c
  BY <1>2 DEF IsTask, TaskFields
<1> HIDE DEF o
<1>7. history # "mixed" /\ f.version \notin Upstream => Keeps(o.content, f.version)
  <2>1. c # Absent
    BY <1>5, MarkersAssumption
  <2> QED BY <1>2, <1>3, <1>5, <1>6, <2>1 DEF IndexInv, KeptInv, Keeps
<1>8. faults' \in 0..MaxFaults
  BY <1>4 DEF IndexInv, StoreOK
<1> QED BY <1>1, <1>2, <1>4, <1>5, <1>6, <1>7, <1>8, ToTrack

LEMMA OfReadMetadata == ASSUME IndexInv, NEW t \in Tasks, ReadMetadata(t) PROVE IndexInv'
<1>1. PICK f : f = task[t] /\ TaskOK(f) /\ f.pc = "read"
  BY DEF IndexInv, ReadMetadata
<1>2. f.kind = "yank" /\ f.version \in Versions /\ f.at = 1 /\ IsTask(f) /\ f.yanked \in BOOLEAN
  BY <1>1 DEF TaskOK, FlagsOK
<1>3. UNCHANGED <<object, published, history>> /\ faults' \in 0..MaxFaults
  BY DEF ReadMetadata, IndexInv, StoreOK
<1>4. CASE Return(t)
  BY <1>1, <1>3, <1>4, GivingUp
<1>5. PICK e : e = object[Key("metadata", f.version)]
  OBVIOUS
<1> DEFINE c == [e EXCEPT !.yanked = f.yanked]
           o == [f EXCEPT !.pc = "track", !.content = c]
<1>6. CASE e # Absent /\ task' = [task EXCEPT ![t] = o]
  <2>1. e \in Entry
    BY <1>2, <1>5, <1>6, Stored1, OrderIs
  <2>2. c \in Entry /\ c.yanked = f.yanked /\ c.files = e.files
    BY <1>2, <2>1 DEF Entry
  <2> HIDE DEF c
  <2>3. /\ IsTask(o) /\ o.pc = "track" /\ o.kind = f.kind /\ o.version = f.version /\ o.yanked = f.yanked
        /\ o.at = f.at /\ o.staged = f.staged /\ o.content = c
    BY <1>2 DEF IsTask, TaskFields
  <2>4. task' = [task EXCEPT ![t] = o]
    BY <1>6
  <2> HIDE DEF o
  <2>5. history # "mixed" /\ f.version \notin Upstream => Keeps(o.content, f.version)
    <3>1. c # Absent
      BY <2>2, MarkersAssumption
    <3> QED BY <1>2, <1>5, <2>2, <2>3, <3>1 DEF IndexInv, KeptInv, Keeps
  <2>6. object[Key("metadata", f.version)] # Absent
        /\ o.content = [object[Key("metadata", f.version)] EXCEPT !.yanked = o.yanked]
    BY <1>5, <1>6, <2>3 DEF c
  <2> QED BY <1>1, <1>2, <1>3, <2>2, <2>3, <2>4, <2>5, <2>6, ToTrack
<1> QED BY <1>1, <1>4, <1>5, <1>6 DEF ReadMetadata

-----------------------------------------------------------------------------
(* The writes *)

\* A request that is writing has something in hand.
LEMMA InHand ==
    ASSUME IndexInv, NEW t \in Tasks, task[t].pc \in Writing
    PROVE  \E f : /\ f = task[t] /\ TaskOK(f) /\ IsTask(f) /\ f.kind \in {"publish", "yank", "metadata"}
                  /\ f.version \in Versions /\ f.at \in 1..4 /\ f.kind # "none"
                  /\ f.content \in Entry /\ f.content.yanked = f.yanked /\ f.yanked \in BOOLEAN
                  /\ (f.pc \in {"prepare", "commit"} => f.kind \in {"publish", "yank"})
                  /\ (history # "mixed" => KeptOK(f)) /\ (history = "lone" => LoneOK(f))
<1>1. PICK f : f = task[t]
  OBVIOUS
<1>2. TaskOK(f) /\ f.pc \in Writing
  BY <1>1 DEF IndexInv
<1>3. /\ f.kind \in {"publish", "yank", "metadata"} /\ f.kind # "none"
      /\ (f.pc \in {"prepare", "commit"} => f.kind \in {"publish", "yank"})
  BY <1>2 DEF TaskOK, FlagsOK, Writing, Kinds
<1>4. (history # "mixed" => KeptOK(f)) /\ (history = "lone" => LoneOK(f))
  BY <1>1, <1>3 DEF IndexInv, KeptInv, LoneInv
<1> QED BY <1>1, <1>2, <1>3, <1>4 DEF TaskOK, FlagsOK

\* One key of a version is written.
LEMMA WriteEffect ==
    ASSUME IndexInv, NEW v \in Versions, NEW i \in 1..4, NEW x \in Values(Order[i]),
           object' = [object EXCEPT ![Key(Order[i], v)] = x], UNCHANGED published,
           history' = history, faults' \in 0..MaxFaults,
           i = 1 /\ history # "mixed" /\ v \notin Upstream => Keeps(x, v)
    PROVE  /\ StoreOK'
           /\ \A w \in Versions \ Upstream : w # v =>
                object'[Key("metadata", w)] = object[Key("metadata", w)] /\ published'[w] = published[w]
           /\ history' # "mixed" /\ v \in Versions \ Upstream => Keeps(object[Key("metadata", v)], v)'
           /\ object'[Key(Order[i], v)] = x
           /\ \A j \in 1..4 : j # i => object'[Key(Order[j], v)] = object[Key(Order[j], v)]
<1>1. DOMAIN object = Keys /\ Order[i] \in KeyNames /\ Key(Order[i], v) \in Keys
  BY OrderIs, KeyShape DEF IndexInv, StoreOK
<1>2. ASSUME NEW name \in KeyNames, NEW w \in Versions PROVE object'[Key(name, w)] \in Values(name)
  <2>1. CASE name = Order[i] /\ Key(name, w) = Key(Order[i], v)
    BY <1>1, <2>1
  <2>2. CASE Key(name, w) # Key(Order[i], v)
    BY <2>2 DEF IndexInv, StoreOK
  <2>3. Key(name, w) = Key(Order[i], v) => name = Order[i]
    BY <1>1, KeyShape
  <2> QED BY <2>1, <2>2, <2>3
<1>3. StoreOK'
  BY <1>1, <1>2 DEF IndexInv, StoreOK
<1>4. \A j \in 1..4 : j # i => object'[Key(Order[j], v)] = object[Key(Order[j], v)]
  BY <1>1, OrderIs, KeyShape
<1>5. object'[Key(Order[i], v)] = x
  BY <1>1
<1>6. ASSUME NEW w \in Versions, w # v PROVE object'[Key("metadata", w)] = object[Key("metadata", w)]
  <2>1. Key("metadata", w) # Key(Order[i], v)
    BY <1>1, <1>6, OrderIs, KeyShape
  <2> QED BY <2>1
<1>7. ASSUME history # "mixed", v \notin Upstream PROVE Keeps(object[Key("metadata", v)], v)'
  <2>1. CASE i = 1
    BY <1>5, <1>7, <2>1, OrderIs DEF Keeps
  <2>2. CASE i # 1
    <3>1. object'[Key("metadata", v)] = object[Key("metadata", v)]
      BY <1>4, <2>2, OrderIs
    <3> QED BY <1>7, <3>1 DEF IndexInv, KeptInv, Keeps
  <2> QED BY <2>1, <2>2
<1> QED BY <1>3, <1>4, <1>5, <1>6, <1>7

\* Another stage of the same request.
Like(o, f) ==
    /\ IsTask(o) /\ o.kind = f.kind /\ o.version = f.version /\ o.yanked = f.yanked
    /\ o.content = f.content /\ o.staged = f.staged

LEMMA NextWrites ==
    ASSUME NEW t \in Tasks, NEW f, f = task[t], IsTask(f), f.at \in 1..3, NextWrite(t)
    PROVE  \E o : /\ task' = [task EXCEPT ![t] = o] /\ Like(o, f) /\ o.value = f.value /\ o.at = f.at + 1
                  /\ o.pc = IF Computed(o) THEN "prepare" ELSE "track"
<1>1. PICK x : x = IF Order[f.at + 1] = "versions" \/ (Order[f.at + 1] = "record" /\ f.kind = "yank")
                   THEN "prepare" ELSE "track"
  OBVIOUS
<1> DEFINE o == [f EXCEPT !.at = f.at + 1, !.pc = x]
<1>2. task' = [task EXCEPT ![t] = o]
  BY <1>1 DEF NextWrite
<1>3. Like(o, f) /\ o.value = f.value /\ o.at = f.at + 1 /\ o.pc = x
  BY DEF IsTask, TaskFields, Like
<1> HIDE DEF o
<1>4. f.at + 1 \in 1..4 /\ (f.at + 1 = 2 \/ f.at + 1 = 3 \/ f.at + 1 = 4)
  OBVIOUS
<1>5. x = IF Computed(o) THEN "prepare" ELSE "track"
  BY <1>1, <1>3, <1>4, OrderIs DEF Computed, Like
<1> QED BY <1>2, <1>3, <1>5

\* What is staged stays so where the request is still ahead.
LEMMA NextIsOK ==
    ASSUME NEW f, TaskOK(f), f.pc \in {"prepare", "put"}, f.kind \in {"publish", "yank"}, f.at \in 1..3,
           NEW o, Like(o, f), o.at = f.at + 1, o.pc = IF Computed(o) THEN "prepare" ELSE "track"
    PROVE  TaskOK(o)
<1>1. o.pc \in {"prepare", "track"} /\ o.at \in 1..4 /\ o.at..4 \subseteq f.at + 1..4 /\ o.at..4 \subseteq f.at..4
  OBVIOUS
<1>2. StagedOK(o)
  BY <1>1 DEF TaskOK, FlagsOK, StagedOK, Like
<1>3. o.pc = "track" => ~Computed(o)
  OBVIOUS
<1> QED BY <1>1, <1>2, <1>3 DEF TaskOK, FlagsOK, Like, Writing

LEMMA OfPrepareRecord == ASSUME IndexInv, NEW t \in Tasks, PrepareRecord(t) PROVE IndexInv'
<1>1. PICK f : /\ f = task[t] /\ TaskOK(f) /\ IsTask(f) /\ f.kind \in {"publish", "yank", "metadata"}
               /\ f.version \in Versions /\ f.at \in 1..4 /\ f.kind # "none"
               /\ f.content \in Entry /\ f.content.yanked = f.yanked /\ f.yanked \in BOOLEAN
               /\ (f.pc \in {"prepare", "commit"} => f.kind \in {"publish", "yank"})
               /\ (history # "mixed" => KeptOK(f)) /\ (history = "lone" => LoneOK(f))
  BY InHand DEF PrepareRecord, Writing
<1>2. /\ f.pc = "prepare" /\ Order[f.at] = "record" /\ At(t) = Key(Order[f.at], f.version)
      /\ UNCHANGED <<object, published, history, faults>> /\ faults' \in 0..MaxFaults
  BY <1>1, WrittenIs DEF PrepareRecord, IndexInv, StoreOK
<1>3. f.at = 3
  BY <1>1, <1>2, OrderIs
<1>4. f.kind = "yank" /\ f.staged["record"] = NotStaged
  BY <1>1, <1>2, <1>3, OrderIs DEF TaskOK, FlagsOK, Computed, StagedOK
<1>5. Old(f)[Key("record", f.version)] = object[Key("record", f.version)]
  BY <1>1, <1>4, OrderIs, OldAt
<1>6. CASE object[At(t)] = Absent /\ NextWrite(t)
  <2>1. PICK o : /\ task' = [task EXCEPT ![t] = o] /\ Like(o, f) /\ o.value = f.value /\ o.at = f.at + 1
                 /\ o.pc = IF Computed(o) THEN "prepare" ELSE "track"
    BY <1>1, <1>3, <1>6, NextWrites
  <2>2. TaskOK(o) /\ o.at = 4 /\ o.pc = "prepare"
    <3>1. TaskOK(o)
      BY <1>1, <1>2, <1>3, <1>4, <2>1, NextIsOK
    <3> QED BY <1>3, <2>1, <3>1 DEF Computed
  <2>3. history # "mixed" => KeptOK(o)
    BY <1>1, <1>2, <2>1, <2>2 DEF KeptOK, Like, Writing
  <2>4. ASSUME history = "lone" PROVE LoneOK(o)
    <3>1. Old(o) = Old(f) /\ LoneOK(f) /\ Forward(f)
      BY <1>1, <1>2, <1>4, <2>1, <2>4, OldSame DEF Like, LoneOK, Writing
    <3>2. object[Key("record", f.version)] = Absent
      BY <1>2, <1>6
    <3>3. Forward(o)
      BY <1>2, <1>3, <1>4, <1>5, <2>1, <2>2, <3>1, <3>2 DEF Forward, Like
    <3> QED BY <1>4, <2>1, <2>2, <3>1, <3>3 DEF LoneOK, Like
  <2> QED BY <1>1, <1>2, <2>1, <2>2, <2>3, <2>4, OfQuiet DEF Like
<1>7. PICK e : e = object[At(t)]
  OBVIOUS
<1> DEFINE c == [e EXCEPT !.yanked = f.yanked]
           o == [f EXCEPT !.pc = "track", !.value = c]
<1>8. CASE e # Absent /\ task' = [task EXCEPT ![t] = o]
  <2>1. e = object[Key("record", f.version)] /\ e \in Entry
    BY <1>1, <1>2, <1>3, <1>7, <1>8, Stored1, OrderIs
  <2>2. c \in Entry
    BY <1>1, <2>1 DEF Entry
  <2>3. Like(o, f) /\ o.value = c /\ o.at = 3 /\ o.pc = "track"
    BY <1>1, <1>3 DEF IsTask, TaskFields, Like
  <2>4. task' = [task EXCEPT ![t] = o]
    BY <1>8
  <2> HIDE DEF c, o
  <2>5. StagedOK(o)
    BY <1>1, <1>2, <1>3, <2>3 DEF TaskOK, FlagsOK, StagedOK, Like
  <2>6. c \in Values(Order[o.at]) \ {Absent}
    BY <2>2, <2>3, OrderIs, MarkersAssumption DEF Values
  <2>7. TaskOK(o)
    BY <1>1, <1>4, <2>3, <2>5, <2>6 DEF TaskOK, FlagsOK, Like, Writing
  <2>8. history # "mixed" => KeptOK(o)
    BY <1>1, <1>2, <2>3 DEF KeptOK, Like, Writing
  <2>9. ASSUME history = "lone" PROVE LoneOK(o)
    <3>1. Old(o) = Old(f) /\ LoneOK(f) /\ Forward(f) /\ Agree(Old(f))
      BY <1>1, <1>2, <1>4, <2>3, <2>9, OldSame DEF Like, LoneOK, Writing
    <3>2. Old(f)[Key("metadata", f.version)] = e
      BY <1>1, <1>5, <1>8, <2>1, <3>1 DEF Agree
    <3>3. f.content = c
      BY <1>4, <3>1, <3>2 DEF Forward, c
    <3>4. Forward(o)
      BY <1>2, <1>3, <1>4, <1>5, <1>8, <2>1, <2>3, <3>1, <3>3 DEF Forward, Like
    <3> QED BY <1>4, <2>3, <3>1, <3>4 DEF LoneOK, Like
  <2> QED BY <1>1, <1>2, <2>3, <2>4, <2>7, <2>8, <2>9, OfQuiet DEF Like
<1> QED BY <1>1, <1>6, <1>7, <1>8 DEF PrepareRecord

\* A list with one more version.
LEMMA ListWith ==
    ASSUME NEW L \in List, NEW v \in Versions, NEW y \in BOOLEAN
    PROVE  [w \in DOMAIN L \cup {v} |-> IF w = v THEN y ELSE L[w]] \in List
<1>1. PICK S \in SUBSET Versions : L \in [S -> BOOLEAN]
  BY ListShape
<1>2. [w \in DOMAIN L \cup {v} |-> IF w = v THEN y ELSE L[w]] \in [S \cup {v} -> BOOLEAN]
  BY <1>1
<1> QED BY <1>2, ListShape

LEMMA UpstreamIsList == UpstreamList \in List /\ DOMAIN UpstreamList = Upstream
<1>1. UpstreamList \in [Upstream -> BOOLEAN]
  BY DEF UpstreamList
<1> QED BY <1>1, ListShape, UpstreamAssumption

LEMMA OfPrepareVersions == ASSUME IndexInv, NEW t \in Tasks, PrepareVersions(t) PROVE IndexInv'
<1>1. PICK f : /\ f = task[t] /\ TaskOK(f) /\ IsTask(f) /\ f.kind \in {"publish", "yank", "metadata"}
               /\ f.version \in Versions /\ f.at \in 1..4 /\ f.kind # "none"
               /\ f.content \in Entry /\ f.content.yanked = f.yanked /\ f.yanked \in BOOLEAN
               /\ (f.pc \in {"prepare", "commit"} => f.kind \in {"publish", "yank"})
               /\ (history # "mixed" => KeptOK(f)) /\ (history = "lone" => LoneOK(f))
  BY InHand DEF PrepareVersions, Writing
<1>2. /\ f.pc = "prepare" /\ Order[f.at] = "versions" /\ At(t) = Key(Order[f.at], f.version)
      /\ UNCHANGED <<object, published, history, faults>> /\ faults' \in 0..MaxFaults
  BY <1>1, WrittenIs DEF PrepareVersions, IndexInv, StoreOK
<1>3. f.at = 4 /\ f.kind \in {"publish", "yank"}
  BY <1>1, <1>2, OrderIs
<1>4. f.staged["versions"] = NotStaged
  BY <1>1, <1>2, <1>3, OrderIs DEF TaskOK, FlagsOK, StagedOK
<1>5. OldList(f) = object[Key("versions", f.version)]
  BY <1>1, <1>4, OrderIs, OldAt DEF OldList
<1>6. PICK L : L = Loaded(t)
  OBVIOUS
<1>7. L = IF OldList(f) # Absent THEN OldList(f) ELSE UpstreamList
  BY <1>2, <1>5, <1>6 DEF Loaded
<1>8. L \in List
  BY <1>1, <1>5, <1>7, Stored1, OrderIs, UpstreamIsList
<1>9. PICK x : x = [w \in DOMAIN L \cup {f.version} |-> IF w = f.version THEN f.yanked ELSE L[w]]
  OBVIOUS
<1>10. x \in List /\ x = NewList(f)
  <2>1. x \in List
    BY <1>1, <1>8, <1>9, ListWith
  <2> QED BY <1>7, <1>9, <2>1 DEF NewList
<1> DEFINE o == [f EXCEPT !.pc = "track", !.value = x]
<1>11. task' = [task EXCEPT ![t] = o]
  BY <1>1, <1>6, <1>9 DEF PrepareVersions
<1>12. Like(o, f) /\ o.value = x /\ o.at = 4 /\ o.pc = "track"
  BY <1>1, <1>3 DEF IsTask, TaskFields, Like
<1> HIDE DEF o
<1>13. StagedOK(o)
  BY <1>1, <1>2, <1>3, <1>12 DEF TaskOK, FlagsOK, StagedOK, Like
<1>14. x \in Values(Order[o.at]) \ {Absent}
  BY <1>10, <1>12, OrderIs, MarkersAssumption DEF Values
<1>15. TaskOK(o)
  BY <1>1, <1>3, <1>12, <1>13, <1>14 DEF TaskOK, FlagsOK, Like, Writing
<1>16. history # "mixed" => KeptOK(o)
  BY <1>1, <1>2, <1>12 DEF KeptOK, Like, Writing
<1>17. ASSUME history = "lone" PROVE LoneOK(o)
  <2>1. Old(o) = Old(f) /\ OldList(o) = OldList(f) /\ LoneOK(f) /\ Forward(f)
    BY <1>1, <1>2, <1>3, <1>12, <1>17, OldSame DEF Like, LoneOK, Writing
  <2>2. NewList(o) = NewList(f)
    BY <1>12, <2>1 DEF NewList, Like
  <2>3. Forward(o)
    BY <1>2, <1>3, <1>10, <1>12, <2>1, <2>2 DEF Forward, Like
  <2> QED BY <1>3, <1>12, <2>1, <2>3 DEF LoneOK, Like
<1> QED BY <1>1, <1>2, <1>11, <1>12, <1>15, <1>16, <1>17, OfQuiet DEF Like

LEMMA OfTrack == ASSUME IndexInv, NEW t \in Tasks, Track(t) PROVE IndexInv'
<1>1. PICK f : /\ f = task[t] /\ TaskOK(f) /\ IsTask(f) /\ f.kind \in {"publish", "yank", "metadata"}
               /\ f.version \in Versions /\ f.at \in 1..4 /\ f.kind # "none"
               /\ f.content \in Entry /\ f.content.yanked = f.yanked /\ f.yanked \in BOOLEAN
               /\ (f.pc \in {"prepare", "commit"} => f.kind \in {"publish", "yank"})
               /\ (history # "mixed" => KeptOK(f)) /\ (history = "lone" => LoneOK(f))
  BY InHand DEF Track, Writing
<1>2. /\ f.pc = "track" /\ Name(t) = Order[f.at] /\ At(t) = Key(Order[f.at], f.version)
      /\ UNCHANGED <<object, published, history, faults>> /\ faults' \in 0..MaxFaults
  BY <1>1, WrittenIs DEF Track, IndexInv, StoreOK
<1>a. PICK name \in KeyNames : name = Order[f.at]
  BY <1>1, OrderIs
<1>b. PICK x : x = object[Key(name, f.version)]
  OBVIOUS
<1>3. name = Order[f.at] /\ x = object[Key(name, f.version)]
  BY <1>a, <1>b
<1> DEFINE staged == [f.staged EXCEPT ![name] = x]
           o == [f EXCEPT !.pc = "put", !.staged = staged]
<1>4. task' = [task EXCEPT ![t] = o]
  BY <1>1, <1>2, <1>3 DEF Track
<1>5. /\ IsTask(o) /\ o.kind = f.kind /\ o.version = f.version /\ o.yanked = f.yanked
      /\ o.content = f.content /\ o.value = f.value /\ o.at = f.at /\ o.pc = "put" /\ o.staged = staged
  BY <1>1 DEF IsTask, TaskFields
<1>6. x \in Values(name) /\ x # NotStaged
  BY <1>1, <1>3, ValuesShape DEF IndexInv, StoreOK
<1>7. /\ DOMAIN f.staged = KeyNames /\ f.staged[name] = NotStaged
      /\ \A i \in f.at..4 : f.staged[Order[i]] = NotStaged
      /\ \A i \in 1..4 : f.staged[Order[i]] \in {NotStaged} \cup Values(Order[i])
  BY <1>1, <1>2, <1>3 DEF TaskOK, FlagsOK, StagedOK
<1>8. /\ DOMAIN staged = KeyNames /\ staged[name] = x
      /\ \A n \in KeyNames : n # name => staged[n] = f.staged[n]
  BY <1>7
<1> HIDE DEF o, staged
<1>9. StagedOK(o)
  <2>1. \A i \in 1..4 : o.staged[Order[i]] \in {NotStaged} \cup Values(Order[i])
    BY <1>3, <1>5, <1>6, <1>7, <1>8, OrderIs
  <2>2. \A i \in o.at + 1..4 : o.staged[Order[i]] = NotStaged
    BY <1>1, <1>3, <1>5, <1>7, <1>8, OrderIs
  <2>3. o.staged[Order[o.at]] # NotStaged
    BY <1>3, <1>5, <1>6, <1>8
  <2> QED BY <1>5, <1>8, <2>1, <2>2, <2>3 DEF StagedOK
<1>10. TaskOK(o)
  BY <1>1, <1>2, <1>5, <1>9 DEF TaskOK, FlagsOK, Writing, Computed
<1>11. ASSUME history # "mixed" PROVE KeptOK(o)
  <2>1. CASE name = "metadata"
    BY <1>1, <1>2, <1>3, <1>5, <1>8, <1>11, <2>1 DEF KeptOK, Writing, IndexInv, KeptInv
  <2>2. CASE name # "metadata"
    <3>1. o.staged["metadata"] = f.staged["metadata"]
      BY <1>5, <1>8, <2>2, OrderIs
    <3> QED BY <1>1, <1>2, <1>5, <1>11, <3>1 DEF KeptOK, Writing
  <2> QED BY <2>1, <2>2
<1>12. ASSUME history = "lone" PROVE LoneOK(o)
  <2>1. Old(f) = Old(o) /\ OldList(f) = OldList(o)
    BY <1>3, <1>5, <1>7, OldTracked DEF staged
  <2>2. LoneOK(f) /\ (f.kind \in {"publish", "yank"} => Forward(f))
    BY <1>1, <1>2, <1>12 DEF LoneOK, Writing
  <2>3. NewList(o) = NewList(f)
    BY <1>5, <2>1 DEF NewList
  <2>4. f.kind \in {"publish", "yank"} => Forward(o)
    BY <1>2, <1>5, <2>1, <2>2, <2>3 DEF Forward
  <2>5. object[Key(Order[o.at], o.version)] = o.staged[Order[o.at]]
    BY <1>3, <1>5, <1>8
  <2> QED BY <1>1, <1>2, <1>5, <2>1, <2>2, <2>4, <2>5 DEF LoneOK
<1> QED BY <1>1, <1>2, <1>4, <1>5, <1>10, <1>11, <1>12, OfQuiet

\* What is written belongs under its key.
LEMMA WrittenType ==
    ASSUME NEW f, TaskOK(f), f.pc \in {"track", "put"}
    PROVE  WrittenOf(f) \in Values(Order[f.at]) /\ WrittenOf(f) # Absent
<1>1. CASE Computed(f)
  BY <1>1 DEF TaskOK, FlagsOK, WrittenOf
<1>2. CASE ~Computed(f)
  <2>1. f.content \in Entry /\ f.at \in 1..3
    BY <1>2 DEF TaskOK, FlagsOK, Computed, Writing
  <2>2. Order[f.at] # "versions"
    BY <2>1, OrderIs
  <2> QED BY <1>2, <2>1, <2>2, MarkersAssumption DEF WrittenOf, Values
<1> QED BY <1>1, <1>2

\* What a put finds done, and what it leaves.
LEMMA OfPut == ASSUME IndexInv, NEW t \in Tasks, Put(t) PROVE IndexInv'
<1>1. PICK f : /\ f = task[t] /\ TaskOK(f) /\ IsTask(f) /\ f.kind \in {"publish", "yank", "metadata"}
               /\ f.version \in Versions /\ f.at \in 1..4 /\ f.kind # "none"
               /\ f.content \in Entry /\ f.content.yanked = f.yanked /\ f.yanked \in BOOLEAN
               /\ (f.pc \in {"prepare", "commit"} => f.kind \in {"publish", "yank"})
               /\ (history # "mixed" => KeptOK(f)) /\ (history = "lone" => LoneOK(f))
  BY InHand DEF Put, Writing
<1>2. /\ f.pc = "put" /\ Name(t) = Order[f.at] /\ At(t) = Key(Order[f.at], f.version)
      /\ Written(t) = WrittenOf(f)
      /\ UNCHANGED <<published, history, faults>> /\ faults' \in 0..MaxFaults
  BY <1>1, WrittenIs DEF Put, IndexInv, StoreOK
<1>a. PICK i \in 1..4 : i = f.at
  BY <1>1
<1>b. PICK x : x = WrittenOf(f)
  OBVIOUS
<1>3. i = f.at /\ x = WrittenOf(f)
  BY <1>a, <1>b
<1>4. x \in Values(Order[i]) /\ x # Absent
  BY <1>1, <1>2, <1>3, WrittenType
<1>5. object' = [object EXCEPT ![Key(Order[i], f.version)] = x]
  BY <1>1, <1>2, <1>3 DEF Put
<1>6. i = 1 => x = f.content
  BY <1>3 DEF WrittenOf, Computed
<1>7. i = 1 /\ history # "mixed" /\ f.version \notin Upstream => Keeps(x, f.version)
  BY <1>1, <1>2, <1>6 DEF KeptOK, Writing, TaskOK, FlagsOK
<1>8. /\ StoreOK'
      /\ \A w \in Versions \ Upstream : w # f.version =>
           object'[Key("metadata", w)] = object[Key("metadata", w)] /\ published'[w] = published[w]
      /\ history' # "mixed" /\ f.version \in Versions \ Upstream =>
           Keeps(object[Key("metadata", f.version)], f.version)'
      /\ object'[Key(Order[i], f.version)] = x
      /\ \A j \in 1..4 : j # i => object'[Key(Order[j], f.version)] = object[Key(Order[j], f.version)]
  BY <1>1, <1>2, <1>4, <1>5, <1>7, WriteEffect
<1>9. f.staged[Order[i]] # NotStaged /\ \A j \in i + 1..4 : f.staged[Order[j]] = NotStaged
  BY <1>1, <1>2, <1>3 DEF TaskOK, FlagsOK, StagedOK
<1>10. Old(f)' = Old(f) /\ OldList(f)' = OldList(f) /\ NewList(f)' = NewList(f)
  <2>1. DOMAIN object = Keys /\ Key(Order[i], f.version)[1] = Order[i] /\ Order[i] \in KeyNames
    BY <1>1, OrderIs, KeyShape DEF IndexInv, StoreOK
  <2>2. Old(f)' = Old(f) /\ OldList(f)' = OldList(f)
    BY <1>5, <1>9, <2>1, OldWritten
  <2> QED BY <2>2 DEF NewList
<1>11. CASE f.kind = "metadata" /\ Return(t)
  <2>1. task' = [task EXCEPT ![t] = Idle] /\ i = 1
    BY <1>1, <1>3, <1>11 DEF Return, TaskOK, FlagsOK
  <2>3. ASSUME history = "lone" PROVE Agree(object)'
    <3>1. Agree(Old(f)) /\ object[Key("metadata", f.version)] = Absent /\ f.version \in Upstream
      BY <1>1, <1>2, <1>11, <2>3 DEF LoneOK, TaskOK, FlagsOK
    <3>2. object[Key("metadata", f.version)] = f.staged["metadata"]
      BY <1>1, <1>2, <1>3, <2>1, <2>3, OrderIs DEF LoneOK
    <3>3. Agree(object)
      <4>1. \A j \in 1..4 : f.staged[Order[j]] = NotStaged \/ object[Key(Order[j], f.version)] = f.staged[Order[j]]
        BY <1>9, <2>1, <3>2, OrderIs
      <4> QED BY <3>1, <4>1, OldIsObject
    <3>4. ASSUME NEW name \in KeyNames, NEW w \in Versions, name # "metadata" \/ w # f.version
          PROVE  object'[Key(name, w)] = object[Key(name, w)]
      <4>1. Key(name, w) # Key("metadata", f.version)
        BY <1>1, <3>4, OrderIs, KeyShape
      <4> QED BY <1>5, <2>1, <4>1, OrderIs
    <3>5. object[Key("record", f.version)] = Absent
      BY <1>1, <3>1, <3>3 DEF Agree
    <3>6. Agree(object')
      <4> SUFFICES ASSUME NEW v \in Versions
                   PROVE  /\ object'[Key("record", v)] # Absent =>
                               /\ object'[Key("metadata", v)] = object'[Key("record", v)]
                               /\ object'[Key("manifest", v)] = object'[Key("record", v)]
                               /\ object'[Key("versions", v)] # Absent /\ v \in DOMAIN object'[Key("versions", v)]
                               /\ object'[Key("versions", v)][v] = object'[Key("record", v)].yanked
                          /\ object'[Key("metadata", v)] # Absent =>
                               v \in Upstream \/ object'[Key("record", v)] # Absent
                          /\ object'[Key("versions", v)] # Absent =>
                               \A w \in Versions : w \in DOMAIN object'[Key("versions", v)] =>
                                 w \in Upstream \/ object'[Key("record", w)] # Absent
        BY DEF Agree
      <4>1. \A w \in Versions : object'[Key("record", w)] = object[Key("record", w)]
        BY <3>4, OrderIs
      <4>2. /\ object'[Key("manifest", v)] = object[Key("manifest", v)]
            /\ object'[Key("versions", v)] = object[Key("versions", v)]
            /\ v # f.version => object'[Key("metadata", v)] = object[Key("metadata", v)]
        BY <3>4, OrderIs
      <4> QED BY <3>1, <3>3, <3>5, <4>1, <4>2 DEF Agree
    <3> QED BY <3>6 DEF Agree
  <2>4. PICK o : o = Idle
    OBVIOUS
  <2>5. TaskOK(o) /\ o.kind = "none" /\ task' = [task EXCEPT ![t] = o]
    BY <2>1, <2>4, IdleShape
  <2>6. history' = "lone" => /\ o.kind = "none" => Agree(object)'
                             /\ o.kind # "none" => LoneOK(o)'
    BY <1>2, <2>3, <2>5
  <2>7. history' # "mixed" => KeptOK(o)'
    BY <2>5 DEF KeptOK
  <2>8. (history' # "mixed" => history # "mixed") /\ (history' = "lone" => history = "lone")
    BY <1>2
  <2>9. f = task[t] /\ f.kind # "none"
    BY <1>1
  <2>10. /\ StoreOK'
         /\ \A v \in Versions \ Upstream : v # f.version =>
              object'[Key("metadata", v)] = object[Key("metadata", v)] /\ published'[v] = published[v]
         /\ history' # "mixed" /\ f.version \in Versions \ Upstream =>
              Keeps(object[Key("metadata", f.version)], f.version)'
    BY <1>8
  <2> QED BY <2>5, <2>6, <2>7, <2>8, <2>9, <2>10, OfStep
<1>12. ASSUME NEW o, task' = [task EXCEPT ![t] = o], Like(o, f), TaskOK(o), f.kind \in {"publish", "yank"},
              \/ i = 4 /\ o.at = 4 /\ o.pc = "commit"
              \/ i \in 1..3 /\ o.at = i + 1 /\ o.pc = IF Computed(o) THEN "prepare" ELSE "track"
       PROVE  IndexInv'
  <2>1. o.pc \in {"commit", "prepare", "track"} /\ o.kind = f.kind /\ o.version = f.version
    BY <1>12 DEF Like
  <2>2. ASSUME history' # "mixed" PROVE KeptOK(o)'
    <3>1. f.version \notin Upstream => Keeps(f.content, f.version)'
          /\ (f.staged["metadata"] # NotStaged => Keeps(f.staged["metadata"], f.version)')
      BY <1>1, <1>2, <1>12, <2>2 DEF KeptOK, Keeps, Writing
    <3>2. f.version \notin Upstream => object'[Key("metadata", f.version)] = f.content
      <4>1. CASE i = 1
        BY <1>6, <1>8, <4>1, OrderIs
      <4>2. CASE i # 1
        <5>1. object'[Key("metadata", f.version)] = object[Key("metadata", f.version)]
          BY <1>8, <4>2, OrderIs
        <5> QED BY <1>1, <1>2, <1>3, <1>12, <2>2, <4>2, <5>1 DEF KeptOK, Writing
      <4> QED BY <4>1, <4>2
    <3> QED BY <1>12, <3>1, <3>2 DEF KeptOK, Like, Keeps
  <2>3. ASSUME history' = "lone" PROVE LoneOK(o)'
    <3>1. LoneOK(f) /\ Forward(f)
      BY <1>1, <1>2, <1>12, <2>3 DEF LoneOK, Writing
    <3>2. Old(o)' = Old(f) /\ NewList(o)' = NewList(f)
      <4>1. Old(o) = Old(f) /\ OldList(o) = OldList(f)
        BY <1>12, OldSame DEF Like
      <4>2. NewList(o) = NewList(f)
        BY <1>12, <4>1 DEF NewList, Like
      <4>3. DOMAIN object = Keys /\ Key(Order[i], o.version)[1] = Order[i] /\ Order[i] \in KeyNames
        BY <1>1, <2>1, OrderIs, KeyShape DEF IndexInv, StoreOK
      <4>4. o.staged[Order[i]] # NotStaged /\ object' = [object EXCEPT ![Key(Order[i], o.version)] = x]
        BY <1>5, <1>9, <1>12 DEF Like
      <4>5. Old(o)' = Old(o) /\ OldList(o)' = OldList(o)
        BY <4>3, <4>4, OldWritten
      <4> QED BY <4>1, <4>2, <4>5 DEF NewList
    <3> DEFINE has(name) == object[Key(name, f.version)]
               now(name) == object'[Key(name, f.version)]
               recorded == f.kind = "yank" => Old(f)[Key("record", f.version)] # Absent
    <3>3. /\ i # 1 => has("metadata") = f.content
          /\ i # 1 /\ i # 2 => has("manifest") = f.content
          /\ i = 4 => has("record") = IF recorded THEN f.content ELSE Absent
          /\ i = 4 => x = NewList(f)
          /\ i = 3 => x = f.content /\ recorded
          /\ i = 2 => x = f.content
      <4>1. i = 3 => x = f.content /\ recorded
        BY <1>2, <1>3, <1>12, <3>1 DEF Forward, WrittenOf, Computed
      <4>2. i = 4 => x = NewList(f)
        BY <1>2, <1>3, <3>1 DEF Forward, WrittenOf, Computed
      <4>3. i = 2 => x = f.content
        BY <1>3 DEF WrittenOf, Computed
      <4>4. /\ i # 1 => has("metadata") = f.content
            /\ i # 1 /\ i # 2 => has("manifest") = f.content
            /\ i = 4 => has("record") = IF recorded THEN f.content ELSE Absent
        BY <1>3, <3>1 DEF Forward
      <4> QED BY <4>1, <4>2, <4>3, <4>4
    <3>4. /\ now("metadata") = f.content
          /\ i # 1 => now("manifest") = f.content
          /\ i # 1 /\ i # 2 => now("record") = IF recorded THEN f.content ELSE Absent
          /\ i = 4 => now("versions") = NewList(f)
      <4>1. CASE i = 1
        BY <1>6, <1>8, <4>1, OrderIs
      <4>2. CASE i = 2
        <5>1. now("metadata") = has("metadata") /\ now("manifest") = x
          BY <1>8, <4>2, OrderIs
        <5> QED BY <3>3, <4>2, <5>1
      <4>3. CASE i = 3
        <5>1. now("metadata") = has("metadata") /\ now("manifest") = has("manifest") /\ now("record") = x
          BY <1>8, <4>3, OrderIs
        <5> QED BY <3>3, <4>3, <5>1
      <4>4. CASE i = 4
        <5>1. /\ now("metadata") = has("metadata") /\ now("manifest") = has("manifest")
              /\ now("record") = has("record") /\ now("versions") = x
          BY <1>8, <4>4, OrderIs
        <5> QED BY <3>3, <4>4, <5>1
      <4> QED BY <4>1, <4>2, <4>3, <4>4
    <3>5. f.kind = "yank" => LET found == Old(f)[Key("metadata", f.version)] IN
            found # Absent /\ f.content = [found EXCEPT !.yanked = f.yanked]
      BY <3>1 DEF Forward
    <3>6. Forward(o)'
      <4>1. /\ (o.at > 1 \/ o.pc = "commit")
            /\ (o.at > 2 \/ o.pc = "commit") => i # 1
            /\ (o.at > 3 \/ o.pc = "commit") => i # 1 /\ i # 2
            /\ (o.at > 4 \/ o.pc = "commit") => i = 4
            /\ ~(o.at = 3 /\ o.pc \in {"track", "put"} /\ o.kind = "yank")
            /\ ~(o.at = 4 /\ o.pc \in {"track", "put"})
        <5>1. CASE i = 4 /\ o.at = 4 /\ o.pc = "commit"
          BY <5>1
        <5>2. CASE i \in 1..3 /\ o.at = i + 1 /\ o.pc = IF Computed(o) THEN "prepare" ELSE "track"
          BY <5>2 DEF Computed
        <5> QED BY <1>12, <5>1, <5>2
      <4> QED BY <1>12, <3>2, <3>4, <3>5, <4>1 DEF Forward, Like
    <3>7. Agree(Old(f))
      BY <3>1 DEF LoneOK
    <3>8. Agree(Old(o))'
      BY <3>2, <3>7 DEF Agree
    <3> QED BY <1>12, <2>1, <3>6, <3>8 DEF LoneOK
  <2>4. o.kind # "none"
    BY <1>1, <2>1
  <2>5. f = task[t] /\ f.kind # "none" /\ TaskOK(o) /\ task' = [task EXCEPT ![t] = o]
    BY <1>1, <1>12
  <2>6. (history' # "mixed" => history # "mixed") /\ (history' = "lone" => history = "lone")
    BY <1>2
  <2>7. history' = "lone" => /\ o.kind = "none" => Agree(object)'
                             /\ o.kind # "none" => LoneOK(o)'
    BY <2>3, <2>4
  <2>8. /\ StoreOK'
        /\ \A v \in Versions \ Upstream : v # f.version =>
             object'[Key("metadata", v)] = object[Key("metadata", v)] /\ published'[v] = published[v]
        /\ history' # "mixed" /\ f.version \in Versions \ Upstream =>
             Keeps(object[Key("metadata", f.version)], f.version)'
    BY <1>8
  <2> QED BY <2>1, <2>2, <2>5, <2>6, <2>7, <2>8, OfStep
<1>13. CASE f.kind # "metadata" /\ Name(t) = "versions" /\ Goto(t, "commit")
  <2> DEFINE o == [f EXCEPT !.pc = "commit"]
  <2>1. task' = [task EXCEPT ![t] = o]
    BY <1>1, <1>13 DEF Goto
  <2>2. Like(o, f) /\ o.at = f.at /\ o.pc = "commit"
    BY <1>1 DEF IsTask, TaskFields, Like
  <2> HIDE DEF o
  <2>3. i = 4
    <3>1. Order[i] = Order[4]
      BY <1>2, <1>3, <1>13, OrderIs
    <3> QED BY <1>a, <3>1, OrderIs
  <2>4. StagedOK(o)
    BY <1>1, <2>2 DEF TaskOK, FlagsOK, StagedOK, Like
  <2>5. TaskOK(o)
    BY <1>1, <1>3, <1>13, <2>2, <2>3, <2>4 DEF TaskOK, FlagsOK, Like, Writing
  <2> QED BY <1>1, <1>3, <1>12, <1>13, <2>1, <2>2, <2>3, <2>5
<1>14. CASE f.kind # "metadata" /\ Name(t) # "versions" /\ NextWrite(t)
  <2>1. i \in 1..3
    BY <1>2, <1>3, <1>14, OrderIs
  <2>2. PICK o : /\ task' = [task EXCEPT ![t] = o] /\ Like(o, f) /\ o.value = f.value /\ o.at = f.at + 1
                 /\ o.pc = IF Computed(o) THEN "prepare" ELSE "track"
    BY <1>1, <1>3, <1>14, <2>1, NextWrites
  <2>3. TaskOK(o)
    BY <1>1, <1>2, <1>3, <1>14, <2>1, <2>2, NextIsOK
  <2> QED BY <1>1, <1>3, <1>12, <1>14, <2>1, <2>2, <2>3
<1> QED BY <1>1, <1>11, <1>13, <1>14 DEF Put

-----------------------------------------------------------------------------
(* The end of the writes *)

\* The list with a version more is a list.
LEMMA NewListType ==
    ASSUME IndexInv, NEW f, TaskOK(f), f.version \in Versions
    PROVE  /\ OldList(f) \in Values("versions") /\ NewList(f) \in List
           /\ DOMAIN NewList(f) = (IF OldList(f) # Absent THEN DOMAIN OldList(f) ELSE Upstream) \cup {f.version}
           /\ NewList(f)[f.version] = f.yanked
           /\ \A w \in DOMAIN NewList(f) \ {f.version} :
                NewList(f)[w] = IF OldList(f) # Absent THEN OldList(f)[w] ELSE UpstreamList[w]
<1>1. OldList(f) \in Values("versions")
  <2>1. f.staged["versions"] \in {NotStaged} \cup Values("versions")
    BY OrderIs DEF TaskOK, StagedOK
  <2>2. object[Key("versions", f.version)] \in Values("versions")
    BY OrderIs DEF IndexInv, StoreOK
  <2> QED BY <2>1, <2>2, OrderIs, OldAt DEF OldList
<1>2. PICK L : L = IF OldList(f) # Absent THEN OldList(f) ELSE UpstreamList
  OBVIOUS
<1>3. L \in List /\ f.yanked \in BOOLEAN
  BY <1>1, <1>2, ValuesShape, OrderIs, UpstreamIsList DEF TaskOK, FlagsOK
<1>4. NewList(f) = [w \in DOMAIN L \cup {f.version} |-> IF w = f.version THEN f.yanked ELSE L[w]]
  BY <1>2 DEF NewList
<1>5. NewList(f) \in List
  BY <1>3, <1>4, ListWith
<1> QED BY <1>1, <1>2, <1>4, <1>5, UpstreamIsList

\* A request that is done has written documents that agree.
LEMMA Committed ==
    ASSUME IndexInv, NEW f, TaskOK(f), f.pc = "commit", f.kind \in {"publish", "yank"},
           f.version \in Versions, LoneOK(f)
    PROVE  Agree(object)
<1> DEFINE v == f.version
           recorded == f.kind = "yank" => Old(f)[Key("record", v)] # Absent
<1>1. Agree(Old(f)) /\ Forward(f)
  BY DEF LoneOK, Writing
<1>2. /\ object[Key("metadata", v)] = f.content /\ object[Key("manifest", v)] = f.content
      /\ object[Key("record", v)] = (IF recorded THEN f.content ELSE Absent)
      /\ object[Key("versions", v)] = NewList(f)
  BY <1>1 DEF Forward
<1>3. f.content # Absent /\ f.content.yanked = f.yanked
  BY MarkersAssumption DEF TaskOK, FlagsOK, Writing
<1>4. ~recorded => v \in Upstream
  BY <1>1 DEF Forward, Agree
<1>5. NewList(f) # Absent
  BY NewListType, ValuesShape, OrderIs
<1>6. ASSUME NEW w \in Versions, w # v
      PROVE  /\ Old(f)[Key("record", w)] = object[Key("record", w)]
             /\ Old(f)[Key("metadata", w)] = object[Key("metadata", w)]
             /\ Old(f)[Key("manifest", w)] = object[Key("manifest", w)]
  BY <1>6, OrderIs, KeyShape, OldAt
<1>7. ASSUME NEW w \in Versions
      PROVE  object[Key("versions", w)] = NewList(f) /\ Old(f)[Key("versions", w)] = OldList(f)
  BY <1>2, OrderIs, KeyShape DEF OldList
<1>8. \A w \in DOMAIN NewList(f) \cap Versions : w \in Upstream \/ object[Key("record", w)] # Absent
  <2> SUFFICES ASSUME NEW w \in Versions, w \in DOMAIN NewList(f)
               PROVE  w \in Upstream \/ object[Key("record", w)] # Absent
    OBVIOUS
  <2>1. CASE w = v
    BY <1>2, <1>3, <1>4, <2>1
  <2>2. CASE w # v
    <3>1. IF OldList(f) # Absent THEN w \in DOMAIN OldList(f) ELSE w \in Upstream
      BY <2>2, NewListType
    <3>2. OldList(f) # Absent /\ w \in DOMAIN OldList(f) => w \in Upstream \/ Old(f)[Key("record", w)] # Absent
      BY <1>1, <1>7 DEF Agree
    <3> QED BY <1>6, <2>2, <3>1, <3>2
  <2> QED BY <2>1, <2>2
<1>9. ASSUME NEW w \in Versions
      PROVE  /\ object[Key("record", w)] # Absent =>
                  /\ object[Key("metadata", w)] = object[Key("record", w)]
                  /\ object[Key("manifest", w)] = object[Key("record", w)]
                  /\ w \in DOMAIN NewList(f) /\ NewList(f)[w] = object[Key("record", w)].yanked
             /\ object[Key("metadata", w)] # Absent => w \in Upstream \/ object[Key("record", w)] # Absent
  <2>1. CASE w = v
    BY <1>2, <1>3, <1>4, <2>1, NewListType
  <2>2. CASE w # v
    <3>1. /\ Old(f)[Key("record", w)] # Absent =>
               /\ Old(f)[Key("metadata", w)] = Old(f)[Key("record", w)]
               /\ Old(f)[Key("manifest", w)] = Old(f)[Key("record", w)]
               /\ OldList(f) # Absent /\ w \in DOMAIN OldList(f)
               /\ OldList(f)[w] = Old(f)[Key("record", w)].yanked
          /\ Old(f)[Key("metadata", w)] # Absent => w \in Upstream \/ Old(f)[Key("record", w)] # Absent
      BY <1>1, <1>7 DEF Agree
    <3>2. OldList(f) # Absent /\ w \in DOMAIN OldList(f) =>
            w \in DOMAIN NewList(f) /\ NewList(f)[w] = OldList(f)[w]
      BY <2>2, NewListType
    <3> QED BY <1>6, <2>2, <3>1, <3>2
  <2> QED BY <2>1, <2>2
<1> QED BY <1>5, <1>7, <1>8, <1>9 DEF Agree

LEMMA OfCommit == ASSUME IndexInv, NEW t \in Tasks, Commit(t) PROVE IndexInv'
<1>1. PICK f : /\ f = task[t] /\ TaskOK(f) /\ IsTask(f) /\ f.kind \in {"publish", "yank", "metadata"}
               /\ f.version \in Versions /\ f.at \in 1..4 /\ f.kind # "none"
               /\ f.content \in Entry /\ f.content.yanked = f.yanked /\ f.yanked \in BOOLEAN
               /\ (f.pc \in {"prepare", "commit"} => f.kind \in {"publish", "yank"})
               /\ (history # "mixed" => KeptOK(f)) /\ (history = "lone" => LoneOK(f))
  BY InHand DEF Commit, Writing
<1>2. /\ f.pc = "commit" /\ f.kind \in {"publish", "yank"}
      /\ UNCHANGED <<object, history, faults>>
      /\ published' = IF f.kind = "publish"
                      THEN [published EXCEPT ![f.version] = @ \cup f.content.files] ELSE published
  BY <1>1 DEF Commit
<1>3. PICK o : o = Idle
  OBVIOUS
<1>4. TaskOK(o) /\ o.kind = "none" /\ task' = [task EXCEPT ![t] = o]
  BY <1>3, IdleShape DEF Commit, Return
<1>5. /\ published' \in [Versions -> SUBSET Files]
      /\ published'[f.version] = published[f.version] \cup (IF f.kind = "publish" THEN f.content.files ELSE {})
      /\ \A w \in Versions : w # f.version => published'[w] = published[w]
  <2>1. published \in [Versions -> SUBSET Files] /\ f.content.files \in SUBSET Files
    BY <1>1 DEF IndexInv, StoreOK, Entry
  <2>2. CASE f.kind = "publish"
    BY <1>1, <1>2, <2>1, <2>2
  <2>3. CASE f.kind # "publish"
    BY <1>1, <1>2, <2>1, <2>3
  <2> QED BY <2>2, <2>3
<1>6. StoreOK'
  BY <1>2, <1>5 DEF IndexInv, StoreOK
<1>7. ASSUME history' # "mixed", f.version \in Versions \ Upstream
      PROVE  Keeps(object[Key("metadata", f.version)], f.version)'
  <2>1. object[Key("metadata", f.version)] = f.content /\ Keeps(f.content, f.version)
    BY <1>1, <1>2, <1>7 DEF KeptOK, Writing
  <2>2. f.content # Absent
    BY <1>1, MarkersAssumption
  <2>3. published'[f.version] \subseteq f.content.files
    BY <1>5, <2>1 DEF Keeps
  <2> QED BY <1>2, <2>1, <2>2, <2>3 DEF Keeps
<1>8. history' # "mixed" => KeptOK(o)'
  BY <1>4 DEF KeptOK
<1>9. history' = "lone" => /\ o.kind = "none" => Agree(object)'
                           /\ o.kind # "none" => LoneOK(o)'
  <2> SUFFICES ASSUME history = "lone" PROVE Agree(object)'
    BY <1>2, <1>4
  <2>1. Agree(object)
    BY <1>1, <1>2, Committed
  <2> QED BY <1>2, <2>1, OldStays
<1>10. (history' # "mixed" => history # "mixed") /\ (history' = "lone" => history = "lone")
  BY <1>2
<1>11. \A v \in Versions \ Upstream : v # f.version =>
         object'[Key("metadata", v)] = object[Key("metadata", v)] /\ published'[v] = published[v]
  BY <1>2, <1>5
<1>12. f = task[t] /\ f.kind # "none"
  BY <1>1
<1> QED BY <1>4, <1>6, <1>7, <1>8, <1>9, <1>10, <1>11, <1>12, OfStep

-----------------------------------------------------------------------------
(* Failures *)

LEMMA OfFail == ASSUME IndexInv, NEW t \in Tasks, Fail(t) PROVE IndexInv'
<1>1. PICK f : /\ f = task[t] /\ TaskOK(f) /\ IsTask(f) /\ f.kind \in {"publish", "yank", "metadata"}
               /\ f.version \in Versions /\ f.at \in 1..4 /\ f.kind # "none"
               /\ f.content \in Entry /\ f.content.yanked = f.yanked /\ f.yanked \in BOOLEAN
               /\ (f.pc \in {"prepare", "commit"} => f.kind \in {"publish", "yank"})
               /\ (history # "mixed" => KeptOK(f)) /\ (history = "lone" => LoneOK(f))
  BY InHand DEF Fail, Writing
<1>2. /\ f.pc \in {"prepare", "track", "put", "commit"}
      /\ UNCHANGED <<published, history>> /\ faults' \in 0..MaxFaults
      /\ \/ UNCHANGED object
         \/ f.pc = "put" /\ object' = [object EXCEPT ![At(t)] = Written(t)]
  BY <1>1, FaultsAssumption DEF Fail, Fault, IndexInv, StoreOK
<1> DEFINE o == [f EXCEPT !.pc = "undo"]
<1>3. task' = [task EXCEPT ![t] = o]
  BY <1>1 DEF Fail, Goto
<1>4. Like(o, f) /\ o.at = f.at /\ o.pc = "undo"
  BY <1>1 DEF IsTask, TaskFields, Like
<1> HIDE DEF o
<1>5. StagedOK(o)
  BY <1>1, <1>4 DEF TaskOK, StagedOK, Like
<1>6. TaskOK(o)
  <2>1. FlagsOK(o)
    BY <1>1, <1>4 DEF TaskOK, FlagsOK, Like
  <2> QED BY <1>1, <1>2, <1>4, <1>5, <2>1 DEF TaskOK, Like, Writing
<1>7. \A i \in o.at + 1 .. 4 : o.staged[Order[i]] = NotStaged
  <2>1. f.pc = "commit" => f.at = 4
    BY <1>1 DEF TaskOK
  <2>2. CASE f.pc = "commit"
    <3>1. \A i \in 5..4 : FALSE
      OBVIOUS
    <3> QED BY <1>4, <2>1, <2>2, <3>1
  <2>3. CASE f.pc # "commit"
    BY <1>1, <1>2, <1>4, <2>3 DEF TaskOK, StagedOK, Like
  <2> QED BY <2>2, <2>3
<1>8. history # "mixed" => KeptOK(o)
  BY <1>1, <1>2, <1>4 DEF KeptOK, Like, Writing
<1>9. history = "lone" => Agree(Old(o)) /\ Old(o) = Old(f)
  BY <1>1, <1>4, OldSame DEF LoneOK, Like
<1>10. o.kind = f.kind /\ o.version = f.version /\ o.kind \notin {"none", "list"}
  BY <1>1, <1>4 DEF Like
<1>11. CASE UNCHANGED object
  <2>1. history = "lone" => LoneOK(o)
    BY <1>4, <1>7, <1>9, <1>10 DEF LoneOK
  <2>2. history' = "lone" => /\ o.kind = "none" => Agree(object)
                             /\ o.kind # "none" => LoneOK(o)
    BY <1>2, <1>10, <2>1
  <2>3. history' # "mixed" => KeptOK(o)
    BY <1>2, <1>8
  <2> QED BY <1>1, <1>2, <1>3, <1>6, <1>10, <1>11, <2>2, <2>3, OfQuiet
<1>12. CASE f.pc = "put" /\ object' = [object EXCEPT ![At(t)] = Written(t)]
  <2>a. PICK i \in 1..4 : i = f.at
    BY <1>1
  <2>b. PICK x : x = WrittenOf(f)
    OBVIOUS
  <2>1. object' = [object EXCEPT ![Key(Order[i], f.version)] = x]
    BY <1>1, <1>12, <2>a, <2>b, WrittenIs
  <2>2. x \in Values(Order[i])
    BY <1>1, <1>12, <2>a, <2>b, WrittenType
  <2>3. i = 1 /\ history # "mixed" /\ f.version \notin Upstream => Keeps(x, f.version)
    BY <1>1, <1>12, <2>a, <2>b DEF WrittenOf, Computed, KeptOK, Writing, TaskOK
  <2>4. /\ StoreOK'
        /\ \A w \in Versions \ Upstream : w # f.version =>
             object'[Key("metadata", w)] = object[Key("metadata", w)] /\ published'[w] = published[w]
        /\ history' # "mixed" /\ f.version \in Versions \ Upstream =>
             Keeps(object[Key("metadata", f.version)], f.version)'
    BY <1>1, <1>2, <2>1, <2>2, <2>3, WriteEffect
  <2>5. Old(o)' = Old(o)
    <3>1. DOMAIN object = Keys /\ Key(Order[i], o.version)[1] = Order[i] /\ Order[i] \in KeyNames
      BY <1>1, <1>10, OrderIs, KeyShape DEF IndexInv, StoreOK
    <3>2. o.staged[Order[i]] # NotStaged /\ object' = [object EXCEPT ![Key(Order[i], o.version)] = x]
      BY <1>1, <1>4, <1>10, <1>12, <2>a, <2>1 DEF TaskOK, StagedOK, Like
    <3> QED BY <3>1, <3>2, OldWritten
  <2>6. history = "lone" => Agree(Old(o))'
    BY <1>9, <2>5 DEF Agree
  <2>7. history = "lone" => LoneOK(o)'
    BY <1>4, <1>7, <1>10, <2>6 DEF LoneOK
  <2>8. history' # "mixed" => KeptOK(o)'
    BY <1>2, <1>4, <1>8 DEF KeptOK, Keeps
  <2>9. history' = "lone" => /\ o.kind = "none" => Agree(object)'
                             /\ o.kind # "none" => LoneOK(o)'
    BY <1>2, <1>10, <2>7
  <2>10. (history' # "mixed" => history # "mixed") /\ (history' = "lone" => history = "lone")
    BY <1>2
  <2>11. f = task[t] /\ f.kind # "none"
    BY <1>1
  <2> QED BY <1>3, <1>6, <1>10, <2>4, <2>8, <2>9, <2>10, <2>11, OfStep
<1> QED BY <1>2, <1>11, <1>12

\* What a rollback write leaves of the request.
LEMMA UndoNextIs ==
    ASSUME IndexInv, NEW t \in Tasks, NEW f, f = task[t], TaskOK(f), f.pc = "undo", UndoNext(t)
    PROVE  \E o : /\ task' = [task EXCEPT ![t] = o] /\ TaskOK(o)
                  /\ \/ f.at = 1 /\ o = Idle
                     \/ f.at # 1 /\ Like(o, f) /\ o.at = f.at - 1 /\ o.pc = "undo"
<1>1. CASE f.at = 1
  BY <1>1, IdleShape DEF UndoNext, Return
<1>2. CASE f.at # 1
  <2> DEFINE o == [f EXCEPT !.at = f.at - 1]
  <2>1. task' = [task EXCEPT ![t] = o]
    BY <1>2 DEF UndoNext
  <2>2. Like(o, f) /\ o.at = f.at - 1 /\ o.pc = "undo"
    BY DEF TaskOK, IsTask, TaskFields, Like
  <2> HIDE DEF o
  <2>3. StagedOK(o) /\ FlagsOK(o)
    BY <2>2 DEF TaskOK, StagedOK, FlagsOK, Like
  <2>4. o.at \in 1..4
    BY <1>2, <2>2 DEF TaskOK
  <2>5. TaskOK(o)
    BY <1>2, <2>2, <2>3, <2>4 DEF TaskOK, Like, Writing
  <2> QED BY <1>2, <2>1, <2>2, <2>5
<1> QED BY <1>1, <1>2

LEMMA OfUndo == ASSUME IndexInv, NEW t \in Tasks, Undo(t) PROVE IndexInv'
<1>1. PICK f : /\ f = task[t] /\ TaskOK(f) /\ IsTask(f) /\ f.kind \in {"publish", "yank", "metadata"}
               /\ f.version \in Versions /\ f.at \in 1..4 /\ f.kind # "none"
               /\ f.content \in Entry /\ f.content.yanked = f.yanked /\ f.yanked \in BOOLEAN
               /\ (f.pc \in {"prepare", "commit"} => f.kind \in {"publish", "yank"})
               /\ (history # "mixed" => KeptOK(f)) /\ (history = "lone" => LoneOK(f))
  BY InHand DEF Undo, Writing
<1>a. PICK i \in 1..4 : i = f.at
  BY <1>1
<1>b. PICK x : x = f.staged[Order[i]]
  OBVIOUS
<1>2. /\ f.pc = "undo" /\ UNCHANGED <<published, history, faults>> /\ faults' \in 0..MaxFaults
      /\ \/ x # NotStaged /\ object' = [object EXCEPT ![Key(Order[i], f.version)] = x]
         \/ x = NotStaged /\ UNCHANGED object
  BY <1>1, <1>a, <1>b, WrittenIs DEF Undo, IndexInv, StoreOK
<1>3. PICK o : /\ task' = [task EXCEPT ![t] = o] /\ TaskOK(o)
               /\ \/ f.at = 1 /\ o = Idle
                  \/ f.at # 1 /\ Like(o, f) /\ o.at = f.at - 1 /\ o.pc = "undo"
  BY <1>1, <1>2, UndoNextIs DEF Undo
<1>4. /\ StoreOK'
      /\ \A w \in Versions \ Upstream : w # f.version =>
           object'[Key("metadata", w)] = object[Key("metadata", w)] /\ published'[w] = published[w]
      /\ history' # "mixed" /\ f.version \in Versions \ Upstream =>
           Keeps(object[Key("metadata", f.version)], f.version)'
      /\ x # NotStaged => object'[Key(Order[i], f.version)] = x
      /\ \A j \in 1..4 : j # i => object'[Key(Order[j], f.version)] = object[Key(Order[j], f.version)]
  <2>1. CASE x # NotStaged /\ object' = [object EXCEPT ![Key(Order[i], f.version)] = x]
    <3>1. x \in Values(Order[i])
      BY <1>1, <1>b, <2>1 DEF TaskOK, StagedOK
    <3>2. i = 1 /\ history # "mixed" /\ f.version \notin Upstream => Keeps(x, f.version)
      <4> SUFFICES ASSUME i = 1, history # "mixed", f.version \notin Upstream PROVE Keeps(x, f.version)
        OBVIOUS
      <4>1. f.kind \in {"publish", "yank"} /\ x = f.staged["metadata"]
        BY <1>1, <1>b, OrderIs DEF TaskOK
      <4> QED BY <1>1, <1>2, <2>1, <4>1 DEF KeptOK, Writing
    <3>3. /\ StoreOK'
          /\ \A w \in Versions \ Upstream : w # f.version =>
               object'[Key("metadata", w)] = object[Key("metadata", w)] /\ published'[w] = published[w]
          /\ history' # "mixed" /\ f.version \in Versions \ Upstream =>
               Keeps(object[Key("metadata", f.version)], f.version)'
          /\ object'[Key(Order[i], f.version)] = x
          /\ \A j \in 1..4 : j # i => object'[Key(Order[j], f.version)] = object[Key(Order[j], f.version)]
      <4>1. history' = history /\ UNCHANGED published /\ faults' \in 0..MaxFaults /\ f.version \in Versions
        BY <1>1, <1>2
      <4> QED BY <2>1, <3>1, <3>2, <4>1, WriteEffect
    <3> QED BY <3>3
  <2>2. CASE x = NotStaged /\ UNCHANGED object
    BY <1>2, <2>2 DEF IndexInv, StoreOK, KeptInv, Keeps
  <2> QED BY <1>2, <2>1, <2>2
<1>5. Old(f)' = Old(f)
  <2>1. CASE x # NotStaged /\ object' = [object EXCEPT ![Key(Order[i], f.version)] = x]
    <3>1. DOMAIN object = Keys /\ Key(Order[i], f.version)[1] = Order[i] /\ Order[i] \in KeyNames
      BY <1>1, OrderIs, KeyShape DEF IndexInv, StoreOK
    <3> QED BY <1>b, <2>1, <3>1, OldWritten
  <2>2. CASE x = NotStaged /\ UNCHANGED object
    BY <2>2, OldStays
  <2> QED BY <1>2, <2>1, <2>2
<1>6. history = "lone" => \A j \in i .. 4 :
        f.staged[Order[j]] # NotStaged => object'[Key(Order[j], f.version)] = f.staged[Order[j]]
  <2> SUFFICES ASSUME history = "lone", NEW j \in i .. 4, f.staged[Order[j]] # NotStaged
               PROVE  object'[Key(Order[j], f.version)] = f.staged[Order[j]]
    OBVIOUS
  <2>1. CASE j = i
    BY <1>4, <1>b, <2>1
  <2>2. CASE j # i
    <3>1. j \in 1..4 /\ j \in i + 1 .. 4
      BY <2>2
    <3> QED BY <1>1, <1>2, <1>4, <1>a, <2>2, <3>1 DEF LoneOK
  <2> QED BY <2>1, <2>2
<1>7. (history' # "mixed" => history # "mixed") /\ (history' = "lone" => history = "lone")
  BY <1>2
<1>8. f = task[t] /\ f.kind # "none"
  BY <1>1
<1>9. CASE f.at = 1 /\ o = Idle
  <2>1. o.kind = "none"
    BY <1>9, IdleShape
  <2>2. ASSUME history = "lone" PROVE Agree(object)'
    <3>1. Agree(Old(f))
      BY <1>1, <2>2 DEF LoneOK
    <3>2. ASSUME NEW name \in KeyNames, NEW w \in Versions
          PROVE  object'[Key(name, w)] = Old(f)[Key(name, w)]
      <4>1. PICK j \in 1..4 : name = Order[j]
        BY OrderIs
      <4>2. j \in i .. 4
        BY <1>9, <1>a
      <4>3. CASE Key(name, w) = Key(name, f.version) /\ f.staged[name] # NotStaged
        BY <1>6, <2>2, <4>1, <4>2, <4>3, OldAt
      <4>4. CASE Key(name, w) = Key(name, f.version) /\ f.staged[name] = NotStaged
        <5>1. Old(f)[Key(name, w)] = object[Key(name, w)]
          BY <4>4, OldAt
        <5>2. object'[Key(name, w)] = object[Key(name, w)]
          BY <1>2, <1>4, <1>b, <4>1, <4>4
        <5> QED BY <5>1, <5>2
      <4>5. CASE Key(name, w) # Key(name, f.version)
        <5>1. Old(f)[Key(name, w)] = object[Key(name, w)]
          BY <4>5, OldAt
        <5>2. Key(name, w) # Key(Order[i], f.version)
          BY <1>1, <4>5, OrderIs, KeyShape
        <5>3. object'[Key(name, w)] = object[Key(name, w)]
          BY <1>2, <5>2, KeyShape DEF IndexInv, StoreOK
        <5> QED BY <5>1, <5>3
      <4> QED BY <4>3, <4>4, <4>5
    <3>3. Agree(object')
      BY <3>1, <3>2, AgreeSame
    <3> QED BY <3>3 DEF Agree
  <2>3. history' # "mixed" => KeptOK(o)'
    BY <2>1 DEF KeptOK
  <2>4. history' = "lone" => /\ o.kind = "none" => Agree(object)'
                             /\ o.kind # "none" => LoneOK(o)'
    BY <1>2, <2>1, <2>2
  <2>5. TaskOK(o) /\ task' = [task EXCEPT ![t] = o]
    BY <1>3
  <2>6. /\ StoreOK'
        /\ \A w \in Versions \ Upstream : w # f.version =>
             object'[Key("metadata", w)] = object[Key("metadata", w)] /\ published'[w] = published[w]
        /\ history' # "mixed" /\ f.version \in Versions \ Upstream =>
             Keeps(object[Key("metadata", f.version)], f.version)'
    BY <1>4
  <2> QED BY <1>7, <1>8, <2>1, <2>3, <2>4, <2>5, <2>6, OfStep
<1>10. CASE f.at # 1 /\ Like(o, f) /\ o.at = f.at - 1 /\ o.pc = "undo"
  <2>1. o.kind = f.kind /\ o.version = f.version /\ o.kind \notin {"none", "list"} /\ o.staged = f.staged
    BY <1>1, <1>10 DEF Like
  <2>2. history' # "mixed" => KeptOK(o)'
    BY <1>1, <1>2, <1>10 DEF KeptOK, Keeps, Like, Writing
  <2>3. ASSUME history = "lone" PROVE LoneOK(o)'
    <3>1. Agree(Old(o))'
      <4>1. Agree(Old(f)) /\ Old(o)' = Old(f)
        BY <1>1, <1>5, <2>1, <2>3 DEF LoneOK, Old
      <4> QED BY <4>1 DEF Agree
    <3>2. o.at + 1 = i
      BY <1>1, <1>a, <1>10
    <3>3. \A j \in o.at + 1 .. 4 :
            o.staged[Order[j]] # NotStaged => object'[Key(Order[j], o.version)] = o.staged[Order[j]]
      BY <1>6, <2>1, <2>3, <3>2
    <3> QED BY <1>10, <2>1, <3>1, <3>3 DEF LoneOK
  <2>4. history' = "lone" => /\ o.kind = "none" => Agree(object)'
                             /\ o.kind # "none" => LoneOK(o)'
    BY <1>2, <2>1, <2>3
  <2> QED BY <1>3, <1>4, <1>7, <1>8, <2>1, <2>2, <2>4, OfStep
<1> QED BY <1>3, <1>9, <1>10

LEMMA OfFailUndo == ASSUME IndexInv, NEW t \in Tasks, FailUndo(t) PROVE IndexInv'
<1>1. PICK f : /\ f = task[t] /\ TaskOK(f) /\ f.kind # "none" /\ f.pc = "undo"
  BY DEF FailUndo, IndexInv, TaskOK
<1>2. /\ UNCHANGED <<object, published>> /\ faults' \in 0..MaxFaults /\ history' = "mixed"
  BY FaultsAssumption DEF FailUndo, Fault, Enter, IndexInv, StoreOK
<1>3. PICK o : /\ task' = [task EXCEPT ![t] = o] /\ TaskOK(o)
               /\ \/ f.at = 1 /\ o = Idle
                  \/ f.at # 1 /\ Like(o, f) /\ o.at = f.at - 1 /\ o.pc = "undo"
  BY <1>1, UndoNextIs DEF FailUndo
<1>4. o.kind = "none" \/ (o.kind = f.kind /\ o.version = f.version)
  BY <1>3, IdleShape DEF Like
<1> QED BY <1>1, <1>2, <1>3, <1>4, OfQuiet

LEMMA OfCancel == ASSUME IndexInv, NEW t \in Tasks, Cancel(t) PROVE IndexInv'
<1>1. PICK f : f = task[t] /\ TaskOK(f) /\ f.kind # "none"
  BY DEF Cancel, IndexInv, TaskOK
<1>2. /\ UNCHANGED <<object, published>> /\ faults' \in 0..MaxFaults /\ Return(t)
      /\ history' = IF history = "mixed" THEN history ELSE IF f.staged = Nothing THEN history ELSE "publishes"
  BY <1>1, FaultsAssumption DEF Cancel, Fault, Enter, IndexInv, StoreOK
<1>3. ASSUME history' = "lone" PROVE Agree(object)
  <2>1. history = "lone" /\ f.staged = Nothing
    BY <1>2, <1>3
  <2>2. \A i \in 1..4 : f.staged[Order[i]] = NotStaged
    BY <2>1, IdleShape
  <2> QED BY <1>1, <2>1, <2>2, Unwritten
<1>4. history' \in {history, "mixed"} \/ (history' = "publishes" /\ history # "mixed")
  BY <1>2
<1> QED BY <1>1, <1>2, <1>3, <1>4, Returning

\* A list is filled only where there was none, so that nothing was published.
LEMMA OfFillList == ASSUME IndexInv, NEW t \in Tasks, FillList(t) PROVE IndexInv'
<1>1. PICK f : /\ f = task[t] /\ TaskOK(f) /\ f.kind = "list" /\ f.version = NoVersion /\ f.pc = "fill"
  BY DEF FillList, IndexInv, TaskOK
<1>2. /\ object' = [object EXCEPT ![Key("versions", NoVersion)] = UpstreamList]
      /\ UNCHANGED <<published, history, faults>>
  BY DEF FillList
<1>3. PICK o : o = Idle
  OBVIOUS
<1>4. TaskOK(o) /\ o.kind = "none" /\ task' = [task EXCEPT ![t] = o]
  BY <1>3, IdleShape DEF FillList, Return
<1>5. ASSUME NEW name \in KeyNames, NEW w \in Versions
      PROVE  object'[Key(name, w)] = IF name = "versions" THEN UpstreamList ELSE object[Key(name, w)]
  <2>1. DOMAIN object = Keys /\ Key(name, w) \in Keys /\ Key(name, w)[1] = name
    BY KeyShape DEF IndexInv, StoreOK
  <2>2. CASE name = "versions"
    <3>1. Key(name, w) = Key("versions", NoVersion)
      BY <2>2, OrderIs, KeyShape
    <3> QED BY <1>2, <2>1, <2>2, <3>1
  <2>3. CASE name # "versions"
    <3>1. Key(name, w) # Key("versions", NoVersion)
      BY <2>3, OrderIs, KeyShape
    <3> QED BY <1>2, <2>1, <2>3, <3>1
  <2> QED BY <2>2, <2>3
<1>6. StoreOK'
  <2>1. DOMAIN object' = Keys
    BY <1>2 DEF IndexInv, StoreOK
  <2>2. ASSUME NEW name \in KeyNames, NEW w \in Versions PROVE object'[Key(name, w)] \in Values(name)
    <3>1. CASE name = "versions"
      BY <1>5, <3>1, UpstreamIsList DEF Values
    <3>2. CASE name # "versions"
      BY <1>5, <3>2 DEF IndexInv, StoreOK
    <3> QED BY <3>1, <3>2
  <2> QED BY <1>2, <2>1, <2>2 DEF IndexInv, StoreOK
<1>7. \A w \in Versions \ Upstream : w # f.version =>
        object'[Key("metadata", w)] = object[Key("metadata", w)] /\ published'[w] = published[w]
  BY <1>2, <1>5, OrderIs
<1>8. history' # "mixed" /\ f.version \in Versions \ Upstream =>
        Keeps(object[Key("metadata", f.version)], f.version)'
  BY <1>1, NoVersionAssumption
<1>9. ASSUME history = "lone" PROVE Agree(object)'
  <2>1. LoneOK(f)
    BY <1>1, <1>9 DEF IndexInv, LoneInv
  <2>2. \A i \in 1..4 : f.staged[Order[i]] = NotStaged
    BY <1>1 DEF TaskOK, StagedOK
  <2>3. Agree(object) /\ object[Key("versions", NoVersion)] = Absent
    BY <1>1, <1>9, <2>1, <2>2, Unwritten DEF LoneOK
  <2>4. ASSUME NEW w \in Versions
        PROVE  /\ object[Key("record", w)] = Absent
               /\ object'[Key("record", w)] = Absent
               /\ object'[Key("metadata", w)] # Absent => w \in Upstream
               /\ object'[Key("versions", w)] = UpstreamList
    <3>1. object[Key("versions", w)] = Absent
      BY <2>3, OrderIs, KeyShape
    <3>2. object[Key("record", w)] = Absent /\ (object[Key("metadata", w)] # Absent => w \in Upstream)
      BY <2>3, <3>1 DEF Agree
    <3> QED BY <1>5, <3>2, OrderIs
  <2>5. Agree(object')
    BY <2>4, UpstreamIsList DEF Agree
  <2> QED BY <2>5 DEF Agree
<1>10. history' = "lone" => /\ o.kind = "none" => Agree(object)'
                            /\ o.kind # "none" => LoneOK(o)'
  BY <1>2, <1>4, <1>9
<1>11. history' # "mixed" => KeptOK(o)'
  BY <1>4 DEF KeptOK
<1>12. (history' # "mixed" => history # "mixed") /\ (history' = "lone" => history = "lone")
  BY <1>2
<1>13. f = task[t] /\ f.kind # "none"
  BY <1>1
<1> QED BY <1>4, <1>6, <1>7, <1>8, <1>10, <1>11, <1>12, <1>13, OfStep

-----------------------------------------------------------------------------
(* All behaviours *)

LEMMA IndexInit == Init => IndexInv
<1> SUFFICES ASSUME Init PROVE IndexInv
  OBVIOUS
<1>1. /\ DOMAIN object = Keys /\ DOMAIN task = Tasks /\ \A t \in Tasks : task[t] = Idle
      /\ \A v \in Versions : published[v] = {}
      /\ history = "lone"
  BY DEF Init
<1>2. \A name \in KeyNames, v \in Versions : object[Key(name, v)] = Absent
  BY KeyShape DEF Init
<1>3. StoreOK
  BY <1>1, <1>2, ValuesShape, FaultsAssumption DEF Init, StoreOK
<1>4. \A t \in Tasks : TaskOK(task[t]) /\ task[t].kind = "none"
  BY <1>1, IdleShape
<1>5. Overlaps
  BY <1>4 DEF Overlaps
<1>6. KeptInv
  BY <1>1, <1>4 DEF KeptInv, KeptOK, Keeps
<1>7. Agree(object)
  BY <1>2, OrderIs DEF Agree
<1>8. LoneInv
  BY <1>4, <1>7 DEF LoneInv
<1> QED BY <1>1, <1>3, <1>4, <1>5, <1>6, <1>8 DEF IndexInv

LEMMA IndexStutter == IndexInv /\ UNCHANGED vars => IndexInv'
<1> SUFFICES ASSUME IndexInv, UNCHANGED <<object, task, published, history, faults>> PROVE IndexInv'
  BY DEF vars
<1>1. StoreOK' /\ DOMAIN task' = Tasks
  BY DEF IndexInv, StoreOK
<1>2. ASSUME NEW t \in Tasks PROVE TaskOK(task[t])'
  BY DEF IndexInv, TaskOK, FlagsOK, StagedOK, Values
<1>3. Overlaps'
  BY DEF IndexInv, Overlaps
<1>4. KeptInv'
  BY DEF IndexInv, KeptInv, KeptOK, Keeps
<1>5. LoneInv'
  <2> SUFFICES ASSUME history = "lone"
               PROVE  /\ (\A t \in Tasks : task'[t].kind = "none") => Agree(object)'
                      /\ \A o \in {task'[t] : t \in Tasks} : o.kind # "none" => LoneOK(o)'
    BY DEF LoneInv
  <2>1. Agree(object) => Agree(object)'
    BY OldStays
  <2>2. ASSUME NEW o \in {task'[t] : t \in Tasks}, o.kind # "none" PROVE LoneOK(o)'
    <3>1. LoneOK(o)
      BY <2>2 DEF IndexInv, LoneInv
    <3> QED BY <3>1, OldStays
  <2> QED BY <2>1, <2>2 DEF IndexInv, LoneInv
<1> QED BY <1>1, <1>2, <1>3, <1>4, <1>5 DEF IndexInv

LEMMA IndexStep == IndexInv /\ [Next]_vars => IndexInv'
<1>1. ASSUME IndexInv, NEW t \in Tasks, NEW v \in Versions, NEW f \in (SUBSET Files) \ {{}}, StartPublish(t, v, f)
      PROVE  IndexInv'
  BY <1>1, OfStartPublish
<1>2. ASSUME IndexInv, NEW t \in Tasks, NEW v \in Versions, NEW y \in BOOLEAN, StartYank(t, v, y) PROVE IndexInv'
  BY <1>2, OfStartYank
<1>3. ASSUME IndexInv, NEW t \in Tasks, NEW v \in Versions, StartMetadata(t, v) PROVE IndexInv'
  BY <1>3, OfStartMetadata
<1>4. ASSUME IndexInv, NEW t \in Tasks, StartList(t) PROVE IndexInv'
  BY <1>4, OfStartList
<1>5. ASSUME IndexInv, NEW t \in Tasks, FillList(t) PROVE IndexInv'
  BY <1>5, OfFillList
<1>6. ASSUME IndexInv, NEW t \in Tasks, CheckPublish(t) PROVE IndexInv'
  BY <1>6, OfCheckPublish
<1>7. ASSUME IndexInv, NEW t \in Tasks, MergeExisting(t) PROVE IndexInv'
  BY <1>7, OfMergeExisting
<1>8. ASSUME IndexInv, NEW t \in Tasks, ReadMetadata(t) PROVE IndexInv'
  BY <1>8, OfReadMetadata
<1>9. ASSUME IndexInv, NEW t \in Tasks, Refuse(t) PROVE IndexInv'
  BY <1>9, OfRefuse
<1>10. ASSUME IndexInv, NEW t \in Tasks, PrepareRecord(t) PROVE IndexInv'
  BY <1>10, OfPrepareRecord
<1>11. ASSUME IndexInv, NEW t \in Tasks, PrepareVersions(t) PROVE IndexInv'
  BY <1>11, OfPrepareVersions
<1>12. ASSUME IndexInv, NEW t \in Tasks, Track(t) PROVE IndexInv'
  BY <1>12, OfTrack
<1>13. ASSUME IndexInv, NEW t \in Tasks, Put(t) PROVE IndexInv'
  BY <1>13, OfPut
<1>14. ASSUME IndexInv, NEW t \in Tasks, Commit(t) PROVE IndexInv'
  BY <1>14, OfCommit
<1>15. ASSUME IndexInv, NEW t \in Tasks, Fail(t) PROVE IndexInv'
  BY <1>15, OfFail
<1>16. ASSUME IndexInv, NEW t \in Tasks, Undo(t) PROVE IndexInv'
  BY <1>16, OfUndo
<1>17. ASSUME IndexInv, NEW t \in Tasks, FailUndo(t) PROVE IndexInv'
  BY <1>17, OfFailUndo
<1>18. ASSUME IndexInv, NEW t \in Tasks, Cancel(t) PROVE IndexInv'
  BY <1>18, OfCancel
<1> QED BY <1>1, <1>2, <1>3, <1>4, <1>5, <1>6, <1>7, <1>8, <1>9, <1>10, <1>11, <1>12, <1>13,
           <1>14, <1>15, <1>16, <1>17, <1>18, IndexStutter DEF Next

LEMMA IndexHolds == Spec => []IndexInv
BY IndexInit, IndexStep, PTL DEF Spec

\* put_and_track and rollback_staged_writes: whatever is written, staged or put
\* back under a key is what belongs there, with every overlap and every failure.
THEOREM TypeCorrect == Spec => []TypeOK
<1>1. IndexInv => TypeOK
  <2> SUFFICES ASSUME IndexInv PROVE TypeOK
    OBVIOUS
  <2>1. ASSUME NEW k \in Keys, object[k] # Absent
        PROVE  object[k] \in (IF k[1] = "versions" THEN List ELSE Entry)
    <3>1. PICK name \in KeyNames, v \in Versions : k = Key(name, v)
      BY DEF Keys
    <3>2. k[1] = name
      BY <3>1, KeyShape
    <3> QED BY <2>1, <3>1, <3>2, Stored1
  <2>2. ASSUME NEW t \in Tasks
        PROVE  /\ task[t].pc \in {"idle", "check", "merge", "read", "prepare", "track",
                                  "put", "commit", "undo", "fill"}
               /\ task[t].at \in 1..4
               /\ task[t].pc \in {"track", "put"} =>
                    Written(t) \in (IF Name(t) = "versions" THEN List ELSE Entry)
    <3>1. PICK f : f = task[t] /\ TaskOK(f)
      BY DEF IndexInv
    <3>2. f.at \in 1..4 /\ f.pc \in {"idle", "check", "merge", "read", "fill"} \cup Writing
      BY <3>1 DEF TaskOK
    <3>3. ASSUME f.pc \in {"track", "put"}
          PROVE  Written(t) \in (IF Name(t) = "versions" THEN List ELSE Entry)
      <4>1. Written(t) = WrittenOf(f) /\ Name(t) = Order[f.at] /\ Name(t) \in KeyNames
        BY <3>1, <3>2, WrittenIs
      <4>2. WrittenOf(f) \in Values(Order[f.at]) /\ WrittenOf(f) # Absent
        BY <3>1, <3>3, WrittenType
      <4> QED BY <4>1, <4>2, ValuesShape
    <3> QED BY <3>1, <3>2, <3>3 DEF Writing
  <2> QED BY <2>1, <2>2 DEF TypeOK, IndexInv, StoreOK
<1> QED BY <1>1, IndexHolds, PTL

\* publish_package: a file whose publish was acknowledged stays in the metadata of
\* its version through every overwrite, rollback and request that is cut off, as
\* long as no yank overlaps and no rollback write fails.
THEOREM FilesRemain == Spec => []AcknowledgedFilesRemain
<1>1. IndexInv => AcknowledgedFilesRemain
  BY DEF IndexInv, KeptInv, Keeps, AcknowledgedFilesRemain, Stored
<1> QED BY <1>1, IndexHolds, PTL

\* publish_package, set_yanked and the fills of reads, one after the other: however
\* each of them fails, rolled back or not begun, the documents of a version and the
\* list of the package agree.
THEOREM Settled == Spec => []SettledIsConsistent
<1>1. IndexInv => SettledIsConsistent
  <2> SUFFICES ASSUME IndexInv, Quiet, history = "lone" PROVE SettledIsConsistent
    BY DEF SettledIsConsistent
  <2>1. \A t \in Tasks : task[t].kind = "none"
    BY DEF Quiet, IndexInv, TaskOK
  <2>2. Agree(object)
    BY <2>1 DEF IndexInv, LoneInv
  <2>3. ASSUME NEW v \in Versions PROVE object[Key("versions", v)] = VersionList
    BY OrderIs, KeyShape DEF VersionList
  <2>4. ASSUME NEW v \in Versions, Stored("record", v) # Absent
        PROVE  /\ Stored("metadata", v) = Stored("manifest", v)
               /\ Stored("metadata", v) = Stored("record", v)
               /\ VersionList # Absent /\ v \in DOMAIN VersionList
               /\ VersionList[v] = Stored("record", v).yanked
    BY <2>2, <2>3, <2>4 DEF Agree, Stored
  <2>5. ASSUME VersionList # Absent, NEW v \in DOMAIN VersionList
        PROVE  v \in Upstream \/ Stored("record", v) # Absent
    <3>1. PICK u \in Versions : object[Key("versions", u)] = VersionList
      BY <2>3, VersionsAssumption
    <3>2. VersionList \in List
      BY <2>5, <3>1, Stored1, OrderIs
    <3>3. v \in Versions
      BY <3>2, ListShape
    <3> QED BY <2>2, <2>5, <3>1, <3>3 DEF Agree, Stored
  <2> QED BY <2>4, <2>5 DEF SettledIsConsistent
<1> QED BY <1>1, IndexHolds, PTL
=============================================================================
