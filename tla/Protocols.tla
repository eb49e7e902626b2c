----------------------------- MODULE Protocols -----------------------------
(***************************************************************************)
(* The registry adapters over the package service: how a publish and an    *)
(* index request of each ecosystem read and write the protocol's own       *)
(* documents, the raw objects of get_raw_upstream and put_raw_upstream.    *)
(* No lock is held over them, and a stored one is never fetched again.     *)
(*                                                                         *)
(* Of the service there is a version's metadata, which its publish writes  *)
(* first, and the list of versions, which it reads and writes last with no *)
(* lock that other publishes share; module PackageIndex has the rest.  Who *)
(* may publish is decided in module Requests.  A document is the set of    *)
(* the releases it names.                                                  *)
(***************************************************************************)
EXTENDS Integers, Sequences, FiniteSets

CONSTANTS
    Registries,     \* the ecosystems a server is run with, one at a time
    Mounts,         \* "proxy", "group": a repository, or a group with it as member
    Names, Versions,
    Upstream,       \* the releases upstream has
    Overwriting,    \* the ecosystems of which publishing.allow_overwrite is set
    Written,        \* what a Maven client may write to be the index of a package
    Clients,
    MaxFaults,      \* requests that are dropped, publishes that fail, failing puts of an index
    None

Releases == Names \X Versions

ASSUME RegistriesAssumption ==
    Registries \subseteq {"cargo", "npm", "pypi", "hex", "maven", "rubygems", "nuget", "pub", "git", "upstream"}
ASSUME MountsAssumption == Mounts \subseteq {"proxy", "group"}
ASSUME UpstreamAssumption == Upstream \subseteq Releases
ASSUME OverwritingAssumption == Overwriting \subseteq Registries
ASSUME WrittenAssumption == Written \in [Names -> SUBSET SUBSET Releases]
ASSUME NoneAssumption ==
    None \notin Names /\ \A S \in (SUBSET Versions) \cup (SUBSET Releases) : S # None
ASSUME FaultsAssumption == MaxFaults \in Nat

VARIABLES
    registry, mount,
    listed,         \* by name, the version list the service has stored, or None
    memory,         \* the names of which the upstream client remembers the index
    document,       \* the protocol documents
    stored,         \* the releases of which the service has metadata from a publish
    published,      \* those whose publish succeeded, by an adapter or without one
    dropped,        \* the published ones that another's write has taken off the list
    op,             \* what each client's request is doing
    faults

vars == <<registry, mount, listed, memory, document, stored, published, dropped, op, faults>>

-----------------------------------------------------------------------------
(* The documents of a protocol                                             *)

Package(n) == <<"package", n>>
RegistryEntry(n) == <<"registry", n>>   \* hex: registry/{name}
EveryGem == <<"versions", None>>        \* rubygems: _versions, of all names
Keys == {Package(n) : n \in Names} \cup {RegistryEntry(n) : n \in Names} \cup {EveryGem}

Of(n, S) == {r \in S : r[1] = n}
UpstreamOf(key) == IF key = EveryGem THEN Upstream ELSE Of(key[2], Upstream)

\* Variant: the index of all gems, and the registry entry, are written first.
DocumentsReversed(n) ==
    CASE registry = "rubygems" -> <<EveryGem, Package(n)>>
      [] registry = "hex" -> <<RegistryEntry(n), Package(n)>>
      [] registry \in {"cargo", "npm"} -> <<Package(n)>>
      [] OTHER -> <<>>

\* What the adapter writes for a publish, in this order; the others write nothing.
Documents(n) ==
    CASE registry = "rubygems" -> <<Package(n), EveryGem>>
      [] registry = "hex" -> <<Package(n), RegistryEntry(n)>>
      [] registry \in {"cargo", "npm"} -> <<Package(n)>>
      [] OTHER -> <<>>

\* A new release is merged into the document; npm and hex replace it.
Merges == registry \in {"cargo", "rubygems"}

\* Which documents are rebuilt over the service's list when none is stored; the
\* others are fetched as they are.
Rebuilt(key) == registry \in {"cargo", "npm", "pypi", "hex"} /\ key[1] = "package"

\* A group takes no publish and has no document of its own.  Its members are all
\* the one service, whose list is theirs and their union.
TakesPublishes == mount = "proxy"
HasDocuments == mount = "proxy"
UpstreamVersions(n) == {r[2] : r \in Of(n, Upstream)}

-----------------------------------------------------------------------------
\* step: how many of the documents of a publish are written; again: of a version that
\* exists; base: the list that it would put back; before: what was published when a
\* request came in.
Idle == [pc |-> "idle", release |-> None, key |-> None, step |-> 0, again |-> FALSE,
         base |-> None, doc |-> {}, before |-> {}]

Init ==
    /\ registry \in Registries
    /\ mount \in Mounts
    /\ listed = [n \in Names |-> None]
    /\ memory = {}
    /\ document = [key \in Keys |-> None]
    /\ stored = {}
    /\ published = {}
    /\ dropped = {}
    /\ op = [k \in Clients |-> Idle]
    /\ faults = 0

Return(k) == op' = [op EXCEPT ![k] = Idle]
list == <<listed, dropped>>
service == <<list, memory, stored, published>>
fixed == <<registry, mount>>

\* The list of a package is written; what it no longer has of the published is dropped.
WriteList(n, versions) ==
    /\ listed' = [listed EXCEPT ![n] = versions]
    /\ dropped' = dropped \cup
           {r \in Of(n, published) : versions = None \/ r[2] \notin versions}

-----------------------------------------------------------------------------
(* publish_crate, publish_packument, legacy_upload, publish_gem, put_path..*)

Publishing == {"load", "keep", "commit"}

\* publish_package: no two publishes of a release at a time, none of one that upstream
\* has, of which the client then remembers the index, and a version twice only where
\* that is allowed.  The metadata is written.
PublishPackage(k, r, overwrite, step) ==
    /\ op[k].pc = "idle"
    /\ \A u \in Clients : op[u].pc \in Publishing => op[u].release # r
    /\ r \in stored => overwrite
    /\ r \notin Upstream
    /\ stored' = stored \cup {r}
    /\ memory' = IF Of(r[1], Upstream) = {} THEN memory ELSE memory \cup {r[1]}
    /\ op' = [op EXCEPT ![k] = [Idle EXCEPT !.pc = "load", !.release = r,
                                           !.step = step, !.again = r \in stored]]
    /\ UNCHANGED <<fixed, list, document, published, faults>>

\* The list that there is, or upstream's, and the new version.
LoadVersions(k) ==
    LET r == op[k].release
        versions == IF listed[r[1]] # None THEN listed[r[1]] ELSE UpstreamVersions(r[1])
    IN
    /\ op[k].pc = "load"
    /\ op' = [op EXCEPT ![k].pc = "keep", ![k].doc = {r[1]} \X (versions \cup {r[2]})]
    /\ UNCHANGED <<fixed, service, document, faults>>

\* put_and_track remembers the list as it now is, and writes what was loaded.  (These
\* are two calls; module PackageIndex has them apart.)
PutVersions(k) ==
    LET n == op[k].release[1] IN
    /\ op[k].pc = "keep"
    /\ WriteList(n, {r[2] : r \in op[k].doc})
    /\ op' = [op EXCEPT ![k].pc = "commit", ![k].doc = {}, ![k].base = listed[n]]
    /\ UNCHANGED <<fixed, memory, stored, published, document, faults>>

\* A write fails, and the list and the metadata are put back.
FailPublish(k) ==
    LET r == op[k].release IN
    /\ op[k].pc \in Publishing /\ faults < MaxFaults
    /\ faults' = faults + 1
    /\ stored' = IF op[k].again THEN stored ELSE stored \ {r}
    /\ IF op[k].pc = "commit" THEN WriteList(r[1], op[k].base) ELSE UNCHANGED list
    /\ Return(k)
    /\ UNCHANGED <<fixed, memory, published, document>>

\* On to the next document of the release, or the answer.
WriteNext(k, r, step) ==
    IF step < Len(Documents(r[1]))
    THEN op' = [op EXCEPT ![k] = [Idle EXCEPT !.pc = "read", !.release = r, !.step = step + 1]]
    ELSE Return(k)

\* The publish succeeds.
Commit(k) ==
    LET r == op[k].release IN
    /\ op[k].pc = "commit"
    /\ published' = published \cup {r}
    /\ dropped' = IF listed[r[1]] = None \/ r[2] \notin listed[r[1]] THEN dropped \cup {r} ELSE dropped
    /\ WriteNext(k, r, op[k].step)
    /\ UNCHANGED <<fixed, listed, memory, stored, document, faults>>

\* sm publish, the MCP tool and the promotion of a held publish call the service
\* without an adapter: no document is left to write.
PublishDirect(k, n, v) ==
    PublishPackage(k, <<n, v>>, registry \in Overwriting, Len(Documents(n)))

\* Maven always overwrites.
Publish(k, n, v) ==
    TakesPublishes /\ PublishPackage(k, <<n, v>>, registry \in Overwriting \cup {"maven"}, 0)

PublishCrate(k, n, v) == registry = "cargo" /\ Publish(k, n, v)
PublishPackument(k, n, v) == registry = "npm" /\ Publish(k, n, v)
LegacyUpload(k, n, v) == registry = "pypi" /\ Publish(k, n, v)
PublishHexPackage(k, n, v) == registry = "hex" /\ Publish(k, n, v)
PutPath(k, n, v) == registry = "maven" /\ Publish(k, n, v)
PublishGem(k, n, v) == registry = "rubygems" /\ Publish(k, n, v)
PublishNupkg(k, n, v) == registry = "nuget" /\ Publish(k, n, v)
PublishArchive(k, n, v) == registry = "pub" /\ Publish(k, n, v)

WriteKey(k) == Documents(op[k].release[1])[op[k].step]

Put(key, doc) == document' = [document EXCEPT ![key] = doc]

\* store_cargo_index_entry and update_compact_index add the release to the document
\* that is stored; when there is none they start with an empty one.
Stored(k) == IF document[WriteKey(k)] = None THEN {} ELSE document[WriteKey(k)]

Add(k) ==
    /\ op[k].pc = "read"
    /\ op' = [op EXCEPT ![k].pc = "put", ![k].doc = Stored(k) \cup {op[k].release}]
    /\ UNCHANGED <<fixed, service, document, faults>>

AppendIndexEntry(k) == registry = "cargo" /\ Add(k)
UpsertCompactIndex(k) == registry = "rubygems" /\ Add(k)

PutDocument(k) ==
    /\ op[k].pc = "put"
    /\ Put(WriteKey(k), op[k].doc)
    /\ WriteNext(k, op[k].release, op[k].step)
    /\ UNCHANGED <<fixed, service, faults>>

\* The packument of the request, and the Hex package with the one release, replace
\* what is stored.
Replace(k) ==
    /\ op[k].pc = "read"
    /\ Put(WriteKey(k), {op[k].release})
    /\ WriteNext(k, op[k].release, op[k].step)
    /\ UNCHANGED <<fixed, service, faults>>

ReplacePackument(k) == registry = "npm" /\ Replace(k)
ReplaceHexMetadata(k) == registry = "hex" /\ Replace(k)

\* maven-metadata.xml is written by the client, which puts what it likes.
PutMetadataXml(k, n, doc) ==
    /\ registry = "maven" /\ TakesPublishes
    /\ op[k].pc = "idle"
    /\ Put(Package(n), doc)
    /\ UNCHANGED <<fixed, service, op, faults>>

-----------------------------------------------------------------------------
(* sparse_index, package_metadata, simple_project, serve_raw, versions ..  *)

\* NuGet has no documents; a stored one is answered as it is.
Keeps == HasDocuments /\ registry # "nuget"

Request(k, n, key) ==
    /\ op[k].pc = "idle"
    /\ \/ Keeps /\ document[key] # None /\ UNCHANGED op
       \/ /\ Keeps => document[key] = None
          /\ op' = [op EXCEPT ![k] =
                [Idle EXCEPT !.pc = IF registry = "nuget" \/ Rebuilt(key) THEN "list" ELSE "fetch",
                             !.release = <<n, None>>, !.key = key, !.before = Of(n, published)]]
    /\ UNCHANGED <<fixed, service, document, faults>>

SparseIndex(k, n) == registry = "cargo" /\ Request(k, n, Package(n))
ServePackument(k, n) == registry = "npm" /\ Request(k, n, Package(n))
SimpleProject(k, n) == registry = "pypi" /\ Request(k, n, Package(n))
HexMetadata(k, n) == registry = "hex" /\ Request(k, n, Package(n))
HexRegistryEntry(k, n) == registry = "hex" /\ Request(k, n, RegistryEntry(n))
ServeRawXml(k, n) == registry = "maven" /\ Request(k, n, Package(n))
ServeRaw(k, n) == registry = "rubygems" /\ \E key \in {Package(n), EveryGem} : Request(k, n, key)
ServeVersions(k, n) == registry = "nuget" /\ Request(k, n, None)
PubPackage(k, n) == registry = "pub" /\ Request(k, n, Package(n))

\* list_versions: the stored list, or upstream's, which is then written; an error when
\* neither has the package.
Listed(k, versions) ==
    op' = [op EXCEPT ![k].pc = IF registry = "nuget" THEN "answer" ELSE "collect",
                     ![k].doc = IF registry = "nuget" THEN {op[k].release[1]} \X versions ELSE {}]

ListVersions(k) ==
    LET n == op[k].release[1] IN
    /\ op[k].pc = "list"
    /\ \/ listed[n] # None /\ Listed(k, listed[n]) /\ UNCHANGED memory
       \/ listed[n] = None /\ UpstreamVersions(n) = {} /\ Return(k) /\ UNCHANGED memory
       \/ /\ listed[n] = None /\ UpstreamVersions(n) # {}
          /\ op' = [op EXCEPT ![k].pc = "save"]
          /\ memory' = memory \cup {n}
    /\ UNCHANGED <<fixed, list, stored, published, document, faults>>

SaveVersions(k) ==
    LET n == op[k].release[1] IN
    /\ op[k].pc = "save"
    /\ WriteList(n, UpstreamVersions(n))
    /\ Listed(k, UpstreamVersions(n))
    /\ UNCHANGED <<fixed, memory, stored, published, document, faults>>

Built(k, doc) ==
    /\ op[k].pc = "collect"
    /\ op' = [op EXCEPT ![k].pc = "answer", ![k].doc = doc]
    /\ UNCHANGED <<fixed, service, document, faults>>

\* Upstream's index while the client remembers it, else what the service lists ...
Remembered(k, local) ==
    IF op[k].release[1] \in memory THEN Of(op[k].release[1], Upstream) ELSE local
Local(k) ==
    LET n == op[k].release[1] IN IF listed[n] = None THEN {} ELSE {n} \X listed[n]

\* ... which for a crate is nothing.
CollectCrate(k) == registry = "cargo" /\ Built(k, Remembered(k, {}))

\* For the local document, which is built in either case, the versions are listed again.
ListAgain(k) ==
    /\ op[k].pc = "collect" /\ registry # "cargo"
    /\ listed[op[k].release[1]] = None
    /\ op' = [op EXCEPT ![k].pc = "list"]
    /\ UNCHANGED <<fixed, service, document, faults>>

Collect(k, local) ==
    /\ op[k].pc = "collect" /\ listed[op[k].release[1]] # None
    /\ Built(k, Remembered(k, local))

\* Variant: nothing is built from the versions the service has.
CollectForgotten(k) == registry = "hex" /\ Collect(k, {})

CollectHexPackage(k) == registry = "hex" /\ Collect(k, Local(k))

\* npm and PyPI read the metadata of every release for it.  That of one which the
\* service has not stored is asked for upstream, and may be refused by policy.
CollectRead(k) ==
    \/ /\ op[k].pc = "collect" /\ ~(Local(k) \subseteq stored)
       /\ Return(k)
       /\ UNCHANGED <<fixed, service, document, faults>>
    \/ /\ op[k].pc = "collect" /\ Local(k) \subseteq stored \cup Upstream
       /\ Collect(k, Local(k))
CollectPackument(k) == registry = "npm" /\ CollectRead(k)
CollectProject(k) == registry = "pypi" /\ CollectRead(k)

\* A document that is fetched as it is; an error when upstream has none and there is
\* nothing to take its place.
Fetch(k, found, local) ==
    /\ op[k].pc = "fetch"
    /\ IF found = {} /\ (local = {} \/ ~(local \subseteq stored)) THEN Return(k)
       ELSE op' = [op EXCEPT ![k].pc = "answer", ![k].doc = IF found # {} THEN found ELSE local]
    /\ UNCHANGED <<fixed, service, document, faults>>

FetchRegistryEntry(k) == registry = "hex" /\ Fetch(k, UpstreamOf(op[k].key), {})
FetchMavenMetadata(k) == registry = "maven" /\ Fetch(k, UpstreamOf(op[k].key), {})
FetchCompactIndex(k) == registry = "rubygems" /\ Fetch(k, UpstreamOf(op[k].key), {})

\* build_local_package of pub.
FetchPubPackage(k) ==
    /\ registry = "pub"
    /\ Fetch(k, UpstreamOf(op[k].key), Local(k))

\* What was built or fetched is stored, unless the put fails, and answered.  Whether
\* policy then refuses what the document names changes nothing.
FillDocument(k) ==
    /\ op[k].pc = "answer"
    /\ \/ Keeps /\ Put(op[k].key, op[k].doc) /\ UNCHANGED faults
       \/ Keeps /\ faults < MaxFaults /\ faults' = faults + 1 /\ UNCHANGED document
       \/ ~Keeps /\ UNCHANGED <<document, faults>>
    /\ Return(k)
    /\ UNCHANGED <<fixed, service>>

-----------------------------------------------------------------------------
\* After five minutes, or a restart, the client has to fetch again.
Forget(n) ==
    /\ n \in memory
    /\ memory' = memory \ {n}
    /\ UNCHANGED <<fixed, list, stored, published, document, op, faults>>

\* The request is dropped, and nothing put back, or a read or a put of a document fails.
Cut(k) ==
    /\ op[k].pc # "idle" /\ faults < MaxFaults
    /\ faults' = faults + 1
    /\ Return(k)
    /\ UNCHANGED <<fixed, service, document>>

PublishRequest(k, n, v) ==
    \/ PublishCrate(k, n, v) \/ PublishPackument(k, n, v) \/ LegacyUpload(k, n, v)
    \/ PublishHexPackage(k, n, v) \/ PutPath(k, n, v) \/ PublishGem(k, n, v)
    \/ PublishNupkg(k, n, v) \/ PublishArchive(k, n, v) \/ PublishDirect(k, n, v)

IndexRequest(k, n) ==
    \/ SparseIndex(k, n) \/ ServePackument(k, n) \/ SimpleProject(k, n)
    \/ HexMetadata(k, n) \/ HexRegistryEntry(k, n) \/ ServeRawXml(k, n)
    \/ ServeRaw(k, n) \/ ServeVersions(k, n) \/ PubPackage(k, n)

Publisher(k) ==
    \/ LoadVersions(k) \/ PutVersions(k) \/ FailPublish(k) \/ Commit(k)
    \/ AppendIndexEntry(k) \/ UpsertCompactIndex(k)
    \/ ReplacePackument(k) \/ ReplaceHexMetadata(k) \/ PutDocument(k)

Reader(k) ==
    \/ ListVersions(k) \/ SaveVersions(k) \/ ListAgain(k)
    \/ CollectCrate(k) \/ CollectHexPackage(k) \/ CollectPackument(k) \/ CollectProject(k)
    \/ FetchRegistryEntry(k) \/ FetchMavenMetadata(k) \/ FetchCompactIndex(k) \/ FetchPubPackage(k)
    \/ FillDocument(k)

Next ==
    \/ \E k \in Clients :
         \/ \E n \in Names :
              \/ \E v \in Versions : PublishRequest(k, n, v)
              \/ \E doc \in Written[n] : PutMetadataXml(k, n, doc)
              \/ IndexRequest(k, n)
         \/ Publisher(k) \/ Reader(k) \/ Cut(k)
    \/ \E n \in Names : Forget(n)

Spec == Init /\ [][Next]_vars

-----------------------------------------------------------------------------
\* What each stage of a handler holds; what is published has its metadata, and is
\* listed unless it was dropped.
TypeOK ==
    /\ registry \in Registries /\ mount \in Mounts
    /\ listed \in [Names -> (SUBSET Versions) \cup {None}]
    /\ memory \subseteq Names
    /\ document \in [Keys -> (SUBSET Releases) \cup {None}]
    /\ published \subseteq stored /\ stored \subseteq Releases
    /\ dropped \subseteq published
    /\ \A r \in published \ dropped : listed[r[1]] # None /\ r[2] \in listed[r[1]]
    /\ faults \in 0..MaxFaults
    /\ DOMAIN op = Clients
    /\ \A k \in Clients :
         /\ op[k].pc \in Publishing \cup
              {"idle", "read", "put", "list", "save", "collect", "fetch", "answer"}
         /\ op[k].pc = "idle" => op[k] = Idle
         /\ op[k].pc \in Publishing => op[k].release \in stored
         /\ op[k].pc \in {"read", "put"} =>
              op[k].release \in published /\ op[k].step \in DOMAIN Documents(op[k].release[1])
         /\ op[k].pc \in {"fetch", "answer"} => op[k].key \in Keys \/ registry = "nuget"
         /\ op[k].doc \subseteq Releases /\ op[k].before \subseteq published

\* Where the index of all gems, or the registry entry of a Hex package, names a release
\* that upstream does not have, the document of that package itself is stored and names
\* one: through failures between the two puts of a publish, requests that are dropped
\* there, and publishes and fills that overwrite each other.
IndexedCanBeRead ==
    \A n \in Names : \A key \in {EveryGem, RegistryEntry(n)} :
        document[key] # None /\ Of(n, document[key] \ Upstream) # {} =>
            document[Package(n)] \notin {None, {}}

\* An index of a package that had to be built because none was stored names, where
\* upstream does not have the package, all that had been published when the request
\* came in and that no overlapping publish has taken off the service's list.  Not
\* cargo, whose index starts empty, and what is only fetched.
RebuiltIsCurrent ==
    registry \in {"npm", "pypi", "hex", "pub", "nuget"} =>
        \A k \in Clients :
            /\ op[k].pc = "answer" /\ op[k].key # RegistryEntry(op[k].release[1])
            /\ Of(op[k].release[1], Upstream) = {}
            => op[k].before \ dropped \subseteq op[k].doc

\* What TLC refutes, with configurations that are kept beside the runs.

\* For two gems, or two crates, published at a time.
MergedIsKept ==
    [][Merges => \A key \in Keys : document[key] # None => document[key] \subseteq document'[key]]_vars

\* For an index stored before the publish, which writes none.
PublishedIsAnswered ==
    registry \in {"pypi", "pub"} =>
        \A n \in Names : document[Package(n)] # None => Of(n, published) \subseteq document[Package(n)]

\* For two publishes of a package at a time, each of which has loaded the list.
PublishedIsListed == dropped = {}

\* For an index built between the put of a publish's list and its rollback.
NamedIsPublished ==
    registry # "maven" =>
        \A key \in Keys : document[key] # None => document[key] \subseteq stored \cup Upstream
=============================================================================
