-------------------------- MODULE UpstreamClients --------------------------
(***************************************************************************)
(* The clients through which the service reads an upstream registry: what  *)
(* each remembers of the documents it fetched, which digests it makes of   *)
(* them, where it finds a file, and what the service compares the file     *)
(* with before it keeps it.  Metadata and files are kept for ever.         *)
(*                                                                         *)
(* The caches are read and written under a lock that is not held over the  *)
(* request in between: two requests may both miss, and the slower answer   *)
(* replaces the newer one.                                                 *)
(*                                                                         *)
(* A version is the sequence of its numeric parts, joined by hyphens in    *)
(* the file names of PyPI.  A file is identified by its version and its    *)
(* kind, and a digest is the file it was computed of; Other stands for one *)
(* of something else, or in a notation that is not the one compared.       *)
(***************************************************************************)
EXTENDS Integers, Sequences, FiniteSets
LOCAL INSTANCE SequencesExt

CONSTANTS
    Sources,        \* the ecosystems whose client is run, one at a time
    Fetchers,       \* the requests that are under way
    History,        \* what upstream offers: editions, sequences of releases
    TTL, Timeout    \* of a cached document and of a request, in ticks

ASSUME SourcesAssumption ==
    Sources \subseteq {"pypi", "npm", "hex", "cargo", "maven", "nuget", "rubygems", "pub"}
ASSUME HistoryAssumption ==
    /\ Len(History) \in Nat \ {0} /\ DOMAIN History = 1..Len(History)
    /\ \A e \in DOMAIN History : Len(History[e]) \in Nat /\ DOMAIN History[e] = 1..Len(History[e])
ASSUME TimesAssumption == TTL \in Nat \ {0} /\ Timeout \in Nat

Offered(e) == {History[e][i] : i \in DOMAIN History[e]}
AllReleases == UNION {Offered(e) : e \in DOMAIN History}
AllVersions == {r.version : r \in AllReleases}
AllFiles == AllVersions \X {"archive", "wheel", "pom", "jar", "nuspec"}
Corrupt == <<"corrupt">>
Other == <<>>

VARIABLES
    client,
    edition,        \* the one upstream offers now
    superseded,     \* by edition, for how many ticks it has not been the latest
    remembered,     \* package_cache and the like, and hex's registry_cache
    urls,           \* url_cache of pypi: by file the age of its entry, Never if none
    kept,           \* by version the metadata the service keeps: by file its digests
    bytes,          \* by file what the service keeps
    fetch,          \* what each request is doing
    stale           \* history: a document was used that was superseded for too long

fetchVars == <<client, edition, superseded, remembered, urls, kept, bytes, fetch, stale>>
upstreamVars == <<client, edition>>
store == <<kept, bytes>>
memories == <<remembered, urls>>
Never == TTL + 1
Oldest == TTL + Timeout

-----------------------------------------------------------------------------
(* Digests, and what they are compared with                                *)

Release(offer, v) == CHOOSE r \in {offer[i] : i \in DOMAIN offer} : r.version = v
Has(offer, v) == \E i \in DOMAIN offer : offer[i].version = v

\* The first token of a supported algorithm decides; without one the value is refused.
Subresource(tokens, file) ==
    IF \E i \in DOMAIN tokens : tokens[i] \in {"sha512", "sha384", "sha256"}
    THEN file ELSE Other

\* Variant: only the subresource integrity is compared.
VerifiedByIntegrity(data, digests) ==
    "integrity" \in DOMAIN digests => digests["integrity"] = data

\* One digest is compared, the first in this order; without any everything passes.
Verified(data, digests) ==
    LET order == <<"integrity", "sha256", "sha1", "sha512">>
        known == {i \in DOMAIN order : order[i] \in DOMAIN digests}
    IN \A i \in known : (\A j \in known : i <= j) => digests[order[i]] = data

-----------------------------------------------------------------------------
(* fetch_metadata of each client: the files of a version and the digests   *)
(* it has of them.  A version without files is one that was not found.     *)

\* An sdist's version follows the last hyphen, a wheel's the first.
VersionFromFilename(file) ==
    IF file[2] = "wheel" THEN <<Head(file[1])>> ELSE <<Last(file[1])>>

\* The SHA-512 of a simple index is hexadecimal, and the one compared Base64.
PypiHashes(r, file) ==
    [a \in r.announced \cap {"sha256", "sha1", "sha512"} |-> IF a = "sha512" THEN Other ELSE file]

PypiFilesToMetadata(offer, v) ==
    LET files == {<<offer[i].version, kind>> : i \in DOMAIN offer, kind \in {"archive", "wheel"}}
    IN [file \in {f \in files : VersionFromFilename(f) = v} |->
            PypiHashes(Release(offer, file[1]), file)]

NpmHashes(r, file) ==
    LET sri == IF r.integrity = <<>> THEN {} ELSE {"integrity"}
    IN [a \in sri \cup (r.announced \cap {"sha1"}) |->
            IF a = "integrity" THEN Subresource(r.integrity, file) ELSE file]

ExtractVersionMetadata(offer, v) ==
    [file \in {f \in {<<v, "archive">>} : Has(offer, v)} |-> NpmHashes(Release(offer, v), file)]

\* Variant: the checksum of the entry's first release.
ChecksumOfFirst(registry, v) ==
    IF registry = <<>> THEN <<>>
    ELSE [a \in {"sha256"} |->
            IF "outer" \in registry[1].announced THEN <<registry[1].version, "archive">> ELSE Other]

\* Without an outer checksum the inner one, which is not of the tarball.
OuterChecksum(registry, v) ==
    IF ~Has(registry, v) THEN <<>>
    ELSE [a \in {"sha256"} |->
            IF "outer" \in Release(registry, v).announced THEN <<v, "archive">> ELSE Other]

HexReleaseToMetadata(offer, registry, v) ==
    [file \in {f \in {<<v, "archive">>} : Has(offer, v)} |-> OuterChecksum(registry, v)]

CargoEntryToMetadata(offer, v) ==
    [file \in {f \in {<<v, "archive">>} : Has(offer, v)} |-> [a \in {"sha256"} |-> file]]

\* A sidecar that is not there, of a file or of a whole version, is no error.
MavenSidecar(offer, file) ==
    IF ~Has(offer, file[1]) THEN <<>>
    ELSE LET announced == Release(offer, file[1]).announced
         IN [a \in IF "sha256" \in announced THEN {"sha256"} ELSE announced \cap {"sha1"} |-> file]

MavenMetadata(pomOffer, jarOffer, v) ==
    [file \in {<<v, "pom">>, <<v, "jar">>} |->
        MavenSidecar(IF file[2] = "pom" THEN pomOffer ELSE jarOffer, file)]

NugetMetadata(offer, v) ==
    [file \in {<<v, "archive">>, <<v, "nuspec">>} |->
        IF file[2] = "archive" /\ Has(offer, v)
        THEN [a \in Release(offer, v).announced \cap {"sha512"} |-> file] ELSE <<>>]

\* The last line that starts with the version, which may be that of a longer one.
StartsWith(line, v) == IsPrefix(v, line.version)
GemMetadata(offer, v) ==
    LET lines == {i \in DOMAIN offer : StartsWith(offer[i], v) /\ "sha256" \in offer[i].announced}
        last == CHOOSE i \in lines : \A j \in lines : j <= i
    IN [file \in {<<v, "archive">>} |->
            IF lines = {} THEN <<>>
            ELSE [a \in {"sha256"} |-> <<offer[last].version, "archive">>]]

PubMetadataFromVersion(offer, v) ==
    [file \in {f \in {<<v, "archive">>} : Has(offer, v)} |->
        [a \in Release(offer, v).announced \cap {"sha256"} |-> file]]

\* What a metadata request makes of the editions it was answered with.
Metadata(got, v) ==
    LET first == History[got[1]]
        last == History[got[Len(got)]]
    IN CASE client = "pypi" -> PypiFilesToMetadata(first, v)
         [] client = "npm" -> ExtractVersionMetadata(first, v)
         [] client = "hex" -> HexReleaseToMetadata(first, last, v)
         [] client = "cargo" -> CargoEntryToMetadata(first, v)
         [] client = "maven" -> MavenMetadata(first, last, v)
         [] client = "nuget" -> NugetMetadata(first, v)
         [] client = "rubygems" -> GemMetadata(first, v)
         [] client = "pub" -> PubMetadataFromVersion(first, v)

-----------------------------------------------------------------------------
Resting == [pc |-> "idle", kind |-> "versions", version |-> <<>>, file |-> <<>>,
            digests |-> <<>>, got |-> <<>>, answer |-> 0, wait |-> 0]

FetchInit ==
    /\ client \in Sources
    /\ edition = 1
    /\ superseded = [e \in DOMAIN History |-> 0]
    /\ remembered = [s \in {"document", "registry"} |-> [edition |-> 0, age |-> 0]]
    /\ urls = [file \in AllFiles |-> Never]
    /\ kept = [v \in AllVersions |-> <<>>]
    /\ bytes = [file \in AllFiles |-> Other]
    /\ fetch = [k \in Fetchers |-> Resting]
    /\ stale = FALSE

\* What a request reads, in this order.
PypiReads(kind) == <<"document">>
NpmReads(kind) == <<"document">>
HexReads(kind) ==
    CASE kind = "versions" -> <<"document">>
      [] kind = "metadata" -> <<"document", "registry">>
      [] OTHER -> <<>>
CargoReads(kind) == IF kind = "artifact" THEN <<>> ELSE <<"document">>
MavenReads(kind) ==
    CASE kind = "versions" -> <<"versions">>
      [] kind = "metadata" -> <<"pom", "jar">>
      [] OTHER -> <<>>
NugetReads(kind) ==
    CASE kind = "versions" -> <<"versions">>
      [] kind = "metadata" -> <<"sha512">>
      [] OTHER -> <<>>
GemReads(kind) == IF kind = "artifact" THEN <<>> ELSE <<"info">>
PubReads(kind) == <<"package">>

Reads(kind) ==
    CASE client = "pypi" -> PypiReads(kind)
      [] client = "npm" -> NpmReads(kind)
      [] client = "hex" -> HexReads(kind)
      [] client = "cargo" -> CargoReads(kind)
      [] client = "maven" -> MavenReads(kind)
      [] client = "nuget" -> NugetReads(kind)
      [] client = "rubygems" -> GemReads(kind)
      [] client = "pub" -> PubReads(kind)

Doing(k, label) == fetch[k].pc = label

Rest(k) == fetch' = [fetch EXCEPT ![k] = Resting]
Source(k) == Reads(fetch[k].kind)[Len(fetch[k].got) + 1]

-----------------------------------------------------------------------------
(* The service asks: for the versions, for metadata it does not have, for  *)
(* a file that its metadata names.                                         *)

Begin(k, kind, v, file) ==
    /\ Doing(k, "idle")
    /\ fetch' = [fetch EXCEPT ![k] =
           [Resting EXCEPT !.pc = IF Reads(kind) = <<>> THEN "download" ELSE "read",
                           !.kind = kind, !.version = v, !.file = file,
                           !.digests = IF kind = "artifact" THEN kept[v][file] ELSE <<>>]]
    /\ UNCHANGED <<upstreamVars, superseded, memories, store, stale>>

FetchVersions(k) == Begin(k, "versions", <<>>, <<>>)
FetchMetadata(k, v) == kept[v] = <<>> /\ Begin(k, "metadata", v, <<>>)
FetchArtifact(k, file) ==
    /\ bytes[file] = Other
    /\ \E v \in AllVersions : file \in DOMAIN kept[v] /\ Begin(k, "artifact", v, file)

\* Variant: what was remembered once.
RememberedOnce(source) == source \in DOMAIN remembered /\ remembered[source].edition # 0

Fresh(source) ==
    /\ source \in DOMAIN remembered
    /\ remembered[source].edition # 0 /\ remembered[source].age < TTL

\* Where the file of an artifact request is: the entry of url_cache, whatever its
\* age by now, or in the document; all others build the address.
Located(k, e) ==
    IF client = "pypi" THEN urls'[fetch[k].file] # Never
    ELSE Has(History[e], fetch[k].version)

\* A document is there: it is the next one read, or the answer to the request.
Got(k, e) ==
    LET got == Append(fetch[k].got, e)
        f == fetch[k]
        done == Len(got) = Len(Reads(f.kind))
        found == Metadata(got, f.version)
    IN /\ stale' = (stale \/ superseded[e] >= TTL + Timeout)
       /\ kept' = IF done /\ f.kind = "metadata" /\ found # <<>>
                  THEN [kept EXCEPT ![f.version] = found] ELSE kept
       /\ fetch' = [fetch EXCEPT ![k] =
              IF ~done THEN [f EXCEPT !.pc = "read", !.got = got]
              ELSE IF f.kind = "artifact" /\ Located(k, e) THEN [f EXCEPT !.pc = "download"]
              ELSE Resting]
       /\ UNCHANGED <<upstreamVars, superseded, bytes>>

\* pypi asks its url_cache before anything else.
UseUrl(k) ==
    /\ Doing(k, "read") /\ client = "pypi" /\ fetch[k].kind = "artifact"
    /\ urls[fetch[k].file] < TTL
    /\ fetch' = [fetch EXCEPT ![k].pc = "download"]
    /\ UNCHANGED <<upstreamVars, superseded, memories, store, stale>>

MustRead(k) ==
    /\ Doing(k, "read")
    /\ client = "pypi" /\ fetch[k].kind = "artifact" => urls[fetch[k].file] >= TTL

FromCache(k) ==
    /\ MustRead(k)
    /\ Fresh(Source(k))
    /\ UNCHANGED memories
    /\ Got(k, remembered[Source(k)].edition)

\* The request goes out, and upstream answers with what it offers at some instant.
Ask(k) ==
    /\ MustRead(k)
    /\ ~Fresh(Source(k))
    /\ fetch' = [fetch EXCEPT ![k].pc = "asked", ![k].answer = edition, ![k].wait = 0]
    /\ UNCHANGED <<upstreamVars, superseded, memories, store, stale>>

\* The answer is complete: it is remembered, stamped with the time it is stored.
CacheFileUrls(e) ==
    urls' = IF client # "pypi" THEN urls
            ELSE [file \in AllFiles |->
                     IF Has(History[e], file[1]) /\ file[2] \in {"archive", "wheel"}
                     THEN 0 ELSE urls[file]]

Keep(k) ==
    /\ Doing(k, "asked")
    /\ remembered' = [s \in DOMAIN remembered |->
           IF s = Source(k) THEN [edition |-> fetch[k].answer, age |-> 0] ELSE remembered[s]]
    /\ CacheFileUrls(fetch[k].answer)
    /\ Got(k, fetch[k].answer)

\* The bytes that arrive need not be those of the file; those that pass are kept.
Download(k) ==
    /\ Doing(k, "download")
    /\ Has(History[edition], fetch[k].file[1])
    /\ \E data \in {fetch[k].file, Corrupt} :
           bytes' = IF Verified(data, fetch[k].digests)
                    THEN [bytes EXCEPT ![fetch[k].file] = data] ELSE bytes
    /\ Rest(k)
    /\ UNCHANGED <<upstreamVars, superseded, memories, kept, stale>>

\* An error, another status, a body over max_response_bytes, the timeout.
FailFetch(k) ==
    /\ fetch[k].pc \in {"asked", "download"}
    /\ Rest(k)
    /\ UNCHANGED <<upstreamVars, superseded, memories, store, stale>>

Offer ==
    /\ edition < Len(History)
    /\ edition' = edition + 1
    /\ UNCHANGED <<client, superseded, memories, store, fetch, stale>>

Aged(n, most) == IF n < most THEN n + 1 ELSE n

\* The clients without a cache have no timeout either, and nothing that ages.
Tick ==
    /\ client \in {"pypi", "npm", "hex", "cargo"}
    /\ \A k \in Fetchers : Doing(k, "asked") => fetch[k].wait < Timeout
    /\ superseded' = [e \in DOMAIN History |->
           IF e < edition THEN Aged(superseded[e], Oldest) ELSE 0]
    /\ remembered' = [s \in DOMAIN remembered |->
           [remembered[s] EXCEPT !.age = IF remembered[s].edition = 0 THEN 0 ELSE Aged(@, TTL)]]
    /\ urls' = [file \in AllFiles |-> IF urls[file] = Never THEN Never ELSE Aged(urls[file], TTL)]
    /\ fetch' = [k \in Fetchers |->
           IF Doing(k, "asked") THEN [fetch[k] EXCEPT !.wait = @ + 1] ELSE fetch[k]]
    /\ UNCHANGED <<upstreamVars, store, stale>>

FetchNext ==
    \/ \E k \in Fetchers :
           \/ FetchVersions(k)
           \/ \E v \in AllVersions : FetchMetadata(k, v)
           \/ \E file \in AllFiles : FetchArtifact(k, file)
           \/ UseUrl(k) \/ FromCache(k) \/ Ask(k) \/ Keep(k) \/ Download(k) \/ FailFetch(k)
    \/ Offer
    \/ Tick

FetchSpec == FetchInit /\ [][FetchNext]_fetchVars

-----------------------------------------------------------------------------
(* Properties                                                              *)

\* What upstream announces of a file, and the client could use.
Announced(file) ==
    \E r \in AllReleases :
        /\ r.version = file[1]
        /\ CASE client \in {"rubygems", "pub"} -> "sha256" \in r.announced
             [] client \in {"pypi", "maven"} -> r.announced \cap {"sha256", "sha1"} # {}
             [] client = "npm" -> r.integrity # <<>> \/ "sha1" \in r.announced
             [] client = "nuget" -> file[2] = "archive" /\ "sha512" \in r.announced
             [] OTHER -> TRUE

\* Bytes are kept only as upstream announced them: verify_upstream_hash must not
\* fall through to the last line for a file that has a digest.  Four clients do
\* that where metadata is built ahead of the release or from an older registry
\* entry (KeptIsAlwaysAnnounced); the others read both off one document.
KeptIsAnnounced ==
    client \in {"pypi", "npm", "cargo", "pub"} =>
        \A file \in AllFiles : Announced(file) => bytes[file] \in {Other, file}

\* The same of every client; refuted.
KeptIsAlwaysAnnounced ==
    \A file \in AllFiles : Announced(file) => bytes[file] \in {Other, file}

\* What an edition says of a file that its client cannot use: next to nothing but a
\* hexadecimal SHA-512, an integrity without a supported algorithm, no checksum of
\* the tarball, or, as the last that starts with its version, a longer one's line.
Unusable(offer, v, file) ==
    \E i \in DOMAIN offer :
        LET r == offer[i] IN
        \/ /\ client = "pypi" /\ r.version = file[1]
           /\ r.announced \cap {"sha256", "sha1", "sha512"} = {"sha512"}
        \/ /\ client = "npm" /\ r.version = v /\ r.integrity # <<>>
           /\ \A j \in DOMAIN r.integrity : r.integrity[j] \notin {"sha512", "sha384", "sha256"}
        \/ client = "hex" /\ r.version = v /\ "outer" \notin r.announced
        \/ /\ client = "rubygems" /\ StartsWith(r, v) /\ r.version # v /\ "sha256" \in r.announced
           /\ \A j \in DOMAIN offer :
                StartsWith(offer[j], v) /\ "sha256" \in offer[j].announced => j <= i

\* The digests that are kept let the genuine file through: they are those of this
\* file, in the notation that is compared, whatever editions they were made of.
\* Only a file of which some edition says nothing else that the client can use is
\* refused, and then for good, as nothing fetches metadata again.
GenuineIsAccepted ==
    \A v \in AllVersions : \A file \in DOMAIN kept[v] :
        \/ Verified(file, kept[v][file])
        \/ \E e \in DOMAIN History : Unusable(History[e], v, file)

\* The same of every file; refuted.
GenuineIsAlwaysAccepted ==
    \A v \in AllVersions : \A file \in DOMAIN kept[v] : Verified(file, kept[v][file])

\* A document is used no longer than the time to live after it was stored, and was
\* stored no later than the timeout after upstream gave it, slow answers over
\* newer ones included.
StaleIsBounded == ~stale

\* What the client remembers is never older than what it remembered; refuted.
MemoryAdvances ==
    [][\A s \in DOMAIN remembered : remembered'[s].edition >= remembered[s].edition]_fetchVars
=============================================================================
