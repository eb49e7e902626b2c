----------------------------- MODULE Addressing -----------------------------
(***************************************************************************)
(* How a registry's adapter turns names and paths into the keys of the     *)
(* service: the name a publish is stored under, the link by which an index *)
(* announces a file, and what the download handler makes of that link.     *)
(*                                                                         *)
(* A name and a version are sequences of hyphen-free parts, so a file stem *)
(* is their concatenation; which parts start with a digit, and what a name *)
(* becomes in lower case and under PEP 503, are constants.                 *)
(***************************************************************************)
EXTENDS Integers, Sequences

CONSTANTS
    Lower,          \* a name in lower case
    Pep503,         \* a name as PyPI normalizes it
    Numeric         \* the parts that start with a digit

\* The registries whose index is read from the upstream's protocol, and those
\* that are read from a git repository.
Registries == {"pypi", "npm", "cargo", "hex", "maven", "rubygems", "nuget", "pub"}
GitSourced == {"go", "zig", "swift"}

\* The other spellings FromStr takes; every registry's own name is one too.
Aliases == [crates |-> "cargo", gem |-> "rubygems", gems |-> "rubygems", pubdev |-> "pub",
            golang |-> "go"]

Unknown == "unknown"

FromStr(key) ==
    IF key \in Registries \cup GitSourced THEN key
    ELSE IF key \in DOMAIN Aliases THEN Aliases[key]
    ELSE Unknown

-----------------------------------------------------------------------------
(* A package file, the sequence of its entries: whether one is the          *)
(* registry's manifest by its file name, whether its path leads out of the *)
(* archive, whether it lies past the first 256 KiB, and what it says.      *)

Archived == {"hex", "rubygems", "nuget", "pub"}

\* Of a pub archive that much is unpacked; the others are read where they are.
Readable(e, archive) == IF e = "pub" THEN SelectSeq(archive, LAMBDA entry : ~entry.past) ELSE archive

\* The first manifest, in whatever directory, unless a path before it leads out.
Manifest(e, archive) ==
    {i \in DOMAIN Readable(e, archive) :
        /\ Readable(e, archive)[i].manifest
        /\ \A j \in 1..i : ~Readable(e, archive)[j].outside
        /\ \A j \in 1..(i - 1) : ~Readable(e, archive)[j].manifest}

\* Of a manifest only name and version matter here; a nuspec's id is lowered.
NameAndVersion(e, entry) ==
    [name |-> IF e = "nuget" THEN Lower[entry.name] ELSE entry.name, version |-> entry.version]

\* What the file says of itself, none or one.
ArchiveMetadata(e, archive) ==
    {NameAndVersion(e, Readable(e, archive)[i]) : i \in Manifest(e, archive)}

-----------------------------------------------------------------------------
(* The publish handlers: the name that is authorized and stored, and with  *)
(* it the file, which the server names or the client, after the package.   *)

Stores(e, name, version) ==
    [ecosystem |-> e, name |-> name, version |-> version, file |-> name \o version]

PypiUpload(name, version) == Stores("pypi", Pep503[name], version)
NpmPublish(name, version) == Stores("npm", name, version)
CargoPublish(name, version) == Stores("cargo", Lower[name], version)
HexPublish(name, version) == Stores("hex", Lower[name], version)
MavenPut(name, version) == Stores("maven", name, version)
GemPush(name, version) == Stores("rubygems", Lower[name], version)
NugetPush(name, version) == Stores("nuget", Lower[name], version)
PubPublish(name, version) == Stores("pub", Lower[name], version)

Key(e, name, version) ==
    CASE e = "pypi" -> PypiUpload(name, version)
      [] e = "npm" -> NpmPublish(name, version)
      [] e = "cargo" -> CargoPublish(name, version)
      [] e = "hex" -> HexPublish(name, version)
      [] e = "maven" -> MavenPut(name, version)
      [] e = "rubygems" -> GemPush(name, version)
      [] e = "nuget" -> NugetPush(name, version)
      [] e = "pub" -> PubPublish(name, version)

PublishName(e, name) == Key(e, name, <<>>).name

\* What a publish stores: as the request has it, or as the file in it says.
Uploaded(e, name, version, archive) ==
    IF e \in Archived
    THEN {Key(e, metadata.name, metadata.version) : metadata \in ArchiveMetadata(e, archive)}
    ELSE {Key(e, name, version)}

-----------------------------------------------------------------------------
(* The links that an index answers with, or that a client makes up of it   *)

\* A crate is announced as its manifest has it, whatever the stored name is.
CrateEntry(name) == name

\* A NuGet client asks in lower case.
NugetResource(name) == Lower[name]

LinkName(e, name) ==
    CASE e = "cargo" -> CrateEntry(name)
      [] e = "nuget" -> NugetResource(name)
      [] OTHER -> PublishName(e, name)

\* A link names the mount after the registry, whatever mount the answer is from.
Link(e, name, version) ==
    [mount |-> e, name |-> LinkName(e, name), version |-> version,
     file |-> LinkName(e, name) \o version]

-----------------------------------------------------------------------------
(* The download handlers: what they ask the service for                    *)

\* A plausible slip: the version is taken from the first hyphen before a digit.
ParseFromTheFront(stem) ==
    LET cuts == {i \in 2..Len(stem) : stem[i] \in Numeric}
        cut == CHOOSE i \in cuts : \A j \in cuts : i <= j
    IN  IF cuts = {} THEN [name |-> stem, version |-> <<>>]
        ELSE [name |-> SubSeq(stem, 1, cut - 1), version |-> SubSeq(stem, cut, Len(stem))]

\* A file stem is cut at its last hyphen before a digit.
ParseStem(stem) ==
    LET cuts == {i \in 2..Len(stem) : stem[i] \in Numeric}
        cut == CHOOSE i \in cuts : \A j \in cuts : j <= i
    IN  IF cuts = {} THEN [name |-> stem, version |-> <<>>]
        ELSE [name |-> SubSeq(stem, 1, cut - 1), version |-> SubSeq(stem, cut, Len(stem))]

Asks(e, name, version, link) ==
    [ecosystem |-> e, name |-> name, version |-> version, file |-> link.file]

\* Either by what the path says, or by the file's name alone.
PypiDownload(link) == Asks("pypi", Pep503[link.name], link.version, link)
CargoDownload(link) == Asks("cargo", link.name, link.version, link)
MavenGet(link) == Asks("maven", link.name, link.version, link)
NugetFile(link) == Asks("nuget", Lower[link.name], link.version, link)
HexTarball(link) == Asks("hex", ParseStem(link.file).name, ParseStem(link.file).version, link)
GemFile(link) == Asks("rubygems", ParseStem(link.file).name, ParseStem(link.file).version, link)
PubArchive(link) == Asks("pub", ParseStem(link.file).name, ParseStem(link.file).version, link)

\* npm has the name in the path, and the version is the rest of the file's name.
NpmTarball(link) ==
    Asks("npm", link.name, SubSeq(link.file, Len(link.name) + 1, Len(link.file)), link)

Requested(e, link) ==
    CASE e = "pypi" -> PypiDownload(link)
      [] e = "npm" -> NpmTarball(link)
      [] e = "cargo" -> CargoDownload(link)
      [] e = "hex" -> HexTarball(link)
      [] e = "maven" -> MavenGet(link)
      [] e = "rubygems" -> GemFile(link)
      [] e = "nuget" -> NugetFile(link)
      [] e = "pub" -> PubArchive(link)

-----------------------------------------------------------------------------
(* The authorization of a publish: where an adapter looks for the token,   *)
(* first choice first.  The gate in front of every route looks for "bearer"*)
(* only.                                                                   *)

PypiTokens == <<"bearer", "basic">>
NpmTokens == <<"bearer", "npm">>
CargoTokens == <<"bearer">>
HexTokens == <<"bearer", "x-hex-api-key">>
MavenTokens == <<"bearer", "basic">>
GemTokens == <<"bearer", "raw">>
NugetTokens == <<"x-nuget-apikey">>
PubTokens == <<"bearer">>

Carriages(e) ==
    CASE e = "pypi" -> PypiTokens
      [] e = "npm" -> NpmTokens
      [] e = "cargo" -> CargoTokens
      [] e = "hex" -> HexTokens
      [] e = "maven" -> MavenTokens
      [] e = "rubygems" -> GemTokens
      [] e = "nuget" -> NugetTokens
      [] e = "pub" -> PubTokens
=============================================================================
