\* Two clients publish to and read from every ecosystem, one ecosystem at a time.
SPECIFICATION AdaptersSpec
CONSTANTS
    own = own
    shared = shared
    v1 = v1
    v2 = v2
    w1 = w1
    w2 = w2
    t1 = t1
    Registries = {"cargo", "npm", "pypi", "hex", "maven", "rubygems", "nuget", "pub", "git", "upstream"}
    Mounts = {"proxy", "group"}
    Names = {own, shared}
    Versions = {v1, v2}
    Upstream <- OneUpstream
    Overwriting = {"nuget"}
    Written <- OneWritten
    Clients = {w1, w2}
    MaxFaults = 1
    None = None
    Readers = {w1, w2}
    Tags = {t1}
    FirstTags = {t1}
    MaxCommits = 3
    MaxMirrorFaults = 1
    Capacity = 2
    Sources = {"pypi", "npm", "hex", "cargo", "maven", "nuget", "rubygems", "pub"}
    Fetchers = {w1, w2}
    History <- Editions
    TTL = 2
    Timeout = 1
SYMMETRY Symmetry
CONSTRAINT Few
INVARIANTS
    IndexedCanBeRead
    RebuiltIsCurrent
    EnsuredIsComplete
    ArchiveIsOfItsCommit
    KeptIsAnnounced
    GenuineIsAccepted
    StaleIsBounded
PROPERTIES
    TagsOnlyAdvance
