\* Servers started from several files: publishes, a paged listing and removals.
SPECIFICATION Spec
CONSTANTS
    flat = flat
    pub = pub
    shared = shared
    k1 = k1
    k2 = k2
    walker = walker
    publisher = publisher
    Ecosystems = {"npm", "pypi"}
    Names <- AllNames
    Wildcard = Wildcard
    None = None
    Lower <- LowerCase
    Pep503 <- Folded
    Numeric <- Digits
    Walkers = {walker}
    Writers = {publisher}
    Disk <- AllFiles
    Environment = None
    Options <- AllOptions
    Credentials <- AllCredentials
    Announced <- AllAnnounced
    Position <- InOrder
    Limit = 1
    Now = 5
INVARIANTS
    WalkIsComplete
    ListingAgrees
    
    AnnouncedIsFetched
PROPERTY
    PublishedByGrant
