------------------------------ MODULE Requests ------------------------------
(***************************************************************************)
(* Requests to a server: the bearer-token middleware, the authorization of *)
(* the handlers, and what they then do to the catalog of components, all   *)
(* of it interleaved with other requests between authorization and effect, *)
(* while the server is stopped and started with other configurations.  A   *)
(* request that is refused leaves no trace, and neither does a start.      *)
(*                                                                         *)
(* A listing is read in pages, one request each: pages are cut from the    *)
(* matching components in the store's order, with LIMIT and OFFSET.        *)
(***************************************************************************)
EXTENDS Deployment

CONSTANTS
    Walkers,        \* clients that read listings
    Writers,        \* clients that publish and administer
    Disk,           \* the configuration files, by path
    Environment,    \* STARMETAL_CONFIG, or None
    Options,        \* what a server may be started with
    Credentials,    \* what a client may send: tokens, by where they are put
    Announced,      \* packages to announce, by registry, name, version and archive
    Position,       \* the place of a coordinate in ORDER BY, a number each
    Limit,          \* the rows of a page
    Now             \* the second in which all this happens

ASSUME LimitAssumption == Limit \in Nat \ {0}
\* The components are unique by the columns they are ordered by.
ASSUME PositionAssumption ==
    /\ Position \in [Coordinates -> Int]
    /\ \A c, d \in Coordinates : Position[c] = Position[d] => c = d

\* The list of tokens, whose scopes have four names and whose packages no wildcard.
ASSUME DiskAssumption ==
    \A path \in DOMAIN Disk :
        /\ "publishing" \in DOMAIN Disk[path]
        /\ DOMAIN Disk[path].publishing.tokens \subseteq Nat
        /\ \A i \in DOMAIN Disk[path].publishing.tokens :
             /\ Disk[path].publishing.tokens[i].scopes \subseteq {"read", "publish", "yank", "admin"}
             /\ Wildcard \notin Disk[path].publishing.tokens[i].ecosystems
             /\ Wildcard \notin Disk[path].publishing.tokens[i].packages

VARIABLES
    config,         \* of the running server, None while there is none
    catalog,        \* the coordinates that have a component
    walk,           \* the listing each walker reads
    request         \* what each writer was authorized to do

vars == <<config, catalog, walk, request>>

NoCredential == [carriage \in {} |-> None]
NoToken == [kind |-> "none"]

\* A page's offset in the walk, what was listed, and what was there at its start:
\* forgotten when anything is removed, which moves the offsets.
NoWalk ==
    [pc |-> "idle", credential |-> NoCredential, predicate |-> {}, offset |-> 0,
     seen |-> {}, kept |-> {}]

NoRequest == [pc |-> "idle", credential |-> NoCredential, target |-> None]

Init ==
    /\ config = None
    /\ catalog = {}
    /\ walk = [k \in Walkers |-> NoWalk]
    /\ request = [k \in Writers |-> NoRequest]

\* StarmetalRuntime::new and build_app: the configuration is loaded, overridden and
\* validated, and the server is up.  A start that fails changes nothing.
Start(options) ==
    LET loaded == LoadConfig(Disk, Environment, options) IN
    /\ config = None
    /\ Starts(loaded)
    /\ config' = loaded
    /\ UNCHANGED <<catalog, walk, request>>

\* The process ends, and with it every request; the catalog is in the database.
Stop ==
    /\ config # None
    /\ config' = None
    /\ walk' = [k \in Walkers |-> NoWalk]
    /\ request' = [k \in Writers |-> NoRequest]
    /\ UNCHANGED catalog

-----------------------------------------------------------------------------
\* The first of the carriages that a credential uses.
Presented(credential, carriages) ==
    LET given == {i \in DOMAIN carriages : carriages[i] \in DOMAIN credential}
    IN  IF given = {} THEN NoToken
        ELSE credential[carriages[CHOOSE i \in given : \A j \in given : i <= j]]

Caller(credential) == Principal(config, Presented(credential, <<"bearer">>), Now)
CallerGrants(credential) == Grants(config, Caller(credential))

Writer(credential, e) == Principal(config, Presented(credential, Carriages(e)), Now)

\* require_bearer_token, in front of every route: open when auth is disabled.
ReadGate(credential) ==
    \/ ~config.auth.enabled
    \/ Caller(credential) # None /\ AuthorizeListing(CallerGrants(credential), "read") # {}

Stored(c) == [c EXCEPT !.name = PublishName(c.ecosystem, c.name)]

ASSUME StoredAssumption == \A c \in Coordinates : Stored(c) \in Coordinates

\* authorize_publish of every adapter: publishing is enabled and the writer may add
\* the package, under the name it will be stored by.
MayPublish(credential, c) ==
    LET writer == Writer(credential, c.ecosystem) IN
    /\ config.publishing.enabled
    /\ writer # None
    /\ AuthorizeContent(Grants(config, writer), "add", Stored(c))

\* A group has a publishing service too, which refuses.
AuthorizePublish(k, credential, c) ==
    /\ config # None /\ request[k].pc = "idle"
    /\ \E mount \in Mounts(config, c.ecosystem) : Writable(mount)
    /\ ReadGate(credential) /\ MayPublish(credential, c)
    /\ request' = [request EXCEPT ![k] =
           [pc |-> "publish", credential |-> credential, target |-> c]]
    /\ UNCHANGED <<config, catalog, walk>>

\* A plausible slip: the component is recorded as the client writes its name.
PublishAsWritten(k) ==
    /\ request[k].pc = "publish"
    /\ catalog' = IF HasContentModel(config) THEN catalog \cup {request[k].target} ELSE catalog
    /\ request' = [request EXCEPT ![k] = NoRequest]
    /\ UNCHANGED <<config, walk>>

PublishPackage(k) ==
    /\ request[k].pc = "publish"
    /\ catalog' = IF HasContentModel(config) THEN catalog \cup {Stored(request[k].target)}
                  ELSE catalog
    /\ request' = [request EXCEPT ![k] = NoRequest]
    /\ UNCHANGED <<config, walk>>

-----------------------------------------------------------------------------
(* POST /admin/api/v1/retention, for the admin routes                      *)

MayAdminister(credential) ==
    /\ config.admin.enabled
    /\ Caller(credential) # None
    /\ AuthorizeAdmin(CallerGrants(credential))

AuthorizeRetention(k, credential) ==
    /\ config # None /\ request[k].pc = "idle" /\ HasContentModel(config)
    /\ ReadGate(credential) /\ MayAdminister(credential)
    /\ request' = [request EXCEPT ![k] =
           [pc |-> "retention", credential |-> credential, target |-> None]]
    /\ UNCHANGED <<config, catalog, walk>>

\* Retention removes what its rules select, one row after the other: here any.
RetentionSweep(k) ==
    /\ request[k].pc = "retention"
    /\ \E c \in catalog : catalog' = catalog \ {c}
    /\ walk' = [j \in Walkers |-> [walk[j] EXCEPT !.kept = {}]]
    /\ UNCHANGED <<config, request>>

\* Retention is through, or the client disconnects and the handler is dropped.
End(k) ==
    /\ request[k].pc # "idle"
    /\ request' = [request EXCEPT ![k] = NoRequest]
    /\ UNCHANGED <<config, catalog, walk>>

-----------------------------------------------------------------------------
(* GET /api/v1/components                                                  *)

\* Everything when auth is disabled; otherwise what the caller may browse, and
\* an error when that is nothing.
BrowsePredicate(credential) ==
    IF ~config.auth.enabled THEN Always
    ELSE IF Caller(credential) = None THEN {}
    ELSE AuthorizeListing(CallerGrants(credential), "browse")

AuthorizeBrowse(k, credential) ==
    /\ config # None /\ walk[k].pc = "idle" /\ HasContentModel(config)
    /\ ReadGate(credential) /\ BrowsePredicate(credential) # {}
    /\ walk' = [walk EXCEPT ![k] =
           [NoWalk EXCEPT !.pc = "page", !.credential = credential,
                          !.predicate = BrowsePredicate(credential), !.kept = catalog]]
    /\ UNCHANGED <<config, catalog, request>>

Selected(k) == {c \in catalog : Evaluate(walk[k].predicate, c)}

\* A plausible slip: the page is cut before it is filtered.
PageOfAll(S, offset) ==
    {c \in S : LET before == Cardinality({b \in catalog : Position[b] < Position[c]})
               IN  offset <= before /\ before < offset + Limit}

\* LIMIT rows of S after the first offset ones.
Page(S, offset) ==
    {c \in S : LET before == Cardinality({b \in S : Position[b] < Position[c]})
               IN  offset <= before /\ before < offset + Limit}

\* A full page is followed by the request for the next one, which is authorized
\* again to the same end, and a short one ends the walk.
BrowseComponents(k) ==
    /\ walk[k].pc = "page"
    /\ LET page == Page(Selected(k), walk[k].offset)
       IN  walk' = [walk EXCEPT ![k].seen = @ \cup page,
                                ![k].offset = IF Cardinality(page) = Limit THEN @ + Limit ELSE @,
                                ![k].pc = IF Cardinality(page) = Limit THEN "page" ELSE "walked"]
    /\ UNCHANGED <<config, catalog, request>>

FinishWalk(k) ==
    /\ walk[k].pc # "idle"
    /\ walk' = [walk EXCEPT ![k] = NoWalk]
    /\ UNCHANGED <<config, catalog, request>>

-----------------------------------------------------------------------------
Next ==
    \/ \E options \in Options : Start(options)
    \/ Stop
    \/ \E k \in Writers :
         \/ \E credential \in Credentials, c \in Coordinates : AuthorizePublish(k, credential, c)
         \/ \E credential \in Credentials : AuthorizeRetention(k, credential)
         \/ PublishPackage(k) \/ RetentionSweep(k) \/ End(k)
    \/ \E k \in Walkers :
         \/ \E credential \in Credentials : AuthorizeBrowse(k, credential)
         \/ BrowseComponents(k) \/ FinishWalk(k)

Spec == Init /\ [][Next]_vars

-----------------------------------------------------------------------------
\* What a request and a walk hold at each stage: one that was authorized has a
\* target, a walk a predicate that selects something of its namespace, and
\* neither outlives its server.
TypeOK ==
    /\ config \in {None} \cup {LoadConfig(Disk, Environment, options) : options \in Options}
    /\ catalog \subseteq Coordinates
    /\ request \in [Writers -> {NoRequest}
           \cup [pc : {"publish"}, credential : Credentials, target : Coordinates]
           \cup [pc : {"retention"}, credential : Credentials, target : {None}]]
    /\ DOMAIN walk = Walkers
    /\ \A k \in Walkers :
         /\ walk[k].pc \in {"idle", "page", "walked"}
         /\ walk[k].offset \in Nat
         /\ walk[k].seen \cup walk[k].kept \subseteq Coordinates
         /\ walk[k].pc # "idle" => walk[k].credential \in Credentials /\ walk[k].predicate # {}
    /\ config = None => \A k \in Walkers, j \in Writers :
                          walk[k].pc = "idle" /\ request[j].pc = "idle"

\* Whether a credential carries a token whose section, by the documented precedence,
\* permits an action, or a valid signed token whose subject is the principal of a
\* section that does.
ByToken(credential, action, c) ==
    \E carriage \in DOMAIN credential :
        /\ credential[carriage].kind = "token"
        /\ Permits(config, credential[carriage].token, action, c)

BySubject(credential, action, c) ==
    \E carriage \in DOMAIN credential :
        /\ credential[carriage].kind = "jwt"
        /\ config.oidc.enabled
        /\ LET jwt == credential[carriage].jwt
           IN  /\ Validate(config.oidc, jwt, Now) = jwt.sub
               /\ SubjectPermits(config, jwt.sub, action, c)

\* "The authorizer must grant exactly the access the token sections did": what
\* enters the catalog was put there by a request that some section permits to add
\* just that coordinate, as it is spelled there.  The authorizer looks a principal's
\* grants up by its id, and a signed token's subject is one.
PublishedByGrant ==
    [][\A c \in catalog' \ catalog : \E k \in Writers :
          LET credential == request[k].credential IN
          /\ request[k].pc = "publish" /\ Stored(request[k].target) = c
          /\ ByToken(credential, "add", c) \/ BySubject(credential, "add", c)]_vars

\* Refuted: that only who shows a section's own token adds anything.  A signed token
\* whose subject reads "legacy-admin" or "publish-token:1" has that one's grants.
PublishedByToken ==
    [][\A c \in catalog' \ catalog : \E k \in Writers :
          request[k].pc = "publish" /\ ByToken(request[k].credential, "add", c)]_vars

\* "Ordered deterministically, paginated": a walk that ran to its end while
\* nothing was removed lists all that was there when it started and may be
\* listed, whatever was published meanwhile.
WalkIsComplete ==
    \A k \in Walkers : walk[k].pc = "walked" =>
        \A c \in walk[k].kept :
            Evaluate(walk[k].predicate, c) => c \in walk[k].seen

\* For each action but browsing, the predicate that a listing pushes down selects
\* what the per-coordinate gate allows: the two are evaluated by different code.
ListingAgrees ==
    config # None =>
        \A credential \in Credentials, action \in Content \ {"browse"}, c \in Coordinates :
            LET g == CallerGrants(credential) IN
            Evaluate(AuthorizeListing(g, action), c) <=> AuthorizeContent(g, action, c)


\* Refuted: that what is reported is what is mounted, and that every mount reaches
\* its upstream, whatever repositories a file declares.
EveryReportedIsServed ==
    config # None => \A e \in Registries \cup GitSourced :
        /\ ReportedEnabled(config, e) <=> Mounts(config, e) # {}
        /\ \A mount \in Mounts(config, e) : Reaches(config, mount)

\* The names and versions that a link does not lead back to: a crate that is not in
\* lower case, and a file whose stem is cut at a hyphen of its version, not at the
\* one before it.
Misread(e, name, version) ==
    \/ e = "cargo" /\ Lower[name] # name
    \/ /\ e \in {"hex", "rubygems", "pub"}
       /\ version[1] \notin Numeric \/ \E i \in 2..Len(version) : version[i] \in Numeric

\* The keys that publishes of the announced packages store, those that the links of the
\* indexes lead back to, and those that they should.
Uploads == UNION {{<<p, key>> : key \in Uploaded(p.ecosystem, p.name, p.version, p.archive)} :
                  p \in Announced}
AskedFor == {u \in Uploads : LET p == u[1] IN
                Requested(p.ecosystem, Link(p.ecosystem, p.name, p.version)) = u[2]}
Wanted == {u \in Uploads : LET p == u[1] IN
                /\ u[2] = Key(p.ecosystem, p.name, p.version)
                /\ ~Misread(p.ecosystem, p.name, p.version)}

\* The registries and mounts that links name, and the uploads that a link leads back to
\* over a mount that is there.
LinkedMounts == {<<p.ecosystem, Link(p.ecosystem, p.name, p.version).mount>> : p \in Announced}
Fetched ==
    LET linked == {l \in LinkedMounts : \E mount \in Mounts(config, l[1]) : mount.name = l[2]}
    IN {u \in AskedFor : \E l \in linked : l[1] = u[1].ecosystem}

\* A package is fetched by the link that an index announces it with, by the name
\* and version of its own manifest, if the publish took the file: where a mount has
\* the registry's own name, where the manifest that was read first is the package's,
\* and where name and version are not misread; elsewhere it never is.
AnnouncedIsFetched ==
    config # None =>
        LET named == {e \in Registries : \E mount \in Mounts(config, e) : mount.name = e}
        IN Fetched = {u \in Wanted : u[1].ecosystem \in named}

\* Refuted: that every announced package is fetched, through whatever mount.
EveryAnnouncedIsFetched ==
    config # None =>
        LET mounted == {e \in Registries : Mounts(config, e) # {}}
        IN {u \in Uploads : u[1].ecosystem \in mounted} \subseteq Fetched
=============================================================================
