--------------------------- MODULE ServingProofs ----------------------------
(***************************************************************************)
(* Proofs about what a request is answered with: who may ask for it        *)
(* (Requests) and what the cache has of it (ArtifactCache).  For any       *)
(* configurations, tokens, coordinates and page size, what a listing       *)
(* selects is what the gate of each coordinate allows, what enters the     *)
(* catalog was permitted by a token's section, and a listing that is       *)
(* walked page by page misses nothing.  For any number of tasks and any    *)
(* contents, nothing corrupt or refused is served, and downloads that      *)
(* overlap, or operations that do not, leave an artifact that passes its   *)
(* own verification, wherever they fail or are cut off.                    *)
(***************************************************************************)
EXTENDS Requests, ArtifactCache, FiniteSetTheorems, FunctionTheorems, TLAPS

-----------------------------------------------------------------------------
(* Predicates and gates: two evaluations of the same grants                *)

Satisfies(c, clause) == \A f \in DOMAIN clause : clause[f] = c[f]

LEMMA PatternSelects ==
    ASSUME NEW p, NEW c
    PROVE  Satisfies(c, PatternToPredicate(p)) <=> Matches(p, c)
BY DEF Satisfies, PatternToPredicate, Terms, Matches

LEMMA AllSatisfy == ASSUME NEW c PROVE Satisfies(c, Unrestricted)
BY DEF Satisfies, Unrestricted

\* A clause stands for each view and each scope that has the action.
LEMMA ClausesAreGrants ==
    ASSUME NEW g, NEW action, action # "browse", NEW c
    PROVE  (\E clause \in Clauses(g, action) : Satisfies(c, clause))
           <=> ViewAllows(g, action, c) \/ ScopeAllows(g, action, c)
<1>1. (\E clause \in Clauses(g, action) : Satisfies(c, clause)) <=>
      \/ \E view \in g.views :
           action \in view.actions /\ Satisfies(c, PatternToPredicate(view.repository))
      \/ \E scope \in g.scopes :
           scope.action \in {"admin", action} /\ Satisfies(c, PatternToPredicate(scope.repository))
  BY DEF Clauses
<1> QED BY <1>1, PatternSelects DEF ViewAllows, Viewed, ScopeAllows, InScope

LEMMA ListingIsGate ==
    ASSUME NEW g, NEW action, action # "browse", NEW c, AdminSomewhere(g) => AdminCovers(g, c)
    PROVE  Evaluate(AuthorizeListing(g, action), c) <=> AuthorizeContent(g, action, c)
<1>1. Evaluate(Always, c)
  BY AllSatisfy DEF Evaluate, Always, Satisfies
<1>2. CASE AdminSomewhere(g)
  BY <1>1, <1>2 DEF AuthorizeListing, AuthorizeContent
<1>3. CASE ~AdminSomewhere(g)
  <2>1. ~AdminCovers(g, c)
    BY <1>3 DEF AdminSomewhere, AdminCovers
  <2>2. Evaluate(Clauses(g, action), c) <=> AuthorizeContent(g, action, c)
    BY <2>1, ClausesAreGrants DEF Evaluate, AuthorizeContent, Satisfies
  <2>3. CASE Unrestricted \in Clauses(g, action)
    BY <1>1, <2>2, <2>3, AllSatisfy DEF AuthorizeListing, Evaluate, Satisfies
  <2>4. CASE Unrestricted \notin Clauses(g, action)
    BY <1>3, <2>2, <2>4 DEF AuthorizeListing
  <2> QED BY <2>3, <2>4
<1> QED BY <1>2, <1>3

\* An administrator is one of every package.
LEMMA AdminsEverywhere ==
    ASSUME NEW settings, NEW principal, NEW c, AdminSomewhere(Grants(settings, principal))
    PROVE  AdminCovers(Grants(settings, principal), c)
<1>1. NoGrants.admins = {} /\ FlatGrants.admins = {} /\ AdminGrants.admins = {AnyRepository}
  BY DEF NoGrants, FlatGrants, AdminGrants
<1>2. \A S : [NoGrants EXCEPT !.scopes = S].admins = {}
  BY DEF NoGrants
<1>3. Grants(settings, principal).admins \in {{}, {AnyRepository}}
  BY <1>1, <1>2 DEF Grants
<1>4. Matches(AnyRepository, c)
  BY DEF Matches, AnyRepository
<1> QED BY <1>3, <1>4 DEF AdminSomewhere, AdminCovers

\* The predicate a listing pushes down selects what the gate of a coordinate allows
\* (authorize_query and authorize of ScopedAuthorizer), under every configuration.
THEOREM Agreement == Spec => []ListingAgrees
<1>1. ListingAgrees
  BY ListingIsGate, AdminsEverywhere DEF ListingAgrees, CallerGrants, Content
<1> QED BY <1>1, PTL

-----------------------------------------------------------------------------
(* What a token may do, by its first entry                                 *)

\* A set of naturals that is not empty has a least one, which CHOOSE finds.
LEMMA Least ==
    ASSUME NEW S, S \subseteq Nat, S # {}
    PROVE  LET i == CHOOSE n \in S : \A j \in S : n <= j
           IN  i \in S /\ \A j \in S : i <= j
<1> DEFINE R == {ss \in Nat \X Nat : ss[1] < ss[2]}
<1>1. IsWellFoundedOn(R, Nat)
  BY NatLessThanWellFounded DEF OpToRel
<1> HIDE DEF R
<1>2. PICK i \in S : \A j \in S : <<j, i>> \notin R
  BY <1>1, WFMin
<1>3. ASSUME NEW j \in S PROVE ~(j < i)
  <2> DEFINE p == <<j, i>>
  <2>1. p \in Nat \X Nat /\ p[1] = j /\ p[2] = i
    OBVIOUS
  <2>2. p \notin R
    BY <1>2, Zenon
  <2> HIDE DEF p
  <2>3. ~(p[1] < p[2])
    BY <2>1, <2>2, Zenon DEF R
  <2> QED BY <2>1, <2>3, Zenon
<1>4. \A j \in S : i <= j
  BY <1>3
<1> QED BY <1>4

\* The [publishing] section of a configuration, as far as it is relied on.
PublishingOK(settings) ==
    /\ DOMAIN settings.publishing.tokens \subseteq Nat
    /\ \A i \in DOMAIN settings.publishing.tokens :
         /\ settings.publishing.tokens[i].scopes \subseteq {"read", "publish", "yank", "admin"}
         /\ Wildcard \notin settings.publishing.tokens[i].ecosystems
         /\ Wildcard \notin settings.publishing.tokens[i].packages

LEMMA LoadedPublishing ==
    ASSUME NEW options, LoadConfig(Disk, Environment, options) # None
    PROVE  PublishingOK(LoadConfig(Disk, Environment, options))
<1> DEFINE loaded == Load(Disk, Environment, options)
<1>1. loaded # None /\ LoadConfig(Disk, Environment, options) = ApplyOverrides(loaded, options.overrides)
  BY DEF LoadConfig
<1>2. PublishingOK(Default) /\ "publishing" \in DOMAIN Default
  BY DEF PublishingOK, Default, NoPublishing
<1>3. ASSUME NEW path, LoadFrom(Disk, path) # None
      PROVE  PublishingOK(LoadFrom(Disk, path)) /\ "publishing" \in DOMAIN LoadFrom(Disk, path)
  <2>1. path \in DOMAIN Disk /\ LoadFrom(Disk, path) = ApplyDefaultUpstreams(Disk[path])
    BY <1>3 DEF LoadFrom
  <2>2. DOMAIN ApplyDefaultUpstreams(Disk[path]) = DOMAIN Disk[path]
        /\ ("publishing" \in DOMAIN Disk[path] =>
              ApplyDefaultUpstreams(Disk[path]).publishing = Disk[path].publishing)
    BY DEF ApplyDefaultUpstreams
  <2> QED BY <2>1, <2>2, DiskAssumption DEF PublishingOK
<1>4. PublishingOK(loaded) /\ "publishing" \in DOMAIN loaded
  BY <1>1, <1>2, <1>3 DEF Load
<1> HIDE DEF loaded
<1>5. ApplyOverrides(loaded, options.overrides).publishing = loaded.publishing
  BY <1>4 DEF ApplyOverrides
<1> QED BY <1>1, <1>4, <1>5 DEF PublishingOK

\* An entry permits what a scope of its own allows.
LEMMA ScopeIsPermitted ==
    ASSUME NEW settings, PublishingOK(settings), NEW i \in Publishers(settings), NEW c,
           ScopeAllows([NoGrants EXCEPT !.scopes = PublishTokenScopes(settings.publishing.tokens[i])],
                       "add", c)
    PROVE  EntryPermits(settings.publishing.tokens[i], "add", c)
<1> DEFINE entry == settings.publishing.tokens[i]
<1>1. PICK scope \in PublishTokenScopes(entry) : InScope(scope, "add", c)
  BY DEF ScopeAllows, NoGrants
<1>2. PICK s \in entry.scopes, e \in OrAny(entry.ecosystems), n \in OrAny(entry.packages) :
        scope = [action |-> MapTokenScope[s], repository |-> [ecosystem |-> e, name |-> n]]
  BY <1>1 DEF PublishTokenScopes
<1>3. s = "admin" \/ MapTokenScope[s] = "add"
  BY <1>1, <1>2 DEF InScope, MapTokenScope, PublishingOK, Publishers
<1>4. e \in {Wildcard, c.ecosystem} /\ n \in {Wildcard, c.name}
  BY <1>1, <1>2 DEF InScope, Matches
<1>5. entry.ecosystems = {} \/ c.ecosystem \in entry.ecosystems
  BY <1>2, <1>4 DEF OrAny, PublishingOK, Publishers
<1>6. entry.packages = {} \/ c.name \in entry.packages
  BY <1>2, <1>4 DEF OrAny, PublishingOK, Publishers
<1> QED BY <1>2, <1>3, <1>5, <1>6 DEF EntryPermits

\* A token that is granted an addition is permitted it by the section it is in.
LEMMA TokenIsPermitted ==
    ASSUME NEW settings, PublishingOK(settings), NEW token, NEW c,
           Authenticate(settings, token) # None,
           AuthorizeContent(Grants(settings, Authenticate(settings, token)), "add", c)
    PROVE  Permits(settings, token, "add", c)
<1> DEFINE entries == {i \in Publishers(settings) : settings.publishing.tokens[i].token = token}
           i == CHOOSE n \in entries : \A j \in entries : n <= j
           entry == settings.publishing.tokens[i]
<1>1. CASE settings.admin.enabled /\ token \in settings.admin.tokens
  BY <1>1 DEF Permits
<1>2. CASE ~(settings.admin.enabled /\ token \in settings.admin.tokens) /\ entries # {}
  <2>1. entries \subseteq Nat
    BY DEF PublishingOK, Publishers
  <2>2. i \in entries /\ \A j \in entries : i <= j
    BY <1>2, <2>1, Least
  <2>3. Authenticate(settings, token) = PublishToken(i)
    BY <1>2 DEF Authenticate
  <2> HIDE DEF i
  <2>4. PublishToken(i) # LegacyAdmin /\ PublishToken(i) # LegacyBearer /\ PublishToken(i)[2] = i
    BY DEF PublishToken, LegacyAdmin, LegacyBearer
  <2>5. Grants(settings, PublishToken(i)) = [NoGrants EXCEPT !.scopes = PublishTokenScopes(entry)]
    BY <2>2, <2>4 DEF Grants
  <2>6. ScopeAllows([NoGrants EXCEPT !.scopes = PublishTokenScopes(entry)], "add", c)
    BY <2>3, <2>5 DEF AuthorizeContent, AdminCovers, ViewAllows, NoGrants
  <2>7. i \in Publishers(settings)
    BY <2>2
  <2>8. EntryPermits(entry, "add", c)
    BY <2>6, <2>7, ScopeIsPermitted
  <2>9. /\ i \in Publishers(settings) /\ entry.token = token
         /\ \A j \in Publishers(settings) : settings.publishing.tokens[j].token = token => i <= j
    BY <2>2
  <2> HIDE DEF entries
  <2> QED BY <1>2, <2>8, <2>9 DEF Permits
<1>3. CASE ~(settings.admin.enabled /\ token \in settings.admin.tokens) /\ entries = {}
  <2>1. Authenticate(settings, token) = LegacyBearer
    BY <1>3 DEF Authenticate
  <2>2. LegacyBearer # LegacyAdmin /\ \A j : LegacyBearer # PublishToken(j)
    BY DEF LegacyBearer, LegacyAdmin, PublishToken
  <2>3. Grants(settings, LegacyBearer) \in {FlatGrants, NoGrants}
    BY <2>2 DEF Grants
  <2>4. ~AuthorizeContent(FlatGrants, "add", c) /\ ~AuthorizeContent(NoGrants, "add", c)
    BY DEF AuthorizeContent, AdminCovers, ViewAllows, Viewed, ScopeAllows, FlatGrants, NoGrants
  <2> QED BY <2>1, <2>3, <2>4
<1> QED BY <1>1, <1>2, <1>3

\* A credential's first carriage that the registry takes is one of its own.
LEMMA PresentedIsGiven ==
    ASSUME NEW credential, NEW e \in Registries, Presented(credential, Carriages(e)) # NoToken
    PROVE  \E carriage \in DOMAIN credential : Presented(credential, Carriages(e)) = credential[carriage]
<1> DEFINE carriages == Carriages(e)
           given == {i \in DOMAIN carriages : carriages[i] \in DOMAIN credential}
           i == CHOOSE n \in given : \A j \in given : n <= j
<1>1. DOMAIN carriages \subseteq Nat
  BY DEF Carriages, Registries, PypiTokens, NpmTokens, CargoTokens, HexTokens, MavenTokens,
         GemTokens, NugetTokens, PubTokens
<1> HIDE DEF carriages
<1>2. given # {} /\ Presented(credential, carriages) = credential[carriages[i]]
  BY DEF Presented, carriages
<1>3. i \in given
  BY <1>1, <1>2, Least
<1> QED BY <1>2, <1>3 DEF carriages

\* What a section's principal may add, the section permits: the subject of a signed
\* token may be one.
LEMMA SubjectIsPermitted ==
    ASSUME NEW settings, PublishingOK(settings), NEW subject, NEW c,
           AuthorizeContent(Grants(settings, subject), "add", c)
    PROVE  SubjectPermits(settings, subject, "add", c)
<1>1. ~AuthorizeContent(FlatGrants, "add", c) /\ ~AuthorizeContent(NoGrants, "add", c)
  BY DEF AuthorizeContent, AdminCovers, ViewAllows, Viewed, ScopeAllows, FlatGrants, NoGrants
<1>2. CASE subject = LegacyAdmin /\ settings.admin.enabled
  BY <1>2 DEF SubjectPermits
<1>3. CASE ~(subject = LegacyAdmin /\ settings.admin.enabled)
  <2>1. ~(subject = LegacyBearer /\ settings.auth.enabled)
    BY <1>1, <1>3 DEF Grants
  <2>2. PICK i \in Publishers(settings) : subject = PublishToken(i)
    BY <1>1, <1>3, <2>1 DEF Grants
  <2>3. Grants(settings, subject) =
          [NoGrants EXCEPT !.scopes = PublishTokenScopes(settings.publishing.tokens[i])]
    BY <1>3, <2>1, <2>2 DEF Grants, PublishToken
  <2>4. ScopeAllows([NoGrants EXCEPT !.scopes = PublishTokenScopes(settings.publishing.tokens[i])],
                    "add", c)
    BY <2>3 DEF AuthorizeContent, AdminCovers, ViewAllows, NoGrants
  <2>5. EntryPermits(settings.publishing.tokens[i], "add", c)
    BY <2>2, <2>4, ScopeIsPermitted
  <2> QED BY <2>2, <2>5 DEF SubjectPermits
<1> QED BY <1>2, <1>3

\* Whoever may publish a package shows a token whose section permits it, or a signed
\* token whose subject's section does.
LEMMA WriterIsPermitted ==
    ASSUME PublishingOK(config), NEW credential, NEW c, c.ecosystem \in Registries,
           MayPublish(credential, c)
    PROVE  ByToken(credential, "add", Stored(c)) \/ BySubject(credential, "add", Stored(c))
<1> DEFINE shown == Presented(credential, Carriages(c.ecosystem))
           writer == Principal(config, shown, Now)
<1>1. writer # None /\ AuthorizeContent(Grants(config, writer), "add", Stored(c))
  BY DEF MayPublish, Writer
<1>2. shown # NoToken
  BY <1>1 DEF Principal, NoToken
<1>3. PICK carriage \in DOMAIN credential : shown = credential[carriage]
  BY <1>2, PresentedIsGiven
<1> HIDE DEF shown
<1>4. CASE shown.kind = "jwt"
  <2>1. config.oidc.enabled /\ Validate(config.oidc, shown.jwt, Now) = writer
    BY <1>1, <1>4 DEF Principal
  <2>2. writer = shown.jwt.sub
    BY <1>1, <2>1 DEF Validate
  <2>3. SubjectPermits(config, writer, "add", Stored(c))
    BY <1>1, SubjectIsPermitted
  <2> HIDE DEF writer
  <2> QED BY <1>3, <1>4, <2>1, <2>2, <2>3 DEF BySubject
<1>5. CASE shown.kind # "jwt"
  <2>1. shown.kind = "token" /\ writer = Authenticate(config, shown.token)
    BY <1>1, <1>5 DEF Principal
  <2>2. Permits(config, shown.token, "add", Stored(c))
    BY <1>1, <2>1, TokenIsPermitted
  <2> QED BY <1>3, <2>1, <2>2 DEF ByToken
<1> QED BY <1>4, <1>5

-----------------------------------------------------------------------------
(* Requests between their authorization and their effect                   *)

\* A publish was authorized by the server that is running.
Authorized(k) ==
    /\ config = None => request[k].pc = "idle"
    /\ request[k].pc = "publish" =>
         /\ request[k].target \in Coordinates /\ request[k].target.ecosystem \in Registries
         /\ MayPublish(request[k].credential, request[k].target)

RequestsOK ==
    /\ config # None => PublishingOK(config)
    /\ request = [k \in Writers |-> request[k]]
    /\ \A k \in Writers : Authorized(k)

\* A step of one writer, under the same server.
LEMMA WriterMoves ==
    ASSUME RequestsOK, NEW k \in Writers, config' = config, NEW r,
           request' = [request EXCEPT ![k] = r],
           config = None => r.pc = "idle",
           r.pc = "publish" =>
             /\ r.target \in Coordinates /\ r.target.ecosystem \in Registries
             /\ MayPublish(r.credential, r.target)
    PROVE  RequestsOK'
<1>1. \A credential, c : MayPublish(credential, c)' <=> MayPublish(credential, c)
  BY DEF MayPublish, Writer
<1>2. request' = [j \in Writers |-> request'[j]] /\ request'[k] = r
      /\ \A j \in Writers \ {k} : request'[j] = request[j]
  BY DEF RequestsOK
<1>3. ASSUME NEW j \in Writers PROVE Authorized(j)'
  BY <1>1, <1>2 DEF RequestsOK, Authorized, MayPublish, Writer
<1>4. (config # None => PublishingOK(config))'
  BY DEF RequestsOK, PublishingOK
<1> QED BY <1>2, <1>3, <1>4 DEF RequestsOK

LEMMA IdleRequest == NoRequest.pc = "idle"
BY DEF NoRequest

LEMMA RequestsStep == ASSUME RequestsOK, [Next]_vars PROVE RequestsOK'
<1>1. ASSUME NEW options \in Options, Start(options) PROVE RequestsOK'
  <2>1. PublishingOK(config') /\ config' # None
    BY <1>1, LoadedPublishing DEF Start, Starts
  <2>2. UNCHANGED request /\ \A k \in Writers : request[k].pc = "idle"
    BY <1>1 DEF Start, RequestsOK, Authorized
  <2> QED BY <2>1, <2>2 DEF RequestsOK, Authorized, PublishingOK
<1>2. ASSUME Stop PROVE RequestsOK'
  BY <1>2, IdleRequest DEF Stop, RequestsOK, Authorized
<1>3. ASSUME NEW k \in Writers, NEW credential \in Credentials, NEW c \in Coordinates,
             AuthorizePublish(k, credential, c)
      PROVE  RequestsOK'
  <2> DEFINE r == [pc |-> "publish", credential |-> credential, target |-> c]
  <2>1. c.ecosystem \in Registries /\ MayPublish(credential, c)
    BY <1>3 DEF AuthorizePublish, Mounts, Writable
  <2>2. config' = config /\ config # None /\ request' = [request EXCEPT ![k] = r]
    BY <1>3 DEF AuthorizePublish
  <2>3. r.pc = "publish" /\ r.credential = credential /\ r.target = c
    OBVIOUS
  <2> HIDE DEF r
  <2> QED BY <2>1, <2>2, <2>3, WriterMoves
<1>4. ASSUME NEW k \in Writers, NEW credential \in Credentials, AuthorizeRetention(k, credential)
      PROVE  RequestsOK'
  <2> DEFINE r == [pc |-> "retention", credential |-> credential, target |-> None]
  <2>1. config' = config /\ config # None /\ request' = [request EXCEPT ![k] = r] /\ r.pc = "retention"
    BY <1>4 DEF AuthorizeRetention
  <2> HIDE DEF r
  <2> QED BY <2>1, WriterMoves
<1>5. ASSUME NEW k \in Writers, PublishPackage(k) \/ End(k) PROVE RequestsOK'
  BY <1>5, WriterMoves, IdleRequest DEF PublishPackage, End
<1>6. CASE UNCHANGED <<config, request>>
  BY <1>6 DEF RequestsOK, Authorized, PublishingOK, MayPublish, Writer
<1>7. ASSUME NEW k \in Writers, RetentionSweep(k) PROVE UNCHANGED <<config, request>>
  BY <1>7 DEF RetentionSweep
<1>8. ASSUME NEW k \in Walkers,
             \/ \E credential \in Credentials : AuthorizeBrowse(k, credential)
             \/ BrowseComponents(k) \/ FinishWalk(k)
      PROVE  UNCHANGED <<config, request>>
  BY <1>8 DEF AuthorizeBrowse, BrowseComponents, FinishWalk
<1> QED BY <1>1, <1>2, <1>3, <1>4, <1>5, <1>6, <1>7, <1>8 DEF Next, vars

LEMMA RequestsInit == Init => RequestsOK
BY IdleRequest DEF Init, RequestsOK, Authorized

\* What enters the catalog, whatever has happened since it was authorized, was put
\* there with a token whose section permits adding it, or with a signed token whose
\* subject is the principal of such a section (authorize_publish).
THEOREM Granted == Spec => PublishedByGrant
<1> DEFINE Permitted ==
        \A c \in catalog' \ catalog : \E k \in Writers :
          LET credential == request[k].credential IN
          /\ request[k].pc = "publish" /\ Stored(request[k].target) = c
          /\ ByToken(credential, "add", c) \/ BySubject(credential, "add", c)
<1>1. ASSUME RequestsOK, [Next]_vars PROVE [Permitted]_vars
  <2> SUFFICES ASSUME NEW c \in catalog' \ catalog PROVE
          \E k \in Writers :
            /\ request[k].pc = "publish" /\ Stored(request[k].target) = c
            /\ ByToken(request[k].credential, "add", c) \/ BySubject(request[k].credential, "add", c)
      OBVIOUS
  <2>1. PICK k \in Writers : PublishPackage(k)
    BY <1>1 DEF Next, vars, Start, Stop, AuthorizePublish, AuthorizeRetention, RetentionSweep, End,
                AuthorizeBrowse, BrowseComponents, FinishWalk
  <2>2. request[k].pc = "publish" /\ Stored(request[k].target) = c
    BY <2>1 DEF PublishPackage
  <2>3. /\ PublishingOK(config) /\ request[k].target.ecosystem \in Registries
        /\ MayPublish(request[k].credential, request[k].target)
    BY <1>1, <2>2 DEF RequestsOK, Authorized
  <2> QED BY <2>2, <2>3, WriterIsPermitted
<1>2. RequestsOK /\ [Next]_vars => RequestsOK'
  BY RequestsStep
<1> QED BY <1>1, <1>2, RequestsInit, PTL DEF Spec, PublishedByGrant

-----------------------------------------------------------------------------
(* Pages: rows are ranked by how many of them come before                  *)

Before(S, c) == {b \in S : Position[b] < Position[c]}
Rank(S, c) == Cardinality(Before(S, c))

\* The rows of a finite listing have the ranks 0 to their number, each once.
LEMMA RanksAreDense ==
    ASSUME NEW S, S \subseteq Coordinates, IsFiniteSet(S)
    PROVE  /\ Cardinality(S) \in Nat
           /\ [c \in S |-> Rank(S, c)] \in Bijection(S, 0..(Cardinality(S) - 1))
<1> DEFINE n == Cardinality(S)
           rank == [c \in S |-> Rank(S, c)]
<1>1. n \in Nat
  BY FS_CardinalityType
<1>2. ASSUME NEW c \in S PROVE Rank(S, c) \in 0..(n - 1)
  <2>1. Before(S, c) \subseteq S \ {c} /\ Position[c] \in Int
    BY PositionAssumption DEF Before
  <2>2. IsFiniteSet(S \ {c}) /\ Cardinality(S \ {c}) = n - 1
    BY FS_RemoveElement
  <2>3. Cardinality(Before(S, c)) <= n - 1 /\ IsFiniteSet(Before(S, c))
    BY <2>1, <2>2, FS_Subset
  <2>4. Cardinality(Before(S, c)) \in Nat
    BY <2>3, FS_CardinalityType
  <2> QED BY <1>1, <2>3, <2>4 DEF Rank
<1>3. ASSUME NEW c \in S, NEW d \in S, Position[c] < Position[d] PROVE Rank(S, c) < Rank(S, d)
  <2>1. Before(S, c) \cup {c} \subseteq Before(S, d) /\ c \notin Before(S, c)
    BY <1>3, PositionAssumption DEF Before
  <2>2. IsFiniteSet(Before(S, c)) /\ IsFiniteSet(Before(S, d))
    BY FS_Subset DEF Before
  <2>3. Cardinality(Before(S, c) \cup {c}) = Rank(S, c) + 1
    BY <2>1, <2>2, FS_AddElement DEF Rank
  <2>4. Cardinality(Before(S, c) \cup {c}) <= Rank(S, d)
    BY <2>1, <2>2, FS_Subset DEF Rank
  <2>5. Rank(S, c) \in Nat /\ Rank(S, d) \in Nat
    BY <2>2, FS_CardinalityType DEF Rank
  <2> QED BY <2>3, <2>4, <2>5
<1>4. ASSUME NEW c \in S, NEW d \in S, Rank(S, c) = Rank(S, d) PROVE c = d
  <2>1. Rank(S, c) \in Int /\ Rank(S, d) \in Int
    BY <1>2
  <2>2. ~(Position[c] < Position[d]) /\ ~(Position[d] < Position[c])
    BY <1>3, <1>4, <2>1
  <2> QED BY <2>2, PositionAssumption
<1>5. rank \in [S -> 0..(n - 1)] /\ \A c, d \in S : rank[c] = rank[d] => c = d
  BY <1>2, <1>4
<1> HIDE DEF rank
<1>6. rank \in Injection(S, 0..(n - 1))
  BY <1>5, Fun_IsInj
<1>7. IsFiniteSet(0..(n - 1)) /\ Cardinality(0..(n - 1)) = n
  BY <1>1, FS_Interval
<1> HIDE DEF n
<1>8. rank \in Surjection(S, 0..(n - 1))
  BY <1>6, <1>7, FS_Injection DEF n
<1> QED BY <1>1, <1>6, <1>8 DEF Bijection, n, rank

\* A page is full when something is left for the next one.
LEMMA PageIsFull ==
    ASSUME NEW S, S \subseteq Coordinates, IsFiniteSet(S), NEW offset \in Nat,
           NEW c \in S, Rank(S, c) >= offset + Limit
    PROVE  Cardinality({x \in S : offset <= Rank(S, x) /\ Rank(S, x) < offset + Limit}) = Limit
<1> DEFINE n == Cardinality(S)
           rank == [x \in S |-> Rank(S, x)]
           page == {x \in S : offset <= Rank(S, x) /\ Rank(S, x) < offset + Limit}
           ranks == offset..(offset + Limit - 1)
           onPage == [x \in page |-> rank[x]]
<1>1. n \in Nat /\ rank \in Bijection(S, 0..(n - 1))
  BY RanksAreDense
<1>2. Limit \in Nat \ {0}
  BY LimitAssumption
<1>11. \A x \in S : rank[x] = Rank(S, x)
  OBVIOUS
<1> HIDE DEF rank, n
<1>12. rank \in [S -> 0..(n - 1)] /\ \A x, y \in S : rank[x] = rank[y] => x = y
  BY <1>1 DEF Bijection, Injection, IsInjective
<1>13. \A r \in 0..(n - 1) : \E x \in S : rank[x] = r
  BY <1>1 DEF Bijection, Surjection
<1>3. /\ \A x \in S : rank[x] = Rank(S, x) /\ rank[x] \in 0..(n - 1)
      /\ \A x, y \in S : rank[x] = rank[y] => x = y
      /\ \A r \in 0..(n - 1) : \E x \in S : rank[x] = r
  BY <1>11, <1>12, <1>13
<1>4. \A r \in ranks : r \in 0..(n - 1)
  BY <1>1, <1>2, <1>3
<1>5. onPage \in [page -> ranks] /\ \A x, y \in page : onPage[x] = onPage[y] => x = y
  BY <1>1, <1>2, <1>3
<1>6. \A r \in ranks : \E x \in page : onPage[x] = r
  <2> SUFFICES ASSUME NEW r \in ranks PROVE \E x \in page : onPage[x] = r
      OBVIOUS
  <2>1. PICK x \in S : rank[x] = r
    BY <1>3, <1>4
  <2>2. x \in page
    BY <1>2, <1>3, <2>1
  <2> QED BY <2>1, <2>2
<1> HIDE DEF onPage, page
<1>7. onPage \in Bijection(page, ranks)
  BY <1>5, <1>6, Fun_IsInj, Fun_IsSurj DEF Bijection
<1>8. ExistsBijection(ranks, page)
  BY <1>7, Fun_ExistsBij, Fun_ExistsBijSymmetric
<1>9. IsFiniteSet(ranks) /\ Cardinality(ranks) = Limit
  BY <1>2, FS_Interval
<1> HIDE DEF ranks
<1>10. Cardinality(page) = Limit
  BY <1>8, <1>9, FS_Bijection
<1> QED BY <1>10 DEF page

\* Rows that are added move no row forward.
LEMMA RanksGrow ==
    ASSUME NEW S, NEW T, IsFiniteSet(T), S \subseteq T, NEW c
    PROVE  Rank(S, c) \in Nat /\ Rank(T, c) \in Nat /\ Rank(S, c) <= Rank(T, c)
<1>1. Before(S, c) \subseteq Before(T, c) /\ Before(T, c) \subseteq T
  BY DEF Before
<1>2. IsFiniteSet(Before(T, c))
  BY <1>1, FS_Subset
<1>3. IsFiniteSet(Before(S, c)) /\ Cardinality(Before(S, c)) <= Cardinality(Before(T, c))
  BY <1>1, <1>2, FS_Subset
<1> QED BY <1>2, <1>3, FS_CardinalityType DEF Rank

-----------------------------------------------------------------------------
(* Walks: a listing read page by page while packages are published         *)

Fields == {"pc", "credential", "predicate", "offset", "seen", "kept"}

\* What a walk has not seen of what was there is on the pages that are left.
WalkOK(k) ==
    /\ DOMAIN walk[k] = Fields
    /\ walk[k].offset \in Nat
    /\ walk[k].kept \subseteq catalog
    /\ walk[k].pc = "page" =>
         \A c \in walk[k].kept : Evaluate(walk[k].predicate, c) =>
            c \in walk[k].seen \/ Rank(Selected(k), c) >= walk[k].offset
    /\ walk[k].pc = "walked" =>
         \A c \in walk[k].kept : Evaluate(walk[k].predicate, c) => c \in walk[k].seen

WalksOK ==
    /\ catalog \subseteq Coordinates /\ IsFiniteSet(catalog)
    /\ walk = [k \in Walkers |-> walk[k]]
    /\ \A k \in Walkers : WalkOK(k)

LEMMA NoWalkIsOK ==
    /\ DOMAIN NoWalk = Fields
    /\ NoWalk.pc = "idle" /\ NoWalk.offset = 0 /\ NoWalk.seen = {} /\ NoWalk.kept = {}
BY DEF NoWalk, Fields

\* A step that moves no walk, and removes nothing.
LEMMA CatalogGrows ==
    ASSUME WalksOK, UNCHANGED walk, catalog \subseteq catalog',
           catalog' \subseteq Coordinates, IsFiniteSet(catalog')
    PROVE  WalksOK'
<1>1. ASSUME NEW k \in Walkers PROVE WalkOK(k)'
  <2>1. Selected(k) \subseteq Selected(k)' /\ IsFiniteSet(Selected(k)')
    BY FS_Subset DEF Selected
  <2>2. ASSUME NEW c, walk[k].offset \in Nat, Rank(Selected(k), c) >= walk[k].offset
        PROVE  Rank(Selected(k)', c) >= walk[k].offset
    <3> HIDE DEF Selected
    <3> QED BY <2>1, <2>2, RanksGrow
  <2>3. \A c : Rank(Selected(k), c)' = Rank(Selected(k)', c)
    BY DEF Rank, Before
  <2> QED BY <2>2, <2>3 DEF WalksOK, WalkOK
<1> QED BY <1>1 DEF WalksOK

\* A page moves on what is left, or is the last.
LEMMA PageMovesOn ==
    ASSUME WalksOK, NEW k \in Walkers, BrowseComponents(k)
    PROVE  WalksOK'
<1> DEFINE S == Selected(k)
           w == walk[k]
           page == Page(S, w.offset)
           full == Cardinality(page) = Limit
<1>1. /\ DOMAIN w = Fields /\ w.offset \in Nat /\ w.pc = "page"
      /\ w.kept \subseteq catalog
      /\ \A c \in w.kept : Evaluate(w.predicate, c) => c \in w.seen \/ Rank(S, c) >= w.offset
  BY DEF WalksOK, WalkOK, BrowseComponents
<1>2. S \subseteq Coordinates /\ IsFiniteSet(S)
  BY FS_Subset DEF WalksOK, Selected
<1>3. page = {c \in S : w.offset <= Rank(S, c) /\ Rank(S, c) < w.offset + Limit}
  BY DEF Page, Rank, Before
<1>4. \A c \in w.kept : Evaluate(w.predicate, c) => c \in S
  BY <1>1 DEF Selected
<1>5. /\ UNCHANGED catalog
      /\ walk' = [walk EXCEPT ![k].seen = @ \cup page,
                              ![k].offset = IF full THEN @ + Limit ELSE @,
                              ![k].pc = IF full THEN "page" ELSE "walked"]
  BY DEF BrowseComponents
<1> HIDE DEF page, full
<1>6. /\ walk' = [j \in Walkers |-> walk'[j]]
      /\ \A j \in Walkers \ {k} : walk'[j] = walk[j]
      /\ walk'[k] = [[[w EXCEPT !.seen = @ \cup page]
                        EXCEPT !.offset = IF full THEN @ + Limit ELSE @]
                        EXCEPT !.pc = IF full THEN "page" ELSE "walked"]
  BY <1>5 DEF WalksOK
<1>7. /\ DOMAIN walk'[k] = Fields
      /\ walk'[k].seen = w.seen \cup page
      /\ walk'[k].offset = IF full THEN w.offset + Limit ELSE w.offset
      /\ walk'[k].pc = IF full THEN "page" ELSE "walked"
      /\ walk'[k].kept = w.kept /\ walk'[k].predicate = w.predicate
  BY <1>1, <1>6 DEF Fields
<1>8. Selected(k)' = S
  BY <1>5, <1>7 DEF Selected
<1>9. Limit \in Nat
  BY LimitAssumption
<1>10. ASSUME NEW c \in w.kept, Evaluate(w.predicate, c), c \notin w.seen \cup page
       PROVE  Rank(S, c) >= w.offset + Limit
  <2>1. c \in S /\ Rank(S, c) >= w.offset
    BY <1>1, <1>4, <1>10
  <2>2. Rank(S, c) \in Nat
    BY <1>2, RanksGrow
  <2> HIDE DEF S, w
  <2> QED BY <1>1, <1>3, <1>9, <1>10, <2>1, <2>2
<1>11. ASSUME NEW c \in w.kept, Evaluate(w.predicate, c), c \notin w.seen \cup page
       PROVE  full
  <2>1. c \in S /\ Rank(S, c) >= w.offset + Limit
    BY <1>4, <1>10, <1>11
  <2> HIDE DEF S, w
  <2> QED BY <1>1, <1>2, <1>3, <2>1, PageIsFull DEF full
<1>12. \A c : Rank(Selected(k), c)' = Rank(S, c)
  BY <1>8 DEF Rank, Before
<1>13. WalkOK(k)'
  <2> HIDE DEF S, w
  <2>1. walk'[k].offset \in Nat
    <3>1. CASE full
      BY <1>1, <1>7, <1>9, <3>1
    <3>2. CASE ~full
      BY <1>1, <1>7, <3>2
    <3> QED BY <3>1, <3>2
  <2>2. walk'[k].kept \subseteq catalog'
    BY <1>1, <1>5, <1>7
  <2>3. ASSUME full, NEW c \in w.kept, Evaluate(w.predicate, c), c \notin w.seen \cup page
        PROVE  Rank(S, c) >= walk'[k].offset
    BY <1>7, <1>10, <2>3
  <2>4. ASSUME ~full, NEW c \in w.kept, Evaluate(w.predicate, c)
        PROVE  c \in w.seen \cup page
    BY <1>11, <2>4
  <2>5. (walk'[k].pc = "page" <=> full) /\ (walk'[k].pc = "walked" <=> ~full)
    BY <1>7
  <2> QED BY <1>7, <1>12, <2>1, <2>2, <2>3, <2>4, <2>5 DEF WalkOK
<1>14. ASSUME NEW j \in Walkers \ {k} PROVE WalkOK(j)'
  <2>1. Selected(j)' = Selected(j) /\ walk'[j] = walk[j]
    BY <1>5, <1>6 DEF Selected
  <2>2. \A c : Rank(Selected(j), c)' = Rank(Selected(j), c)
    BY <2>1 DEF Rank, Before
  <2> QED BY <1>5, <2>1, <2>2 DEF WalksOK, WalkOK
<1> QED BY <1>5, <1>6, <1>13, <1>14 DEF WalksOK

LEMMA WalksStep == ASSUME WalksOK, RequestsOK, [Next]_vars PROVE WalksOK'
<1>1. CASE UNCHANGED <<catalog, walk>>
  BY <1>1, CatalogGrows DEF WalksOK
<1>2. CASE Stop
  BY <1>2, NoWalkIsOK DEF Stop, WalksOK, WalkOK
<1>3. ASSUME NEW k \in Writers, PublishPackage(k) PROVE WalksOK'
  <2> DEFINE added == IF HasContentModel(config) THEN {Stored(request[k].target)} ELSE {}
  <2>1. UNCHANGED walk /\ catalog' = catalog \cup added
    BY <1>3 DEF PublishPackage
  <2>2. request[k].target \in Coordinates
    BY <1>3 DEF PublishPackage, RequestsOK, Authorized
  <2>3. added \subseteq Coordinates
    BY <2>2, StoredAssumption
  <2>4. IsFiniteSet(added)
    BY FS_EmptySet, FS_Singleton
  <2> HIDE DEF added
  <2>5. IsFiniteSet(catalog')
    BY <2>1, <2>4, FS_Union DEF WalksOK
  <2> QED BY <2>1, <2>3, <2>5, CatalogGrows DEF WalksOK
<1>4. ASSUME NEW k \in Writers, RetentionSweep(k) PROVE WalksOK'
  <2>1. catalog' \subseteq Coordinates /\ IsFiniteSet(catalog')
    BY <1>4, FS_Subset DEF RetentionSweep, WalksOK
  <2>2. walk' = [j \in Walkers |-> [walk[j] EXCEPT !.kept = {}]]
    BY <1>4 DEF RetentionSweep
  <2>3. ASSUME NEW j \in Walkers PROVE WalkOK(j)'
    <3>1. DOMAIN walk[j] = Fields /\ walk[j].offset \in Nat
      BY DEF WalksOK, WalkOK
    <3>2. DOMAIN walk'[j] = Fields /\ walk'[j].offset = walk[j].offset /\ walk'[j].kept = {}
      BY <2>2, <3>1 DEF Fields
    <3> QED BY <3>1, <3>2 DEF WalkOK
  <2> QED BY <2>1, <2>2, <2>3 DEF WalksOK
<1>5. ASSUME NEW k \in Walkers, NEW credential \in Credentials, AuthorizeBrowse(k, credential)
      PROVE  WalksOK'
  <2> DEFINE w == [NoWalk EXCEPT !.pc = "page", !.credential = credential,
                                 !.predicate = BrowsePredicate(credential), !.kept = catalog]
  <2>1. UNCHANGED catalog /\ walk' = [walk EXCEPT ![k] = w]
    BY <1>5 DEF AuthorizeBrowse
  <2>2. DOMAIN w = Fields /\ w.pc = "page" /\ w.offset = 0 /\ w.kept = catalog
    BY NoWalkIsOK DEF Fields
  <2> HIDE DEF w
  <2>3. /\ walk' = [j \in Walkers |-> walk'[j]] /\ walk'[k] = w
        /\ \A j \in Walkers \ {k} : walk'[j] = walk[j]
    BY <2>1 DEF WalksOK
  <2>4. WalkOK(k)'
    <3>1. IsFiniteSet(Selected(k)')
      BY <2>1, FS_Subset DEF WalksOK, Selected
    <3>2. \A c : Rank(Selected(k)', c) \in Nat
      BY <3>1, RanksGrow
    <3>3. \A c : Rank(Selected(k), c)' = Rank(Selected(k)', c)
      BY DEF Rank, Before
    <3>4. \A c : Rank(Selected(k), c)' >= 0
      BY <3>2, <3>3
    <3> QED BY <2>1, <2>2, <2>3, <3>4 DEF WalkOK
  <2>5. ASSUME NEW j \in Walkers \ {k} PROVE WalkOK(j)'
    <3>1. Selected(j)' = Selected(j) /\ walk'[j] = walk[j]
      BY <2>1, <2>3 DEF Selected
    <3>2. \A c : Rank(Selected(j), c)' = Rank(Selected(j), c)
      BY <3>1 DEF Rank, Before
    <3> QED BY <2>1, <3>1, <3>2 DEF WalksOK, WalkOK
  <2> QED BY <2>1, <2>3, <2>4, <2>5 DEF WalksOK
<1>6. ASSUME NEW k \in Walkers, FinishWalk(k) PROVE WalksOK'
  <2>1. UNCHANGED catalog /\ walk' = [walk EXCEPT ![k] = NoWalk]
    BY <1>6 DEF FinishWalk
  <2>2. /\ walk' = [j \in Walkers |-> walk'[j]] /\ walk'[k] = NoWalk
        /\ \A j \in Walkers \ {k} : walk'[j] = walk[j]
    BY <2>1 DEF WalksOK
  <2>3. WalkOK(k)'
    BY <2>2, NoWalkIsOK DEF WalkOK
  <2>4. ASSUME NEW j \in Walkers \ {k} PROVE WalkOK(j)'
    <3>1. Selected(j)' = Selected(j) /\ walk'[j] = walk[j]
      BY <2>1, <2>2 DEF Selected
    <3>2. \A c : Rank(Selected(j), c)' = Rank(Selected(j), c)
      BY <3>1 DEF Rank, Before
    <3> QED BY <2>1, <3>1, <3>2 DEF WalksOK, WalkOK
  <2> QED BY <2>1, <2>2, <2>3, <2>4 DEF WalksOK
<1> QED BY <1>1, <1>2, <1>3, <1>4, <1>5, <1>6, PageMovesOn
        DEF Next, vars, Start, AuthorizePublish, AuthorizeRetention, End

LEMMA WalksInit == Init => WalksOK
BY NoWalkIsOK, FS_EmptySet DEF Init, WalksOK, WalkOK

\* A walk over a listing, LIMIT and OFFSET by page, lists what was there when it
\* started and may be listed, however much is published meanwhile and if nothing is
\* removed (browse_components over query_components).
THEOREM Complete == Spec => []WalkIsComplete
<1>1. WalksOK => WalkIsComplete
  BY DEF WalksOK, WalkOK, WalkIsComplete
<1>2. (RequestsOK /\ WalksOK) /\ [Next]_vars => (RequestsOK /\ WalksOK)'
  BY RequestsStep, WalksStep
<1>3. Init => RequestsOK /\ WalksOK
  BY RequestsInit, WalksInit
<1> QED BY <1>1, <1>2, <1>3, PTL DEF Spec

-----------------------------------------------------------------------------
(* The invariant, in parts *)

Writing == {"track", "put", "gate", "undo"}

TasksTyped ==
    /\ pc \in [Tasks -> {"idle", "get", "track", "put", "gate", "undo", "exists", "delete"}]
    /\ kind \in [Tasks -> {"none", "get", "publish", "delete"}]
    /\ key \in [Tasks -> Keys]
    /\ pending \in [Tasks -> SUBSET Keys]
    /\ got \in [Tasks -> [Keys -> Value]]
    /\ data \in [Tasks -> Value]
    /\ staged \in [Tasks -> [Keys -> Value \cup {NotStaged}]]
    /\ served \in [Tasks -> Value]

\* What a task has in hand at its next step.
HandsOK(t) ==
    /\ pc[t] = "idle" <=> kind[t] = "none"
    /\ pc[t] = "get" => kind[t] = "get"
    /\ pc[t] \in Writing => kind[t] \in {"get", "publish"} /\ data[t] \in Contents
    /\ pc[t] \in Writing /\ kind[t] = "get" => data[t] = Upstream
    /\ pc[t] \in {"exists", "delete"} => kind[t] = "delete"
    /\ pc[t] \in {"idle", "get"} => key[t] = "sidecar" /\ staged[t] = Nothing
    /\ pc[t] = "track" => staged[t][key[t]] = NotStaged
    /\ pc[t] = "put" => staged[t][key[t]] # NotStaged
    /\ pc[t] \in {"track", "put"} /\ key[t] = "sidecar" => staged[t]["bytes"] = NotStaged
    /\ pc[t] = "gate" => key[t] = "bytes"
    /\ got[t]["sidecar"] # Corrupt /\ staged[t]["sidecar"] # Corrupt
    /\ served[t] \notin Denied \cup {Corrupt}

\* Only the bytes rot.
ObjectOK == object \in [Keys -> Value] /\ object["sidecar"] # Corrupt

\* A pair of objects that a download accepts, or that is not there.
Good(o) == o["bytes"] # Absent => o["sidecar"] = o["bytes"]

\* What the two keys held before the task staged its writes.
Prior(t) == [k \in Keys |-> IF staged[t][k] # NotStaged THEN staged[t][k] ELSE object[k]]

\* A download that found no bytes.
Missed(t) ==
    \/ pc[t] = "get" /\ "bytes" \notin pending[t] /\ got[t]["bytes"] = Absent
    \/ pc[t] \in {"track", "put", "gate"} /\ kind[t] = "get"

\* Nobody overwrites or rolls back.
Quiet == \A t \in Tasks : kind[t] # "publish" /\ pc[t] # "undo"

\* Unless it rolls back, a task finds the objects as it left them, or as another
\* fill left them, which writes the same.
OrderedOK(t) ==
    pc[t] # "undo" =>
      /\ Missed(t) => object["bytes"] \in {Absent, Upstream}
      /\ pc[t] \in {"track", "put"} /\ key[t] = "bytes" => object["sidecar"] = data[t]
      /\ pc[t] = "gate" => object["sidecar"] = data[t] /\ object["bytes"] = data[t]
      /\ kind[t] = "delete" /\ key[t] = "sidecar" => object["bytes"] = Absent

\* Operations that overlap are downloads.
OnlyFillsOverlap ==
    \A t, u \in Tasks : pc[t] # "idle" /\ pc[u] # "idle" /\ t # u => kind[t] = "get"

\* A task that is alone can put back what it replaced.
LoneOK(t) ==
    /\ \A u \in Tasks : pc[t] # "idle" /\ pc[u] # "idle" => t = u
    /\ pc[t] \in Writing => Good(Prior(t))
    /\ pc[t] = "undo" /\ key[t] = "sidecar" /\ staged[t]["bytes"] # NotStaged =>
         object["bytes"] = staged[t]["bytes"]

SettledOK ==
    history # "mixed" => OnlyFillsOverlap /\ (Quiet => Good(object)) /\ \A t \in Tasks : OrderedOK(t)

UndoOK == history = "lone" => \A t \in Tasks : LoneOK(t)

PlainOK == TasksTyped /\ ObjectOK /\ history \in {"lone", "fills", "mixed"} /\ \A t \in Tasks : HandsOK(t)

IInv == PlainOK /\ SettledOK /\ UndoOK

-----------------------------------------------------------------------------
(* Steps of one task *)

LEMMA Constants ==
    /\ Absent \notin Contents /\ Corrupt \notin Contents /\ Absent # Corrupt
    /\ NotStaged \notin Value /\ Absent \notin Denied /\ Contents \subseteq Value
    /\ Upstream \in Contents \cup {Absent} /\ Publications \subseteq Contents
  BY UpstreamAssumption, PublicationsAssumption, DeniedAssumption, CorruptAssumption, AbsentAssumption,
     NotStagedAssumption DEF Value

\* The others are where they were.
Others(t) ==
    \A u \in Tasks \ {t} :
        /\ pc'[u] = pc[u] /\ kind'[u] = kind[u] /\ key'[u] = key[u] /\ pending'[u] = pending[u]
        /\ got'[u] = got[u] /\ data'[u] = data[u] /\ staged'[u] = staged[u] /\ served'[u] = served[u]

LEMMA PlainMoves ==
    ASSUME PlainOK, NEW t \in Tasks, Others(t), TasksTyped', ObjectOK', HandsOK(t)',
           history' \in {"lone", "fills", "mixed"}
    PROVE  PlainOK'
<1>1. ASSUME NEW u \in Tasks, u # t PROVE HandsOK(u)'
  BY <1>1 DEF PlainOK, HandsOK, Others
<1> QED
  BY <1>1 DEF PlainOK

\* The end of an operation.
LEMMA Returns ==
    ASSUME PlainOK, NEW t \in Tasks, NEW answer \in Value, Return(t, answer),
           answer \notin Denied \cup {Corrupt}
    PROVE  /\ TasksTyped' /\ Others(t) /\ HandsOK(t)'
           /\ pc'[t] = "idle" /\ kind'[t] = "none" /\ key'[t] = "sidecar" /\ staged'[t] = Nothing
<1>1. TasksTyped
  BY DEF PlainOK
<1>2. Nothing \in [Keys -> Value \cup {NotStaged}] /\ [k \in Keys |-> Absent] \in [Keys -> Value]
  BY DEF Nothing, Value
<1>3. TasksTyped' /\ Others(t)
  BY <1>1, <1>2 DEF TasksTyped, Return, Goto, Others, Keys, Nothing
<1>4. /\ pc'[t] = "idle" /\ kind'[t] = "none" /\ key'[t] = "sidecar" /\ staged'[t] = Nothing
      /\ got'[t] = [k \in Keys |-> Absent] /\ served'[t] = answer
  BY <1>1 DEF TasksTyped, Return, Goto
<1>5. HandsOK(t)'
  BY <1>4, Constants DEF HandsOK, Writing, Nothing, Keys, Value
<1> QED
  BY <1>3, <1>4, <1>5

\* An operation that ends leaves the rest in order, if it leaves the objects in
\* order where it overwrote them.
LEMMA ReturnSettles ==
    ASSUME IInv, NEW t \in Tasks, Others(t), PlainOK', pc'[t] = "idle", kind'[t] = "none",
           object' = object, history # "mixed" \/ history' = "mixed", history' = "lone" => history = "lone",
           history' # "mixed" => (kind[t] = "publish" \/ pc[t] = "undo" => Good(object))
    PROVE  SettledOK' /\ UndoOK'
<1>1. CASE history' = "mixed"
  BY <1>1 DEF SettledOK, UndoOK
<1>2. CASE history' # "mixed"
  <2>1. OnlyFillsOverlap /\ (Quiet => Good(object)) /\ \A u \in Tasks : OrderedOK(u)
    BY <1>2 DEF IInv, SettledOK
  <2>2. OnlyFillsOverlap'
    BY <2>1 DEF OnlyFillsOverlap, Others
  <2>3. \A u \in Tasks : OrderedOK(u)'
    BY <2>1 DEF OrderedOK, Missed, Others
  <2>4. Quiet' => Good(object)'
    BY <1>2, <2>1 DEF Quiet, Others, Good
  <2>5. history' = "lone" => \A u \in Tasks : LoneOK(u)'
    BY DEF IInv, UndoOK, LoneOK, Others, Prior, Good, Writing
  <2> QED
    BY <2>2, <2>3, <2>4, <2>5 DEF SettledOK, UndoOK
<1> QED
  BY <1>1, <1>2

-----------------------------------------------------------------------------
(* Operations that start *)

\* Nothing is in the way of an operation that is alone, and fills are in the way of
\* no fill.
LEMMA StartSettles ==
    ASSUME IInv, NEW t \in Tasks, Others(t), PlainOK', pc[t] = "idle", object' = object, Overlap(t),
           pc'[t] \in {"get", "track", "exists"}, kind'[t] # "none",
           kind'[t] = "get" => pc'[t] = "get" /\ pending'[t] = Keys,
           kind'[t] = "publish" => pc'[t] = "track" /\ key'[t] = "sidecar" /\ staged'[t] = Nothing,
           kind'[t] = "delete" => pc'[t] = "exists" /\ key'[t] = "bytes"
    PROVE  SettledOK' /\ UndoOK'
<1>1. CASE history' = "mixed"
  BY <1>1 DEF SettledOK, UndoOK
<1>2. CASE history' # "mixed"
  <2>1. history # "mixed" /\ (history' = "lone" => history = "lone" /\ Alone(t))
    BY <1>2 DEF Overlap, Enter, Keep
  <2>2. Alone(t) \/ (kind'[t] = "get" /\ AmongFills(t))
    BY <1>2 DEF Overlap, Enter
  <2>3. OnlyFillsOverlap /\ (Quiet => Good(object)) /\ (\A u \in Tasks : OrderedOK(u)) /\ PlainOK
    BY <2>1 DEF IInv, SettledOK
  <2>4. OnlyFillsOverlap'
    BY <2>2, <2>3 DEF OnlyFillsOverlap, Others, Alone, AmongFills, PlainOK, HandsOK
  <2>5. Quiet' => Good(object)'
    <3>1. kind[t] = "none"
      BY <2>3 DEF PlainOK, HandsOK
    <3>2. Quiet' => Quiet
      BY <3>1 DEF Quiet, Others
    <3> QED
      BY <2>3, <3>2 DEF Good
  <2>6. ASSUME NEW u \in Tasks PROVE OrderedOK(u)'
    <3>1. CASE u = t
      <4>1. pc'[t] = "track" => kind'[t] = "publish"
        BY DEF PlainOK, HandsOK, Writing
      <4> QED
        BY <3>1, <4>1 DEF OrderedOK, Missed, Keys, PlainOK, HandsOK
    <3>2. CASE u # t
      BY <2>3, <3>2 DEF OrderedOK, Missed, Others
    <3> QED
      BY <3>1, <3>2
  <2>7. ASSUME history' = "lone", NEW u \in Tasks PROVE LoneOK(u)'
    <3>1. Alone(t) /\ \A x \in Tasks \ {t} : pc'[x] = "idle"
      BY <2>1, <2>7 DEF Alone, Others
    <3>2. CASE u = t
      <4>1. pc'[t] \in Writing => Good(Prior(t))'
        <5>1. pc'[t] \in Writing => kind'[t] = "publish"
          BY DEF PlainOK, HandsOK, Writing
        <5>2. Quiet
          BY <2>3, <3>1 DEF Quiet, Alone, PlainOK, HandsOK
        <5>3. Good(object)
          BY <2>3, <5>2
        <5> QED
          BY <5>1, <5>3 DEF Good, Prior, Nothing, Keys
      <4> QED
        BY <3>1, <3>2, <4>1 DEF LoneOK
    <3>3. CASE u # t
      BY <3>1, <3>3 DEF LoneOK, Writing
    <3> QED
      BY <3>2, <3>3
  <2> QED
    BY <2>4, <2>5, <2>6, <2>7 DEF SettledOK, UndoOK
<1> QED
  BY <1>1, <1>2

LEMMA HistoryMoves ==
    ASSUME history \in {"lone", "fills", "mixed"}, NEW t \in Tasks,
           Overlap(t) \/ Keep \/ \E h \in {"lone", "fills", "mixed"} : Enter(h)
    PROVE  history' \in {"lone", "fills", "mixed"}
  BY DEF Overlap, Keep, Enter

LEMMA OfStartGet == ASSUME IInv, NEW t \in Tasks, StartGet(t), Overlap(t) PROVE IInv'
<1>1. TasksTyped /\ ObjectOK /\ HandsOK(t) /\ PlainOK
  BY DEF IInv, PlainOK
<1>2. TasksTyped' /\ Others(t)
  BY <1>1, Constants DEF TasksTyped, StartGet, Goto, Others, Keys, Value
<1>3. /\ pc'[t] = "get" /\ kind'[t] = "get" /\ pending'[t] = Keys /\ served'[t] = Absent
      /\ key'[t] = key[t] /\ got'[t] = got[t] /\ staged'[t] = staged[t] /\ object' = object /\ pc[t] = "idle"
  BY <1>1 DEF TasksTyped, StartGet, Goto
<1>4. HandsOK(t)'
  BY <1>1, <1>3, Constants DEF HandsOK, Writing
<1>5. PlainOK'
  BY <1>1, <1>2, <1>3, <1>4, PlainMoves, HistoryMoves DEF ObjectOK, PlainOK
<1> QED
  BY <1>2, <1>3, <1>5, StartSettles DEF IInv

LEMMA OfStartDelete == ASSUME IInv, NEW t \in Tasks, StartDelete(t), Overlap(t) PROVE IInv'
<1>1. TasksTyped /\ ObjectOK /\ HandsOK(t) /\ PlainOK
  BY DEF IInv, PlainOK
<1>2. TasksTyped' /\ Others(t)
  BY <1>1, Constants DEF TasksTyped, StartDelete, Goto, Others, Keys, Value
<1>3. /\ pc'[t] = "exists" /\ kind'[t] = "delete" /\ key'[t] = "bytes" /\ served'[t] = Absent
      /\ got'[t] = got[t] /\ staged'[t] = staged[t] /\ object' = object /\ pc[t] = "idle"
  BY <1>1 DEF TasksTyped, StartDelete, Goto
<1>4. HandsOK(t)'
  BY <1>1, <1>3, Constants DEF HandsOK, Writing
<1>5. PlainOK'
  BY <1>1, <1>2, <1>3, <1>4, PlainMoves, HistoryMoves DEF ObjectOK, PlainOK
<1> QED
  BY <1>2, <1>3, <1>5, StartSettles DEF IInv

LEMMA OfStartPublish ==
    ASSUME IInv, NEW t \in Tasks, NEW c \in Publications, StartPublish(t, c), Overlap(t) PROVE IInv'
<1>1. TasksTyped /\ ObjectOK /\ HandsOK(t) /\ PlainOK
  BY DEF IInv, PlainOK
<1>2. TasksTyped' /\ Others(t)
  BY <1>1, Constants DEF TasksTyped, StartPublish, Goto, Others, Value
<1>3. /\ pc'[t] = "track" /\ kind'[t] = "publish" /\ data'[t] = c /\ served'[t] = Absent
      /\ key'[t] = "sidecar" /\ got'[t] = got[t] /\ staged'[t] = Nothing /\ staged[t] = Nothing
      /\ object' = object /\ pc[t] = "idle"
  BY <1>1 DEF TasksTyped, StartPublish, Goto, HandsOK
<1>4. HandsOK(t)'
  BY <1>1, <1>3, Constants DEF HandsOK, Writing, Nothing, Keys
<1>5. PlainOK'
  BY <1>1, <1>2, <1>3, <1>4, PlainMoves, HistoryMoves DEF ObjectOK, PlainOK
<1> QED
  BY <1>2, <1>3, <1>5, StartSettles DEF IInv

-----------------------------------------------------------------------------
(* Steps of an operation *)

\* A step that writes no object.
LEMMA StepSettles ==
    ASSUME IInv, NEW t \in Tasks, Others(t), PlainOK', object' = object, history' = history,
           kind'[t] = kind[t], pc[t] # "idle", pc[t] = "undo" => pc'[t] = "undo",
           history # "mixed" => OrderedOK(t)', history = "lone" => Good(Prior(t))',
           pc'[t] = "undo" /\ key'[t] = "sidecar" => staged'[t]["bytes"] = NotStaged
    PROVE  SettledOK' /\ UndoOK'
<1>1. pc'[t] # "idle"
  BY DEF IInv, PlainOK, HandsOK
<1>2. SettledOK'
  <2>1. CASE history = "mixed"
    BY <2>1 DEF SettledOK
  <2>2. CASE history # "mixed"
    <3>1. OnlyFillsOverlap /\ (Quiet => Good(object)) /\ \A u \in Tasks : OrderedOK(u)
      BY <2>2 DEF IInv, SettledOK
    <3>2. OnlyFillsOverlap'
      BY <3>1 DEF OnlyFillsOverlap, Others
    <3>3. \A u \in Tasks : OrderedOK(u)'
      BY <2>2, <3>1 DEF OrderedOK, Missed, Others
    <3>4. Quiet' => Good(object)'
      BY <3>1 DEF Quiet, Others, Good
    <3> QED
      BY <3>2, <3>3, <3>4 DEF SettledOK
  <2> QED
    BY <2>1, <2>2
<1>3. UndoOK'
  <2> SUFFICES ASSUME history = "lone", NEW u \in Tasks PROVE LoneOK(u)'
    BY DEF UndoOK
  <2>1. \A x \in Tasks \ {t} : pc'[x] = "idle"
    BY DEF IInv, UndoOK, LoneOK, Others
  <2> QED
    BY <2>1, <1>1 DEF LoneOK, Writing
<1> QED
  BY <1>2, <1>3

LEMMA OfGet == ASSUME IInv, NEW t \in Tasks, NEW k \in Keys, Get(t, k), Keep PROVE IInv'
<1>1. TasksTyped /\ ObjectOK /\ HandsOK(t) /\ PlainOK
  BY DEF IInv, PlainOK
<1>2. TasksTyped' /\ Others(t)
  <2>1. got' = [got EXCEPT ![t] = [got[t] EXCEPT ![k] = object[k]]] /\ object[k] \in Value
    BY <1>1 DEF Get, ObjectOK
  <2>2. [got[t] EXCEPT ![k] = object[k]] \in [Keys -> Value]
    BY <1>1, <2>1 DEF TasksTyped
  <2> QED
    BY <1>1, <2>1, <2>2 DEF TasksTyped, Get, Others
<1>3. /\ pc'[t] = "get" /\ kind'[t] = kind[t] /\ pending'[t] = pending[t] \ {k} /\ served'[t] = served[t]
      /\ got'[t] = [got[t] EXCEPT ![k] = object[k]]
      /\ key'[t] = key[t] /\ staged'[t] = staged[t] /\ object' = object /\ pc[t] = "get"
      /\ data'[t] = data[t]
  BY <1>1 DEF TasksTyped, Get
<1>4. got[t] \in [Keys -> Value]
  BY <1>1 DEF TasksTyped
<1>5. got'[t]["sidecar"] \in {got[t]["sidecar"], object["sidecar"]}
      /\ (k = "bytes" => got'[t]["bytes"] = object["bytes"])
      /\ (k # "bytes" => got'[t]["bytes"] = got[t]["bytes"])
  BY <1>3, <1>4 DEF Keys
<1>6. HandsOK(t)'
  BY <1>1, <1>3, <1>5 DEF HandsOK, Writing, ObjectOK
<1>7. PlainOK'
  BY <1>1, <1>2, <1>3, <1>6, PlainMoves DEF ObjectOK, PlainOK, Keep
<1>8. history # "mixed" => OrderedOK(t)'
  <2>1. kind[t] = "get"
    BY <1>1, <1>3 DEF HandsOK
  <2> QED
    BY <1>3, <1>5, <2>1 DEF IInv, SettledOK, OrderedOK, Missed
<1>9. history = "lone" => Good(Prior(t))'
  <2>1. kind[t] = "get" /\ staged[t] = Nothing
    BY <1>1, <1>3 DEF HandsOK
  <2>2. ASSUME history = "lone" PROVE Quiet
    BY <1>1, <1>3, <2>1, <2>2 DEF IInv, UndoOK, LoneOK, Quiet, PlainOK, HandsOK
  <2>3. ASSUME history = "lone" PROVE Good(object)
    BY <2>2, <2>3 DEF IInv, SettledOK
  <2> QED
    BY <1>3, <2>1, <2>3 DEF Good, Prior, Nothing, Keys
<1> QED
  BY <1>2, <1>3, <1>7, <1>8, <1>9, StepSettles DEF IInv, Keep

\* The step of an operation that ends it, with what it may answer.
LEMMA Ends ==
    ASSUME IInv, NEW t \in Tasks, NEW answer \in Value, Return(t, answer),
           answer \notin Denied \cup {Corrupt}, object' = object, history' \in {"lone", "fills", "mixed"},
           history # "mixed" \/ history' = "mixed", history' = "lone" => history = "lone",
           history' # "mixed" => (kind[t] = "publish" \/ pc[t] = "undo" => Good(object))
    PROVE  IInv'
<1>1. TasksTyped' /\ Others(t) /\ HandsOK(t)' /\ pc'[t] = "idle" /\ kind'[t] = "none"
  BY Returns DEF IInv
<1>2. PlainOK'
  BY <1>1, PlainMoves DEF IInv, PlainOK, ObjectOK
<1> QED
  BY <1>1, <1>2, ReturnSettles DEF IInv

\* A hit is served only if its sidecar, which never rots, says so.
LEMMA OfServeCached == ASSUME IInv, NEW t \in Tasks, ServeCached(t), Keep PROVE IInv'
<1>1. TasksTyped /\ HandsOK(t) /\ PlainOK
  BY DEF IInv, PlainOK
<1>2. PICK answer \in Value : Return(t, answer) /\ answer \notin Denied \cup {Corrupt}
  <2>1. got[t]["bytes"] \in Value /\ Absent \in Value /\ Absent \notin Denied \cup {Corrupt}
    BY <1>1, Constants DEF TasksTyped, Keys, Value
  <2> QED
    BY <1>1, <2>1 DEF ServeCached, HandsOK
<1>3. kind[t] # "publish" /\ pc[t] # "undo"
  BY <1>1 DEF ServeCached, HandsOK
<1> QED
  BY <1>1, <1>2, <1>3, Ends DEF ServeCached, Keep, PlainOK

LEMMA OfFetchUpstream == ASSUME IInv, NEW t \in Tasks, FetchUpstream(t), Keep PROVE IInv'
<1>1. TasksTyped /\ ObjectOK /\ HandsOK(t) /\ PlainOK
  BY DEF IInv, PlainOK
<1>2. CASE Return(t, Absent) /\ object' = object
  BY <1>1, <1>2, Ends, Constants DEF FetchUpstream, Keep, PlainOK, HandsOK, Value
<1>3. CASE /\ Upstream # Absent
           /\ data' = [data EXCEPT ![t] = Upstream]
           /\ key' = [key EXCEPT ![t] = "sidecar"]
           /\ Goto(t, "track")
           /\ UNCHANGED <<object, kind, pending, got, staged, served>>
  <2>1. TasksTyped' /\ Others(t)
    BY <1>1, <1>3, Constants DEF TasksTyped, Goto, Others, Keys, Value
  <2>2. /\ pc'[t] = "track" /\ kind'[t] = kind[t] /\ served'[t] = served[t] /\ data'[t] = Upstream
        /\ got'[t] = got[t] /\ key'[t] = "sidecar" /\ staged'[t] = staged[t] /\ object' = object
        /\ pc[t] = "get" /\ pending[t] = {} /\ got[t]["bytes"] = Absent
    BY <1>1, <1>3 DEF TasksTyped, Goto, FetchUpstream
  <2>3. kind[t] = "get" /\ staged[t] = Nothing
    BY <1>1, <2>2 DEF HandsOK
  <2>4. HandsOK(t)'
    BY <1>1, <1>3, <2>2, <2>3, Constants DEF HandsOK, Writing, Nothing, Keys
  <2>5. PlainOK'
    BY <1>1, <2>1, <2>2, <2>4, PlainMoves DEF ObjectOK, PlainOK, Keep
  <2>6. history # "mixed" => OrderedOK(t)'
    BY <2>2, <2>3 DEF IInv, SettledOK, OrderedOK, Missed
  <2>7. history = "lone" => Good(Prior(t))'
    <3>1. ASSUME history = "lone" PROVE Quiet
      BY <1>1, <2>2, <2>3, <3>1 DEF IInv, UndoOK, LoneOK, Quiet, PlainOK, HandsOK
    <3>2. ASSUME history = "lone" PROVE Good(object)
      BY <3>1, <3>2 DEF IInv, SettledOK
    <3> QED
      BY <2>2, <2>3, <3>2 DEF Good, Prior, Nothing, Keys
  <2> QED
    BY <2>1, <2>2, <2>5, <2>6, <2>7, StepSettles DEF IInv, Keep
<1> QED
  BY <1>2, <1>3 DEF FetchUpstream

-----------------------------------------------------------------------------
(* Writes *)

LEMMA OfTrack == ASSUME IInv, NEW t \in Tasks, Track(t), Keep PROVE IInv'
<1>1. TasksTyped /\ ObjectOK /\ HandsOK(t) /\ PlainOK
  BY DEF IInv, PlainOK
<1> DEFINE tracked == [staged[t] EXCEPT ![key[t]] = object[key[t]]]
<1>2. staged' = [staged EXCEPT ![t] = tracked]
  BY DEF Track
<1>3. key[t] \in Keys /\ staged[t] \in [Keys -> Value \cup {NotStaged}] /\ object[key[t]] \in Value
  BY <1>1 DEF TasksTyped, ObjectOK
<1>4. /\ tracked \in [Keys -> Value \cup {NotStaged}] /\ tracked[key[t]] = object[key[t]]
      /\ \A k \in Keys \ {key[t]} : tracked[k] = staged[t][k]
  BY <1>3
<1> HIDE DEF tracked
<1>5. TasksTyped' /\ Others(t)
  BY <1>1, <1>2, <1>4 DEF TasksTyped, Track, Goto, Others
<1>6. /\ pc'[t] = "put" /\ kind'[t] = kind[t] /\ served'[t] = served[t] /\ data'[t] = data[t]
      /\ got'[t] = got[t] /\ key'[t] = key[t] /\ staged'[t] = tracked /\ object' = object
      /\ pc[t] = "track" /\ pending'[t] = pending[t]
  BY <1>1, <1>2 DEF TasksTyped, Track, Goto
<1>7. HandsOK(t)'
  BY <1>1, <1>3, <1>4, <1>6, Constants DEF HandsOK, Writing, Keys, ObjectOK
<1>8. PlainOK'
  BY <1>1, <1>5, <1>6, <1>7, PlainMoves DEF ObjectOK, PlainOK, Keep
<1>9. history # "mixed" => OrderedOK(t)'
  BY <1>6 DEF IInv, SettledOK, OrderedOK, Missed
<1>10. history = "lone" => Good(Prior(t))'
  <2>1. staged[t][key[t]] = NotStaged
    BY <1>1, <1>6 DEF HandsOK
  <2>2. Prior(t)' = Prior(t)
    BY <1>3, <1>4, <1>6, <2>1, Constants DEF Prior
  <2>3. history = "lone" => Good(Prior(t))
    BY <1>6 DEF IInv, UndoOK, LoneOK, Writing
  <2> QED
    BY <2>2, <2>3 DEF Good
<1> QED
  BY <1>5, <1>6, <1>8, <1>9, <1>10, StepSettles DEF IInv, Keep

\* What others find after a put of a task that was not alone: both are fills, and
\* write the same.
LEMMA PutAmongFills ==
    ASSUME IInv, NEW t \in Tasks, pc[t] = "put", object' = [object EXCEPT ![key[t]] = data[t]],
           Others(t), history # "mixed", PlainOK', NEW u \in Tasks \ {t}
    PROVE  OrderedOK(u)'
<1>1. TasksTyped /\ ObjectOK /\ HandsOK(t) /\ HandsOK(u) /\ OrderedOK(u)
  BY DEF IInv, PlainOK, SettledOK
<1>2. CASE pc[u] = "idle"
  BY <1>1, <1>2 DEF OrderedOK, Missed, Others, HandsOK
<1>3. CASE pc[u] # "idle"
  <2>1. kind[t] = "get" /\ kind[u] = "get"
    BY <1>3 DEF IInv, SettledOK, OnlyFillsOverlap
  <2>2. data[t] = Upstream /\ (pc[u] \in Writing => data[u] = Upstream)
    BY <1>1, <2>1 DEF HandsOK, Writing
  <2>3. \A k \in Keys : object'[k] = object[k] \/ object'[k] = Upstream
    BY <1>1, <2>2 DEF TasksTyped, ObjectOK
  <2>4. /\ pc'[u] = pc[u] /\ kind'[u] = kind[u] /\ key'[u] = key[u] /\ pending'[u] = pending[u]
        /\ got'[u] = got[u] /\ data'[u] = data[u]
    BY DEF Others
  <2>5. /\ object'["bytes"] \in {object["bytes"], Upstream}
        /\ object'["sidecar"] \in {object["sidecar"], Upstream}
    BY <2>3 DEF Keys
  <2> QED
    BY <1>1, <2>1, <2>2, <2>4, <2>5 DEF OrderedOK, Missed, Writing
<1> QED
  BY <1>2, <1>3

\* The objects after a put.
LEMMA PutShape ==
    ASSUME PlainOK, NEW t \in Tasks, pc[t] = "put", object' = [object EXCEPT ![key[t]] = data[t]]
    PROVE  /\ ObjectOK' /\ data[t] \in Contents /\ key[t] \in Keys
           /\ object'[key[t]] = data[t] /\ \A k \in Keys \ {key[t]} : object'[k] = object[k]
<1>1. TasksTyped /\ ObjectOK /\ HandsOK(t)
  BY DEF PlainOK
<1>2. data[t] \in Contents /\ key[t] \in Keys
  BY <1>1 DEF HandsOK, Writing, TasksTyped
<1>3. data[t] \in Value /\ data[t] # Corrupt
  BY <1>2, Constants
<1>4. ObjectOK'
  BY <1>1, <1>2, <1>3 DEF ObjectOK, Keys
<1> QED
  BY <1>1, <1>2, <1>4 DEF ObjectOK

\* In a lone operation what a put replaced is what it staged before.
LEMMA PutPrior ==
    ASSUME IInv, NEW t \in Tasks, pc[t] = "put", history = "lone", staged'[t] = staged[t],
           \A k \in Keys \ {key[t]} : object'[k] = object[k]
    PROVE  Good(Prior(t))'
<1>1. staged[t][key[t]] # NotStaged /\ Good(Prior(t))
  BY DEF IInv, PlainOK, HandsOK, UndoOK, LoneOK, Writing
<1>2. Prior(t)' = Prior(t)
  BY <1>1 DEF Prior
<1> QED
  BY <1>1, <1>2 DEF Good

LEMMA OfPut == ASSUME IInv, NEW t \in Tasks, Put(t), Keep PROVE IInv'
<1>1. TasksTyped /\ ObjectOK /\ HandsOK(t) /\ PlainOK
  BY DEF IInv, PlainOK
<1>2. TasksTyped' /\ Others(t)
  BY <1>1 DEF TasksTyped, Put, Goto, Others, Keys
<1>3. /\ kind'[t] = kind[t] /\ served'[t] = served[t] /\ data'[t] = data[t]
      /\ got'[t] = got[t] /\ staged'[t] = staged[t] /\ pc[t] = "put" /\ pending'[t] = pending[t]
      /\ object' = [object EXCEPT ![key[t]] = data[t]] /\ key'[t] = "bytes"
      /\ \/ key[t] = "sidecar" /\ pc'[t] = "track"
         \/ key[t] = "bytes" /\ pc'[t] = "gate"
  BY <1>1 DEF TasksTyped, Put, Goto
<1>4. /\ ObjectOK' /\ data[t] \in Contents /\ key[t] \in Keys
      /\ object'[key[t]] = data[t] /\ \A k \in Keys \ {key[t]} : object'[k] = object[k]
  BY <1>1, <1>3, PutShape
<1>5. HandsOK(t)'
  BY <1>1, <1>3, <1>4 DEF HandsOK, Writing
<1>6. PlainOK'
  BY <1>1, <1>2, <1>4, <1>5, PlainMoves DEF PlainOK, Keep
<1>7. SettledOK'
  <2> SUFFICES ASSUME history # "mixed"
               PROVE  OnlyFillsOverlap' /\ (Quiet' => Good(object')) /\ \A u \in Tasks : OrderedOK(u)'
    BY DEF SettledOK, Keep, Good
  <2>1. OnlyFillsOverlap /\ OrderedOK(t)
    BY DEF IInv, SettledOK
  <2>2. OnlyFillsOverlap'
    BY <1>2, <1>3, <2>1 DEF OnlyFillsOverlap, Others
  <2>3. OrderedOK(t)'
    BY <1>1, <1>3, <1>4, <2>1, Constants DEF OrderedOK, Missed, HandsOK, Writing, Keys
  <2>4. \A u \in Tasks : OrderedOK(u)'
    BY <1>2, <1>3, <1>6, <2>3, PutAmongFills
  <2>5. Quiet' => Good(object')
    <3>1. Quiet' => kind[t] = "get"
      BY <1>1, <1>3 DEF Quiet, HandsOK, Writing
    <3> QED
      BY <1>1, <1>3, <1>4, <2>1, <3>1 DEF OrderedOK, Missed, HandsOK, Writing, Good, Keys
  <2> QED
    BY <2>2, <2>4, <2>5
<1>8. UndoOK'
  <2> SUFFICES ASSUME history = "lone", NEW u \in Tasks PROVE LoneOK(u)'
    BY DEF UndoOK, Keep
  <2>1. \A x \in Tasks \ {t} : pc'[x] = "idle"
    BY <1>2, <1>3 DEF IInv, UndoOK, LoneOK, Others
  <2>2. Good(Prior(t))'
    BY <1>3, <1>4, PutPrior
  <2> QED
    BY <1>3, <2>1, <2>2 DEF LoneOK, Writing
<1> QED
  BY <1>6, <1>7, <1>8 DEF IInv

LEMMA OfGate == ASSUME IInv, NEW t \in Tasks, Gate(t), Keep PROVE IInv'
<1>1. TasksTyped /\ ObjectOK /\ HandsOK(t) /\ PlainOK
  BY DEF IInv, PlainOK
<1>2. data[t] \in Contents /\ pc[t] = "gate" /\ key[t] = "bytes"
  BY <1>1 DEF HandsOK, Writing, Gate
<1>3. CASE data[t] \notin Denied /\ Return(t, IF kind[t] = "get" THEN data[t] ELSE Absent)
  <2>1. PICK answer \in Value : Return(t, answer) /\ answer \notin Denied \cup {Corrupt}
    BY <1>2, <1>3, Constants DEF Value
  <2>2. history # "mixed" => Good(object)
    BY <1>2 DEF IInv, SettledOK, OrderedOK, Good
  <2> QED
    BY <1>1, <2>1, <2>2, Ends DEF Gate, Keep, PlainOK
<1>4. CASE Goto(t, "undo") /\ UNCHANGED <<kind, key, pending, got, data, staged, served>>
  <2>1. TasksTyped' /\ Others(t)
    BY <1>1, <1>4 DEF TasksTyped, Goto, Others
  <2>2. /\ pc'[t] = "undo" /\ kind' = kind /\ served' = served /\ data' = data /\ got' = got
        /\ key' = key /\ staged' = staged /\ object' = object
    BY <1>1, <1>4 DEF TasksTyped, Goto, Gate
  <2>3. HandsOK(t)'
    BY <1>1, <1>2, <2>2 DEF HandsOK, Writing
  <2>4. PlainOK'
    BY <1>1, <2>1, <2>2, <2>3, PlainMoves DEF ObjectOK, PlainOK, Keep
  <2>5. history = "lone" => Good(Prior(t))'
    BY <1>2, <2>2 DEF IInv, UndoOK, LoneOK, Writing, Good, Prior
  <2>6. OrderedOK(t)'
    BY <2>2 DEF OrderedOK
  <2> QED
    BY <1>2, <2>1, <2>2, <2>4, <2>5, <2>6, StepSettles DEF IInv, Keep
<1> QED
  BY <1>3, <1>4 DEF Gate

\* The scan gate of a download fails: what it cached stays.
LEMMA OfFailScan == ASSUME IInv, NEW t \in Tasks, FailScan(t), Keep PROVE IInv'
<1>1. PlainOK /\ HandsOK(t) /\ Absent \in Value /\ Absent \notin Denied \cup {Corrupt}
  BY Constants DEF IInv, PlainOK, Value
<1> QED
  BY <1>1, Ends DEF FailScan, Keep, PlainOK

LEMMA OfFail == ASSUME IInv, NEW t \in Tasks, Fail(t), Keep PROVE IInv'
<1>1. TasksTyped /\ ObjectOK /\ HandsOK(t) /\ PlainOK
  BY DEF IInv, PlainOK
<1>2. TasksTyped' /\ Others(t)
  BY <1>1 DEF TasksTyped, Fail, Goto, Others
<1>3. /\ pc'[t] = "undo" /\ kind' = kind /\ served' = served /\ data' = data /\ got' = got
      /\ key' = key /\ staged' = staged /\ pc[t] \in {"track", "put", "gate"}
  BY <1>1 DEF TasksTyped, Goto, Fail
<1>4. HandsOK(t)'
  BY <1>1, <1>3 DEF HandsOK, Writing
<1>5. pc'[t] = "undo" /\ key'[t] = "sidecar" => staged'[t]["bytes"] = NotStaged
  BY <1>1, <1>3 DEF HandsOK
<1>6. OrderedOK(t)'
  BY <1>3 DEF OrderedOK
<1>7. CASE object' = object
  <2>1. PlainOK'
    BY <1>1, <1>2, <1>4, <1>7, PlainMoves DEF ObjectOK, PlainOK, Keep
  <2>2. history = "lone" => Good(Prior(t))'
    BY <1>3, <1>7 DEF IInv, UndoOK, LoneOK, Writing, Good, Prior
  <2> QED
    BY <1>2, <1>3, <1>5, <1>6, <1>7, <2>1, <2>2, StepSettles DEF IInv, Keep
<1>8. CASE pc[t] = "put" /\ object' = [object EXCEPT ![key[t]] = data[t]]
  <2>1. ObjectOK' /\ \A k \in Keys \ {key[t]} : object'[k] = object[k]
    BY <1>1, <1>8, PutShape
  <2>2. PlainOK'
    BY <1>1, <1>2, <1>4, <2>1, PlainMoves DEF PlainOK, Keep
  <2>3. SettledOK'
    <3> SUFFICES ASSUME history # "mixed"
                 PROVE  OnlyFillsOverlap' /\ (Quiet' => Good(object')) /\ \A u \in Tasks : OrderedOK(u)'
      BY DEF SettledOK, Keep, Good
    <3>1. OnlyFillsOverlap'
      BY <1>2, <1>3 DEF IInv, SettledOK, OnlyFillsOverlap, Others
    <3>2. ~Quiet'
      BY <1>3 DEF Quiet
    <3>3. \A u \in Tasks : OrderedOK(u)'
      BY <1>2, <1>6, <1>8, <2>2, PutAmongFills
    <3> QED
      BY <3>1, <3>2, <3>3
  <2>4. UndoOK'
    <3> SUFFICES ASSUME history = "lone", NEW u \in Tasks PROVE LoneOK(u)'
      BY DEF UndoOK, Keep
    <3>1. \A x \in Tasks \ {t} : pc'[x] = "idle"
      BY <1>2, <1>3 DEF IInv, UndoOK, LoneOK, Others
    <3>2. Good(Prior(t))'
      BY <1>3, <1>8, <2>1, PutPrior
    <3> QED
      BY <1>3, <1>5, <3>1, <3>2 DEF LoneOK, Writing
  <2> QED
    BY <2>2, <2>3, <2>4 DEF IInv
<1> QED
  BY <1>7, <1>8 DEF Fail

-----------------------------------------------------------------------------
(* Steps of an operation that is alone *)

LEMMA AloneSettles ==
    ASSUME PlainOK', NEW t \in Tasks, Others(t), \A u \in Tasks \ {t} : pc[u] = "idle",
           history' # "mixed" => (Quiet' => Good(object)') /\ OrderedOK(t)',
           history' = "lone" /\ pc'[t] \in Writing => Good(Prior(t))',
           history' = "lone" /\ pc'[t] = "undo" /\ key'[t] = "sidecar" /\ staged'[t]["bytes"] # NotStaged =>
             object'["bytes"] = staged'[t]["bytes"]
    PROVE  SettledOK' /\ UndoOK'
<1>1. \A u \in Tasks \ {t} : pc'[u] = "idle" /\ kind'[u] = "none"
  BY DEF Others, PlainOK, HandsOK
<1>2. OnlyFillsOverlap' /\ \A u \in Tasks \ {t} : OrderedOK(u)'
  BY <1>1 DEF OnlyFillsOverlap, OrderedOK, Missed
<1>3. SettledOK'
  BY <1>2 DEF SettledOK
<1>4. history' = "lone" => \A u \in Tasks : LoneOK(u)'
  BY <1>1 DEF LoneOK, Writing
<1> QED
  BY <1>3, <1>4 DEF UndoOK

\* The cache command deletes the bytes before the sidecar.
LEMMA DeleteMoves ==
    ASSUME IInv, NEW t \in Tasks, kind[t] = "delete", pc[t] \in {"exists", "delete"}, Keep, NextDelete(t),
           \/ object' = object /\ object[key[t]] = Absent
           \/ object' = [object EXCEPT ![key[t]] = Absent]
    PROVE  IInv'
<1>1. TasksTyped /\ ObjectOK /\ HandsOK(t) /\ PlainOK /\ key[t] \in Keys
  BY DEF IInv, PlainOK, TasksTyped
<1>2. /\ ObjectOK' /\ object'[key[t]] = Absent
      /\ \A k \in Keys \ {key[t]} : object'[k] = object[k]
  <2>1. Absent \in Value /\ Absent # Corrupt /\ "sidecar" \in Keys
    BY Constants DEF Value, Keys
  <2>2. CASE object' = object /\ object[key[t]] = Absent
    BY <1>1, <2>2 DEF ObjectOK
  <2>3. CASE object' = [object EXCEPT ![key[t]] = Absent]
    BY <1>1, <2>1, <2>3 DEF ObjectOK
  <2> QED
    BY <2>2, <2>3
<1>3. history # "mixed" => (Quiet => Good(object)) /\ OrderedOK(t) /\ \A u \in Tasks \ {t} : pc[u] = "idle"
  BY DEF IInv, SettledOK, OnlyFillsOverlap
<1>4. CASE /\ key[t] = "bytes" /\ key' = [key EXCEPT ![t] = "sidecar"] /\ Goto(t, "exists")
           /\ UNCHANGED <<kind, pending, got, data, staged, served>>
  <2>1. TasksTyped' /\ Others(t)
    BY <1>1, <1>4 DEF TasksTyped, Goto, Others, Keys
  <2>2. /\ pc'[t] = "exists" /\ kind'[t] = "delete" /\ key'[t] = "sidecar" /\ got' = got
        /\ staged' = staged /\ served' = served /\ object'["bytes"] = Absent
    BY <1>1, <1>2, <1>4 DEF TasksTyped, Goto
  <2>3. HandsOK(t)'
    BY <1>1, <2>2 DEF HandsOK, Writing
  <2>4. PlainOK'
    BY <1>1, <1>2, <2>1, <2>3, PlainMoves DEF PlainOK, Keep
  <2>5. Good(object)' /\ OrderedOK(t)'
    BY <2>2 DEF Good, OrderedOK, Missed
  <2>6. CASE history = "mixed"
    BY <2>4, <2>6 DEF IInv, SettledOK, UndoOK, Keep
  <2>7. CASE history # "mixed"
    <3>1. SettledOK' /\ UndoOK'
      BY <1>3, <2>1, <2>2, <2>4, <2>5, <2>7, AloneSettles DEF Keep, Writing
    <3> QED
      BY <2>4, <3>1 DEF IInv
  <2> QED
    BY <2>6, <2>7
<1>5. CASE key[t] = "sidecar" /\ Return(t, Absent)
  <2>1. TasksTyped' /\ Others(t) /\ HandsOK(t)' /\ pc'[t] = "idle" /\ kind'[t] = "none"
    BY <1>1, <1>5, Constants, Returns DEF Value
  <2>2. PlainOK'
    BY <1>1, <1>2, <2>1, PlainMoves DEF PlainOK, Keep
  <2>3. CASE history = "mixed"
    BY <2>2, <2>3 DEF IInv, SettledOK, UndoOK, Keep
  <2>4. CASE history # "mixed"
    <3>1. object["bytes"] = Absent
      BY <1>3, <1>5, <2>4 DEF OrderedOK
    <3>2. object'["bytes"] = Absent
      BY <1>2, <1>5, <3>1 DEF Keys
    <3>3. Good(object)' /\ OrderedOK(t)'
      BY <2>1, <3>2 DEF Good, OrderedOK, Missed
    <3>4. SettledOK' /\ UndoOK'
      BY <1>3, <2>1, <2>2, <2>4, <3>3, AloneSettles DEF Keep, Writing
    <3> QED
      BY <2>2, <3>4 DEF IInv
  <2> QED
    BY <2>3, <2>4
<1> QED
  BY <1>4, <1>5 DEF NextDelete

LEMMA OfExists == ASSUME IInv, NEW t \in Tasks, Exists(t), Keep PROVE IInv'
<1>1. TasksTyped /\ ObjectOK /\ HandsOK(t) /\ PlainOK /\ kind[t] = "delete"
  BY DEF IInv, PlainOK, HandsOK, Exists
<1>2. CASE object[key[t]] = Absent /\ NextDelete(t)
  BY <1>1, <1>2, DeleteMoves DEF Exists
<1>3. CASE Goto(t, "delete") /\ UNCHANGED <<kind, key, pending, got, data, staged, served>>
  <2>1. TasksTyped' /\ Others(t)
    BY <1>1, <1>3 DEF TasksTyped, Goto, Others
  <2>2. /\ pc'[t] = "delete" /\ kind' = kind /\ served' = served /\ data' = data /\ got' = got
        /\ key' = key /\ staged' = staged /\ object' = object /\ pc[t] = "exists"
    BY <1>1, <1>3 DEF TasksTyped, Goto, Exists
  <2>3. HandsOK(t)'
    BY <1>1, <2>2 DEF HandsOK, Writing
  <2>4. PlainOK'
    BY <1>1, <2>1, <2>2, <2>3, PlainMoves DEF ObjectOK, PlainOK, Keep
  <2>5. history # "mixed" => OrderedOK(t)'
    BY <1>1, <2>2 DEF IInv, SettledOK, OrderedOK, Missed
  <2>6. CASE history = "mixed"
    BY <2>4, <2>6 DEF IInv, SettledOK, UndoOK, Keep
  <2>7. CASE history # "mixed"
    <3>1. (Quiet => Good(object)) /\ \A u \in Tasks \ {t} : pc[u] = "idle"
      BY <1>1, <2>2, <2>7 DEF IInv, SettledOK, OnlyFillsOverlap
    <3>2. Quiet' => Good(object)'
      BY <2>1, <2>2, <3>1 DEF Quiet, Others, Good
    <3>3. SettledOK' /\ UndoOK'
      BY <2>1, <2>2, <2>4, <2>5, <3>1, <3>2, AloneSettles DEF Keep, Writing
    <3> QED
      BY <2>4, <3>3 DEF IInv
  <2> QED
    BY <2>6, <2>7
<1> QED
  BY <1>2, <1>3 DEF Exists

LEMMA OfDelete == ASSUME IInv, NEW t \in Tasks, Delete(t), Keep PROVE IInv'
  BY DeleteMoves DEF Delete, IInv, PlainOK, HandsOK

\* The next write to undo.
LEMMA UndoShape ==
    ASSUME PlainOK, NEW t \in Tasks, pc[t] = "undo", UndoNext(t)
    PROVE  /\ TasksTyped' /\ Others(t) /\ HandsOK(t)'
           /\ \/ /\ key[t] = "bytes" /\ key'[t] = "sidecar" /\ pc'[t] = "undo"
                 /\ kind' = kind /\ staged' = staged
              \/ key[t] = "sidecar" /\ pc'[t] = "idle" /\ kind'[t] = "none"
<1>1. TasksTyped /\ HandsOK(t)
  BY DEF PlainOK
<1>2. CASE key[t] = "bytes" /\ key' = [key EXCEPT ![t] = "sidecar"]
           /\ UNCHANGED <<pc, kind, pending, got, data, staged, served>>
  <2>1. TasksTyped' /\ Others(t) /\ key'[t] = "sidecar"
    BY <1>1, <1>2 DEF TasksTyped, Others, Keys
  <2>2. HandsOK(t)'
    BY <1>1, <1>2, <2>1 DEF HandsOK, Writing
  <2> QED
    BY <1>2, <2>1, <2>2
<1>3. CASE key[t] = "sidecar" /\ Return(t, Absent)
  BY <1>1, <1>3, Constants, Returns DEF Value
<1> QED
  BY <1>2, <1>3 DEF UndoNext

\* Undone from the last write to the first, a lone operation leaves what it found.
LEMMA OfUndo ==
    ASSUME IInv, NEW t \in Tasks, Undo(t), Enter(IF history = "lone" THEN "lone" ELSE "mixed")
    PROVE  IInv'
<1> DEFINE previous == staged[t][key[t]]
<1>1. TasksTyped /\ ObjectOK /\ HandsOK(t) /\ PlainOK /\ key[t] \in Keys /\ pc[t] = "undo"
  BY DEF IInv, PlainOK, TasksTyped, Undo
<1>2. /\ history' \in {"lone", "mixed"} /\ (history' = "lone" => history = "lone")
  BY <1>1 DEF Enter, PlainOK
<1>3. /\ TasksTyped' /\ Others(t) /\ HandsOK(t)'
      /\ \/ /\ key[t] = "bytes" /\ key'[t] = "sidecar" /\ pc'[t] = "undo"
            /\ kind' = kind /\ staged' = staged
         \/ key[t] = "sidecar" /\ pc'[t] = "idle" /\ kind'[t] = "none"
  BY <1>1, UndoShape DEF Undo
<1>4. \/ previous # NotStaged /\ object' = [object EXCEPT ![key[t]] = previous]
      \/ previous = NotStaged /\ object' = object
  BY DEF Undo
<1>5. /\ object'[key[t]] = Prior(t)[key[t]]
      /\ \A k \in Keys \ {key[t]} : object'[k] = object[k]
  BY <1>1, <1>4 DEF ObjectOK, Prior
<1>6. ObjectOK'
  <2>1. previous \in Value \cup {NotStaged} /\ (key[t] = "sidecar" => previous # Corrupt)
    BY <1>1 DEF TasksTyped, HandsOK
  <2> HIDE DEF previous
  <2> QED
    BY <1>1, <1>4, <2>1 DEF ObjectOK, Keys
<1>7. PlainOK'
  BY <1>1, <1>2, <1>3, <1>6, PlainMoves
<1>8. CASE history' = "mixed"
  BY <1>7, <1>8 DEF IInv, SettledOK, UndoOK
<1>9. CASE history' = "lone"
  <2>1. LoneOK(t) /\ \A u \in Tasks \ {t} : pc[u] = "idle"
    BY <1>1, <1>2, <1>9 DEF IInv, UndoOK, LoneOK
  <2>2. Good(Prior(t))
    BY <1>1, <2>1 DEF LoneOK, Writing
  <2>3. CASE key[t] = "bytes" /\ key'[t] = "sidecar" /\ pc'[t] = "undo" /\ kind' = kind /\ staged' = staged
    <3>1. Prior(t)' = Prior(t)
      BY <1>1, <1>4, <1>5, <2>3 DEF Prior, Keys
    <3>2. staged[t]["bytes"] # NotStaged => object'["bytes"] = staged'[t]["bytes"]
      BY <1>5, <2>3 DEF Prior, Keys
    <3>3. Good(Prior(t))' /\ OrderedOK(t)' /\ ~Quiet'
      BY <2>2, <2>3, <3>1 DEF Good, OrderedOK, Quiet
    <3>4. SettledOK' /\ UndoOK'
      BY <1>3, <1>7, <2>1, <2>3, <3>2, <3>3, AloneSettles
    <3> QED
      BY <1>7, <3>4 DEF IInv
  <2>4. CASE key[t] = "sidecar" /\ pc'[t] = "idle" /\ kind'[t] = "none"
    <3>1. object["bytes"] = Prior(t)["bytes"]
      BY <1>1, <2>1, <2>4 DEF LoneOK, Prior, Keys
    <3>2. object'["bytes"] = Prior(t)["bytes"] /\ object'["sidecar"] = Prior(t)["sidecar"]
      BY <1>5, <2>4, <3>1 DEF Keys
    <3>3. Good(object)' /\ OrderedOK(t)'
      BY <2>2, <2>4, <3>2 DEF Good, OrderedOK, Missed
    <3>4. SettledOK' /\ UndoOK'
      BY <1>3, <1>7, <2>1, <2>4, <3>3, AloneSettles DEF Writing
    <3> QED
      BY <1>7, <3>4 DEF IInv
  <2> QED
    BY <1>3, <2>3, <2>4
<1> QED
  BY <1>2, <1>8, <1>9

-----------------------------------------------------------------------------
(* What mixes the history, and the theorems *)

LEMMA OfFailUndo == ASSUME IInv, NEW t \in Tasks, FailUndo(t), Enter("mixed") PROVE IInv'
<1>1. TasksTyped' /\ Others(t) /\ HandsOK(t)' /\ history' = "mixed" /\ PlainOK
  BY UndoShape DEF FailUndo, Enter, IInv
<1>2. PlainOK'
  BY <1>1, PlainMoves DEF FailUndo, ObjectOK, PlainOK
<1> QED
  BY <1>1, <1>2 DEF IInv, SettledOK, UndoOK

\* A publish or a rollback that is cut off mixes the history, a download or a
\* deletion leaves what the next one makes good.
LEMMA OfCancel ==
    ASSUME IInv, NEW t \in Tasks, Cancel(t),
           Enter(IF kind[t] = "publish" \/ pc[t] = "undo" THEN "mixed" ELSE history)
    PROVE  IInv'
<1>1. PlainOK /\ Absent \in Value /\ Absent \notin Denied \cup {Corrupt}
  BY Constants DEF IInv, Value
<1>2. /\ history' \in {history, "mixed"}
      /\ history' # "mixed" => kind[t] # "publish" /\ pc[t] # "undo"
  BY DEF Enter
<1>3. history' \in {"lone", "fills", "mixed"}
  BY <1>1, <1>2 DEF PlainOK
<1> QED
  BY <1>1, <1>2, <1>3, Ends DEF Cancel

LEMMA OfRot == ASSUME IInv, Rot, Enter("mixed") PROVE IInv'
<1>1. history' = "mixed" /\ PlainOK
  BY DEF Enter, IInv
<1>2. ObjectOK'
  BY <1>1 DEF Rot, ObjectOK, PlainOK, Keys, Value
<1>3. PlainOK'
  BY <1>1, <1>2 DEF PlainOK, TasksTyped, HandsOK, Rot
<1> QED
  BY <1>1, <1>3 DEF IInv, SettledOK, UndoOK

LEMMA InitInv == CacheInit => IInv
<1> SUFFICES ASSUME CacheInit PROVE IInv
  OBVIOUS
<1>1. TasksTyped /\ ObjectOK
  BY Constants DEF CacheInit, TasksTyped, ObjectOK, Keys, Value, Nothing
<1>2. \A t \in Tasks : HandsOK(t)
  BY Constants DEF CacheInit, HandsOK, Writing, Nothing, Keys, Value
<1>3. \A t \in Tasks : OrderedOK(t) /\ LoneOK(t)
  BY DEF CacheInit, OrderedOK, LoneOK, Missed, Writing
<1>4. OnlyFillsOverlap /\ Good(object)
  BY DEF CacheInit, OnlyFillsOverlap, Good, Keys
<1> QED
  BY <1>1, <1>2, <1>3, <1>4 DEF IInv, PlainOK, SettledOK, UndoOK, CacheInit

LEMMA StutterInv == ASSUME IInv, UNCHANGED cacheVars PROVE IInv'
<1>1. PlainOK'
  BY DEF IInv, PlainOK, TasksTyped, ObjectOK, HandsOK, cacheVars
<1>2. SettledOK'
  BY DEF IInv, SettledOK, OnlyFillsOverlap, Quiet, Good, OrderedOK, Missed, cacheVars
<1>3. UndoOK'
  BY DEF IInv, UndoOK, LoneOK, Good, Prior, cacheVars
<1> QED
  BY <1>1, <1>2, <1>3 DEF IInv

\* IInv is inductive: every step of every task keeps it.
LEMMA NextInv == IInv /\ [CacheNext]_cacheVars => IInv'
<1> SUFFICES ASSUME IInv, [CacheNext]_cacheVars PROVE IInv'
  OBVIOUS
<1>1. ASSUME NEW t \in Tasks, Operate(t), Keep PROVE IInv'
  BY <1>1, OfGet, OfServeCached, OfFetchUpstream, OfTrack, OfPut, OfGate, OfFail, OfFailScan,
     OfExists, OfDelete DEF Operate
<1>2. ASSUME NEW t \in Tasks, StartGet(t) \/ StartDelete(t), Overlap(t) PROVE IInv'
  BY <1>2, OfStartGet, OfStartDelete
<1>3. ASSUME NEW t \in Tasks, NEW c \in Publications, StartPublish(t, c), Overlap(t) PROVE IInv'
  BY <1>3, OfStartPublish
<1>4. ASSUME NEW t \in Tasks, Undo(t), Enter(IF history = "lone" THEN "lone" ELSE "mixed") PROVE IInv'
  BY <1>4, OfUndo
<1>5. ASSUME NEW t \in Tasks, FailUndo(t), Enter("mixed") PROVE IInv'
  BY <1>5, OfFailUndo
<1>6. ASSUME NEW t \in Tasks, Cancel(t),
             Enter(IF kind[t] = "publish" \/ pc[t] = "undo" THEN "mixed" ELSE history)
      PROVE  IInv'
  BY <1>6, OfCancel
<1> QED
  BY <1>1, <1>2, <1>3, <1>4, <1>5, <1>6, OfRot, StutterInv DEF CacheNext

LEMMA TypeFollows == IInv => CacheTypeOK
  BY DEF IInv, PlainOK, TasksTyped, ObjectOK, HandsOK, Writing, CacheTypeOK

\* Every variable keeps its type in every execution.
THEOREM CacheTyped == CacheSpec => []CacheTypeOK
  BY InitInv, NextInv, TypeFollows, PTL DEF CacheSpec

\* A download is answered neither with corrupt bytes nor with refused ones
\* (get_artifact), whatever it meets on its way.
THEOREM Sound == CacheSpec => []ServedIsSound
<1>1. IInv => ServedIsSound
  BY DEF IInv, PlainOK, HandsOK, ServedIsSound
<1> QED
  BY <1>1, InitInv, NextInv, PTL DEF CacheSpec

\* Fills that overlap, and lone operations, leave an artifact that the next download
\* can serve (put_and_track, rollback_staged_writes, delete_cached_artifact).
THEOREM CacheReadable == CacheSpec => []SettledIsReadable
<1>1. IInv => SettledIsReadable
  BY DEF IInv, PlainOK, HandsOK, SettledOK, Quiet, Good, SettledIsReadable
<1> QED
  BY <1>1, InitInv, NextInv, PTL DEF CacheSpec
=============================================================================
