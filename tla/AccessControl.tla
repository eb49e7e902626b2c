--------------------------- MODULE AccessControl ---------------------------
(***************************************************************************)
(* Who may do what: starmetal-authz migrates the token sections of the     *)
(* configuration into grants and evaluates them, starmetal-oidc validates  *)
(* signed tokens against a static key set, and a CompositeAuthenticator    *)
(* asks the one before the other.  Only operators: the requests that use   *)
(* them are in module Requests.                                            *)
(*                                                                         *)
(* Every resource of the code is in the one default namespace and every    *)
(* principal has system scope, so namespaces are left out.  A query        *)
(* predicate is the set of its alternatives, each the set of its terms: {} *)
(* selects nothing and Always has one alternative without terms.           *)
(***************************************************************************)
EXTENDS Integers, Sequences, FiniteSets, Functions

CONSTANTS
    Ecosystems, Names,
    Wildcard,       \* the wildcard of a pattern
    None            \* no principal, no key, no credential

ASSUME WildcardAssumption == Wildcard \notin Ecosystems \cup Names

Coordinates == [ecosystem : Ecosystems, name : Names]

\* The content actions, and all of them.
Content == {"browse", "read", "edit", "add", "delete"}
Actions == Content \cup {"admin"}

-----------------------------------------------------------------------------
(* Patterns and predicates                                                 *)

AnyRepository == [ecosystem |-> Wildcard, name |-> Wildcard]
Patterns == [ecosystem : Ecosystems \cup {Wildcard}, name : Names \cup {Wildcard}]

Matches(pattern, c) ==
    /\ pattern.ecosystem \in {Wildcard, c.ecosystem}
    /\ pattern.name \in {Wildcard, c.name}

Terms(pattern) ==
    {f \in {"ecosystem", "name"} : pattern[f] # Wildcard}

\* A plausible slip: a name in several ecosystems is one name.
PatternToName(pattern) == [f \in Terms(pattern) \ {"ecosystem"} |-> pattern[f]]

PatternToPredicate(pattern) == [f \in Terms(pattern) |-> pattern[f]]

Evaluate(predicate, c) ==
    \E clause \in predicate : \A f \in DOMAIN clause : clause[f] = c[f]

Unrestricted == [f \in {} |-> Wildcard]
Always == {Unrestricted}

-----------------------------------------------------------------------------
(* The migration of the configuration's sections into grants               *)

MapTokenScope == [read |-> "read", publish |-> "add", yank |-> "edit", admin |-> "admin"]

OrAny(S) == IF S = {} THEN {Wildcard} ELSE S

PublishTokenScopes(entry) ==
    {[action |-> MapTokenScope[s], repository |-> [ecosystem |-> e, name |-> n]] :
        s \in entry.scopes, e \in OrAny(entry.ecosystems), n \in OrAny(entry.packages)}

NoGrants == [admins |-> {}, views |-> {}, scopes |-> {}]

AdminGrants ==
    [NoGrants EXCEPT !.admins = {AnyRepository},
                     !.views = {[repository |-> AnyRepository, actions |-> Content]}]

FlatGrants ==
    [NoGrants EXCEPT !.views = {[repository |-> AnyRepository, actions |-> {"browse", "read"}]}]

\* A principal is its id, with an index for publish-token:i; a signed token's is its
\* subject, whatever that is, and may be one of these.
LegacyAdmin == <<"legacy-admin", 0>>
LegacyBearer == <<"legacy-bearer", 0>>
PublishToken(i) == <<"publish-token", i>>

Publishers(config) == IF config.publishing.enabled THEN DOMAIN config.publishing.tokens ELSE {}

\* Grants by principal, whichever authenticator named it.
Grants(config, principal) ==
    IF principal = LegacyAdmin /\ config.admin.enabled THEN AdminGrants
    ELSE IF principal = LegacyBearer /\ config.auth.enabled THEN FlatGrants
    ELSE IF \E i \in Publishers(config) : principal = PublishToken(i)
         THEN [NoGrants EXCEPT
                 !.scopes = PublishTokenScopes(config.publishing.tokens[principal[2]])]
    ELSE NoGrants

\* The first entry of a token: admin, then publish tokens in their order, then flat.
Authenticate(config, token) ==
    LET entries == {i \in Publishers(config) : config.publishing.tokens[i].token = token}
    IN  IF config.admin.enabled /\ token \in config.admin.tokens THEN LegacyAdmin
        ELSE IF entries # {} THEN PublishToken(CHOOSE i \in entries : \A j \in entries : i <= j)
        ELSE IF config.auth.enabled /\ token \in config.auth.tokens THEN LegacyBearer
        ELSE None

-----------------------------------------------------------------------------
(* Decisions.  A concrete resource is a coordinate; a listing is about the *)
(* whole namespace and its decision is a predicate, {} when it is denied.  *)

AdminCovers(g, c) == \E admin \in g.admins : Matches(admin, c)
AdminSomewhere(g) == g.admins # {}

\* A view has its actions, and the scope of a token one, or any when it is admin.
Viewed(view, action, c) == Matches(view.repository, c) /\ action \in view.actions
InScope(scope, action, c) == scope.action \in {"admin", action} /\ Matches(scope.repository, c)

ViewAllows(g, action, c) == \E view \in g.views : Viewed(view, action, c)
ScopeAllows(g, action, c) == \E scope \in g.scopes : InScope(scope, action, c)

AuthorizeContent(g, action, c) ==
    AdminCovers(g, c) \/ ViewAllows(g, action, c) \/ ScopeAllows(g, action, c)

Clauses(g, action) ==
    {PatternToPredicate(view.repository) :
        view \in {v \in g.views : IF action = "browse" THEN v.actions # {} ELSE action \in v.actions}}
    \cup
    {PatternToPredicate(scope.repository) :
        scope \in {s \in g.scopes : action = "browse" \/ s.action \in {"admin", action}}}

AuthorizeListing(g, action) ==
    IF AdminSomewhere(g) \/ Unrestricted \in Clauses(g, action) THEN Always ELSE Clauses(g, action)

AuthorizeAdmin(g) == AdminSomewhere(g)

-----------------------------------------------------------------------------
(* OIDC: a signed token against a static key set                           *)

\* Keys of an unsupported type are skipped when the set is parsed.
Parsed(jwks) == SelectSeq(jwks, LAMBDA k : k.kty \in {"RSA", "EC"})

KeyType == [RS256 |-> "RSA", ES256 |-> "EC"]

\* The first key with the kid; without one, the only key there is.
SelectKey(jwks, kid) ==
    LET keys == Parsed(jwks)
        named == {i \in DOMAIN keys : keys[i].kid = kid}
    IN  IF kid # None
        THEN IF named = {} THEN None ELSE keys[CHOOSE i \in named : \A j \in named : i <= j]
        ELSE IF Len(keys) = 1 THEN keys[1] ELSE None

Verify(key, jwt) == key # None /\ key.kty = KeyType[jwt.alg] /\ key.key = jwt.signer

ValidateClaims(oidc, jwt, now) ==
    /\ now <= jwt.exp + oidc.leeway
    /\ jwt.iss = oidc.issuer
    /\ oidc.audience \in jwt.aud

Validate(oidc, jwt, now) ==
    IF /\ jwt.alg \in DOMAIN KeyType
       /\ Verify(SelectKey(oidc.jwks, jwt.kid), jwt)
       /\ ValidateClaims(oidc, jwt, now)
       /\ jwt.sub # None
    THEN jwt.sub
    ELSE None

\* A credential is a flat token or, when it has three parts, a signed one: the
\* OIDC backend is asked first, and what it does not take goes to the flat tokens.
Principal(config, credential, now) ==
    IF credential.kind = "jwt"
    THEN IF config.oidc.enabled THEN Validate(config.oidc, credential.jwt, now) ELSE None
    ELSE IF credential.kind = "token" THEN Authenticate(config, credential.token)
    ELSE None

-----------------------------------------------------------------------------
(* What the sections say, as their documentation puts it: the reference    *)

EntryPermits(entry, action, c) ==
    /\ \E s \in entry.scopes : s = "admin" \/ MapTokenScope[s] = action
    /\ entry.ecosystems = {} \/ c.ecosystem \in entry.ecosystems
    /\ entry.packages = {} \/ c.name \in entry.packages

\* By the documented precedence: admin, then the first publish entry, then flat.
Permits(config, token, action, c) ==
    IF config.admin.enabled /\ token \in config.admin.tokens THEN TRUE
    ELSE IF \E i \in Publishers(config) : config.publishing.tokens[i].token = token
    THEN \E i \in Publishers(config) :
           LET entry == config.publishing.tokens[i] IN
           /\ entry.token = token
           /\ \A j \in Publishers(config) : config.publishing.tokens[j].token = token => i <= j
           /\ EntryPermits(entry, action, c)
    ELSE config.auth.enabled /\ token \in config.auth.tokens /\ action \in {"browse", "read"}

\* A signed token is in no section; its subject may be the principal of one.
SubjectPermits(config, subject, action, c) ==
    \/ subject = LegacyAdmin /\ config.admin.enabled
    \/ subject = LegacyBearer /\ config.auth.enabled /\ action \in {"browse", "read"}
    \/ \E i \in Publishers(config) :
         subject = PublishToken(i) /\ EntryPermits(config.publishing.tokens[i], action, c)
=============================================================================
