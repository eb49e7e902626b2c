----------------------------- MODULE MCRequests -----------------------------
EXTENDS Requests, TLC
CONSTANTS flat, pub, shared, k1, k2, walker, publisher

Ab == <<"A", "b">>
ab == <<"a", "b">>
a_b == <<"a_b">>
c_1 == <<"c", "1">>
Spelled == {Ab, ab, a_b, c_1, <<"c">>}
LowerCase == [n \in Spelled |-> IF n = Ab THEN ab ELSE n]
Folded == [n \in Spelled |-> IF n \in {Ab, a_b} THEN ab ELSE n]
AllNames == {Ab, ab}
Digits == {"1", "2", "0", "1.0.0"}
InOrder == [c \in Coordinates |->
    (IF c.ecosystem = "npm" THEN 0 ELSE 2) + (IF c.name = Ab THEN 0 ELSE 1)]

Entry(t, scopes, ecosystems, packages) ==
    [token |-> t, scopes |-> scopes, ecosystems |-> ecosystems, packages |-> packages]

\* A publisher of one package, one who may only yank in an ecosystem and one who
\* may do everything with one name; the flat token is also an admin's somewhere.
Scoped ==
    <<Entry(pub, {"publish", "read"}, {"npm"}, {Ab}), Entry(shared, {"yank", "read"}, {"pypi"}, {})>>
Repeated ==
    <<Entry(shared, {"yank"}, {}, {ab}), Entry(pub, {"admin"}, {"npm", "pypi"}, {ab}),
      Entry(shared, {"publish"}, {}, {})>>

RsaKey == [kty |-> "RSA", kid |-> k1, key |-> "rsa"]
EcKey == [kty |-> "EC", kid |-> k2, key |-> "ec"]
OctKey == [kty |-> "oct", kid |-> k1, key |-> "rsa"]

Oidc(jwks, leeway) ==
    [enabled |-> TRUE, issuer |-> "idp", audience |-> "starmetal", leeway |-> leeway, jwks |-> jwks]

Public == DefaultUpstreams["pypi"]
Off == [Public EXCEPT !.enabled = FALSE]
Private == [Public EXCEPT !.url = [scheme |-> "http", host |-> "private"]]

Signing(mode, status, private) ==
    [enabled |-> TRUE, mode |-> mode,
     keys |-> {[status |-> status, public |-> TRUE, private |-> private]}]

File ==
    [Default EXCEPT !.upstream = <<>>, !.metadata = [enabled |-> TRUE, database |-> "db"],
                   !.publishing = [enabled |-> TRUE, tokens |-> Scoped]]

\* A registry with its read tokens, its registries by default but for a table under
\* another spelling.
Guarded ==
    [File EXCEPT !.auth = [enabled |-> TRUE, tokens |-> {flat}], !.oidc = Oidc(<<EcKey>>, 0),
                 !.upstream = "crates" :> Public @@ "cargo" :> Off,
                 !.git = {"go"}, !.limits = {"npm"}]

\* A token in two sections and twice in one; a declared proxy with a group over it and
\* one by another name of a registry that is switched off, the other tables by default.
Declared ==
    [File EXCEPT !.auth = [enabled |-> TRUE, tokens |-> {flat, shared}],
                 !.admin = [enabled |-> TRUE, tokens |-> {shared}],
                 !.publishing.tokens = Repeated, !.oidc = Oidc(<<OctKey, RsaKey, EcKey>>, 1),
                 !.upstream = "npm" :> Off,
                 !.signing = Signing("sign_and_verify", "active", TRUE), !.supply.requires = TRUE,
                 !.repositories = {Proxy("pypi", "pypi", "declared"), Proxy("internal", "npm", "declared"),
                     [Proxy("all", "pypi", "declared") EXCEPT !.kind = "group", !.members = {"pypi"}]}]

\* Open to read, with one registry switched off.
Open ==
    [File EXCEPT !.admin = [enabled |-> TRUE, tokens |-> {flat}], !.oidc = Oidc(<<EcKey, RsaKey>>, 1),
                 !.upstream = "pypi" :> Off]

\* Files that never start: a private upstream, signatures that nothing signs, a
\* signing key without its private half, a database without an address, limits for
\* a registry by another name, no token to read or to write with, nobody to trust,
\* a group over a group, and two mounts of one path.
Refused ==
    ("private.toml" :> [File EXCEPT !.upstream = "npm" :> Private])
    @@ ("unsigned.toml" :> [File EXCEPT !.supply.requires = TRUE])
    @@ ("keyless.toml" :> [File EXCEPT !.signing = Signing("sign_only", "active", FALSE)])
    @@ ("nowhere.toml" :> [File EXCEPT !.metadata.database = None])
    @@ ("alias.toml" :> [File EXCEPT !.limits = {"crates"}])
    @@ ("tokenless.toml" :> [File EXCEPT !.auth.enabled = TRUE])
    @@ ("readers.toml" :> [File EXCEPT !.publishing.tokens = <<Entry(pub, {"read"}, {}, {})>>])
    @@ ("trustless.toml" :> [File EXCEPT !.oidc.enabled = TRUE])
    @@ ("nested.toml" :> [File EXCEPT !.repositories =
           {[Proxy(n, "npm", "declared") EXCEPT !.kind = "group", !.members = {"npm"}] :
               n \in {"npm", "all"}}])
    @@ ("twice.toml" :> [File EXCEPT !.git = {"go"}, !.upstream = "go" :> Public])

AllFiles ==
    ("starmetal.toml" :> Guarded) @@ ("declared.toml" :> Declared) @@ ("open.toml" :> Open)
    @@ Refused

NoOverride == [enabled |-> None, url |-> None, artifact_url |-> None]
Options_(path, overrides) == [no_config |-> FALSE, path |-> path, overrides |-> overrides]
AllOptions ==
    {Options_(path, <<>>) : path \in DOMAIN AllFiles \cup {None, "missing.toml"}}
    \cup {Options_("open.toml", "pypi" :> [NoOverride EXCEPT !.enabled = TRUE]),
          Options_(None, "other" :> [NoOverride EXCEPT !.enabled = TRUE]),
          [Options_(None, <<>>) EXCEPT !.no_config = TRUE]}

Jwt(signer, exp, sub) ==
    [alg |-> "RS256", kid |-> k1, signer |-> signer, exp |-> exp, iss |-> "idp",
     aud |-> {"starmetal", "other"}, sub |-> sub]
Signed(signer, exp, sub) == [kind |-> "jwt", jwt |-> Jwt(signer, exp, sub)]
Alice == <<"alice", 0>>

Token(t) == [kind |-> "token", token |-> t]
AllCredentials ==
    {"bearer" :> Token(t) : t \in {flat, pub, shared}}
    \cup {"bearer" :> Signed("rsa", 4, Alice), "bearer" :> Signed("ec", 5, LegacyAdmin)}
    \cup {"bearer" :> Signed("rsa", 5, sub) : sub \in {LegacyAdmin, PublishToken(2)}}
    \cup {"basic" :> Token(shared), "npm" :> Token(pub)}

\* Package files: the manifest of the package, one of an example in it, and files
\* that are none.
Entry_(name, version) ==
    [manifest |-> TRUE, outside |-> FALSE, past |-> FALSE, name |-> name, version |-> version]
Example == Entry_(<<"c">>, <<"2", "beta">>)
Plain == [Entry_(<<>>, <<>>) EXCEPT !.manifest = FALSE]
Archives(own) ==
    IF own.version # <<"1.0.0">> THEN {<<Plain, own, Example>>}
    ELSE {<<own>>, <<Plain, own, Example>>, <<own, [Plain EXCEPT !.outside = TRUE]>>,
          <<[Plain EXCEPT !.outside = TRUE], own>>, <<Plain, [own EXCEPT !.past = TRUE]>>, <<Plain>>}

Package(p, archive) == [ecosystem |-> p.ecosystem, name |-> p.name, version |-> p.version, archive |-> archive]
Packages(S) ==
    UNION {{Package(p, archive) : archive \in Archives(Entry_(p.name, p.version))} :
           p \in {q \in S : q.ecosystem \in Archived}}
    \cup {Package(p, <<>>) : p \in {q \in S : q.ecosystem \notin Archived}}

Versions == {<<"1.0.0">>, <<"2", "beta">>}
Usual ==
    Packages([ecosystem : {"npm", "pypi", "hex", "rubygems", "pub", "nuget"},
              name : {Ab, a_b, c_1}, version : Versions]
    \cup [ecosystem : {"npm", "pypi", "nuget"}, name : {Ab, ab}, version : {<<"1", "0">>}]
    \cup [ecosystem : {"cargo"}, name : {ab, a_b, c_1}, version : Versions \cup {<<"1", "0">>}])

\* And what is ordinary too: a crate in mixed case, a version with a hyphen before a
\* digit or without any digit before its hyphens, an example's manifest before the
\* package's.
MixedCase == Packages([ecosystem : {"cargo"}, name : {Ab}, version : Versions])
Tailed ==
    Packages([ecosystem : {"hex", "rubygems", "pub"}, name : {ab, c_1},
              version : {<<"1", "0">>, <<"beta">>}])
ExampleFirst ==
    {Package([ecosystem |-> "pub", name |-> ab, version |-> <<"1.0.0">>],
             <<Example, Entry_(ab, <<"1.0.0">>)>>)}
AllAnnounced == Usual \cup MixedCase \cup Tailed \cup ExampleFirst
=============================================================================
