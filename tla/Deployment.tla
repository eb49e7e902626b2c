----------------------------- MODULE Deployment -----------------------------
(***************************************************************************)
(* From configuration files to a running server: the lookup of the file,   *)
(* the command line's overrides, the validation, what the runtime attaches *)
(* and the repositories that are mounted.  Only operators: module Requests *)
(* starts and stops servers with them.  All features are compiled in.      *)
(*                                                                         *)
(* A URL is None when it does not parse, and a scheme and a host           *)
(* otherwise; a map that only its keys matter of is the set of its keys.   *)
(***************************************************************************)
EXTENDS AccessControl, Addressing

-----------------------------------------------------------------------------
(* The configuration of no file: everything can be read, nothing written   *)

Closed == [enabled |-> FALSE, tokens |-> {}]
NoPublishing == [enabled |-> FALSE, tokens |-> <<>>]
NoOidc == [enabled |-> FALSE, issuer |-> None, audience |-> None, leeway |-> 60, jwks |-> <<>>]
NoMetadata == [enabled |-> FALSE, database |-> None]
NoSupplyChain == [requires |-> FALSE]
NoSigning == [enabled |-> FALSE, mode |-> "sign_and_verify", keys |-> {}]

PublicUrl == [scheme |-> "https", host |-> "public"]

\* Some registries serve their files from a host of their own.
DefaultUpstreams ==
    [e \in Registries |->
        [enabled |-> TRUE, url |-> PublicUrl,
         artifact_url |-> IF e \in {"cargo", "hex", "rubygems"} THEN PublicUrl ELSE None,
         insecure |-> FALSE, private |-> FALSE]]

Default ==
    [auth |-> Closed, admin |-> Closed, publishing |-> NoPublishing, oidc |-> NoOidc,
     upstream |-> DefaultUpstreams, repositories |-> {}, git |-> {}, metadata |-> NoMetadata,
     supply |-> NoSupplyChain, signing |-> NoSigning, limits |-> {}]

-----------------------------------------------------------------------------
(* Loading                                                                 *)

\* A file's own [upstream] tables win over the built-in ones.
ApplyDefaultUpstreams(file) ==
    [file EXCEPT !.upstream =
        [key \in DOMAIN @ \cup Registries |->
            IF key \in DOMAIN @ THEN @[key] ELSE DefaultUpstreams[key]]]

LoadFrom(disk, path) ==
    IF path \in DOMAIN disk THEN ApplyDefaultUpstreams(disk[path]) ELSE None

\* The file of the command line, of the environment or of the working directory.
Load(disk, environment, options) ==
    IF options.no_config THEN Default
    ELSE IF options.path # None THEN LoadFrom(disk, options.path)
    ELSE IF environment # None THEN LoadFrom(disk, environment)
    ELSE IF "starmetal.toml" \in DOMAIN disk THEN LoadFrom(disk, "starmetal.toml")
    ELSE Default

NewUpstream ==
    [enabled |-> TRUE, url |-> None, artifact_url |-> None, insecure |-> FALSE, private |-> FALSE]

Overridden(value, old) == IF value = None THEN old ELSE value

\* overrides maps the upstreams named on the command line to what is given of each.
ApplyOverrides(config, overrides) ==
    LET old(key) == IF key \in DOMAIN config.upstream THEN config.upstream[key] ELSE NewUpstream
        new(key) == [old(key) EXCEPT
                       !.enabled = Overridden(overrides[key].enabled, @),
                       !.url = Overridden(overrides[key].url, @),
                       !.artifact_url = Overridden(overrides[key].artifact_url, @)]
    IN  [config EXCEPT !.upstream =
            [key \in DOMAIN @ \cup DOMAIN overrides |->
                IF key \in DOMAIN overrides THEN new(key) ELSE old(key)]]

LoadConfig(disk, environment, options) ==
    LET config == Load(disk, environment, options)
    IN  IF config = None THEN None ELSE ApplyOverrides(config, options.overrides)

-----------------------------------------------------------------------------
(* Validation                                                              *)

ValidUrl(url, upstream) ==
    /\ url # None
    /\ url.scheme = "https" \/ (url.scheme = "http" /\ upstream.insecure)
    /\ url.host = "private" => upstream.private

ValidUpstreams(config) ==
    \A key \in DOMAIN config.upstream :
        LET u == config.upstream[key] IN
        ValidUrl(u.url, u) /\ (u.artifact_url = None \/ ValidUrl(u.artifact_url, u))

\* A group names declared proxies of its own registry.
ValidGroup(r, repositories) ==
    /\ r.members # {}
    /\ \A m \in r.members : \E s \in repositories :
         s.name = m /\ s.kind = "proxy" /\ s.ecosystem = r.ecosystem

\* Hosted repositories are refused.
ValidRepository(r, repositories) ==
    \/ r.kind = "proxy" /\ r.members = {}
    \/ r.kind = "group" /\ ValidGroup(r, repositories)

ValidRepositories(config) ==
    /\ \A r, s \in config.repositories : r.name = s.name => r = s
    /\ \A r \in config.repositories : ValidRepository(r, config.repositories)

\* The algorithm is Ed25519 alone; a verify-only key is given by its public half.
ValidSigning(signing) ==
    LET signs == signing.mode # "verify_only"
        verifies == signing.mode # "sign_only"
        active == {k \in signing.keys : k.status = "active"}
        checks == {k \in signing.keys : k.status # "disabled" /\ (k.public \/ k.private)}
    IN  signing.enabled =>
          /\ \A k \in signing.keys :
               /\ k.status = "verify_only" => k.public /\ ~k.private
               /\ signs /\ k.status = "active" => k.private
          /\ signs => active # {}
          /\ verifies => checks # {}

ValidOidc(oidc) == oidc.enabled => oidc.issuer # None /\ oidc.audience # None /\ oidc.jwks # None

\* Limits by registry are given under its own name, where the gates look for them.
ValidLimits(config) == config.limits \subseteq Registries \cup GitSourced

ValidTokens(config) ==
    /\ config.auth.enabled => config.auth.tokens # {}
    /\ config.admin.enabled => config.admin.tokens # {}
    /\ config.publishing.enabled =>
         \E i \in DOMAIN config.publishing.tokens :
             config.publishing.tokens[i].scopes \cap {"admin", "publish", "yank"} # {}

Valid(config) ==
    /\ ValidOidc(config.oidc) /\ ValidUpstreams(config) /\ ValidRepositories(config)
    /\ ValidSigning(config.signing) /\ ValidLimits(config) /\ ValidTokens(config)

-----------------------------------------------------------------------------
(* The runtime                                                             *)

Proxy(name, e, section) ==
    [name |-> name, kind |-> "proxy", ecosystem |-> e, members |-> {}, section |-> section]


\* The declared repositories, or one proxy per enabled [upstream] table that names
\* a registry and per git-sourced registry that is switched on.
ResolvedRepositories(config) ==
    IF config.repositories # {} THEN config.repositories
    ELSE {Proxy(key, FromStr(key), "upstream") :
            key \in {k \in DOMAIN config.upstream :
                       config.upstream[k].enabled /\ FromStr(k) # Unknown}}
         \cup {Proxy(g, g, "git") : g \in config.git}

\* The upstream clients the service asks, by the table under the registry's name.
Clients(config) == {e \in Registries \cap DOMAIN config.upstream : config.upstream[e].enabled}

\* Two mounts under one path make the router panic.
MountsClash(config) ==
    \E r, s \in ResolvedRepositories(config) : r # s /\ r.name = s.name

\* The content model, retention and garbage collection are there when metadata is.
HasContentModel(config) == config.metadata.enabled

\* What from_config refuses that validation let pass.
Builds(config) ==
    /\ config.oidc.enabled => Parsed(config.oidc.jwks) # <<>>
    /\ config.metadata.enabled => config.metadata.database # None
    /\ config.supply.requires => config.signing.enabled

Starts(config) ==
    config # None /\ Valid(config) /\ Builds(config) /\ ~MountsClash(config)

\* A group has the services of its members: the shared one, for reading only.
Mounts(config, e) == {r \in ResolvedRepositories(config) : r.ecosystem = e}
Writable(mount) == mount.kind = "proxy" /\ mount.ecosystem \in Registries

-----------------------------------------------------------------------------
(* What is reported of each registry, by the command line and by the admin *)
(* API, which knows of no registry that is read from git.                  *)

ReportedEnabled(config, e) ==
    IF e \in GitSourced THEN e \in config.git
    ELSE e \in DOMAIN config.upstream /\ config.upstream[e].enabled

AdminReported(config) ==
    {e \in Registries \cap DOMAIN config.upstream : config.upstream[e].enabled}

\* A mounted repository reaches its upstream by the service's client for its
\* registry, or by the git mirror.
Reaches(config, mount) == mount.ecosystem \in GitSourced \cup Clients(config)
=============================================================================
