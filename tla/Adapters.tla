----------------------------- MODULE Adapters ------------------------------
(***************************************************************************)
(* The registries a server mounts: those that keep documents over the      *)
(* package service (module Protocols), the clients by which the service    *)
(* reads their upstreams (UpstreamClients, "upstream" here), and the three *)
(* registries that read git (GitMirror, "git").  "Go, Zig, and Swift       *)
(* bypass CachingPackageService", and the service stands between the other *)
(* two: they share no state, and one at a time stands for all.             *)
(***************************************************************************)
EXTENDS Protocols, GitMirror, UpstreamClients

\* A group has members that answer from the service, so none of git.
AdaptersInit ==
    /\ Init /\ MirrorInit /\ FetchInit
    /\ registry \in {"git", "upstream"} => mount = "proxy"
    /\ registry # "upstream" => client = CHOOSE s \in Sources : TRUE

DocumentStep == registry \notin {"git", "upstream"} /\ Next /\ UNCHANGED <<mirrorVars, fetchVars>>
GitStep == registry = "git" /\ MirrorNext /\ UNCHANGED <<vars, fetchVars>>
UpstreamStep == registry = "upstream" /\ FetchNext /\ UNCHANGED <<vars, mirrorVars>>

AdaptersNext == DocumentStep \/ GitStep \/ UpstreamStep

AdaptersSpec == AdaptersInit /\ [][AdaptersNext]_<<vars, mirrorVars, fetchVars>>
=============================================================================
