---------------------------- MODULE UpdateEngine ----------------------------
(***************************************************************************)
(* sm update: runs of the engine read the Cargo manifests of a repository, *)
(* look up the releases of every dependency, rewrite the constraints and   *)
(* submit the manifests to the one branch and pull request they share,     *)
(* while releases are published and yanked and people change, merge and    *)
(* close what is on the forge.                                             *)
(*                                                                         *)
(* A manifest is the sequence of its dependency entries as they are in the *)
(* text.  A blob's SHA is its content.  The forge is external: a merge is  *)
(* three-way, entry by entry.  The base branch has one name; a     *)
(* call of the forge that reads its head and then its tree is one step.    *)
(***************************************************************************)
EXTENDS Semver, FiniteSets

CONSTANTS
    Runs,
    Paths,          \* the manifests' paths, sorted
    Names, Versions,
    Repositories,   \* what is run on: files, UpdateConfig, and bounds of the instance
    FirstReleases,
    Constraints,    \* what people write
    MaxReleases,    \* releases that are published or yanked
    MaxFailures     \* calls that fail

Scopes == [top |-> 0, target |-> 1, workspace |-> 2]
Entries == [name : Names, dep : STRING, scope : DOMAIN Scopes, source : {"registry", "git"},
            value : Requirements]

PathSet == {Paths[i] : i \in DOMAIN Paths}
FirstPath(paths) ==
    Paths[CHOOSE i \in DOMAIN Paths : Paths[i] \in paths /\ \A j \in 1..(i - 1) : Paths[j] \notin paths]
Manifests == [PathSet -> Seq(Entries) \cup {None}]

ASSUME NoneAssumption == None \notin Manifests
ASSUME PathsAssumption == Paths \in Seq(STRING)
ASSUME VersionsAssumption == IsFiniteSet(Versions) /\ Versions \subseteq Version
ASSUME ManifestsAssumption ==
    Constraints \subseteq Requirements /\ \A r \in Repositories : r.files \in Manifests

VARIABLES
    config,         \* UpdateConfig: strategy, prerelease, ignore
    bound,          \* runs at a time, releases that may change, steps people may take
    status,         \* of the releases: "absent", "listed" or "yanked"
    base,           \* by path, the manifest on the base branch, or None
    head,           \* those on "starmetal/update-dependencies", or None
    fork,           \* those of the last commit that both branches have, or None
    open,           \* the pull request is open
    run,
    releases, pushes, failures

vars == <<config, bound, status, base, head, fork, open, run, releases, pushes, failures>>
forge == <<base, head, fork, open>>
counters == <<releases, pushes, failures>>

-----------------------------------------------------------------------------
(* CargoManager                                                            *)

\* extract: git and path sources are left out; sections before targets before workspace.
Extract(manifest) == {i \in DOMAIN manifest : manifest[i].source = "registry"}
Place(manifest, i) == Scopes[manifest[i].scope] * Len(manifest) + i
FirstLine(manifest, lines) ==
    CHOOSE i \in lines : \A j \in lines : Place(manifest, i) <= Place(manifest, j)

\* A line is the dependency's by its name and the type of its section, whichever
\* target or source it is of.
IsOf(e, dependency) == e.name = dependency.name /\ e.dep = dependency.dep

\* Rewrites the first line of those given.
ReplaceFirst(manifest, lines, value) ==
    [manifest EXCEPT ![CHOOSE i \in lines : \A j \in lines : i <= j].value = value]

\* verify_applied_update: one such dependency has the value.
Verified(manifest, dependency, value) ==
    \E i \in Extract(manifest) : IsOf(manifest[i], dependency) /\ manifest[i].value = value

\* Variant: the section a line is in does not matter.
ApplyAnywhere(manifest, dependency, value) ==
    LET lines == {i \in DOMAIN manifest : manifest[i].name = dependency.name}
    IN  IF lines = {} THEN None ELSE ReplaceFirst(manifest, lines, value)

ApplyUpdate(manifest, dependency, value) ==
    LET lines == {i \in DOMAIN manifest : IsOf(manifest[i], dependency)}
        edited == ReplaceFirst(manifest, lines, value)
    IN  IF lines # {} /\ Verified(edited, dependency, value) THEN edited ELSE None

-----------------------------------------------------------------------------
(* determine_update, build_update                                          *)

Eligible(n) == {v \in Versions : status[n][v] = "listed" /\ (config.prerelease \/ Stable(v))}

\* A new constraint, or None when there is no way to write one or it is the old one.
BuildUpdate(value, current, target) ==
    LET new == GetNewValue(value, config.strategy, target)
    IN  IF new = None \/ new = value THEN None
        ELSE [value |-> new, target |-> target, type |-> Bump(current, target)]

\* Variant: the nearest release that is newer.
DetermineNext(n, value) ==
    LET current == MinVersion(value)
        newer == {v \in Eligible(n) : Less(current, v)}
    IN  IF current = None \/ newer = {} THEN None
        ELSE BuildUpdate(value, current, CHOOSE v \in newer : \A w \in newer : ~Less(w, v))

\* The greatest release when it is newer; else, off a yanked one, the greatest below.
DetermineUpdate(n, value) ==
    LET current == MinVersion(value)
        below == {v \in Eligible(n) : Less(v, current)}
        newest == Greatest(Eligible(n))
    IN  IF n \in config.ignore \/ current = None THEN None
        ELSE IF Eligible(n) # {} /\ Less(current, newest) THEN BuildUpdate(value, current, newest)
        ELSE IF current \in Versions /\ status[n][current] = "yanked" /\ below # {}
             THEN BuildUpdate(value, current, Greatest(below))
        ELSE None

-----------------------------------------------------------------------------
\* paths and lines are those still to be read and looked up; contents are the
\* manifests with updates, edits what they become, left the paths to write, from the
\* commit to make the branch at.
Resting == [pc |-> "idle", paths |-> {}, lines |-> {}, read |-> None,
            contents |-> [p \in PathSet |-> None], updates |-> <<>>,
            edits |-> [p \in PathSet |-> None], left |-> {}, from |-> None,
            sha |-> None, alone |-> FALSE]

Init ==
    /\ \E r \in Repositories :
         /\ config = r.config
         /\ bound = r.bound
         /\ base = r.files
    /\ status = [n \in Names |-> [v \in Versions |-> IF v \in FirstReleases THEN "listed" ELSE "absent"]]
    /\ head = None
    /\ fork = None
    /\ open = FALSE
    /\ run = [r \in Runs |-> Resting]
    /\ releases = 0 /\ pushes = 0 /\ failures = 0

Become(r, state) == run' = [run EXCEPT ![r] = state]
Goto(r, pc) == Become(r, [run[r] EXCEPT !.pc = pc])
End(r) == Become(r, Resting)

\* A step on the forge that the other runs do not know of.
Overtaking(r, state) ==
    run' = [q \in Runs |-> IF q = r THEN state ELSE [run[q] EXCEPT !.alone = FALSE]]

-----------------------------------------------------------------------------
(* collect_remote                                                          *)

ListFiles(r) ==
    /\ run[r].pc = "idle"
    /\ Cardinality({q \in Runs : run[q].pc # "idle"}) < bound.runs
    /\ Become(r, [Resting EXCEPT
          !.pc = "read", !.paths = {p \in PathSet : base[p] # None}, !.alone = (head = None)])
    /\ UNCHANGED <<config, bound, status, forge, counters>>

ReadFile(r) ==
    LET p == FirstPath(run[r].paths) IN
    /\ run[r].pc = "read" /\ run[r].paths # {}
    /\ Become(r,
          IF base[p] = None THEN [run[r] EXCEPT !.paths = @ \ {p}]
          ELSE [run[r] EXCEPT !.pc = "lookup", !.read = base[p], !.lines = Extract(base[p])])
    /\ UNCHANGED <<config, bound, status, forge, counters>>

\* scan_content: one call of list_versions for each dependency.
Lookup(r) ==
    LET p == FirstPath(run[r].paths)
        line == FirstLine(run[r].read, run[r].lines)
        d == run[r].read[line]
        update == DetermineUpdate(d.name, d.value)
        seen == [run[r] EXCEPT !.lines = @ \ {line}]
    IN
    /\ run[r].pc = "lookup" /\ run[r].lines # {}
    /\ Become(r,
          IF update = None THEN seen
          ELSE [seen EXCEPT
             !.updates = Append(@, [path |-> p, name |-> d.name, dep |-> d.dep, value |-> update.value]),
             !.contents[p] = run[r].read])
    /\ UNCHANGED <<config, bound, status, forge, counters>>

FinishFile(r) ==
    /\ run[r].pc = "lookup" /\ run[r].lines = {}
    /\ Become(r, [run[r] EXCEPT !.pc = "read", !.paths = @ \ {FirstPath(@)}, !.read = None])
    /\ UNCHANGED <<config, bound, status, forge, counters>>

-----------------------------------------------------------------------------
(* build_edits                                                             *)

\* One update on the result of the other, each in the manifest it is for.
Edited(updates, p, manifest) ==
    LET after[i \in 0..Len(updates)] ==
            IF i = 0 THEN manifest
            ELSE IF after[i - 1] = None \/ updates[i].path # p THEN after[i - 1]
            ELSE ApplyUpdate(after[i - 1], updates[i], updates[i].value)
    IN  after[Len(updates)]

BuildEdits(r) ==
    LET contents == run[r].contents
        changed == {p \in PathSet : contents[p] # None}
        edits == [p \in PathSet |-> Edited(run[r].updates, p, contents[p])]
    IN
    /\ run[r].pc = "read" /\ run[r].paths = {}
    /\ IF run[r].updates = <<>> \/ \E p \in changed : edits[p] = None
       THEN End(r)
       ELSE Become(r, [run[r] EXCEPT !.pc = "branch", !.edits = edits, !.left = changed])
    /\ UNCHANGED <<config, bound, status, forge, counters>>

-----------------------------------------------------------------------------
(* submit_pull_request                                                     *)

\* branch_head_sha of the base branch.
ReadBaseHead(r) ==
    /\ run[r].pc = "branch"
    /\ Become(r, [run[r] EXCEPT !.pc = "ref", !.from = base])
    /\ UNCHANGED <<config, bound, status, forge, counters>>

\* A branch that exists, whoever made it, is used as it is.
BranchExists == head # None

\* create_ref, at the commit that was read.
EnsureBranch(r) ==
    /\ run[r].pc = "ref"
    /\ IF BranchExists
       THEN /\ Become(r, [run[r] EXCEPT !.pc = "sha", !.from = None, !.alone = FALSE])
            /\ UNCHANGED <<head, fork>>
       ELSE /\ head' = run[r].from /\ fork' = run[r].from
            /\ Overtaking(r, [run[r] EXCEPT !.pc = "sha", !.from = None])
    /\ UNCHANGED <<config, bound, status, base, open, counters>>

\* The next of the edits, which are sorted by path.
Target(r) == FirstPath(run[r].left)

ReadSha(r) ==
    /\ run[r].pc = "sha"
    /\ Become(r, [run[r] EXCEPT !.pc = "write", !.sha = IF head = None THEN None ELSE head[Target(r)]])
    /\ UNCHANGED <<config, bound, status, forge, counters>>

Written(r) == [run[r] EXCEPT !.left = @ \ {Target(r)}, !.sha = None,
                             !.pc = IF run[r].left = {Target(r)} THEN "find" ELSE "sha"]
Write(r) == head' = [head EXCEPT ![Target(r)] = run[r].edits[Target(r)]]

\* Variant: the next edit is tried when one fails.
WriteOrSkip(r) ==
    /\ run[r].pc = "write"
    /\ \/ /\ head # None /\ head[Target(r)] = run[r].sha
          /\ Write(r)
          /\ UNCHANGED failures
       \/ failures < MaxFailures /\ failures' = failures + 1 /\ UNCHANGED head
    /\ Overtaking(r, Written(r))
    /\ UNCHANGED <<config, bound, status, base, fork, open, releases, pushes>>

\* apply_edit: update_file when the path was there, create_file when not; both are
\* refused when the branch is gone or the file is no longer the one that was read.
WriteEdit(r) ==
    /\ run[r].pc = "write"
    /\ IF head # None /\ head[Target(r)] = run[r].sha
       THEN Write(r) /\ Overtaking(r, Written(r))
       ELSE End(r) /\ UNCHANGED head
    /\ UNCHANGED <<config, bound, status, base, fork, open, counters>>

FindPullRequest(r) ==
    /\ run[r].pc = "find"
    /\ Goto(r, IF open THEN "answer" ELSE "create")
    /\ UNCHANGED <<config, bound, status, forge, counters>>

\* The forge has no second one for the branch, and none for a branch that is gone.
CreatePullRequest(r) ==
    /\ run[r].pc = "create"
    /\ IF head # None /\ ~open
       THEN open' = TRUE /\ Goto(r, "answer")
       ELSE End(r) /\ UNCHANGED open
    /\ UNCHANGED <<config, bound, status, base, head, fork, counters>>

Answer(r) ==
    /\ run[r].pc = "answer"
    /\ End(r)
    /\ UNCHANGED <<config, bound, status, forge, counters>>

\* A call fails, or the process ends.
Fail(r) ==
    /\ run[r].pc \notin {"idle", "answer"} /\ failures < MaxFailures
    /\ failures' = failures + 1
    /\ End(r)
    /\ UNCHANGED <<config, bound, status, forge, releases, pushes>>

-----------------------------------------------------------------------------
(* The registry and the people                                             *)

Release(n, v) ==
    /\ v \in bound.releases
    /\ releases < MaxReleases /\ releases' = releases + 1
    /\ status' = [status EXCEPT ![n][v] = IF @ = "listed" THEN "yanked" ELSE "listed"]
    /\ UNCHANGED <<config, bound, forge, run, pushes, failures>>

Person == pushes < bound.pushes /\ pushes' = pushes + 1
Unnoticed == run' = [r \in Runs |-> [run[r] EXCEPT !.alone = FALSE]]

PushConstraint(p, i, c) ==
    /\ Person
    /\ base[p] # None /\ i \in DOMAIN base[p]
    /\ base' = [base EXCEPT ![p][i].value = c]
    /\ Unnoticed
    /\ UNCHANGED <<config, bound, status, head, fork, open, releases, failures>>

RemoveManifest(p) ==
    /\ Person
    /\ base[p] # None
    /\ base' = [base EXCEPT ![p] = None]
    /\ Unnoticed
    /\ UNCHANGED <<config, bound, status, head, fork, open, releases, failures>>

\* Of two versions of a part and what they come from, the one that changed.
ThreeWay(ours, theirs, common) == IF theirs = common THEN ours ELSE theirs
Conflict(ours, theirs, common) == ours # theirs /\ ours # common /\ theirs # common
SameShape(p) == base[p] # None /\ head[p] # None /\ fork[p] # None
InConflict(p) ==
    IF SameShape(p)
    THEN \E i \in DOMAIN base[p] : Conflict(base[p][i], head[p][i], fork[p][i])
    ELSE Conflict(base[p], head[p], fork[p])
Merged(p) ==
    IF SameShape(p)
    THEN [i \in DOMAIN base[p] |-> ThreeWay(base[p][i], head[p][i], fork[p][i])]
    ELSE ThreeWay(base[p], head[p], fork[p])

Merge(deleted) ==
    /\ Person
    /\ open /\ \A p \in PathSet : ~InConflict(p)
    /\ base' = [p \in PathSet |-> Merged(p)]
    /\ open' = FALSE
    /\ head' = IF deleted THEN None ELSE head
    /\ fork' = IF deleted THEN None ELSE head
    /\ Unnoticed
    /\ UNCHANGED <<config, bound, status, releases, failures>>

Close(deleted) ==
    /\ Person
    /\ head # None
    /\ open \/ deleted
    /\ open' = FALSE
    /\ head' = IF deleted THEN None ELSE head
    /\ fork' = IF deleted THEN None ELSE fork
    /\ Unnoticed
    /\ UNCHANGED <<config, bound, status, base, releases, failures>>

Step(r) ==
    \/ ListFiles(r) \/ ReadFile(r) \/ Lookup(r) \/ FinishFile(r) \/ BuildEdits(r)
    \/ ReadBaseHead(r) \/ EnsureBranch(r) \/ ReadSha(r) \/ WriteEdit(r)
    \/ FindPullRequest(r) \/ CreatePullRequest(r) \/ Answer(r) \/ Fail(r)

Next ==
    \/ \E r \in Runs : Step(r)
    \/ \E n \in Names, v \in Versions : Release(n, v)
    \/ \E p \in PathSet : RemoveManifest(p) \/ \E c \in Constraints, i \in 1..3 : PushConstraint(p, i, c)
    \/ \E deleted \in BOOLEAN : Merge(deleted) \/ Close(deleted)

Spec == Init /\ [][Next]_vars

-----------------------------------------------------------------------------
\* What a run holds at each stage; the pull request is of a branch that is there.
RunStates ==
    [pc : {"idle", "read", "lookup", "branch", "ref", "sha", "write", "find", "create", "answer"},
     paths : SUBSET PathSet, lines : SUBSET Nat, read : Seq(Entries) \cup {None},
     contents : Manifests,
     updates : Seq([path : PathSet, name : Names, dep : STRING, value : Requirements]),
     edits : Manifests, left : SUBSET PathSet, from : Manifests \cup {None}, sha : Seq(Entries) \cup {None},
     alone : BOOLEAN]
StageOK(s) ==
    /\ s.pc = "lookup" => s.paths # {} /\ s.read # None /\ s.lines \subseteq Extract(s.read)
    /\ s.updates # <<>> => \E p \in PathSet : s.contents[p] # None
    /\ s.pc \in {"branch", "ref", "sha", "write", "find", "create", "answer"} =>
         \A p \in PathSet : s.edits[p] = None <=> s.contents[p] = None
    /\ \A p \in s.left : s.edits[p] # None
    /\ s.pc = "ref" => s.from # None
    /\ s.pc \in {"branch", "ref"} => s.left = {p \in PathSet : s.edits[p] # None}
    /\ s.pc \in {"branch", "ref", "sha", "write"} => s.left # {}
    /\ s.pc \in {"find", "create", "answer"} => s.left = {}
TypeOK ==
    /\ status \in [Names -> [Versions -> {"absent", "listed", "yanked"}]]
    /\ base \in Manifests
    /\ {head, fork} \subseteq Manifests \cup {None}
    /\ head = None <=> fork = None
    /\ open => head # None
    /\ {releases, pushes, failures} \subseteq Nat
    /\ run \in [Runs -> RunStates] /\ \A r \in Runs : StageOK(run[r])

\* Between runs, the dependencies of the base branch the next would look up, and what
\* it would propose.
Dependencies ==
    IF \E r \in Runs : run[r].pc # "idle" THEN {}
    ELSE UNION {{base[p][i] : i \in {j \in DOMAIN base[p] : base[p][j].source = "registry"}} :
                p \in {q \in PathSet : base[q] # None}}
Proposed(d) == DetermineUpdate(d.name, d.value)
Upgrades == {d \in Dependencies : Proposed(d) # None /\ Proposed(d).type # "rollback"}

\* A proposal, once it is merged, is the last one until a release is published or
\* yanked: determine_update does not go there in steps, back and forth, or for ever.
Converges ==
    \A d \in Dependencies : Proposed(d) # None => DetermineUpdate(d.name, Proposed(d).value) = None

\* What is written for an upgrade admits the release it is for, but for one form: a
\* pre-release that a range is widened for, which the range does not name and so
\* refuses.
UpgradeAdmitsItsTarget ==
    \A d \in Upgrades :
        Admits(Proposed(d).value, Proposed(d).target)
            <=> Stable(Proposed(d).target) \/ Len(Proposed(d).value) = 1

\* What is written as a range of several comparators admits what was admitted before,
\* up to the major version of the release it is for; beyond that nothing was admitted,
\* unless the release is a pre-release or the range had an exclusive floor above it.
WidenKeepsTheRange ==
    \A d \in {e \in Upgrades : Len(Proposed(e).value) > 1} :
        \A v \in {w \in Versions : Admits(d.value, w)} :
            \/ Admits(Proposed(d).value, v)
            \/ /\ v[1] > Proposed(d).target[1]
               /\ Stable(Proposed(d).target) => \E i \in DOMAIN d.value : d.value[i].op = ">"

\* Which releases a rewrite lets in and which it keeps, for every form of the constraint,
\* strategy and step between the releases: "keep every currently-allowed version and
\* additionally admit `target`", where that holds and exactly where it does not.
RewritesAreSound == UpgradeAdmitsItsTarget /\ WidenKeepsTheRange

Unambiguous(manifest) ==
    \A i, j \in DOMAIN manifest :
        manifest[i].name = manifest[j].name /\ manifest[i].dep = manifest[j].dep => i = j

UpdatesOf(r, p, e) ==
    {u \in {run[r].updates[k] : k \in DOMAIN run[r].updates} : u.path = p /\ IsOf(e, u)}
\* The text that is edited is that of the dependency the update is for, and the rest of
\* the manifest is what was read: where a name is in one section of a type only.
EditsAreTheUpdates ==
    \A r \in {q \in Runs : run[q].pc = "branch"} : \A p \in PathSet :
        LET old == run[r].contents[p]
            new == run[r].edits[p]
        IN  old # None /\ Unambiguous(old) =>
            /\ DOMAIN new = DOMAIN old
            /\ \A k \in DOMAIN old :
                 IF UpdatesOf(r, p, old[k]) = {} THEN new[k] = old[k]
                 ELSE \E u \in UpdatesOf(r, p, old[k]) : new[k] = [old[k] EXCEPT !.value = u.value]

\* A run nobody interferes with, that makes its own branch: at every moment the branch
\* is the base with the edits that are done, and what it answers with is an open pull
\* request with all of them.  A failed edit ends the run, whose earlier ones stay.
LoneRunProposesItsUpdates ==
    \A r \in Runs :
        run[r].alone /\ run[r].pc \in {"sha", "write", "find", "create", "answer"} =>
            /\ head = [p \in PathSet |->
                  IF run[r].edits[p] # None /\ p \notin run[r].left THEN run[r].edits[p] ELSE base[p]]
            /\ fork = base
            /\ run[r].pc = "answer" => open

\* What TLC refutes, with a configuration that is kept beside the run.  A range widened
\* for a pre-release does not admit it, and one with an exclusive floor loses versions; a
\* rollback by widening admits nothing; of two sections of a type only the first is
\* edited, twice; a branch that exists keeps edits of an earlier day; what people push
\* after it was read is put back.
EveryTargetIsAdmitted ==
    \A d \in Upgrades : Admits(Proposed(d).value, Proposed(d).target)
EveryRangeIsKept ==
    \A d \in {e \in Upgrades : Len(Proposed(e).value) > 1 /\ Stable(Proposed(e).target)} :
        \A v \in {w \in Versions : Admits(d.value, w)} : Admits(Proposed(d).value, v)
RollbackAdmitsItsTarget ==
    \A d \in Dependencies \ Upgrades :
        Proposed(d) # None => Admits(Proposed(d).value, Proposed(d).target)
EveryUpdateIsApplied ==
    \A r \in Runs : \A p \in {q \in PathSet : run[r].edits[q] # None} : \A k \in DOMAIN run[r].edits[p] :
        \A u \in UpdatesOf(r, p, run[r].edits[p][k]) : run[r].edits[p][k].value = u.value
Mergeable == open /\ \A p \in PathSet : ~InConflict(p)
MergeBringsNothingYanked ==
    Mergeable => \A p \in PathSet : SameShape(p) => \A i \in DOMAIN base[p] :
        LET new == Merged(p)[i] IN
        new # base[p][i] /\ MinVersion(new.value) \in Versions =>
            status[new.name][MinVersion(new.value)] # "yanked"
MergeNeverLowers ==
    Mergeable /\ (\A n \in Names, v \in Versions : status[n][v] # "yanked") =>
        \A p \in PathSet : SameShape(p) => \A i \in DOMAIN base[p] :
            ~Less(MinVersion(Merged(p)[i].value), MinVersion(base[p][i].value))
=============================================================================
