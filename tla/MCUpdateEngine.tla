--------------------------- MODULE MCUpdateEngine ---------------------------
EXTENDS UpdateEngine, TLC
CONSTANTS a, r1, r2

V(x, y, z) == <<x, y, z, 1>>
Rc(x, y, z) == <<x, y, z, 0>>
One == V(1, 0, 0)
AllVersions == {V(0, 0, 1), V(0, 1, 0), V(0, 1, 1), One, V(1, 2, 0), Rc(2, 0, 0), V(2, 0, 0)}
First == {V(0, 0, 1), One}

Only(op, v, parts) == <<Comparator(op, v, parts)>>
Between(v, w) == <<Comparator(">=", v, 3), Comparator("<", w, 3)>>

\* The forms a constraint has.
Forms == {<<>>, Only("*", One, 1), Only("bare", One, 1), Only("bare", One, 3), Only("^", V(0, 1, 0), 2),
          Only("^", V(0, 0, 1), 3), Only("~", One, 2), Only("=", V(2, 0, 0), 3), Only("^", V(2, 0, 0), 3),
          Only(">=", One, 3), Only(">", One, 3), Only("<", V(2, 0, 0), 3),
          Between(One, V(1, 2, 0)), Between(V(2, 0, 0), V(4, 0, 0)),
          Only(">=", One, 3) \o Only(">", V(1, 2, 0), 3)}
Strategies == {"auto", "pin", "replace", "widen"}  \* "bump" is "auto"

Entry(dep, scope, source, value) ==
    [name |-> a, dep |-> dep, scope |-> scope, source |-> source, value |-> value]
Config(strategy, prerelease, ignore) ==
    [strategy |-> strategy, prerelease |-> prerelease, ignore |-> ignore]
Bound(atATime, moving, steps) == [runs |-> atATime, releases |-> moving, pushes |-> steps]

ThePaths == <<"Cargo.toml", "crates/b/Cargo.toml">>
Files(first, second) ==
    [p \in {"Cargo.toml", "crates/b/Cargo.toml"} |-> IF p = "Cargo.toml" THEN first ELSE second]

OneDependency(c) == Files(<<Entry("runtime", "top", "registry", c)>>, None)

\* A name under two types.
TwoManifests == Files(
    <<Entry("dev", "target", "registry", Only("bare", One, 3)),
      Entry("runtime", "workspace", "registry", Only("bare", One, 3))>>,
    <<Entry("runtime", "top", "registry", Only("^", One, 3))>>)

\* A name under two targets, and from git.
TwoTargets == Files(
    <<Entry("runtime", "target", "registry", Only("bare", One, 3)),
      Entry("runtime", "target", "registry", Only("~", One, 3)),
      Entry("build", "top", "git", Only("bare", One, 3))>>, None)

\* Every form and strategy with one run at a time; two runs and people on the others.
TheRepositories ==
    {[files |-> OneDependency(c), config |-> Config(s, p, {}), bound |-> Bound(1, AllVersions, 0)] :
        c \in Forms, s \in Strategies, p \in BOOLEAN}
    \cup {[files |-> f, config |-> Config("auto", FALSE, {}), bound |-> x] :
        f \in {TwoManifests}, x \in {Bound(2, {V(2, 0, 0)}, 1), Bound(1, {V(2, 0, 0)}, 2)}}
    \cup {[files |-> TwoTargets, config |-> Config("auto", FALSE, {}), bound |-> Bound(1, AllVersions, 0)]}
    \cup {[files |-> TwoManifests, config |-> Config("auto", FALSE, {a}), bound |-> Bound(1, AllVersions, 0)]}
PushedConstraints == {Only("=", V(1, 2, 0), 3)}
Symmetry == Permutations({r1, r2})
=============================================================================
