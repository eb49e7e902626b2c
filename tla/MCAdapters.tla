---------------------------- MODULE MCAdapters -----------------------------
EXTENDS Adapters, TLC
CONSTANTS own, shared, v1, v2, w1, w2, t1

\* Upstream has one release of one of the packages.
OneUpstream == {<<shared, v1>>}

\* A Maven client writes an index that names one of the releases.
OneWritten == [n \in {own, shared} |-> {{<<n, v2>>}}]

\* A release whose digests few clients can use, a second one whose version starts
\* with the first's, announced otherwise, and the first withdrawn.
Early == [version |-> <<"1">>, announced |-> {"sha512"}, integrity |-> <<"md5">>]
Later == [version |-> <<"1", "2">>, announced |-> {"sha256", "sha1", "outer"},
          integrity |-> <<"sha1", "sha512">>]
Editions == <<<<Early>>, <<Early, Later>>, <<Later>>>>

\* No further than two releases in the service, and the metadata of one of upstream's:
\* each property is of one release, or of two.
Few == Cardinality(stored) <= 2 /\ Cardinality({v \in AllVersions : kept[v] # <<>>}) <= 1

\* Nothing tells the clients apart.
Symmetry == Permutations({w1, w2})
=============================================================================
