------------------------------- MODULE Semver -------------------------------
(***************************************************************************)
(* The versioning scheme of Cargo manifests: which versions a constraint   *)
(* admits (the semver crate, external), the lowest version it asks for,    *)
(* and how a constraint is rewritten toward a target.                      *)
(*                                                                         *)
(* A version is <<major, minor, patch, final>>, where a pre-release has    *)
(* final = 0 and all pre-releases of a version are one.  A constraint is a *)
(* sequence of comparators, "*" the empty one; a comparator is an operator *)
(* as it is written ("bare" if it is not, which is a caret), a version,    *)
(* and how many parts of it are written.                                   *)
(***************************************************************************)
EXTENDS Integers, Sequences

CONSTANT None

Less(v, w) == \E i \in 1..4 : v[i] < w[i] /\ \A j \in 1..(i - 1) : v[j] = w[j]
Stable(v) == v[4] = 1

Greatest(S) == CHOOSE v \in S : \A w \in S : ~Less(v, w)

Comparator(op, v, parts) == [op |-> op, at |-> v, parts |-> parts]

\* Parts that are not written are zero, and what is not whole has no pre-release.
Version == Nat \X Nat \X Nat \X {0, 1}
Comparators ==
    {c \in [op : {"=", "*", "bare", "^", "~", ">=", ">", "<"}, at : Version, parts : 1..3] :
        (\A i \in (c.parts + 1)..3 : c.at[i] = 0) /\ (c.parts < 3 => Stable(c.at))}
Requirements == Seq(Comparators)

-----------------------------------------------------------------------------
(* VersionReq::matches                                                     *)

Within(v, c, n) == \A i \in 1..n : v[i] = c.at[i]
AtLeast(v, c) == ~Less(v, c.at)

\* A caret locks the parts up to the first that is not zero.
CaretLocks(c) ==
    IF c.at[1] > 0 \/ c.parts = 1 THEN 1 ELSE IF c.at[2] > 0 \/ c.parts = 2 THEN 2 ELSE 3
TildeLocks(c) == IF c.parts = 1 THEN 1 ELSE 2

AdmittedBy(v, c) ==
    CASE c.op \in {"=", "*"} -> Within(v, c, c.parts) /\ v[4] = c.at[4]
      [] c.op \in {"bare", "^"} -> Within(v, c, CaretLocks(c)) /\ AtLeast(v, c)
      [] c.op = "~" -> Within(v, c, TildeLocks(c)) /\ AtLeast(v, c)
      [] c.op = ">=" -> AtLeast(v, c)
      [] c.op = ">" -> IF c.parts = 3 THEN Less(c.at, v) ELSE AtLeast(v, c) /\ ~Within(v, c, c.parts)
      [] c.op = "<" -> Less(v, c.at)

\* A pre-release has to be asked for by name.
Admits(constraint, v) ==
    /\ \A i \in DOMAIN constraint : AdmittedBy(v, constraint[i])
    /\ Stable(v) \/ \E i \in DOMAIN constraint :
          LET c == constraint[i] IN c.parts = 3 /\ ~Stable(c.at) /\ Within(v, c, 3)

-----------------------------------------------------------------------------
(* SemverVersioning                                                        *)

\* What is below "<", and exclusive above ">", is no version that is allowed.
LowerBounds(constraint) ==
    {constraint[i].at : i \in {j \in DOMAIN constraint : constraint[j].op \in {"=", ">=", "~", "^", "bare", "*"}}}

MinVersion(constraint) ==
    IF LowerBounds(constraint) = {} THEN None ELSE Greatest(LowerBounds(constraint))

\* diff and classify_bump; never asked of equal versions.
Bump(current, target) ==
    LET breaks == current[1] = 0 /\ (target[2] # current[2] \/ current[2] = 0) IN
    IF Less(target, current) THEN "rollback"
    ELSE IF target[1] # current[1] \/ breaks THEN "major"
    ELSE IF target[2] # current[2] THEN "minor" ELSE "patch"

\* Variant: up to the major version of the target.
WidenTooShort(constraint, target) ==
    IF MinVersion(constraint) = None THEN None
    ELSE <<Comparator(">=", MinVersion(constraint), 3), Comparator("<", <<target[1], 0, 0, 1>>, 3)>>

Widen(constraint, target) ==
    IF MinVersion(constraint) = None THEN None
    ELSE <<Comparator(">=", MinVersion(constraint), 3), Comparator("<", <<target[1] + 1, 0, 0, 1>>, 3)>>

Wildcard(constraint) == constraint = <<>> \/ \E i \in DOMAIN constraint : constraint[i].op = "*"

GetNewValue(constraint, strategy, target) ==
    LET satisfied == Admits(constraint, target)
        several == Len(constraint) > 1
    IN
    CASE strategy = "pin" -> <<Comparator("=", target, 3)>>
      [] strategy # "pin" /\ satisfied /\ (several \/ strategy \in {"replace", "widen"}) -> None
      [] strategy # "pin" /\ ~satisfied /\ (several \/ strategy = "widen") -> Widen(constraint, target)
      [] OTHER -> IF Wildcard(constraint) \/ constraint[1].op \in {">=", ">", "<"} THEN None
                  ELSE <<Comparator(constraint[1].op, target, 3)>>
=============================================================================
