-------------------------- MODULE UpdateEngineProofs --------------------------
(***************************************************************************)
(* What holds of sm update for any manifests, releases, strategies and     *)
(* number of runs: proposals settle, rewrites are sound where no floor is  *)
(* exclusive, edits are the updates, and a lone run proposes just them.    *)
(***************************************************************************)
EXTENDS UpdateEngine, FiniteSetTheorems, WellFoundedInduction, TLAPS

-----------------------------------------------------------------------------
(* The order of versions *)

\* The comparison of two versions, part by part.
LEMMA LessParts ==
    ASSUME NEW v \in Version, NEW w \in Version
    PROVE  Less(v, w) <=>
             \/ v[1] < w[1]
             \/ v[1] = w[1] /\ v[2] < w[2]
             \/ v[1] = w[1] /\ v[2] = w[2] /\ v[3] < w[3]
             \/ v[1] = w[1] /\ v[2] = w[2] /\ v[3] = w[3] /\ v[4] < w[4]
<1> DEFINE At(i) == v[i] < w[i] /\ \A j \in 1..(i - 1) : v[j] = w[j]
<1>1. Less(v, w) <=> At(1) \/ At(2) \/ At(3) \/ At(4)
  <2>1. Less(v, w) <=> \E i \in 1..4 : At(i)
    BY DEF Less
  <2>2. 1..4 = {1, 2, 3, 4}
    OBVIOUS
  <2> QED BY <2>1, <2>2
<1>2. At(1) <=> v[1] < w[1]
  OBVIOUS
<1>3. At(2) <=> v[1] = w[1] /\ v[2] < w[2]
  <2>1. 1..(2 - 1) = {1}
    OBVIOUS
  <2> QED BY <2>1
<1>4. At(3) <=> v[1] = w[1] /\ v[2] = w[2] /\ v[3] < w[3]
  <2>1. 1..(3 - 1) = {1, 2}
    OBVIOUS
  <2> QED BY <2>1
<1>5. At(4) <=> v[1] = w[1] /\ v[2] = w[2] /\ v[3] = w[3] /\ v[4] < w[4]
  <2>1. 1..(4 - 1) = {1, 2, 3}
    OBVIOUS
  <2> QED BY <2>1
<1> HIDE DEF At
<1> QED BY <1>1, <1>2, <1>3, <1>4, <1>5

\* The parts of a version are numbers, and they make it up.
LEMMA Parts ==
    ASSUME NEW v \in Version
    PROVE  /\ v[1] \in Nat /\ v[2] \in Nat /\ v[3] \in Nat /\ v[4] \in {0, 1}
           /\ v = <<v[1], v[2], v[3], v[4]>>
BY DEF Version

\* A strict total order.
LEMMA LessIrreflexive ==
    ASSUME NEW v \in Version
    PROVE  ~Less(v, v)
BY LessParts, Parts

LEMMA LessTransitive ==
    ASSUME NEW u \in Version, NEW v \in Version, NEW w \in Version, Less(u, v), Less(v, w)
    PROVE  Less(u, w)
<1>1. \A x \in {u, v, w} : x[1] \in Int /\ x[2] \in Int /\ x[3] \in Int /\ x[4] \in Int
  BY Parts
<1> QED BY <1>1, LessParts

LEMMA LessTotal ==
    ASSUME NEW v \in Version, NEW w \in Version
    PROVE  Less(v, w) \/ Less(w, v) \/ v = w
<1>1. /\ v[1] \in Int /\ v[2] \in Int /\ v[3] \in Int /\ v[4] \in Int
      /\ w[1] \in Int /\ w[2] \in Int /\ w[3] \in Int /\ w[4] \in Int
  BY Parts
<1>2. v[1] = w[1] /\ v[2] = w[2] /\ v[3] = w[3] /\ v[4] = w[4] => v = w
  BY Parts, Zenon
<1> QED BY <1>1, <1>2, LessParts

\* A non-empty set of numbers has a least one.
LEMMA Least ==
    ASSUME NEW N, N \subseteq Nat, N # {}
    PROVE  \E i \in N : \A j \in N : i <= j
<1> DEFINE R == {ss \in Nat \X Nat : ss[1] < ss[2]}
<1>1. IsWellFoundedOn(R, Nat)
  BY NatLessThanWellFounded DEF OpToRel
<1> HIDE DEF R
<1>2. PICK i \in N : \A j \in N : <<j, i>> \notin R
  BY <1>1, WFMin
<1>3. ASSUME NEW j \in N PROVE ~(j < i)
  <2> DEFINE p == <<j, i>>
  <2>1. p \in Nat \X Nat /\ p[1] = j /\ p[2] = i
    OBVIOUS
  <2>2. p \notin R
    BY <1>2, Zenon
  <2> HIDE DEF p
  <2>3. ~(p[1] < p[2])
    BY <2>1, <2>2, Zenon DEF R
  <2> QED BY <2>1, <2>3, Zenon
<1>4. \A j \in N : i <= j
  BY <1>3
<1> QED BY <1>4

\* The greatest of finitely many versions: of the sets without one, a smallest
\* would be without one still after any of its members is taken out.
LEMMA GreatestIs ==
    ASSUME NEW S, IsFiniteSet(S), S \subseteq Version, S # {}
    PROVE  Greatest(S) \in S /\ \A w \in S : ~Less(Greatest(S), w)
<1> DEFINE Top(T) == \E v \in T : \A w \in T : ~Less(v, w)
           Bad == {T \in SUBSET S : T # {} /\ ~Top(T)}
           Sizes == {Cardinality(T) : T \in Bad}
<1>1. Bad = {}
  <2> SUFFICES ASSUME Bad # {} PROVE FALSE
    OBVIOUS
  <2>1. \A T \in Bad : IsFiniteSet(T) /\ Cardinality(T) \in Nat
    BY FS_Subset, FS_CardinalityType
  <2>2. Sizes \subseteq Nat /\ Sizes # {}
    BY <2>1
  <2>3. PICK n \in Sizes : \A m \in Sizes : n <= m
    <3> HIDE DEF Sizes
    <3> QED BY <2>2, Least
  <2>4. PICK T \in Bad : n = Cardinality(T)
    BY <2>3
  <2>5. PICK x \in T : TRUE
    OBVIOUS
  <2> DEFINE R == T \ {x}
  <2>6. IsFiniteSet(R) /\ Cardinality(R) = n - 1 /\ n \in Nat
    BY <2>1, <2>4, FS_RemoveElement
  <2>7. R \notin Bad
    <3>1. n - 1 \notin Sizes
      <4> HIDE DEF Sizes
      <4> QED BY <2>3, <2>6
    <3> HIDE DEF R
    <3> QED BY <3>1, <2>6
  <2>8. R = {} \/ Top(R)
    BY <2>7
  <2>9. CASE R = {}
    <3>1. T = {x} /\ x \in Version
      BY <2>9
    <3> QED BY <3>1, LessIrreflexive
  <2>10. CASE R # {}
    <3>1. PICK v \in R : \A w \in R : ~Less(v, w)
      BY <2>8, <2>10
    <3>2. v \in Version /\ x \in Version /\ R \subseteq Version
      OBVIOUS
    <3>3. CASE Less(v, x)
      <4>1. \A w \in R : ~Less(x, w)
        BY <3>1, <3>2, <3>3, LessTransitive
      <4> QED BY <4>1, <3>2, LessIrreflexive
    <3>4. CASE ~Less(v, x)
      BY <3>1, <3>4
    <3> QED BY <3>3, <3>4
  <2> QED BY <2>9, <2>10
<1>2. Top(S)
  BY <1>1
<1> HIDE DEF Bad, Sizes
<1> QED BY <1>2 DEF Greatest

\* The only one of one.
LEMMA GreatestOfOne ==
    ASSUME NEW v \in Version
    PROVE  Greatest({v}) = v
BY LessIrreflexive DEF Greatest

-----------------------------------------------------------------------------
(* Constraints and their rewriting *)

\* A constraint is a sequence of comparators.
LEMMA ComparatorsOf ==
    ASSUME NEW c \in Requirements
    PROVE  /\ Len(c) \in Nat /\ DOMAIN c = 1..Len(c) /\ IsFiniteSet(DOMAIN c)
           /\ c = <<>> \/ 1 \in DOMAIN c
           /\ \A i \in DOMAIN c :
                /\ c[i] \in Comparators /\ c[i].at \in Version /\ c[i].parts \in 1..3
                /\ c[i].op \in {"=", "*", "bare", "^", "~", ">=", ">", "<"}
<1>1. Len(c) \in Nat /\ DOMAIN c = 1..Len(c)
  BY DEF Requirements
<1>2. IsFiniteSet(DOMAIN c)
  BY <1>1, FS_Interval
<1>3. \A i \in DOMAIN c : c[i] \in Comparators
  BY DEF Requirements
<1>4. \A x \in Comparators :
        /\ x.at \in Version /\ x.parts \in 1..3
        /\ x.op \in {"=", "*", "bare", "^", "~", ">=", ">", "<"}
  BY DEF Comparators
<1>5. c = <<>> \/ 1 \in DOMAIN c
  BY DEF Requirements
<1> QED BY <1>1, <1>2, <1>3, <1>4, <1>5

\* The lowest version a constraint asks for is the greatest of its lower bounds.
LEMMA MinVersionIs ==
    ASSUME NEW c \in Requirements, MinVersion(c) # None
    PROVE  /\ MinVersion(c) \in LowerBounds(c) /\ MinVersion(c) \in Version
           /\ \A v \in LowerBounds(c) : v \in Version /\ ~Less(MinVersion(c), v)
<1> DEFINE I == {j \in DOMAIN c : c[j].op \in {"=", ">=", "~", "^", "bare", "*"}}
<1>1. IsFiniteSet(I)
  BY ComparatorsOf, FS_Subset
<1>2. LowerBounds(c) = {c[i].at : i \in I}
  BY DEF LowerBounds
<1>3. IsFiniteSet(LowerBounds(c))
  <2> HIDE DEF I
  <2> DEFINE f == [i \in I |-> c[i].at]
  <2>1. f \in Surjection(I, LowerBounds(c))
    BY <1>2 DEF Surjection
  <2> QED BY <1>1, <2>1, FS_Surjection
<1>4. LowerBounds(c) \subseteq Version
  BY <1>2, ComparatorsOf
<1>5. LowerBounds(c) # {} /\ MinVersion(c) = Greatest(LowerBounds(c))
  BY DEF MinVersion
<1> HIDE DEF I
<1> QED BY <1>3, <1>4, <1>5, GreatestIs

\* Moved onto a target, an operator asks for no less than the target.
LEMMA Moved ==
    ASSUME NEW op \in {"=", "~", "^", "bare"}, NEW v \in Version
    PROVE  LET new == <<Comparator(op, v, 3)>> IN
           /\ new \in Requirements /\ Len(new) = 1
           /\ MinVersion(new) = v
<1> DEFINE c == Comparator(op, v, 3)
           new == <<c>>
<1>1. c \in Comparators /\ c.op = op /\ c.at = v /\ c.parts = 3
  BY DEF Comparator, Comparators
<1> HIDE DEF c
<1>2. new \in Requirements /\ Len(new) = 1 /\ DOMAIN new = {1} /\ new[1] = c
  BY <1>1 DEF Requirements
<1>3. LowerBounds(new) = {v}
  BY <1>1, <1>2 DEF LowerBounds
<1>4. MinVersion(new) = v
  BY <1>3, GreatestOfOne DEF MinVersion
<1> QED BY <1>2, <1>4 DEF c

\* Widened toward a target, a constraint keeps the version it asks for.
LEMMA Widened ==
    ASSUME NEW c \in Requirements, NEW v \in Version, MinVersion(c) # None
    PROVE  LET new == Widen(c, v) IN
           /\ new \in Requirements /\ Len(new) = 2 /\ ~Wildcard(new)
           /\ MinVersion(new) = MinVersion(c)
           /\ new[1] = Comparator(">=", MinVersion(c), 3)
           /\ new[2] = Comparator("<", <<v[1] + 1, 0, 0, 1>>, 3)
<1> DEFINE m == MinVersion(c)
           next == <<v[1] + 1, 0, 0, 1>>
           low == Comparator(">=", m, 3)
           high == Comparator("<", next, 3)
           new == <<low, high>>
<1>1. m \in Version
  BY MinVersionIs
<1>2. next \in Version
  BY Parts DEF Version
<1>3. Widen(c, v) = new
  BY DEF Widen
<1> HIDE DEF m, next
<1>4. low \in Comparators /\ low.op = ">=" /\ low.at = m
  BY <1>1 DEF Comparator, Comparators
<1>5. high \in Comparators /\ high.op = "<" /\ high.at = next
  BY <1>2 DEF Comparator, Comparators
<1> HIDE DEF low, high
<1>6. new \in Requirements /\ Len(new) = 2 /\ DOMAIN new = {1, 2} /\ new[1] = low /\ new[2] = high
  BY <1>4, <1>5 DEF Requirements
<1> HIDE DEF new
<1>7. LowerBounds(new) = {m}
  BY <1>4, <1>5, <1>6 DEF LowerBounds
<1>8. MinVersion(new) = m
  BY <1>1, <1>7, GreatestOfOne DEF MinVersion
<1>9. ~Wildcard(new)
  BY <1>4, <1>5, <1>6 DEF Wildcard
<1> QED BY <1>3, <1>6, <1>8, <1>9 DEF m, next, low, high

\* What get_new_value returns: an operator on the target, or the range widened to one
\* the constraint does not admit.
MovedTo(new, v) == \E op \in {"=", "~", "^", "bare"} : new = <<Comparator(op, v, 3)>>
WidenedTo(new, c, strategy, v) ==
    /\ strategy # "pin" /\ ~Admits(c, v) /\ (Len(c) > 1 \/ strategy = "widen")
    /\ MinVersion(c) # None /\ new = Widen(c, v)
LEMMA NewValueIs ==
    ASSUME NEW c \in Requirements, NEW strategy, NEW v \in Version,
           NEW new, new = GetNewValue(c, strategy, v), new # None
    PROVE  MovedTo(new, v) \/ WidenedTo(new, c, strategy, v)
<1>1. CASE strategy = "pin"
  <2>1. new = <<Comparator("=", v, 3)>>
    BY <1>1 DEF GetNewValue
  <2> QED BY <2>1 DEF MovedTo
<1>2. CASE strategy # "pin" /\ Admits(c, v) /\ (Len(c) > 1 \/ strategy \in {"replace", "widen"})
  BY <1>2 DEF GetNewValue
<1>3. CASE strategy # "pin" /\ ~Admits(c, v) /\ (Len(c) > 1 \/ strategy = "widen")
  <2>1. new = Widen(c, v)
    BY <1>3 DEF GetNewValue
  <2>2. MinVersion(c) # None
    BY <2>1 DEF Widen
  <2> QED BY <1>3, <2>1, <2>2 DEF WidenedTo
<1>4. CASE /\ strategy # "pin"
           /\ ~(Admits(c, v) /\ (Len(c) > 1 \/ strategy \in {"replace", "widen"}))
           /\ ~(~Admits(c, v) /\ (Len(c) > 1 \/ strategy = "widen"))
  <2>1. new = IF Wildcard(c) \/ c[1].op \in {">=", ">", "<"} THEN None
              ELSE <<Comparator(c[1].op, v, 3)>>
    BY <1>4 DEF GetNewValue
  <2>2. ~Wildcard(c) /\ c[1].op \notin {">=", ">", "<"} /\ new = <<Comparator(c[1].op, v, 3)>>
    BY <2>1
  <2>3. c[1].op \in {"=", "~", "^", "bare"}
    BY <2>2, ComparatorsOf DEF Wildcard
  <2> QED BY <2>2, <2>3 DEF MovedTo
<1> QED BY <1>1, <1>2, <1>3, <1>4

\* Widening is done once: its result admits the target or is widened to itself.
LEMMA WidenOnce ==
    ASSUME NEW c \in Requirements, NEW strategy, NEW v \in Version,
           NEW new, WidenedTo(new, c, strategy, v)
    PROVE  GetNewValue(new, strategy, v) \in {None, new}
<1>1. strategy # "pin" /\ MinVersion(c) # None /\ new = Widen(c, v)
  BY DEF WidenedTo
<1>2. Len(new) = 2 /\ MinVersion(new) = MinVersion(c)
  BY <1>1, Widened
<1>3. CASE Admits(new, v)
  BY <1>1, <1>2, <1>3 DEF GetNewValue
<1>4. CASE ~Admits(new, v)
  <2>1. GetNewValue(new, strategy, v) = Widen(new, v)
    BY <1>1, <1>2, <1>4 DEF GetNewValue
  <2>2. Widen(new, v) = Widen(c, v)
    BY <1>2 DEF Widen
  <2> QED BY <1>1, <2>1, <2>2
<1> QED BY <1>3, <1>4

-----------------------------------------------------------------------------
(* Proposals settle *)

\* What determine_update chooses between: nothing, the newest release when it is newer,
\* the greatest below a yanked one.
Newer(n, value) ==
    Eligible(n) # {} /\ Less(MinVersion(value), Greatest(Eligible(n)))
Below(n, value) == {v \in Eligible(n) : Less(v, MinVersion(value))}
Falls(n, value) ==
    /\ ~Newer(n, value)
    /\ MinVersion(value) \in Versions /\ status[n][MinVersion(value)] = "yanked"
    /\ Below(n, value) # {}
Goal(n, value) ==
    IF Newer(n, value) THEN Greatest(Eligible(n)) ELSE Greatest(Below(n, value))

\* A proposal, taken apart.
LEMMA ProposalIs ==
    ASSUME NEW n, NEW value, NEW u, u = DetermineUpdate(n, value), u # None
    PROVE  /\ n \notin config.ignore /\ MinVersion(value) # None
           /\ Newer(n, value) \/ Falls(n, value)
           /\ u = BuildUpdate(value, MinVersion(value), Goal(n, value))
           /\ u.value = GetNewValue(value, config.strategy, Goal(n, value))
           /\ u.value # None /\ u.value # value /\ u.target = Goal(n, value)
           /\ u.type = Bump(MinVersion(value), Goal(n, value))
<1>1. /\ n \notin config.ignore /\ MinVersion(value) # None
      /\ Newer(n, value) \/ Falls(n, value)
      /\ u = BuildUpdate(value, MinVersion(value), Goal(n, value))
  <2>1. CASE Newer(n, value)
    BY <2>1 DEF DetermineUpdate, Newer, Goal
  <2>2. CASE ~Newer(n, value) /\ Falls(n, value)
    BY <2>2 DEF DetermineUpdate, Newer, Falls, Below, Goal
  <2>3. CASE ~Newer(n, value) /\ ~Falls(n, value)
    BY <2>3 DEF DetermineUpdate, Newer, Falls, Below
  <2> QED BY <2>1, <2>2, <2>3
<1> DEFINE new == GetNewValue(value, config.strategy, Goal(n, value))
<1>2. new # None /\ new # value
      /\ u = [value |-> new, target |-> Goal(n, value), type |-> Bump(MinVersion(value), Goal(n, value))]
  BY <1>1 DEF BuildUpdate
<1> HIDE DEF new
<1>3. u.value = new /\ u.target = Goal(n, value) /\ u.type = Bump(MinVersion(value), Goal(n, value))
  BY <1>2
<1> QED BY <1>1, <1>2, <1>3 DEF new

\* Releases are finitely many versions, and what is eligible is listed.
LEMMA EligibleIs ==
    ASSUME NEW n
    PROVE  /\ IsFiniteSet(Eligible(n)) /\ Eligible(n) \subseteq Versions
           /\ Versions \subseteq Version
           /\ \A v \in Eligible(n) : status[n][v] = "listed"
<1>1. Eligible(n) \subseteq Versions /\ \A v \in Eligible(n) : status[n][v] = "listed"
  BY DEF Eligible
<1> QED BY <1>1, VersionsAssumption, FS_Subset

\* The goal is eligible, on its side of the version that is asked for, and nothing
\* eligible lies beyond it there.
LEMMA GoalIs ==
    ASSUME NEW n, NEW value \in Requirements, MinVersion(value) # None,
           Newer(n, value) \/ Falls(n, value)
    PROVE  /\ Goal(n, value) \in Eligible(n)
           /\ Newer(n, value) => /\ Less(MinVersion(value), Goal(n, value))
                                 /\ \A v \in Eligible(n) : ~Less(Goal(n, value), v)
           /\ Falls(n, value) => /\ Less(Goal(n, value), MinVersion(value))
                                 /\ \A v \in Below(n, value) : ~Less(Goal(n, value), v)
                                 /\ \A v \in Eligible(n) : v \in Below(n, value)
<1>1. MinVersion(value) \in Version
  BY MinVersionIs
<1>2. CASE Newer(n, value)
  <2>1. Goal(n, value) = Greatest(Eligible(n)) /\ Eligible(n) # {} /\ ~Falls(n, value)
    BY <1>2 DEF Goal, Newer, Falls
  <2>2. IsFiniteSet(Eligible(n)) /\ Eligible(n) \subseteq Version
    BY EligibleIs
  <2> QED BY <1>2, <2>1, <2>2, GreatestIs DEF Newer
<1>3. CASE Falls(n, value)
  <2>1. Goal(n, value) = Greatest(Below(n, value)) /\ Below(n, value) # {} /\ ~Newer(n, value)
    BY <1>3 DEF Goal, Falls
  <2>2. IsFiniteSet(Below(n, value)) /\ Below(n, value) \subseteq Version
        /\ Below(n, value) \subseteq Eligible(n)
    <3>1. Below(n, value) \subseteq Eligible(n)
      BY DEF Below
    <3> QED BY <3>1, EligibleIs, FS_Subset
  <2>3. /\ Goal(n, value) \in Below(n, value)
        /\ \A v \in Below(n, value) : ~Less(Goal(n, value), v)
    BY <2>1, <2>2, GreatestIs
  <2>4. ASSUME NEW v \in Eligible(n) PROVE v \in Below(n, value)
    <3>1. v \in Version /\ status[n][v] = "listed"
      BY EligibleIs
    <3>2. v # MinVersion(value)
      BY <1>3, <3>1 DEF Falls
    <3>3. Greatest(Eligible(n)) \in Eligible(n) /\ ~Less(Greatest(Eligible(n)), v)
      BY <2>4, EligibleIs, GreatestIs
    <3>4. ~Less(MinVersion(value), v)
      <4>1. Greatest(Eligible(n)) \in Version /\ ~Less(MinVersion(value), Greatest(Eligible(n)))
        BY <2>1, <2>4, <3>3, EligibleIs DEF Newer
      <4>2. Greatest(Eligible(n)) = v \/ Less(v, Greatest(Eligible(n)))
        BY <3>1, <3>3, <4>1, LessTotal
      <4> QED BY <1>1, <3>1, <4>1, <4>2, LessTransitive
    <3> QED BY <1>1, <3>1, <3>2, <3>4, LessTotal DEF Below
  <2> QED BY <2>1, <2>2, <2>3, <2>4 DEF Below
<1> QED BY <1>2, <1>3

\* A constraint that asks for the goal itself has no further proposal.
LEMMA SettledAtGoal ==
    ASSUME NEW n, NEW value \in Requirements, MinVersion(value) # None,
           Newer(n, value) \/ Falls(n, value),
           NEW new, MinVersion(new) = Goal(n, value)
    PROVE  DetermineUpdate(n, new) = None
<1> DEFINE goal == Goal(n, value)
<1>1. goal \in Eligible(n) /\ goal \in Version /\ status[n][goal] = "listed"
  BY GoalIs, EligibleIs
<1>2. \A v \in Eligible(n) : ~Less(goal, v)
  BY GoalIs
<1>3. ~Newer(n, new)
  BY <1>1, <1>2, EligibleIs, GreatestIs DEF Newer
<1>4. ~Falls(n, new)
  BY <1>1 DEF Falls
<1> QED BY <1>3, <1>4, ProposalIs

\* One that was widened has the same goal as before.
LEMMA SettledWidened ==
    ASSUME NEW n, NEW value \in Requirements, MinVersion(value) # None,
           Newer(n, value) \/ Falls(n, value),
           NEW new, WidenedTo(new, value, config.strategy, Goal(n, value))
    PROVE  DetermineUpdate(n, new) = None
<1>1. Goal(n, value) \in Version
  BY GoalIs, EligibleIs
<1>2. MinVersion(new) = MinVersion(value)
  BY <1>1, Widened DEF WidenedTo
<1>3. Goal(n, new) = Goal(n, value)
  BY <1>2 DEF Goal, Newer, Below
<1>4. GetNewValue(new, config.strategy, Goal(n, new)) \in {None, new}
  BY <1>1, <1>3, WidenOnce
<1> QED BY <1>4, ProposalIs

\* A proposal that is taken is the last one.
LEMMA Settles ==
    ASSUME NEW n, NEW value \in Requirements, DetermineUpdate(n, value) # None
    PROVE  DetermineUpdate(n, DetermineUpdate(n, value).value) = None
<1> DEFINE new == DetermineUpdate(n, value).value
           goal == Goal(n, value)
<1>1. /\ MinVersion(value) # None /\ (Newer(n, value) \/ Falls(n, value))
      /\ new = GetNewValue(value, config.strategy, goal) /\ new # None
  BY ProposalIs
<1>2. goal \in Version
  BY <1>1, GoalIs, EligibleIs
<1> HIDE DEF new
<1>3. MovedTo(new, goal) \/ WidenedTo(new, value, config.strategy, goal)
  BY <1>1, <1>2, NewValueIs
<1>4. MovedTo(new, goal) => MinVersion(new) = goal
  BY <1>2, Moved DEF MovedTo
<1> QED BY <1>1, <1>3, <1>4, SettledAtGoal, SettledWidened DEF new

-----------------------------------------------------------------------------
(* Rewrites are sound *)

LEMMA ComparatorIs ==
    ASSUME NEW c \in Comparators
    PROVE  /\ c.at \in Version /\ c.parts \in 1..3
           /\ c.op \in {"=", "*", "bare", "^", "~", ">=", ">", "<"}
           /\ c.parts = 1 => c.at[2] = 0
           /\ c.parts < 3 => c.at[3] = 0 /\ c.at[4] = 1
<1>1. /\ c.at \in Version /\ c.parts \in 1..3
      /\ c.op \in {"=", "*", "bare", "^", "~", ">=", ">", "<"}
      /\ \A i \in (c.parts + 1)..3 : c.at[i] = 0
      /\ c.parts < 3 => Stable(c.at)
  BY DEF Comparators
<1>2. c.parts = 1 => 2 \in (c.parts + 1)..3
  BY <1>1
<1>3. c.parts < 3 => 3 \in (c.parts + 1)..3
  BY <1>1
<1> QED BY <1>1, <1>2, <1>3 DEF Stable

Floors == {"=", ">=", "~", "^", "bare", "*"}

\* What a comparator with a lower bound admits is not below it.
LEMMA FloorHolds ==
    ASSUME NEW c \in Comparators, c.op \in Floors, NEW v \in Version, AdmittedBy(v, c)
    PROVE  ~Less(v, c.at)
<1>1. CASE c.op \in {"=", "*"}
  <2>1. Within(v, c, c.parts) /\ v[4] = c.at[4]
    BY <1>1 DEF AdmittedBy
  <2>2. v[1] = c.at[1] /\ (c.parts > 1 => v[2] = c.at[2]) /\ (c.parts > 2 => v[3] = c.at[3])
    BY <2>1, ComparatorIs DEF Within
  <2>3. /\ v[1] \in Nat /\ v[2] \in Nat /\ v[3] \in Nat /\ v[4] \in Nat
        /\ c.at[1] \in Nat /\ c.at[2] \in Nat /\ c.at[3] \in Nat /\ c.at[4] \in Nat
    BY ComparatorIs, Parts
  <2> QED BY <2>1, <2>2, <2>3, ComparatorIs, LessParts
<1>2. CASE c.op \in {"bare", "^", "~", ">="}
  BY <1>2 DEF AdmittedBy, AtLeast
<1> QED BY <1>1, <1>2 DEF Floors

\* What is admitted by an operator with a ceiling of its own has the first part of it.
LEMMA FirstPartHolds ==
    ASSUME NEW c \in Comparators, c.op \in {"=", "*", "bare", "^", "~"}, NEW v, AdmittedBy(v, c)
    PROVE  v[1] = c.at[1]
<1>1. PICK n \in 1..3 : Within(v, c, n)
  <2>1. CaretLocks(c) \in 1..3 /\ TildeLocks(c) \in 1..3
    BY DEF CaretLocks, TildeLocks
  <2> QED BY <2>1, ComparatorIs DEF AdmittedBy
<1> QED BY <1>1 DEF Within

\* A comparator on a target admits it.
LEMMA MovedAdmits ==
    ASSUME NEW v \in Version, NEW new, MovedTo(new, v)
    PROVE  Admits(new, v) /\ Len(new) = 1
<1>1. PICK op \in {"=", "~", "^", "bare"} : new = <<Comparator(op, v, 3)>>
  BY DEF MovedTo
<1> DEFINE c == Comparator(op, v, 3)
<1>2. c.op = op /\ c.at = v /\ c.parts = 3
  BY DEF Comparator
<1>3. \A n \in 1..3 : Within(v, c, n)
  BY <1>2 DEF Within
<1>4. AtLeast(v, c)
  BY <1>2, LessIrreflexive DEF AtLeast
<1>5. CaretLocks(c) \in 1..3 /\ TildeLocks(c) \in 1..3
  BY DEF CaretLocks, TildeLocks
<1>6. AdmittedBy(v, c)
  <2>1. /\ Within(v, c, c.parts) /\ Within(v, c, CaretLocks(c)) /\ Within(v, c, TildeLocks(c))
        /\ v[4] = c.at[4] /\ c.op \in {"=", "~", "^", "bare"}
    BY <1>2, <1>3, <1>5
  <2> HIDE DEF c
  <2> QED BY <1>4, <2>1 DEF AdmittedBy
<1>7. new = <<c>>
  BY <1>1
<1> HIDE DEF c
<1>8. DOMAIN new = {1} /\ new[1] = c /\ Len(new) = 1
  BY <1>7
<1> QED BY <1>2, <1>3, <1>6, <1>8 DEF Admits, Stable

\* The two comparators of a widened range, and what they admit.
LEMMA WidenedAdmits ==
    ASSUME NEW c \in Requirements, NEW goal \in Version, MinVersion(c) # None,
           NEW v \in Version, ~Less(v, MinVersion(c)), v[1] <= goal[1],
           Stable(v) \/ v = MinVersion(c)
    PROVE  Admits(Widen(c, goal), v)
<1> DEFINE new == Widen(c, goal)
           low == Comparator(">=", MinVersion(c), 3)
           next == <<goal[1] + 1, 0, 0, 1>>
           high == Comparator("<", next, 3)
<1>1. Len(new) = 2 /\ new \in Requirements /\ new[1] = low /\ new[2] = high
  BY Widened
<1>2. DOMAIN new = {1, 2}
  BY <1>1 DEF Requirements
<1> HIDE DEF new
<1>3. low.op = ">=" /\ low.at = MinVersion(c) /\ low.parts = 3 /\ high.op = "<" /\ high.at = next
  BY DEF Comparator
<1> HIDE DEF low, high
<1>4. AdmittedBy(v, low)
  BY <1>3 DEF AdmittedBy, AtLeast
<1>5. AdmittedBy(v, high)
  <2>1. next \in Version /\ next[1] = goal[1] + 1
    BY Parts DEF Version
  <2>2. v[1] \in Nat /\ goal[1] \in Nat
    BY Parts
  <2> HIDE DEF next
  <2>3. Less(v, next)
    BY <2>1, <2>2, LessParts
  <2> QED BY <1>3, <2>3 DEF AdmittedBy
<1>6. v = MinVersion(c) => Within(v, low, 3)
  BY <1>3 DEF Within
<1> QED BY <1>1, <1>2, <1>3, <1>4, <1>5, <1>6 DEF Admits, new

\* A widened range names no pre-release but its lower bound.
LEMMA WidenedRefuses ==
    ASSUME NEW c \in Requirements, NEW goal \in Version, MinVersion(c) # None,
           ~Stable(goal), Less(MinVersion(c), goal)
    PROVE  ~Admits(Widen(c, goal), goal)
<1> DEFINE new == Widen(c, goal)
           low == Comparator(">=", MinVersion(c), 3)
           next == <<goal[1] + 1, 0, 0, 1>>
           high == Comparator("<", next, 3)
<1>1. Len(new) = 2 /\ new \in Requirements /\ new[1] = low /\ new[2] = high
  BY Widened
<1>2. DOMAIN new = {1, 2}
  BY <1>1 DEF Requirements
<1> HIDE DEF new
<1>3. low.at = MinVersion(c) /\ high.at = next
  BY DEF Comparator
<1>4. MinVersion(c) \in Version
  BY MinVersionIs DEF MinVersion
<1> HIDE DEF low, high
<1>5. Stable(high.at)
  BY <1>3 DEF Stable
<1>6. ASSUME ~Stable(low.at), Within(goal, low, 3) PROVE FALSE
  <2>1. goal[1] = low.at[1] /\ goal[2] = low.at[2] /\ goal[3] = low.at[3]
    BY <1>6 DEF Within
  <2>2. goal[4] = 0 /\ low.at[4] = 0
    BY <1>3, <1>4, <1>6, Parts DEF Stable
  <2>3. goal = low.at
    BY <1>3, <1>4, <2>1, <2>2, Parts, Zenon
  <2> QED BY <1>3, <2>3, LessIrreflexive
<1> QED BY <1>1, <1>2, <1>5, <1>6 DEF Admits, new

\* An upgrade's constraint admits the release it is for, unless that is a pre-release
\* and the constraint a range.
LEMMA UpgradeAdmits ==
    ASSUME NEW n, NEW value \in Requirements, NEW u, u = DetermineUpdate(n, value), u # None,
           u.type # "rollback"
    PROVE  Admits(u.value, u.target) <=> Stable(u.target) \/ Len(u.value) = 1
<1> DEFINE goal == Goal(n, value)
           low == MinVersion(value)
<1>1. /\ low # None /\ (Newer(n, value) \/ Falls(n, value)) /\ u.type = Bump(low, goal)
      /\ u.value = GetNewValue(value, config.strategy, goal) /\ u.value # None /\ u.target = goal
  BY ProposalIs
<1>2. goal \in Version /\ low \in Version
  BY <1>1, GoalIs, EligibleIs, MinVersionIs
<1>3. ~Less(goal, low)
  BY <1>1 DEF Bump
<1>4. CASE MovedTo(u.value, goal)
  BY <1>1, <1>2, <1>4, MovedAdmits
<1>5. CASE WidenedTo(u.value, value, config.strategy, goal)
  <2>1. u.value = Widen(value, goal) /\ Len(u.value) = 2
    BY <1>1, <1>2, <1>5, Widened DEF WidenedTo
  <2>2. goal[1] <= goal[1]
    BY <1>2, Parts
  <2>3. Stable(goal) => Admits(u.value, goal)
    BY <1>1, <1>2, <1>3, <2>1, <2>2, WidenedAdmits
  <2>4. Less(low, goal)
    BY <1>1, <1>3, GoalIs
  <2>5. ~Stable(goal) => ~Admits(u.value, goal)
    BY <1>1, <1>2, <2>1, <2>4, WidenedRefuses
  <2> QED BY <1>1, <2>1, <2>3, <2>5
<1> QED BY <1>1, <1>2, <1>4, <1>5, NewValueIs

\* Constraints without an exclusive floor (>x).  With one, a release above the lower
\* bound may still be refused for being low, and widening up to its next major version
\* drops later ones that were admitted.
Inclusive == {c \in Requirements : \A i \in DOMAIN c : c[i].op # ">"}

\* A release that is newer than the range asks for, and is not admitted, is above all
\* that is: no version of a later major one is.
LEMMA NothingBeyond ==
    ASSUME NEW c \in Inclusive, MinVersion(c) # None,
           NEW goal \in Version, Stable(goal), Less(MinVersion(c), goal), ~Admits(c, goal),
           NEW v \in Version, Admits(c, v)
    PROVE  v[1] <= goal[1]
<1>1. c \in Requirements /\ LowerBounds(c) # {} /\ \A i \in DOMAIN c : c[i].op # ">"
  BY DEF Inclusive, MinVersion
<1>2. PICK i \in DOMAIN c : ~AdmittedBy(goal, c[i])
  BY DEF Admits
<1> DEFINE bound_i == c[i]
<1>3. bound_i \in Comparators /\ AdmittedBy(v, bound_i) /\ bound_i.op # ">"
  BY <1>1, ComparatorsOf DEF Admits
<1>4. bound_i.at \in Version
  BY <1>3, ComparatorIs
<1>5. v[1] \in Int /\ goal[1] \in Int /\ bound_i.at[1] \in Int
  BY <1>4, Parts
<1>6. CASE bound_i.op = "<"
  <2>1. Less(v, bound_i.at) /\ ~Less(goal, bound_i.at)
    BY <1>2, <1>3, <1>6 DEF AdmittedBy
  <2>2. ~Less(goal, v)
    BY <1>4, <2>1, LessTransitive
  <2> QED BY <1>5, <2>2, LessParts
<1>7. CASE bound_i.op \in Floors
  <2>1. bound_i.at \in LowerBounds(c)
    BY <1>7 DEF LowerBounds, Floors
  <2>2. ~Less(MinVersion(c), bound_i.at) /\ MinVersion(c) \in Version
    BY <1>1, <2>1, MinVersionIs
  <2>3. Less(bound_i.at, goal)
    BY <1>4, <2>2, LessTotal, LessTransitive
  <2>4. bound_i.op # ">="
    <3>1. ~Less(goal, bound_i.at)
      BY <1>4, <2>3, LessTransitive, LessIrreflexive
    <3> QED BY <1>2, <3>1 DEF AdmittedBy, AtLeast
  <2>5. v[1] = bound_i.at[1]
    BY <1>3, <1>7, <2>4, FirstPartHolds DEF Floors
  <2> QED BY <1>4, <1>5, <2>3, <2>5, LessParts
<1>8. bound_i.op = "<" \/ bound_i.op \in Floors
  BY <1>3, ComparatorIs DEF Floors
<1> QED BY <1>6, <1>7, <1>8

\* What a constraint admits is not below the version it asks for, and if it is a
\* pre-release it is that version.
LEMMA AdmittedIs ==
    ASSUME NEW c \in Requirements, MinVersion(c) # None, NEW v \in Version, Admits(c, v)
    PROVE  ~Less(v, MinVersion(c)) /\ (Stable(v) \/ v = MinVersion(c))
<1>1. c \in Requirements /\ LowerBounds(c) # {}
  BY DEF MinVersion
<1>2. \A i \in DOMAIN c : c[i] \in Comparators /\ c[i].at \in Version /\ AdmittedBy(v, c[i])
  BY <1>1, ComparatorsOf DEF Admits
<1>3. ~Less(v, MinVersion(c))
  <2>1. PICK i \in DOMAIN c : c[i].op \in Floors /\ MinVersion(c) = c[i].at
    BY <1>1, MinVersionIs DEF LowerBounds, Floors
  <2> QED BY <1>2, <2>1, FloorHolds
<1>4. ASSUME ~Stable(v) PROVE v = MinVersion(c)
  <2>1. PICK i \in DOMAIN c : c[i].parts = 3 /\ ~Stable(c[i].at) /\ Within(v, c[i], 3)
    BY <1>4 DEF Admits
  <2>2. v[1] = c[i].at[1] /\ v[2] = c[i].at[2] /\ v[3] = c[i].at[3]
    BY <2>1 DEF Within
  <2>3. v[4] = 0 /\ c[i].at[4] = 0
    BY <1>2, <1>4, <2>1, Parts DEF Stable
  <2>4. v = c[i].at
    BY <1>2, <2>2, <2>3, Parts, Zenon
  <2>5. c[i].op # "<" /\ c[i].op # ">"
    BY <1>2, <2>1, <2>4, LessIrreflexive DEF AdmittedBy
  <2>6. c[i].op \in Floors
    BY <1>1, <1>2, <2>5, ComparatorIs DEF Floors
  <2>7. ~Less(MinVersion(c), v) /\ MinVersion(c) \in Version
    BY <1>1, <2>4, <2>6, MinVersionIs DEF LowerBounds, Floors
  <2> QED BY <1>3, <2>7, LessTotal
<1> QED BY <1>3, <1>4

\* A range that is widened keeps what it admitted: all of it up to the major version of
\* the release, and beyond it there is nothing unless one of the two reasons holds.
LEMMA WidenKeeps ==
    ASSUME NEW n, NEW value \in Requirements, NEW u, u = DetermineUpdate(n, value), u # None,
           u.type # "rollback", Len(u.value) > 1, NEW v \in Version, Admits(value, v)
    PROVE  \/ Admits(u.value, v)
           \/ /\ v[1] > u.target[1]
              /\ Stable(u.target) => \E i \in DOMAIN value : value[i].op = ">"
<1> DEFINE goal == Goal(n, value)
           low == MinVersion(value)
<1>1. /\ low # None /\ (Newer(n, value) \/ Falls(n, value)) /\ u.type = Bump(low, goal)
      /\ u.value = GetNewValue(value, config.strategy, goal) /\ u.value # None /\ u.target = goal
  BY ProposalIs
<1>2. goal \in Version /\ low \in Version
  BY <1>1, GoalIs, EligibleIs, MinVersionIs
<1>3. Less(low, goal)
  <2>1. ~Less(goal, low)
    BY <1>1 DEF Bump
  <2> QED BY <1>1, <2>1, GoalIs
<1>4. ASSUME MovedTo(u.value, goal) PROVE FALSE
  <2>1. Len(u.value) = 1
    BY <1>2, <1>4, MovedAdmits
  <2> QED BY <2>1
<1>5. WidenedTo(u.value, value, config.strategy, goal)
  BY <1>1, <1>2, <1>4, NewValueIs
<1>6. ~Admits(value, goal) /\ u.value = Widen(value, goal)
  BY <1>5 DEF WidenedTo
<1>7. ~Less(v, low) /\ (Stable(v) \/ v = low)
  BY <1>1, AdmittedIs
<1>8. CASE v[1] <= goal[1]
  BY <1>1, <1>2, <1>6, <1>7, <1>8, WidenedAdmits
<1>9. CASE ~(v[1] <= goal[1])
  <2>1. v[1] \in Nat /\ goal[1] \in Nat
    BY <1>2, Parts
  <2>2. Stable(goal) => value \notin Inclusive
    BY <1>1, <1>2, <1>3, <1>6, <1>9, NothingBeyond
  <2> QED BY <1>1, <1>9, <2>1, <2>2 DEF Inclusive
<1> QED BY <1>8, <1>9

-----------------------------------------------------------------------------
(* Manifests and their edits *)

\* Entries and manifests whose constraints are of a set A.
EntriesOf(A) == [name : Names, dep : STRING, scope : DOMAIN Scopes,
                 source : {"registry", "git"}, value : A]
UpdatesWith(A) == [path : PathSet, name : Names, dep : STRING, value : A]
SetTo(e, v) == [e EXCEPT !.value = v]

LEMMA SetIs ==
    ASSUME NEW A, NEW e \in EntriesOf(A), NEW v
    PROVE  /\ v \in A => SetTo(e, v) \in EntriesOf(A)
           /\ SetTo(e, v).value = v /\ SetTo(e, v).name = e.name /\ SetTo(e, v).dep = e.dep
           /\ \A w : SetTo(SetTo(e, w), v) = SetTo(e, v)
<1>1. /\ v \in A => SetTo(e, v) \in EntriesOf(A)
      /\ SetTo(e, v).value = v /\ SetTo(e, v).name = e.name /\ SetTo(e, v).dep = e.dep
  BY DEF SetTo, EntriesOf
<1>2. ASSUME NEW w PROVE SetTo(SetTo(e, w), v) = SetTo(e, v)
  BY DEF SetTo, EntriesOf
<1> QED BY <1>1, <1>2

\* A function on the first n numbers is a sequence of length n.
LEMMA SequenceOf ==
    ASSUME NEW E, NEW n \in Nat, NEW m \in [1..n -> E]
    PROVE  m \in Seq(E) /\ Len(m) = n
OBVIOUS

LEMMA SequenceIs ==
    ASSUME NEW E, NEW m \in Seq(E)
    PROVE  Len(m) \in Nat /\ DOMAIN m = 1..Len(m) /\ m \in [1..Len(m) -> E]
OBVIOUS

\* Lines are replaced one at a time.
Replaced(new, m, i, v) == \A k \in DOMAIN m : new[k] = IF k = i THEN SetTo(m[i], v) ELSE m[k]
LEMMA ReplaceIs ==
    ASSUME NEW A, NEW m \in Seq(EntriesOf(A)), NEW lines \in SUBSET DOMAIN m, lines # {}, NEW v \in A
    PROVE  LET new == ReplaceFirst(m, lines, v) IN
           /\ new \in Seq(EntriesOf(A)) /\ Len(new) = Len(m)
           /\ \E i \in lines : Replaced(new, m, i, v)
<1> DEFINE least == CHOOSE i \in lines : \A j \in lines : i <= j
           new == [m EXCEPT ![least].value = v]
<1>1. Len(m) \in Nat /\ DOMAIN m = 1..Len(m) /\ m \in [1..Len(m) -> EntriesOf(A)]
  BY SequenceIs
<1>2. least \in lines
  <2>1. \E i \in lines : \A j \in lines : i <= j
    BY <1>1, Least
  <2> QED BY <2>1
<1>3. ReplaceFirst(m, lines, v) = new
  BY DEF ReplaceFirst
<1> HIDE DEF least
<1>4. \A k \in DOMAIN m : new[k] = IF k = least THEN SetTo(m[least], v) ELSE m[k]
  BY <1>1, <1>2 DEF SetTo
<1>5. new \in [1..Len(m) -> EntriesOf(A)]
  <2>1. new = [k \in 1..Len(m) |-> new[k]]
    BY <1>1, <1>2
  <2>2. \A k \in 1..Len(m) : new[k] \in EntriesOf(A)
    BY <1>1, <1>2, <1>4, SetIs
  <2> HIDE DEF new
  <2> QED BY <2>1, <2>2, Zenon
<1> HIDE DEF new
<1>6. new \in Seq(EntriesOf(A)) /\ Len(new) = Len(m)
  BY <1>1, <1>5, SequenceOf
<1>7. Replaced(new, m, least, v)
  BY <1>4 DEF Replaced
<1> QED BY <1>2, <1>3, <1>6, <1>7

\* The step of the fold that build_edits is.
Folded(f, updates, p, manifest, n) ==
    f = [i \in 0..n |->
            IF i = 0 THEN manifest
            ELSE IF f[i - 1] = None \/ updates[i].path # p THEN f[i - 1]
            ELSE ApplyUpdate(f[i - 1], updates[i], updates[i].value)]

LEMMA FoldedAt ==
    ASSUME NEW f, NEW updates, NEW p, NEW manifest, NEW n \in Nat, Folded(f, updates, p, manifest, n)
    PROVE  /\ f[0] = manifest
           /\ \A i \in 1..n :
                f[i] = IF f[i - 1] = None \/ updates[i].path # p THEN f[i - 1]
                       ELSE ApplyUpdate(f[i - 1], updates[i], updates[i].value)
<1> DEFINE At(i) == IF i = 0 THEN manifest
                    ELSE IF f[i - 1] = None \/ updates[i].path # p THEN f[i - 1]
                    ELSE ApplyUpdate(f[i - 1], updates[i], updates[i].value)
<1>1. f = [i \in 0..n |-> At(i)]
  BY Zenon DEF Folded
<1>2. \A i \in 0..n : f[i] = At(i)
  <2> HIDE DEF At
  <2> QED BY <1>1, Zenon
<1>3. 0 \in 0..n /\ \A i \in 1..n : i \in 0..n /\ i # 0
  OBVIOUS
<1> QED BY <1>2, <1>3

\* Such a function there is: without one for some number, there is a least such number,
\* and a function for the one before it has one more value.
LEMMA FoldedExists ==
    ASSUME NEW updates, NEW p, NEW manifest, NEW n \in Nat
    PROVE  \E f : Folded(f, updates, p, manifest, n)
<1> DEFINE Bad == {m \in Nat : ~\E f : Folded(f, updates, p, manifest, m)}
<1> SUFFICES ASSUME Bad # {} PROVE FALSE
    OBVIOUS
<1>1. PICK m \in Bad : \A k \in Bad : m <= k
  <2>1. Bad \subseteq Nat
    OBVIOUS
  <2> HIDE DEF Bad
  <2> QED BY <2>1, Least
<1>2. m \in Nat /\ ~\E f : Folded(f, updates, p, manifest, m)
  OBVIOUS
<1>3. CASE m = 0
  <2> DEFINE f == [i \in 0..0 |-> manifest]
  <2>1. Folded(f, updates, p, manifest, 0)
    <3>1. \A i \in 0..0 : i = 0
      OBVIOUS
    <3> QED BY <3>1 DEF Folded
  <2> QED BY <1>2, <1>3, <2>1
<1>4. CASE m # 0
  <2>1. m - 1 \in Nat /\ m - 1 \notin Bad
    <3>1. m - 1 \in Nat /\ ~(m <= m - 1)
      BY <1>2, <1>4
    <3> HIDE DEF Bad
    <3> QED BY <1>1, <3>1
  <2>2. PICK g : Folded(g, updates, p, manifest, m - 1)
    BY <2>1
  <2> DEFINE At(h, i) == IF i = 0 THEN manifest
                         ELSE IF h[i - 1] = None \/ updates[i].path # p THEN h[i - 1]
                         ELSE ApplyUpdate(h[i - 1], updates[i], updates[i].value)
             f == [i \in 0..m |-> IF i = m THEN At(g, m) ELSE g[i]]
  <2>3. \A i \in 0..(m - 1) : g[i] = At(g, i)
    <3>1. g = [i \in 0..(m - 1) |-> At(g, i)]
      BY <2>2, Zenon DEF Folded
    <3> HIDE DEF At
    <3> QED BY <3>1, Zenon
  <2>4. \A i \in 0..(m - 1) : f[i] = g[i]
    <3>1. \A i \in 0..(m - 1) : i \in 0..m /\ i # m
      BY <1>2
    <3> HIDE DEF At
    <3> QED BY <3>1
  <2>5. f[m] = At(g, m)
    <3>1. m \in 0..m
      BY <1>2
    <3> HIDE DEF At
    <3> QED BY <3>1
  <2>6. ASSUME NEW i \in 0..m PROVE f[i] = At(f, i)
    <3>1. i = 0 \/ f[i - 1] = g[i - 1]
      <4>1. i = 0 \/ i - 1 \in 0..(m - 1)
        BY <1>2
      <4> HIDE DEF f
      <4> QED BY <4>1, <2>4
    <3>2. At(f, i) = At(g, i)
      <4> HIDE DEF f
      <4> QED BY <3>1
    <3>3. i = m \/ i \in 0..(m - 1)
      BY <1>2
    <3> HIDE DEF f, At
    <3> QED BY <2>3, <2>4, <2>5, <3>2, <3>3
  <2>7. f = [i \in 0..m |-> At(f, i)]
    <3>1. f = [i \in 0..m |-> f[i]]
      OBVIOUS
    <3> HIDE DEF f, At
    <3> QED BY <2>6, <3>1
  <2>8. Folded(f, updates, p, manifest, m)
    BY <2>7, Zenon DEF Folded
  <2> QED BY <1>2, <2>8
<1> QED BY <1>3, <1>4

LEMMA EditedIs ==
    ASSUME NEW updates, NEW p, NEW manifest, Len(updates) \in Nat
    PROVE  \E f : /\ Folded(f, updates, p, manifest, Len(updates))
                  /\ Edited(updates, p, manifest) = f[Len(updates)]
<1> DEFINE f == CHOOSE f : Folded(f, updates, p, manifest, Len(updates))
<1>1. Folded(f, updates, p, manifest, Len(updates))
  BY FoldedExists
<1>2. Edited(updates, p, manifest) = f[Len(updates)]
  BY DEF Edited, Folded
<1> QED BY <1>1, <1>2

\* Nothing comes of nothing.
LEMMA EditedNone ==
    ASSUME NEW updates, NEW p, Len(updates) \in Nat
    PROVE  Edited(updates, p, None) = None
<1> DEFINE n == Len(updates)
<1>1. PICK f : Folded(f, updates, p, None, n) /\ Edited(updates, p, None) = f[n]
  BY EditedIs
<1>2. f[0] = None /\ \A i \in 1..n : f[i - 1] = None => f[i] = None
  BY <1>1, FoldedAt
<1> DEFINE Bad == {i \in 0..n : f[i] # None}
<1>3. ASSUME Bad # {} PROVE FALSE
  <2>1. PICK i \in Bad : \A j \in Bad : i <= j
    <3>1. Bad \subseteq Nat
      OBVIOUS
    <3> HIDE DEF Bad
    <3> QED BY <1>3, <3>1, Least
  <2>2. i \in 1..n /\ f[i] # None
    BY <1>2
  <2>3. i - 1 \in Bad /\ ~(i <= i - 1)
    BY <1>2, <2>2
  <2> QED BY <2>1, <2>3
<1> QED BY <1>1, <1>3

\* Of an entry, after the first n updates: as it was, if none of them is for it, or with
\* the value of one that is.
For(u, p, e) == u.path = p /\ IsOf(e, u)
Follows(new, e, updates, p, n) ==
    \/ new = e /\ \A j \in 1..n : ~For(updates[j], p, e)
    \/ \E j \in 1..n : For(updates[j], p, e) /\ new = SetTo(e, updates[j].value)

LEMMA ApplyIs ==
    ASSUME NEW A, NEW m \in Seq(EntriesOf(A)), NEW u, NEW v \in A, ApplyUpdate(m, u, v) # None
    PROVE  LET new == ApplyUpdate(m, u, v) IN
           /\ new \in Seq(EntriesOf(A)) /\ Len(new) = Len(m)
           /\ \E i \in DOMAIN m : IsOf(m[i], u) /\ Replaced(new, m, i, v)
<1> DEFINE lines == {i \in DOMAIN m : IsOf(m[i], u)}
<1>1. lines # {} /\ ApplyUpdate(m, u, v) = ReplaceFirst(m, lines, v)
  BY DEF ApplyUpdate
<1>2. lines \in SUBSET DOMAIN m /\ \A i \in lines : IsOf(m[i], u)
  OBVIOUS
<1> HIDE DEF lines
<1> DEFINE new == ReplaceFirst(m, lines, v)
<1>3. /\ new \in Seq(EntriesOf(A)) /\ Len(new) = Len(m)
      /\ \E i \in lines : Replaced(new, m, i, v)
  BY <1>1, <1>2, ReplaceIs
<1> HIDE DEF new
<1>4. \E i \in DOMAIN m : IsOf(m[i], u) /\ Replaced(new, m, i, v)
  BY <1>2, <1>3
<1> QED BY <1>1, <1>3, <1>4 DEF new

\* What build_edits makes of a manifest: of the same size, and each entry follows its
\* updates where no other one has its name and type.
LEMMA EditedKeeps ==
    ASSUME NEW A, NEW updates \in Seq(UpdatesWith(A)), NEW p, NEW old \in Seq(EntriesOf(A)),
           Edited(updates, p, old) # None
    PROVE  LET new == Edited(updates, p, old) IN
           /\ new \in Seq(EntriesOf(A)) /\ Len(new) = Len(old)
           /\ Unambiguous(old) => \A k \in DOMAIN old : Follows(new[k], old[k], updates, p, Len(updates))
<1> DEFINE n == Len(updates)
<1>0. n \in Nat /\ \A i \in 1..n : updates[i].value \in A
  <2>1. n \in Nat /\ \A i \in 1..n : updates[i] \in UpdatesWith(A)
    OBVIOUS
  <2>2. \A u \in UpdatesWith(A) : u.value \in A
    BY DEF UpdatesWith
  <2> QED BY <2>1, <2>2
<1>1. PICK f : Folded(f, updates, p, old, n) /\ Edited(updates, p, old) = f[n]
  BY <1>0, EditedIs
<1>2. /\ f[0] = old
      /\ \A i \in 1..n : f[i] = IF f[i - 1] = None \/ updates[i].path # p THEN f[i - 1]
                                ELSE ApplyUpdate(f[i - 1], updates[i], updates[i].value)
  BY <1>0, <1>1, FoldedAt
<1> DEFINE Good(i) == f[i] # None =>
              /\ f[i] \in Seq(EntriesOf(A)) /\ Len(f[i]) = Len(old)
              /\ Unambiguous(old) => \A k \in DOMAIN old : Follows(f[i][k], old[k], updates, p, i)
           Bad == {i \in 0..n : ~Good(i)}
<1>3. Len(old) \in Nat /\ DOMAIN old = 1..Len(old) /\ \A k \in DOMAIN old : old[k] \in EntriesOf(A)
  OBVIOUS
<1>4. Good(0)
  <2>1. \A k \in DOMAIN old : Follows(old[k], old[k], updates, p, 0)
    BY DEF Follows
  <2> QED BY <1>2, <2>1
<1>5. ASSUME NEW i \in 1..n, Good(i - 1) PROVE Good(i)
  <2> DEFINE m == f[i - 1]
             u == updates[i]
  <2>1. CASE m = None
    BY <1>2, <2>1
  <2>2. CASE m # None /\ u.path # p
    <3>1. f[i] = m
      BY <1>2, <2>2
    <3>2. ASSUME Unambiguous(old), NEW k \in DOMAIN old PROVE Follows(m[k], old[k], updates, p, i)
      <4>1. Follows(m[k], old[k], updates, p, i - 1)
        BY <1>5, <2>2, <3>2
      <4>2. \A j \in 1..i : j \in 1..(i - 1) \/ j = i
        OBVIOUS
      <4>3. \A j \in 1..(i - 1) : j \in 1..i
        OBVIOUS
      <4>4. ~For(u, p, old[k])
        BY <2>2 DEF For
      <4> HIDE DEF m
      <4> QED BY <4>1, <4>2, <4>3, <4>4 DEF Follows
    <3> QED BY <1>5, <2>2, <3>1, <3>2
  <2>3. CASE m # None /\ u.path = p /\ f[i] # None
    <3>1. f[i] = ApplyUpdate(m, u, u.value)
      BY <1>2, <2>3
    <3>2. m \in Seq(EntriesOf(A)) /\ Len(m) = Len(old) /\ DOMAIN m = DOMAIN old
      BY <1>3, <1>5, <2>3
    <3>3. u.value \in A
      BY <1>0
    <3> HIDE DEF m, u
    <3>4. /\ f[i] \in Seq(EntriesOf(A)) /\ Len(f[i]) = Len(old)
          /\ \E c \in DOMAIN old : IsOf(m[c], u) /\ Replaced(f[i], m, c, u.value)
      <4> DEFINE new == ApplyUpdate(m, u, u.value)
      <4>1. /\ new \in Seq(EntriesOf(A)) /\ Len(new) = Len(m)
            /\ \E c \in DOMAIN m : IsOf(m[c], u) /\ Replaced(new, m, c, u.value)
        <5>1. new # None
          BY <2>3, <3>1
        <5> QED BY <3>2, <3>3, <5>1, ApplyIs
      <4>2. f[i] = new
        BY <3>1
      <4> HIDE DEF new
      <4> QED BY <3>2, <4>1, <4>2
    <3>5. PICK c \in DOMAIN old :
            IsOf(m[c], u) /\ \A k \in DOMAIN old : f[i][k] = IF k = c THEN SetTo(m[c], u.value) ELSE m[k]
      BY <3>2, <3>4 DEF Replaced
    <3>6. ASSUME Unambiguous(old), NEW k \in DOMAIN old PROVE Follows(f[i][k], old[k], updates, p, i)
      <4>1. \A l \in DOMAIN old : Follows(m[l], old[l], updates, p, i - 1)
        BY <1>5, <2>3, <3>6 DEF m
      <4>2. \A l \in DOMAIN old : m[l].name = old[l].name /\ m[l].dep = old[l].dep
        BY <1>3, <4>1, SetIs DEF Follows
      <4>3. IsOf(old[c], u)
        BY <3>5, <4>2 DEF IsOf
      <4>4. \A j \in 1..i : j \in 1..(i - 1) \/ j = i
        OBVIOUS
      <4>5. i \in 1..i /\ \A j \in 1..(i - 1) : j \in 1..i
        OBVIOUS
      <4>6. CASE k = c
        <5>1. f[i][k] = SetTo(m[k], u.value) /\ For(u, p, old[k])
          BY <2>3, <3>5, <4>3, <4>6 DEF For, u
        <5>2. SetTo(m[k], u.value) = SetTo(old[k], u.value)
          BY <1>3, <4>1, SetIs DEF Follows
        <5> QED BY <4>5, <5>1, <5>2 DEF Follows, u
      <4>7. CASE k # c
        <5>1. f[i][k] = m[k]
          BY <3>5, <4>7
        <5>2. ~For(u, p, old[k])
          BY <3>6, <4>3, <4>7 DEF For, IsOf, Unambiguous
        <5>3. Follows(m[k], old[k], updates, p, i - 1)
          BY <4>1
        <5> QED BY <4>4, <4>5, <5>1, <5>2, <5>3 DEF Follows, u
      <4> QED BY <4>6, <4>7
    <3> QED BY <3>4, <3>6
  <2> QED BY <2>1, <2>2, <2>3
<1>6. ASSUME Bad # {} PROVE FALSE
  <2>1. PICK i \in Bad : \A j \in Bad : i <= j
    <3>1. Bad \subseteq Nat
      <4> HIDE DEF Good
      <4> QED BY <1>0
    <3> HIDE DEF Bad
    <3> QED BY <1>6, <3>1, Least
  <2> HIDE DEF Good
  <2>2. i \in 1..n /\ ~Good(i)
    BY <1>0, <1>4
  <2>3. i - 1 \in 0..n /\ ~(i <= i - 1)
    BY <1>0, <2>2
  <2>4. Good(i - 1)
    BY <2>1, <2>3
  <2> QED BY <1>5, <2>2, <2>4
<1>7. Good(n)
  <2> HIDE DEF Good
  <2> QED BY <1>0, <1>6
<1> QED BY <1>1, <1>7

-----------------------------------------------------------------------------
(* What a run and the forge hold                                           *)

LEMMA InclusiveIf ==
    ASSUME NEW c \in Requirements, \A i \in DOMAIN c : c[i].op # ">"
    PROVE  c \in Inclusive
BY Zenon DEF Inclusive

\* What is written is inclusive, whatever it was written over.
LEMMA Rewritten ==
    ASSUME NEW n, NEW value \in Requirements, NEW u, u = DetermineUpdate(n, value), u # None
    PROVE  u.value \in Inclusive
<1> DEFINE goal == Goal(n, value)
           new == u.value
<1>1. /\ MinVersion(value) # None /\ (Newer(n, value) \/ Falls(n, value))
      /\ new = GetNewValue(value, config.strategy, goal) /\ new # None
  BY ProposalIs
<1>2. goal \in Version
  BY <1>1, GoalIs, EligibleIs
<1> HIDE DEF new, goal
<1>3. CASE MovedTo(new, goal)
  <2>1. PICK op \in {"=", "~", "^", "bare"} : new = <<Comparator(op, goal, 3)>>
    BY <1>3 DEF MovedTo
  <2>2. new \in Requirements
    BY <1>2, <2>1, Moved
  <2>3. Comparator(op, goal, 3).op = op /\ op # ">"
    BY DEF Comparator
  <2>4. \A i \in DOMAIN new : new[i].op # ">"
    BY <2>1, <2>3
  <2> QED BY <2>2, <2>4, InclusiveIf DEF new
<1>4. CASE WidenedTo(new, value, config.strategy, goal)
  <2>1. /\ new \in Requirements /\ Len(new) = 2
        /\ new[1] = Comparator(">=", MinVersion(value), 3)
        /\ new[2] = Comparator("<", <<goal[1] + 1, 0, 0, 1>>, 3)
    BY <1>2, <1>4, Widened DEF WidenedTo
  <2>2. new[1].op = ">=" /\ new[2].op = "<" /\ DOMAIN new = {1, 2}
    BY <2>1, ComparatorsOf DEF Comparator
  <2>3. \A i \in DOMAIN new : new[i].op # ">"
    BY <2>2
  <2> QED BY <2>1, <2>3, InclusiveIf DEF new
<1> QED BY <1>1, <1>2, <1>3, <1>4, NewValueIs DEF new

\* Constraints that people start from, write, and have rewritten.
Closed(A) ==
    /\ Inclusive \subseteq A /\ A \subseteq Requirements
    /\ Constraints \subseteq A
    /\ \A r \in Repositories : r.files \in [PathSet -> Seq(EntriesOf(A)) \cup {None}]

StatesOf(A) ==
    [pc : {"idle", "read", "lookup", "branch", "ref", "sha", "write", "find", "create", "answer"},
     paths : SUBSET PathSet, lines : SUBSET Nat, read : Seq(EntriesOf(A)) \cup {None},
     contents : [PathSet -> Seq(EntriesOf(A)) \cup {None}], updates : Seq(UpdatesWith(A)),
     edits : [PathSet -> Seq(EntriesOf(A)) \cup {None}], left : SUBSET PathSet,
     from : [PathSet -> Seq(EntriesOf(A)) \cup {None}] \cup {None}, sha : Seq(EntriesOf(A)) \cup {None}, alone : BOOLEAN]

\* A manifest keeps its size, wherever a copy of it is.
SizedAs(m, size) == \A p \in PathSet : m[p] # None => Len(m[p]) = size[p]
FilesOK(m, A, size) ==
    m \in [PathSet -> Seq(EntriesOf(A)) \cup {None}] /\ SizedAs(m, size)
StateOK(s, A, size) ==
    /\ s \in StatesOf(A) /\ StageOK(s)
    /\ SizedAs(s.contents, size) /\ SizedAs(s.edits, size)
    /\ s.from # None => SizedAs(s.from, size)
    /\ s.pc = "lookup" => Len(s.read) = size[FirstPath(s.paths)]
RunsOK(A, size) == DOMAIN run = Runs /\ run = [r \in Runs |-> run[r]] /\ \A r \in Runs : StateOK(run[r], A, size)
ForgeOK(A, size) ==
    /\ FilesOK(base, A, size)
    /\ head # None => FilesOK(head, A, size)
    /\ fork # None => FilesOK(fork, A, size)
    /\ head = None <=> fork = None
    /\ open => head # None
RegistryOK ==
    /\ status \in [Names -> [Versions -> {"absent", "listed", "yanked"}]]
    /\ releases \in Nat /\ pushes \in Nat /\ failures \in Nat
UpdateInv(A, size) == RegistryOK /\ ForgeOK(A, size) /\ RunsOK(A, size)

LEMMA FilesNotNone ==
    ASSUME NEW A, Closed(A), NEW size, NEW m, FilesOK(m, A, size)
    PROVE  m # None
<1>1. EntriesOf(A) \subseteq Entries
  BY DEF EntriesOf, Entries, Closed
<1>2. Seq(EntriesOf(A)) \subseteq Seq(Entries)
  <2> HIDE DEF EntriesOf, Entries
  <2>1. ASSUME NEW s \in Seq(EntriesOf(A)) PROVE s \in Seq(Entries)
    <3>1. s \in [1..Len(s) -> EntriesOf(A)] /\ Len(s) \in Nat
      BY SequenceIs
    <3>2. s \in [1..Len(s) -> Entries]
      BY <1>1, <3>1
    <3> QED BY <3>1, <3>2, SequenceOf
  <2> QED BY <2>1
<1>3. m \in Manifests
  BY <1>2 DEF FilesOK, Manifests
<1> QED BY <1>3, NoneAssumption

LEMMA FirstPathIs ==
    ASSUME NEW paths, paths \subseteq PathSet, paths # {}
    PROVE  FirstPath(paths) \in paths
<1> DEFINE I == {i \in DOMAIN Paths : Paths[i] \in paths}
<1>1. DOMAIN Paths = 1..Len(Paths) /\ Len(Paths) \in Nat
  BY PathsAssumption
<1>2. I # {} /\ I \subseteq Nat
  BY <1>1 DEF PathSet
<1>3. PICK i \in I : \A j \in I : i <= j
  <2> HIDE DEF I
  <2> QED BY <1>2, Least
<1>4. \A j \in 1..(i - 1) : Paths[j] \notin paths
  <2>1. \A j \in 1..(i - 1) : j \in DOMAIN Paths /\ ~(i <= j)
    BY <1>1, <1>3
  <2> QED BY <1>3, <2>1
<1>5. \E k \in DOMAIN Paths : Paths[k] \in paths /\ \A j \in 1..(k - 1) : Paths[j] \notin paths
  BY <1>3, <1>4
<1> QED BY <1>5 DEF FirstPath

LEMMA FirstLineIs ==
    ASSUME NEW A, NEW m \in Seq(EntriesOf(A)), NEW lines, lines \subseteq DOMAIN m, lines # {}
    PROVE  FirstLine(m, lines) \in lines
<1>1. Len(m) \in Nat /\ \A i \in DOMAIN m : i \in Nat /\ m[i] \in EntriesOf(A)
  OBVIOUS
<1>2. \A i \in DOMAIN m : Place(m, i) \in Nat
  <2>1. ASSUME NEW i \in DOMAIN m PROVE Scopes[m[i].scope] \in {0, 1, 2}
    <3>1. m[i].scope \in DOMAIN Scopes
      BY <1>1 DEF EntriesOf
    <3> QED BY <3>1 DEF Scopes
  <2>2. \A k \in {0, 1, 2} : k * Len(m) \in Nat
    BY <1>1
  <2> QED BY <1>1, <2>1, <2>2 DEF Place
<1> DEFINE Places == {Place(m, i) : i \in lines}
<1>3. Places \subseteq Nat /\ Places # {}
  BY <1>2
<1>4. PICK x \in Places : \A y \in Places : x <= y
  <2> HIDE DEF Places
  <2> QED BY <1>3, Least
<1>5. \E i \in lines : \A j \in lines : Place(m, i) <= Place(m, j)
  BY <1>4
<1> QED BY <1>5 DEF FirstLine

\* A run that is at rest, and one that is no longer alone.
LEMMA RestingOK ==
    ASSUME NEW A, NEW size
    PROVE  StateOK(Resting, A, size)
<1>1. Resting \in StatesOf(A)
  BY DEF Resting, StatesOf
<1>2. /\ Resting.pc = "idle" /\ Resting.updates = <<>> /\ Resting.left = {} /\ Resting.from = None
      /\ \A p \in PathSet : Resting.contents[p] = None /\ Resting.edits[p] = None
  BY DEF Resting
<1>3. StageOK(Resting)
  BY <1>2 DEF StageOK
<1> QED BY <1>1, <1>2, <1>3 DEF StateOK, SizedAs

LEMMA NoticedOK ==
    ASSUME NEW A, NEW size, NEW s, StateOK(s, A, size)
    PROVE  StateOK([s EXCEPT !.alone = FALSE], A, size)
<1> DEFINE t == [s EXCEPT !.alone = FALSE]
<1>1. s \in StatesOf(A)
  BY DEF StateOK
<1>2. /\ t \in StatesOf(A) /\ t.pc = s.pc /\ t.paths = s.paths /\ t.lines = s.lines /\ t.read = s.read
      /\ t.contents = s.contents /\ t.updates = s.updates /\ t.edits = s.edits /\ t.left = s.left
      /\ t.from = s.from
  BY <1>1 DEF StatesOf
<1> HIDE DEF t
<1>3. StageOK(t)
  BY <1>2 DEF StageOK, StateOK
<1>4. StateOK(t, A, size)
  BY <1>2, <1>3 DEF StateOK
<1> QED BY <1>4 DEF t

\* The runs after a step of one of them, noticed by the others or not.
LEMMA OneMoves ==
    ASSUME NEW A, NEW size, RunsOK(A, size), NEW r \in Runs, NEW s, StateOK(s, A, size),
           Become(r, s)
    PROVE  RunsOK(A, size)'
<1>0. run' = [run EXCEPT ![r] = s]
  BY DEF Become
<1>1. DOMAIN run' = Runs /\ run' = [q \in Runs |-> run'[q]]
  BY <1>0 DEF RunsOK
<1>2. \A q \in Runs : run'[q] = IF q = r THEN s ELSE run[q]
  BY <1>0 DEF RunsOK
<1>3. \A q \in Runs : StateOK(run'[q], A, size)
  BY <1>2 DEF RunsOK
<1> QED BY <1>1, <1>3 DEF RunsOK

LEMMA OneOvertakes ==
    ASSUME NEW A, NEW size, RunsOK(A, size), NEW r \in Runs, NEW s, StateOK(s, A, size),
           Overtaking(r, s)
    PROVE  RunsOK(A, size)'
<1>1. run' = [q \in Runs |-> IF q = r THEN s ELSE [run[q] EXCEPT !.alone = FALSE]]
  BY DEF Overtaking
<1>2. DOMAIN run' = Runs /\ run' = [q \in Runs |-> run'[q]]
  BY <1>1
<1>3. \A q \in Runs : run'[q] = IF q = r THEN s ELSE [run[q] EXCEPT !.alone = FALSE]
  BY <1>1
<1>4. ASSUME NEW q \in Runs PROVE StateOK(run'[q], A, size)
  <2>1. CASE q = r
    BY <1>3, <2>1
  <2>2. CASE q # r
    <3>1. StateOK([run[q] EXCEPT !.alone = FALSE], A, size)
      BY NoticedOK DEF RunsOK
    <3> QED BY <1>3, <2>2, <3>1
  <2> QED BY <2>1, <2>2
<1> QED BY <1>2, <1>4 DEF RunsOK

LEMMA AllNotice ==
    ASSUME NEW A, NEW size, RunsOK(A, size), Unnoticed
    PROVE  RunsOK(A, size)'
<1>1. DOMAIN run' = Runs /\ run' = [q \in Runs |-> run'[q]]
  BY DEF Unnoticed
<1>2. \A q \in Runs : run'[q] = [run[q] EXCEPT !.alone = FALSE]
  BY DEF Unnoticed
<1>3. ASSUME NEW q \in Runs PROVE StateOK(run'[q], A, size)
  <2>1. StateOK([run[q] EXCEPT !.alone = FALSE], A, size)
    BY NoticedOK DEF RunsOK
  <2> QED BY <1>2, <2>1
<1> QED BY <1>1, <1>3 DEF RunsOK

-----------------------------------------------------------------------------
(* Typing: every step keeps what a run and the forge hold                  *)

LEMMA UpdateStart ==
    ASSUME NEW A, Closed(A), Init
    PROVE  \E size \in [PathSet -> Nat] : UpdateInv(A, size)
<1>1. base \in [PathSet -> Seq(EntriesOf(A)) \cup {None}]
  BY DEF Init, Closed
<1> DEFINE size == [p \in PathSet |-> IF base[p] = None THEN 0 ELSE Len(base[p])]
<1>2. size \in [PathSet -> Nat] /\ SizedAs(base, size)
  BY <1>1 DEF SizedAs
<1> HIDE DEF size
<1>3. ForgeOK(A, size)
  BY <1>1, <1>2 DEF Init, ForgeOK, FilesOK
<1>4. RunsOK(A, size)
  <2>1. run = [r \in Runs |-> Resting]
    BY DEF Init
  <2> QED BY <2>1, RestingOK DEF RunsOK
<1>5. RegistryOK
  BY DEF Init, RegistryOK
<1> QED BY <1>2, <1>3, <1>4, <1>5 DEF UpdateInv

\* The forge after a step that leaves it as it is.
LEMMA ForgeStays ==
    ASSUME NEW A, NEW size, ForgeOK(A, size), UNCHANGED forge
    PROVE  ForgeOK(A, size)'
BY DEF ForgeOK, FilesOK, forge

LEMMA RegistryStays ==
    ASSUME RegistryOK, UNCHANGED <<status, releases>>,
           UNCHANGED pushes \/ pushes' = pushes + 1, UNCHANGED failures \/ failures' = failures + 1
    PROVE  RegistryOK'
BY DEF RegistryOK

\* The parts of a state.
LEMMA StateIs ==
    ASSUME NEW A, NEW size, NEW s, StateOK(s, A, size)
    PROVE  /\ s.paths \subseteq PathSet /\ s.left \subseteq PathSet /\ s.lines \subseteq Nat
           /\ s.read \in Seq(EntriesOf(A)) \cup {None} /\ s.sha \in Seq(EntriesOf(A)) \cup {None}
           /\ s.contents \in [PathSet -> Seq(EntriesOf(A)) \cup {None}]
           /\ s.edits \in [PathSet -> Seq(EntriesOf(A)) \cup {None}]
           /\ s.updates \in Seq(UpdatesWith(A)) /\ s.alone \in BOOLEAN
           /\ s \in StatesOf(A) /\ StageOK(s)
           /\ SizedAs(s.contents, size) /\ SizedAs(s.edits, size)
           /\ s.from \in [PathSet -> Seq(EntriesOf(A)) \cup {None}] \cup {None}
           /\ s.from # None => SizedAs(s.from, size)
           /\ s.pc = "lookup" => Len(s.read) = size[FirstPath(s.paths)]
BY DEF StateOK, StatesOf

LEMMA ListFilesStep ==
    ASSUME NEW A, NEW size, RunsOK(A, size), NEW r \in Runs, ListFiles(r)
    PROVE  RunsOK(A, size)'
<1> DEFINE free == (head = None)
           listed == {p \in PathSet : base[p] # None}
           s == [Resting EXCEPT !.pc = "read", !.paths = listed, !.alone = free]
<1>1. Become(r, s)
  BY DEF ListFiles
<1>2. Resting \in StatesOf(A) /\ StateOK(Resting, A, size) /\ free \in BOOLEAN /\ listed \subseteq PathSet
  BY RestingOK DEF StateOK
<1> HIDE DEF free, listed
<1>3. /\ s \in StatesOf(A) /\ s.pc = "read" /\ s.left = Resting.left /\ s.updates = Resting.updates
      /\ s.contents = Resting.contents /\ s.edits = Resting.edits /\ s.from = Resting.from
  BY <1>2 DEF StatesOf
<1>4. Resting.updates = <<>> /\ Resting.left = {} /\ Resting.from = None
  BY DEF Resting
<1> HIDE DEF s
<1>5. StageOK(s)
  BY <1>3, <1>4 DEF StageOK
<1>6. StateOK(s, A, size)
  BY <1>2, <1>3, <1>5 DEF StateOK
<1> QED BY <1>1, <1>6, OneMoves

LEMMA ReadFileStep ==
    ASSUME NEW A, NEW size, FilesOK(base, A, size), RunsOK(A, size), NEW r \in Runs, ReadFile(r)
    PROVE  RunsOK(A, size)'
<1> DEFINE p == FirstPath(run[r].paths)
           gone == [run[r] EXCEPT !.paths = @ \ {p}]
           there == [run[r] EXCEPT !.pc = "lookup", !.read = base[p], !.lines = Extract(base[p])]
<1>1. StateOK(run[r], A, size) /\ run[r].pc = "read" /\ run[r].paths # {}
  BY DEF RunsOK, ReadFile
<1>2. p \in run[r].paths /\ p \in PathSet
  BY <1>1, FirstPathIs, StateIs
<1>3. Become(r, IF base[p] = None THEN gone ELSE there)
  BY DEF ReadFile
<1>4. StateOK(gone, A, size)
  <2>1. /\ gone \in StatesOf(A) /\ gone.pc = "read" /\ gone.left = run[r].left
        /\ gone.updates = run[r].updates /\ gone.contents = run[r].contents /\ gone.edits = run[r].edits
        /\ gone.from = run[r].from
    BY <1>1, StateIs DEF StatesOf
  <2> HIDE DEF gone
  <2>2. StageOK(gone)
    BY <1>1, <2>1, StateIs DEF StageOK
  <2> QED BY <1>1, <2>1, <2>2, StateIs DEF StateOK
<1>5. ASSUME base[p] # None PROVE StateOK(there, A, size)
  <2>1. base[p] \in Seq(EntriesOf(A)) /\ Len(base[p]) = size[p]
    BY <1>2, <1>5 DEF FilesOK, SizedAs
  <2>2. Extract(base[p]) \subseteq Nat
    BY <2>1 DEF Extract
  <2>3. /\ there \in StatesOf(A) /\ there.pc = "lookup" /\ there.left = run[r].left
        /\ there.updates = run[r].updates /\ there.contents = run[r].contents
        /\ there.edits = run[r].edits /\ there.paths = run[r].paths
        /\ there.read = base[p] /\ there.lines = Extract(base[p])
        /\ there.from = run[r].from
    <3> DEFINE m == base[p]
               l == Extract(base[p])
    <3>1. m \in Seq(EntriesOf(A)) \cup {None} /\ l \in SUBSET Nat /\ run[r] \in StatesOf(A)
      BY <1>1, <2>1, <2>2, StateIs
    <3> HIDE DEF m, l, p
    <3>2. [run[r] EXCEPT !.pc = "lookup", !.read = m, !.lines = l] = there
      BY DEF m, l
    <3> HIDE DEF there
    <3> QED BY <3>1, <3>2 DEF StatesOf, m, l
  <2> HIDE DEF there
  <2>4. StageOK(there)
    BY <1>1, <1>5, <2>3, StateIs DEF StageOK
  <2> QED BY <1>1, <2>1, <2>3, <2>4, StateIs DEF StateOK
<1> HIDE DEF gone, there
<1>6. CASE base[p] = None
  BY <1>3, <1>4, <1>6, OneMoves
<1>7. CASE base[p] # None
  BY <1>3, <1>5, <1>7, OneMoves
<1> QED BY <1>6, <1>7

LEMMA LookupStep ==
    ASSUME NEW A, Closed(A), NEW size, RunsOK(A, size), NEW r \in Runs, Lookup(r)
    PROVE  RunsOK(A, size)'
<1> DEFINE p == FirstPath(run[r].paths)
           line == FirstLine(run[r].read, run[r].lines)
           d == run[r].read[line]
           update == DetermineUpdate(d.name, d.value)
           seen == [run[r] EXCEPT !.lines = @ \ {line}]
           entry == [path |-> p, name |-> d.name, dep |-> d.dep, value |-> update.value]
           more == [seen EXCEPT !.updates = Append(@, entry), !.contents[p] = run[r].read]
<1>1. /\ StateOK(run[r], A, size) /\ run[r].pc = "lookup" /\ run[r].lines # {}
      /\ Become(r, IF update = None THEN seen ELSE more)
  BY DEF RunsOK, Lookup
<1>2. /\ run[r].paths # {} /\ run[r].read # None /\ run[r].lines \subseteq Extract(run[r].read)
      /\ run[r].read \in Seq(EntriesOf(A)) /\ Len(run[r].read) = size[p]
  BY <1>1, StateIs DEF StageOK
<1>3. p \in PathSet
  BY <1>1, <1>2, FirstPathIs, StateIs
<1>4. d \in EntriesOf(A)
  <2>1. run[r].lines \subseteq DOMAIN run[r].read
    BY <1>2 DEF Extract
  <2>2. line \in DOMAIN run[r].read
    BY <1>1, <1>2, <2>1, FirstLineIs
  <2> HIDE DEF line
  <2> QED BY <1>2, <2>2
<1> HIDE DEF p, line
<1>5. StateOK(seen, A, size)
  <2>1. /\ seen \in StatesOf(A) /\ seen.pc = run[r].pc /\ seen.paths = run[r].paths
        /\ seen.lines = run[r].lines \ {line} /\ seen.read = run[r].read
        /\ seen.contents = run[r].contents /\ seen.updates = run[r].updates
        /\ seen.edits = run[r].edits /\ seen.left = run[r].left
        /\ seen.from = run[r].from
    <3> DEFINE rest == run[r].lines \ {line}
    <3>1. rest \in SUBSET Nat /\ run[r] \in StatesOf(A)
      BY <1>1, StateIs
    <3> HIDE DEF rest
    <3>2. seen = [run[r] EXCEPT !.lines = rest]
      BY DEF rest
    <3> HIDE DEF seen
    <3> QED BY <3>1, <3>2 DEF StatesOf, rest
  <2> HIDE DEF seen
  <2>2. StageOK(seen)
    BY <1>1, <2>1, StateIs DEF StageOK
  <2> QED BY <1>1, <2>1, <2>2, StateIs DEF StateOK
<1>6. ASSUME update # None PROVE StateOK(more, A, size)
  <2>1. entry \in UpdatesWith(A)
    <3>1. d.name \in Names /\ d.dep \in STRING /\ d.value \in A
      BY <1>4 DEF EntriesOf
    <3>2. update.value \in A
      <4>1. d.value \in Requirements
        BY <3>1 DEF Closed
      <4> HIDE DEF d
      <4>2. update.value \in Inclusive
        BY <1>6, <4>1, Rewritten
      <4> HIDE DEF update
      <4> QED BY <4>2 DEF Closed
    <3> HIDE DEF d, update
    <3> QED BY <1>3, <3>1, <3>2 DEF UpdatesWith
  <2> HIDE DEF entry, seen
  <2>2. /\ Append(seen.updates, entry) \in Seq(UpdatesWith(A))
        /\ [seen.contents EXCEPT ![p] = run[r].read] \in [PathSet -> Seq(EntriesOf(A)) \cup {None}]
    BY <1>2, <1>3, <1>5, <2>1, StateIs
  <2> DEFINE fed == Append(seen.updates, entry)
             held == [seen.contents EXCEPT ![p] = run[r].read]
  <2>3. more = [seen EXCEPT !.updates = fed, !.contents = held]
    BY <1>5, StateIs DEF StatesOf
  <2>4. \A q \in PathSet : held[q] = IF q = p THEN run[r].read ELSE seen.contents[q]
    BY <1>5, StateIs
  <2> HIDE DEF fed, held, more
  <2>5. /\ more \in StatesOf(A) /\ more.pc = seen.pc /\ more.paths = seen.paths
        /\ more.lines = seen.lines /\ more.read = seen.read /\ more.contents = held
        /\ more.edits = seen.edits /\ more.left = seen.left /\ more.from = seen.from
    <3>1. /\ fed \in Seq(UpdatesWith(A)) /\ seen \in StatesOf(A)
          /\ held \in [PathSet -> Seq(EntriesOf(A)) \cup {None}]
      BY <1>5, <2>2, StateIs DEF fed, held
    <3> QED BY <2>3, <3>1 DEF StatesOf
  <2>6. seen.pc = "lookup"
    BY <1>1 DEF seen
  <2>7. StageOK(more)
    BY <1>2, <1>3, <1>5, <2>4, <2>5, <2>6, StateIs DEF StageOK
  <2>8. SizedAs(more.contents, size)
    BY <1>2, <1>5, <2>4, <2>5, StateIs DEF SizedAs
  <2> QED BY <1>5, <2>5, <2>7, <2>8, StateIs DEF StateOK
<1> HIDE DEF seen, more, update
<1>7. CASE update = None
  BY <1>1, <1>5, <1>7, OneMoves
<1>8. CASE update # None
  BY <1>1, <1>6, <1>8, OneMoves
<1> QED BY <1>7, <1>8

LEMMA FinishFileStep ==
    ASSUME NEW A, NEW size, RunsOK(A, size), NEW r \in Runs, FinishFile(r)
    PROVE  RunsOK(A, size)'
<1> DEFINE s == [run[r] EXCEPT !.pc = "read", !.paths = @ \ {FirstPath(@)}, !.read = None]
<1>1. StateOK(run[r], A, size) /\ run[r].pc = "lookup" /\ Become(r, s)
  BY DEF RunsOK, FinishFile
<1>2. /\ s \in StatesOf(A) /\ s.pc = "read" /\ s.left = run[r].left /\ s.updates = run[r].updates
      /\ s.contents = run[r].contents /\ s.edits = run[r].edits /\ s.from = run[r].from
  <2> DEFINE rest == run[r].paths \ {FirstPath(run[r].paths)}
  <2>1. rest \in SUBSET PathSet /\ run[r] \in StatesOf(A)
    BY <1>1, StateIs
  <2> HIDE DEF rest
  <2>2. s = [run[r] EXCEPT !.pc = "read", !.paths = rest, !.read = None]
    BY DEF rest
  <2> HIDE DEF s
  <2> QED BY <2>1, <2>2 DEF StatesOf
<1> HIDE DEF s
<1>3. StageOK(s)
  BY <1>1, <1>2, StateIs DEF StageOK
<1>4. StateOK(s, A, size)
  BY <1>1, <1>2, <1>3, StateIs DEF StateOK
<1> QED BY <1>1, <1>4, OneMoves

LEMMA EndStep ==
    ASSUME NEW A, NEW size, RunsOK(A, size), NEW r \in Runs, End(r)
    PROVE  RunsOK(A, size)'
BY RestingOK, OneMoves DEF End

LEMMA BuildEditsStep ==
    ASSUME NEW A, NEW size, RunsOK(A, size), NEW r \in Runs, BuildEdits(r)
    PROVE  RunsOK(A, size)'
<1> DEFINE contents == run[r].contents
           changed == {p \in PathSet : contents[p] # None}
           edits == [p \in PathSet |-> Edited(run[r].updates, p, contents[p])]
           s == [run[r] EXCEPT !.pc = "branch", !.edits = edits, !.left = changed]
<1>1. /\ StateOK(run[r], A, size)
      /\ \/ End(r)
         \/ run[r].updates # <<>> /\ (\A p \in changed : edits[p] # None) /\ Become(r, s)
  BY DEF RunsOK, BuildEdits
<1>2. CASE End(r)
  BY <1>2, EndStep
<1>3. CASE run[r].updates # <<>> /\ (\A p \in changed : edits[p] # None) /\ Become(r, s)
  <2>1. /\ run[r].updates \in Seq(UpdatesWith(A)) /\ SizedAs(contents, size)
        /\ contents \in [PathSet -> Seq(EntriesOf(A)) \cup {None}]
        /\ Len(run[r].updates) \in Nat /\ StageOK(run[r])
    BY <1>1, StateIs
  <2>2. ASSUME NEW p \in PathSet
        PROVE  /\ edits[p] = None <=> contents[p] = None
               /\ edits[p] # None => edits[p] \in Seq(EntriesOf(A)) /\ Len(edits[p]) = size[p]
    <3>1. edits[p] = Edited(run[r].updates, p, contents[p])
      OBVIOUS
    <3>2. CASE contents[p] = None
      <4>1. edits[p] = None
        BY <2>1, <3>1, <3>2, EditedNone
      <4> QED BY <3>2, <4>1
    <3>3. CASE contents[p] # None
      <4>1. edits[p] # None
        BY <1>3, <3>3
      <4>2. contents[p] \in Seq(EntriesOf(A)) /\ Len(contents[p]) = size[p]
        BY <2>1, <3>3 DEF SizedAs
      <4>3. edits[p] \in Seq(EntriesOf(A)) /\ Len(edits[p]) = Len(contents[p])
        <5> HIDE DEF edits, contents
        <5>1. Edited(run[r].updates, p, contents[p]) # None
          BY <3>1, <4>1
        <5> QED BY <2>1, <3>1, <4>2, <5>1, EditedKeeps
      <4> QED BY <3>3, <4>1, <4>2, <4>3
    <3> QED BY <3>2, <3>3
  <2>3. edits \in [PathSet -> Seq(EntriesOf(A)) \cup {None}] /\ SizedAs(edits, size)
    <3>1. edits = [p \in PathSet |-> edits[p]]
      OBVIOUS
    <3> HIDE DEF edits, contents, changed
    <3> QED BY <2>2, <3>1 DEF SizedAs
  <2>4. changed \subseteq PathSet /\ changed = {p \in PathSet : edits[p] # None} /\ changed # {}
    <3>1. \E p \in PathSet : contents[p] # None
      BY <1>3, <2>1 DEF StageOK
    <3> HIDE DEF edits, contents
    <3> QED BY <2>2, <3>1
  <2> HIDE DEF edits, changed
  <2>5. /\ s \in StatesOf(A) /\ s.pc = "branch" /\ s.edits = edits /\ s.left = changed
        /\ s.updates = run[r].updates /\ s.contents = run[r].contents
        /\ s.from = run[r].from
    <3>1. run[r] \in StatesOf(A) /\ changed \in SUBSET PathSet
      BY <1>1, <2>4, StateIs
    <3> QED BY <2>3, <3>1 DEF StatesOf
  <2> HIDE DEF s
  <2>6. StageOK(s)
    BY <2>1, <2>2, <2>4, <2>5 DEF StageOK, contents
  <2>7. StateOK(s, A, size)
    BY <1>1, <2>1, <2>3, <2>5, <2>6, StateIs DEF StateOK, contents
  <2> QED BY <1>3, <2>7, OneMoves
<1> QED BY <1>1, <1>2, <1>3


\* A run that has its edits, and does not change them.
Later(t, s, A) ==
    /\ t \in StatesOf(A) /\ t.pc \in {"sha", "write", "find", "create", "answer"}
    /\ t.edits = s.edits /\ t.contents = s.contents /\ t.updates = s.updates
    /\ t.from \in {s.from, None}
LEMMA LaterOK ==
    ASSUME NEW A, NEW size, NEW s, StateOK(s, A, size),
           s.pc \in {"ref", "sha", "write", "find", "create"},
           NEW t, Later(t, s, A), t.left \subseteq s.left, t.pc \in {"sha", "write"} <=> t.left # {}
    PROVE  StateOK(t, A, size)
<1>1. StageOK(t)
  BY StateIs DEF StageOK, Later
<1>2. t.from # None => SizedAs(t.from, size)
  BY StateIs DEF Later
<1>3. /\ t \in StatesOf(A) /\ t.pc # "lookup"
      /\ SizedAs(t.contents, size) /\ SizedAs(t.edits, size)
  BY StateIs DEF Later
<1> QED BY <1>1, <1>2, <1>3 DEF StateOK

LEMMA ReadBaseHeadStep ==
    ASSUME NEW A, Closed(A), NEW size, FilesOK(base, A, size), RunsOK(A, size), NEW r \in Runs,
           ReadBaseHead(r)
    PROVE  RunsOK(A, size)'
<1> DEFINE at == base
           s == [run[r] EXCEPT !.pc = "ref", !.from = at]
<1>1. StateOK(run[r], A, size) /\ run[r].pc = "branch" /\ Become(r, s)
  BY DEF RunsOK, ReadBaseHead
<1>2. at \in [PathSet -> Seq(EntriesOf(A)) \cup {None}] /\ SizedAs(at, size) /\ at # None
  BY FilesNotNone DEF FilesOK
<1> HIDE DEF at
<1>3. /\ s \in StatesOf(A) /\ s.pc = "ref" /\ s.left = run[r].left /\ s.from = at
      /\ s.updates = run[r].updates /\ s.contents = run[r].contents /\ s.edits = run[r].edits
  <2>1. run[r] \in StatesOf(A)
    BY <1>1, StateIs
  <2>2. at \in [PathSet -> Seq(EntriesOf(A)) \cup {None}] \cup {None}
    BY <1>2
  <2> QED BY <2>1, <2>2 DEF StatesOf
<1> HIDE DEF s
<1>4. StageOK(s)
  BY <1>1, <1>2, <1>3, StateIs DEF StageOK
<1>5. StateOK(s, A, size)
  BY <1>1, <1>2, <1>3, <1>4, StateIs DEF StateOK
<1> QED BY <1>1, <1>5, OneMoves

LEMMA EnsureBranchStep ==
    ASSUME NEW A, Closed(A), NEW size, ForgeOK(A, size), RunsOK(A, size), NEW r \in Runs, EnsureBranch(r)
    PROVE  ForgeOK(A, size)' /\ RunsOK(A, size)'
<1>1. StateOK(run[r], A, size) /\ run[r].pc = "ref"
  BY DEF RunsOK, EnsureBranch
<1>2. /\ run[r].left # {} /\ run[r] \in StatesOf(A) /\ run[r].alone \in BOOLEAN
      /\ run[r].sha \in Seq(EntriesOf(A)) \cup {None}
      /\ FilesOK(run[r].from, A, size) /\ run[r].from # None
  BY <1>1, StateIs DEF StageOK, FilesOK
<1>3. CASE BranchExists
  <2> DEFINE s == [run[r] EXCEPT !.pc = "sha", !.from = None, !.alone = FALSE]
  <2>1. Become(r, s) /\ UNCHANGED forge
    BY <1>3 DEF EnsureBranch, forge
  <2>2. Later(s, run[r], A) /\ s.pc = "sha" /\ s.left = run[r].left
    BY <1>2 DEF StatesOf, Later
  <2> HIDE DEF s
  <2>3. StateOK(s, A, size)
    BY <1>1, <1>2, <2>2, LaterOK
  <2> QED BY <2>1, <2>3, ForgeStays, OneMoves
<1>4. CASE ~BranchExists
  <2> DEFINE s == [run[r] EXCEPT !.pc = "sha", !.from = None]
  <2>1. Overtaking(r, s) /\ head' = run[r].from /\ fork' = run[r].from /\ UNCHANGED <<base, open>> /\ head = None
    BY <1>4 DEF EnsureBranch, BranchExists
  <2>2. Later(s, run[r], A) /\ s.pc = "sha" /\ s.left = run[r].left
    BY <1>2 DEF StatesOf, Later
  <2> HIDE DEF s
  <2>3. StateOK(s, A, size)
    BY <1>1, <1>2, <2>2, LaterOK
  <2>4. ForgeOK(A, size)'
    BY <1>2, <2>1 DEF ForgeOK, FilesOK
  <2> QED BY <2>1, <2>3, <2>4, OneOvertakes
<1> QED BY <1>3, <1>4

LEMMA ReadShaStep ==
    ASSUME NEW A, NEW size, ForgeOK(A, size), RunsOK(A, size), NEW r \in Runs, ReadSha(r)
    PROVE  RunsOK(A, size)'
<1> DEFINE sha == IF head = None THEN None ELSE head[Target(r)]
           s == [run[r] EXCEPT !.pc = "write", !.sha = sha]
<1>1. StateOK(run[r], A, size) /\ run[r].pc = "sha" /\ Become(r, s)
  BY DEF RunsOK, ReadSha
<1>2. /\ run[r].left # {} /\ run[r].left \subseteq PathSet /\ run[r] \in StatesOf(A)
      /\ run[r].alone \in BOOLEAN
  BY <1>1, StateIs DEF StageOK
<1>3. Target(r) \in PathSet
  BY <1>2, FirstPathIs DEF Target
<1>4. sha \in Seq(EntriesOf(A)) \cup {None}
  BY <1>3 DEF ForgeOK, FilesOK
<1> HIDE DEF sha
<1>5. Later(s, run[r], A) /\ s.pc = "write" /\ s.left = run[r].left
  BY <1>2, <1>4 DEF StatesOf, Later
<1> HIDE DEF s
<1>6. StateOK(s, A, size)
  BY <1>1, <1>2, <1>4, <1>5, LaterOK
<1> QED BY <1>1, <1>6, OneMoves

\* One file of the manifests is replaced, or gone.
LEMMA OneFile ==
    ASSUME NEW A, NEW size, NEW m, FilesOK(m, A, size), NEW p \in PathSet,
           NEW file \in Seq(EntriesOf(A)) \cup {None}, file # None => Len(file) = size[p]
    PROVE  LET new == [m EXCEPT ![p] = file] IN
           /\ FilesOK(new, A, size) /\ \A q \in PathSet : new[q] = IF q = p THEN file ELSE m[q]
<1> DEFINE new == [m EXCEPT ![p] = file]
<1>1. /\ new \in [PathSet -> Seq(EntriesOf(A)) \cup {None}]
      /\ \A q \in PathSet : new[q] = IF q = p THEN file ELSE m[q]
  BY DEF FilesOK
<1> HIDE DEF new
<1>2. SizedAs(new, size)
  BY <1>1 DEF SizedAs, FilesOK
<1> QED BY <1>1, <1>2 DEF FilesOK, new

SameEdits(t, s) == t.edits = s.edits /\ t.alone = s.alone
LEMMA WrittenIs ==
    ASSUME NEW A, NEW size, NEW r, StateOK(run[r], A, size), run[r].pc = "write"
    PROVE  LET s == Written(r) IN
           /\ StateOK(s, A, size) /\ SameEdits(s, run[r]) /\ s.left = run[r].left \ {Target(r)}
           /\ s.pc \in {"sha", "find"}
           /\ Target(r) \in run[r].left /\ Target(r) \in PathSet
<1> DEFINE rest == run[r].left \ {Target(r)}
           pc == IF run[r].left = {Target(r)} THEN "find" ELSE "sha"
           s == Written(r)
<1>1. /\ run[r].left # {} /\ run[r].left \subseteq PathSet /\ run[r] \in StatesOf(A)
      /\ run[r].alone \in BOOLEAN
  BY StateIs DEF StageOK
<1>2. Target(r) \in run[r].left /\ Target(r) \in PathSet
  BY <1>1, FirstPathIs DEF Target
<1>3. rest \in SUBSET run[r].left /\ pc \in {"sha", "find"} /\ (pc = "sha" <=> rest # {})
  BY <1>1, <1>2
<1>4. Later(s, run[r], A) /\ s.pc = pc /\ s.left = rest /\ s.alone = run[r].alone
  <2>1. s = [run[r] EXCEPT !.left = rest, !.sha = None, !.pc = pc]
    BY DEF Written
  <2>2. rest \in SUBSET PathSet
    BY <1>1
  <2> HIDE DEF s, rest, pc
  <2> QED BY <1>1, <1>3, <2>1, <2>2 DEF StatesOf, Later
<1> HIDE DEF pc, s
<1>5. StateOK(s, A, size) /\ SameEdits(s, run[r]) /\ s.left = rest /\ s.pc = pc
  <2> HIDE DEF rest
  <2>1. StateOK(s, A, size)
    BY <1>3, <1>4, LaterOK
  <2> QED BY <1>4, <2>1 DEF Later, SameEdits
<1> QED BY <1>2, <1>3, <1>5 DEF s

LEMMA WriteEditStep ==
    ASSUME NEW A, Closed(A), NEW size, ForgeOK(A, size), RunsOK(A, size), NEW r \in Runs, WriteEdit(r)
    PROVE  ForgeOK(A, size)' /\ RunsOK(A, size)'
<1>1. StateOK(run[r], A, size) /\ run[r].pc = "write"
  BY DEF RunsOK, WriteEdit
<1>2. CASE head # None /\ Write(r) /\ Overtaking(r, Written(r)) /\ UNCHANGED <<base, fork, open>>
  <2> DEFINE p == Target(r)
             file == run[r].edits[p]
  <2>1. p \in PathSet /\ file \in Seq(EntriesOf(A)) \cup {None} /\ (file # None => Len(file) = size[p])
    <3>1. /\ run[r].edits \in [PathSet -> Seq(EntriesOf(A)) \cup {None}] /\ SizedAs(run[r].edits, size)
          /\ p \in PathSet
      BY <1>1, WrittenIs, StateIs
    <3> HIDE DEF p
    <3> QED BY <3>1 DEF SizedAs
  <2>2. FilesOK(head, A, size)
    BY <1>2 DEF ForgeOK
  <2>3. head' = [head EXCEPT ![p] = file]
    BY <1>2 DEF Write
  <2> HIDE DEF p, file
  <2>4. FilesOK(head', A, size)
    BY <2>1, <2>2, <2>3, OneFile
  <2>5. head' # None
    BY <2>4, FilesNotNone
  <2>6. ForgeOK(A, size)'
    BY <1>2, <2>4, <2>5 DEF ForgeOK, FilesOK
  <2>7. StateOK(Written(r), A, size)
    BY <1>1, WrittenIs
  <2> QED BY <1>2, <2>6, <2>7, OneOvertakes
<1>3. CASE End(r) /\ UNCHANGED forge
  BY <1>3, EndStep, ForgeStays
<1> QED BY <1>2, <1>3 DEF WriteEdit, forge

LEMMA GotoStep ==
    ASSUME NEW A, NEW size, RunsOK(A, size), NEW r \in Runs, run[r].pc \in {"find", "create"},
           NEW pc \in {"create", "answer"}, Goto(r, pc)
    PROVE  RunsOK(A, size)'
<1> DEFINE s == [run[r] EXCEPT !.pc = pc]
<1>1. StateOK(run[r], A, size) /\ Become(r, s)
  BY DEF RunsOK, Goto
<1>2. /\ run[r].left = {} /\ run[r] \in StatesOf(A) /\ run[r].alone \in BOOLEAN
      /\ run[r].sha \in Seq(EntriesOf(A)) \cup {None}
  BY <1>1, StateIs DEF StageOK
<1>3. Later(s, run[r], A) /\ s.pc = pc /\ s.left = run[r].left
  BY <1>2 DEF StatesOf, Later
<1> HIDE DEF s
<1>4. StateOK(s, A, size)
  BY <1>1, <1>2, <1>3, LaterOK
<1> QED BY <1>1, <1>4, OneMoves

LEMMA PushConstraintStep ==
    ASSUME NEW A, Closed(A), NEW size, FilesOK(base, A, size), NEW p \in PathSet, NEW c \in Constraints,
           NEW i, PushConstraint(p, i, c)
    PROVE  FilesOK(base', A, size)
<1> DEFINE old == base[p]
           file == [old EXCEPT ![i].value = c]
<1>1. old # None /\ i \in DOMAIN old /\ base' = [base EXCEPT ![p][i].value = c]
  BY DEF PushConstraint
<1>2. old \in Seq(EntriesOf(A)) /\ Len(old) = size[p] /\ base \in [PathSet -> Seq(EntriesOf(A)) \cup {None}]
  BY <1>1 DEF FilesOK, SizedAs
<1>3. base' = [base EXCEPT ![p] = file]
  BY <1>1, <1>2
<1>4. c \in A
  BY DEF Closed
<1> HIDE DEF old
<1>5. Len(old) \in Nat /\ DOMAIN old = 1..Len(old) /\ old \in [1..Len(old) -> EntriesOf(A)]
  BY <1>2, SequenceIs
<1>6. file \in [1..Len(old) -> EntriesOf(A)]
  <2>1. old[i] \in EntriesOf(A)
    BY <1>1, <1>5
  <2>2. SetTo(old[i], c) \in EntriesOf(A)
    BY <1>4, <2>1, SetIs
  <2>3. file = [k \in 1..Len(old) |-> IF k = i THEN SetTo(old[i], c) ELSE old[k]]
    BY <1>1, <1>5 DEF SetTo
  <2>4. \A k \in 1..Len(old) : (IF k = i THEN SetTo(old[i], c) ELSE old[k]) \in EntriesOf(A)
    BY <1>5, <2>2
  <2> HIDE DEF file
  <2> QED BY <2>3, <2>4, Zenon
<1> HIDE DEF file
<1>7. file \in Seq(EntriesOf(A)) /\ Len(file) = Len(old)
  BY <1>5, <1>6, SequenceOf
<1> QED BY <1>2, <1>3, <1>7, OneFile

LEMMA RemoveManifestStep ==
    ASSUME NEW A, NEW size, FilesOK(base, A, size), NEW p \in PathSet, RemoveManifest(p)
    PROVE  FilesOK(base', A, size)
<1>1. base' = [base EXCEPT ![p] = None]
  BY DEF RemoveManifest
<1> QED BY <1>1, OneFile

\* What is merged is of the same size.
LEMMA MergedIs ==
    ASSUME NEW A, NEW size, FilesOK(base, A, size), FilesOK(head, A, size), FilesOK(fork, A, size),
           NEW p \in PathSet
    PROVE  /\ Merged(p) \in Seq(EntriesOf(A)) \cup {None}
           /\ Merged(p) # None => Len(Merged(p)) = size[p]
<1>1. /\ base[p] \in Seq(EntriesOf(A)) \cup {None} /\ (base[p] # None => Len(base[p]) = size[p])
      /\ head[p] \in Seq(EntriesOf(A)) \cup {None} /\ (head[p] # None => Len(head[p]) = size[p])
  BY DEF FilesOK, SizedAs
<1>2. CASE SameShape(p)
  <2> DEFINE n == Len(base[p])
             merged == [i \in 1..n |-> ThreeWay(base[p][i], head[p][i], fork[p][i])]
  <2>1. /\ n \in Nat /\ n = size[p] /\ n = Len(head[p]) /\ DOMAIN base[p] = 1..n
        /\ base[p] \in [1..n -> EntriesOf(A)] /\ head[p] \in [1..n -> EntriesOf(A)]
    BY <1>1, <1>2, SequenceIs DEF SameShape
  <2>2. Merged(p) = merged
    BY <1>2, <2>1 DEF Merged
  <2>3. \A i \in 1..n : ThreeWay(base[p][i], head[p][i], fork[p][i]) \in EntriesOf(A)
    BY <2>1 DEF ThreeWay
  <2> HIDE DEF n
  <2>4. merged \in [1..n -> EntriesOf(A)]
    BY <2>3
  <2> HIDE DEF merged
  <2>5. merged \in Seq(EntriesOf(A)) /\ Len(merged) = n
    BY <2>1, <2>4, SequenceOf
  <2> QED BY <2>1, <2>2, <2>5
<1>3. CASE ~SameShape(p)
  <2>1. Merged(p) = base[p] \/ Merged(p) = head[p]
    BY <1>3 DEF Merged, ThreeWay
  <2> QED BY <1>1, <2>1
<1> QED BY <1>2, <1>3

LEMMA MergeStep ==
    ASSUME NEW A, Closed(A), NEW size, ForgeOK(A, size), NEW deleted \in BOOLEAN, Merge(deleted)
    PROVE  ForgeOK(A, size)'
<1>1. /\ open /\ base' = [p \in PathSet |-> Merged(p)] /\ open' = FALSE
      /\ head' = (IF deleted THEN None ELSE head) /\ fork' = (IF deleted THEN None ELSE head)
  BY DEF Merge
<1>2. FilesOK(base, A, size) /\ head # None /\ FilesOK(head, A, size) /\ FilesOK(fork, A, size)
  BY <1>1 DEF ForgeOK
<1>3. /\ base' \in [PathSet -> Seq(EntriesOf(A)) \cup {None}]
      /\ \A p \in PathSet : base'[p] # None => Len(base'[p]) = size[p]
  BY <1>1, <1>2, MergedIs
<1>4. FilesOK(base', A, size)
  BY <1>3 DEF FilesOK, SizedAs
<1>5. /\ head' # None => FilesOK(head', A, size)
      /\ fork' # None => FilesOK(fork', A, size)
      /\ head' = None <=> fork' = None
  BY <1>1, <1>2
<1> QED BY <1>1, <1>4, <1>5 DEF ForgeOK, FilesOK

LEMMA CloseStep ==
    ASSUME NEW A, NEW size, ForgeOK(A, size), NEW deleted \in BOOLEAN, Close(deleted)
    PROVE  ForgeOK(A, size)'
<1>1. /\ open' = FALSE /\ base' = base
      /\ head' = (IF deleted THEN None ELSE head) /\ fork' = (IF deleted THEN None ELSE fork)
  BY DEF Close
<1>2. /\ FilesOK(base', A, size)
      /\ head' # None => FilesOK(head', A, size)
      /\ fork' # None => FilesOK(fork', A, size)
      /\ head' = None <=> fork' = None
  BY <1>1 DEF ForgeOK
<1> QED BY <1>1, <1>2 DEF ForgeOK, FilesOK

LEMMA ReleaseStep ==
    ASSUME RegistryOK, NEW n \in Names, NEW v \in Versions, Release(n, v)
    PROVE  RegistryOK'
<1> DEFINE S == {"absent", "listed", "yanked"}
           moved == IF status[n][v] = "listed" THEN "yanked" ELSE "listed"
<1>1. /\ status' = [status EXCEPT ![n] = [status[n] EXCEPT ![v] = moved]]
      /\ releases' = releases + 1 /\ UNCHANGED <<pushes, failures>>
  BY DEF Release, RegistryOK
<1>2. status[n] \in [Versions -> S] /\ moved \in S
  BY DEF RegistryOK
<1> HIDE DEF moved
<1>3. [status[n] EXCEPT ![v] = moved] \in [Versions -> S]
  BY <1>2
<1>4. status' \in [Names -> [Versions -> S]]
  <2> DEFINE row == [status[n] EXCEPT ![v] = moved]
  <2>1. row \in [Versions -> S] /\ status' = [status EXCEPT ![n] = row]
    BY <1>1, <1>3
  <2> HIDE DEF row
  <2> QED BY <2>1 DEF RegistryOK
<1> QED BY <1>1, <1>4 DEF RegistryOK

\* What a run does.
LEMMA RunStep ==
    ASSUME NEW A, Closed(A), NEW size, UpdateInv(A, size), NEW r \in Runs, Step(r)
    PROVE  UpdateInv(A, size)'
<1>1. FilesOK(base, A, size) /\ ForgeOK(A, size) /\ RunsOK(A, size) /\ RegistryOK
  BY DEF UpdateInv, ForgeOK
<1>2. CASE ListFiles(r)
  <2>1. UNCHANGED <<status, forge, counters>>
    BY <1>2 DEF ListFiles
  <2> QED BY <1>1, <1>2, <2>1, ListFilesStep, ForgeStays, RegistryStays DEF UpdateInv, counters
<1>3. CASE ReadFile(r)
  <2>1. UNCHANGED <<status, forge, counters>>
    BY <1>3 DEF ReadFile
  <2> QED BY <1>1, <1>3, <2>1, ReadFileStep, ForgeStays, RegistryStays DEF UpdateInv, counters
<1>4. CASE Lookup(r)
  <2>1. UNCHANGED <<status, forge, counters>>
    BY <1>4 DEF Lookup
  <2> QED BY <1>1, <1>4, <2>1, LookupStep, ForgeStays, RegistryStays DEF UpdateInv, counters
<1>5. CASE FinishFile(r)
  <2>1. UNCHANGED <<status, forge, counters>>
    BY <1>5 DEF FinishFile
  <2> QED BY <1>1, <1>5, <2>1, FinishFileStep, ForgeStays, RegistryStays DEF UpdateInv, counters
<1>6. CASE BuildEdits(r)
  <2>1. UNCHANGED <<status, forge, counters>>
    BY <1>6 DEF BuildEdits
  <2> QED BY <1>1, <1>6, <2>1, BuildEditsStep, ForgeStays, RegistryStays DEF UpdateInv, counters
<1>7. CASE ReadBaseHead(r)
  <2>1. UNCHANGED <<status, forge, counters>>
    BY <1>7 DEF ReadBaseHead
  <2> QED BY <1>1, <1>7, <2>1, ReadBaseHeadStep, ForgeStays, RegistryStays DEF UpdateInv, counters
<1>8. CASE EnsureBranch(r)
  <2>1. UNCHANGED <<status, counters>>
    BY <1>8 DEF EnsureBranch
  <2> QED BY <1>1, <1>8, <2>1, EnsureBranchStep, RegistryStays DEF UpdateInv, counters
<1>9. CASE ReadSha(r)
  <2>1. UNCHANGED <<status, forge, counters>>
    BY <1>9 DEF ReadSha
  <2> QED BY <1>1, <1>9, <2>1, ReadShaStep, ForgeStays, RegistryStays DEF UpdateInv, counters
<1>10. CASE WriteEdit(r)
  BY <1>1, <1>10, WriteEditStep, RegistryStays DEF UpdateInv, WriteEdit, counters
<1>11. CASE FindPullRequest(r)
  <2> DEFINE pc == IF open THEN "answer" ELSE "create"
  <2>1. pc \in {"create", "answer"} /\ Goto(r, pc) /\ run[r].pc \in {"find", "create"}
    BY <1>11 DEF FindPullRequest
  <2> HIDE DEF pc
  <2>2. RunsOK(A, size)'
    BY <1>1, <2>1, GotoStep
  <2> QED BY <1>1, <1>11, <2>2, ForgeStays, RegistryStays DEF UpdateInv, FindPullRequest, counters
<1>12. CASE CreatePullRequest(r)
  <2>1. RunsOK(A, size)'
    BY <1>1, <1>12, GotoStep, EndStep DEF CreatePullRequest
  <2>2. /\ UNCHANGED <<base, head, fork, status, counters>>
        /\ UNCHANGED open \/ (head # None /\ open' = TRUE)
    BY <1>12 DEF CreatePullRequest
  <2>3. ForgeOK(A, size)'
    BY <1>1, <2>2 DEF ForgeOK, FilesOK
  <2> QED BY <1>1, <2>1, <2>2, <2>3, RegistryStays DEF UpdateInv, counters
<1>13. CASE Answer(r)
  BY <1>1, <1>13, EndStep, ForgeStays, RegistryStays DEF UpdateInv, Answer, counters
<1>14. CASE Fail(r)
  BY <1>1, <1>14, EndStep, ForgeStays, RegistryStays DEF UpdateInv, Fail
<1> QED BY <1>2, <1>3, <1>4, <1>5, <1>6, <1>7, <1>8, <1>9, <1>10, <1>11, <1>12, <1>13, <1>14 DEF Step

\* What people push.
LEMMA PushStep ==
    ASSUME NEW A, Closed(A), NEW size, UpdateInv(A, size), NEW p \in PathSet,
           RemoveManifest(p) \/ \E c \in Constraints, i \in 1..3 : PushConstraint(p, i, c)
    PROVE  UpdateInv(A, size)'
<1>1. FilesOK(base, A, size) /\ ForgeOK(A, size) /\ RunsOK(A, size) /\ RegistryOK
  BY DEF UpdateInv, ForgeOK
<1>2. /\ Unnoticed /\ pushes' = pushes + 1
      /\ UNCHANGED <<status, releases, failures, head, fork, open>>
  BY DEF RemoveManifest, PushConstraint, Person
<1>3. RunsOK(A, size)' /\ RegistryOK'
  BY <1>1, <1>2, AllNotice, RegistryStays
<1>4. FilesOK(base', A, size)
  BY <1>1, RemoveManifestStep, PushConstraintStep
<1>5. ForgeOK(A, size)'
  BY <1>1, <1>2, <1>4 DEF ForgeOK, FilesOK
<1> QED BY <1>3, <1>5 DEF UpdateInv

LEMMA UpdateStep ==
    ASSUME NEW A, Closed(A), NEW size, UpdateInv(A, size), [Next]_vars
    PROVE  UpdateInv(A, size)'
<1>1. CASE \E r \in Runs : Step(r)
  BY <1>1, RunStep
<1>2. CASE \E n \in Names, v \in Versions : Release(n, v)
  <2>1. PICK n \in Names, v \in Versions : Release(n, v)
    BY <1>2
  <2>2. UNCHANGED <<forge, run>>
    BY <2>1 DEF Release
  <2>3. RunsOK(A, size)'
    BY <2>2 DEF UpdateInv, RunsOK
  <2> QED BY <2>1, <2>2, <2>3, ReleaseStep, ForgeStays DEF UpdateInv
<1>3. CASE \E p \in PathSet :
             RemoveManifest(p) \/ \E c \in Constraints, i \in 1..3 : PushConstraint(p, i, c)
  BY <1>3, PushStep
<1>4. CASE \E deleted \in BOOLEAN : Merge(deleted) \/ Close(deleted)
  <2>1. PICK deleted \in BOOLEAN : Merge(deleted) \/ Close(deleted)
    BY <1>4
  <2>2. Unnoticed /\ pushes' = pushes + 1 /\ UNCHANGED <<status, releases, failures>>
    BY <2>1 DEF Merge, Close, Person
  <2> QED BY <2>1, <2>2, AllNotice, RegistryStays, MergeStep, CloseStep DEF UpdateInv
<1>5. CASE UNCHANGED vars
  <2>1. UNCHANGED <<forge, run, status, counters>>
    BY <1>5 DEF vars, forge, counters
  <2>2. RunsOK(A, size)'
    BY <2>1 DEF UpdateInv, RunsOK
  <2>3. RegistryOK'
    BY <2>1 DEF UpdateInv, RegistryOK, counters
  <2> QED BY <2>1, <2>2, <2>3, ForgeStays DEF UpdateInv
<1> QED BY <1>1, <1>2, <1>3, <1>4, <1>5 DEF Next

\* Some sizes the manifests have for ever.
UpdatesOK(A) == \E size \in [PathSet -> Nat] : UpdateInv(A, size)

LEMMA UpdatesStart ==
    ASSUME NEW A, Closed(A)
    PROVE  Init => UpdatesOK(A)
BY UpdateStart DEF UpdatesOK

LEMMA UpdatesStay ==
    ASSUME NEW A, Closed(A)
    PROVE  UpdatesOK(A) /\ [Next]_vars => UpdatesOK(A)'
BY UpdateStep DEF UpdatesOK

\* All that is asked of the constants is enough for the constraints that are written at all.
LEMMA AllClosed == Closed(Requirements)
<1>1. EntriesOf(Requirements) = Entries
  BY DEF EntriesOf, Entries
<1>2. \A r \in Repositories : r.files \in [PathSet -> Seq(Entries) \cup {None}]
  BY ManifestsAssumption DEF Manifests
<1>3. Inclusive \subseteq Requirements /\ Constraints \subseteq Requirements
  BY ManifestsAssumption DEF Inclusive
<1> QED BY <1>1, <1>2, <1>3 DEF Closed

LEMMA Always == Spec => []UpdatesOK(Requirements)
<1>1. Init => UpdatesOK(Requirements)
  BY AllClosed, UpdatesStart
<1>2. UpdatesOK(Requirements) /\ [Next]_vars => UpdatesOK(Requirements)'
  BY AllClosed, UpdatesStay
<1> QED BY <1>1, <1>2, PTL DEF Spec

\* The types of the state and what a run holds at each stage of it.
THEOREM UpdatesTyped == Spec => []TypeOK
<1>1. ASSUME NEW size \in [PathSet -> Nat], UpdateInv(Requirements, size) PROVE TypeOK
  <2>1. EntriesOf(Requirements) = Entries
    BY DEF EntriesOf, Entries
  <2>2. base \in Manifests /\ {head, fork} \subseteq Manifests \cup {None}
    BY <1>1, <2>1 DEF UpdateInv, ForgeOK, FilesOK, Manifests
  <2>3. StatesOf(Requirements) = RunStates
    BY <2>1 DEF StatesOf, RunStates, Manifests, UpdatesWith
  <2>4. run \in [Runs -> RunStates] /\ \A r \in Runs : StageOK(run[r])
    <3>1. run = [r \in Runs |-> run[r]] /\ \A r \in Runs : run[r] \in RunStates /\ StageOK(run[r])
      BY <1>1, <2>3 DEF UpdateInv, RunsOK, StateOK
    <3> QED BY <3>1
  <2> QED BY <1>1, <2>2, <2>4 DEF TypeOK, UpdateInv, ForgeOK, RegistryOK
<1>2. UpdatesOK(Requirements) => TypeOK
  BY <1>1 DEF UpdatesOK
<1> QED BY <1>2, Always, PTL

-----------------------------------------------------------------------------
(* Proposals and rewrites                                                  *)

LEMMA DependenciesIn ==
    ASSUME NEW A, UpdatesOK(A), NEW d \in Dependencies
    PROVE  d.value \in A
<1>1. PICK size : FilesOK(base, A, size)
  BY DEF UpdatesOK, UpdateInv, ForgeOK
<1>2. PICK p \in PathSet : base[p] # None /\ \E i \in DOMAIN base[p] : d = base[p][i]
  BY DEF Dependencies
<1>3. base[p] \in Seq(EntriesOf(A))
  BY <1>1, <1>2 DEF FilesOK
<1>4. d \in EntriesOf(A)
  BY <1>2, <1>3
<1> QED BY <1>4 DEF EntriesOf

\* A proposal of determine_update, once it is merged, is the last until a release is
\* published or yanked: for any versions, constraints and strategies.
THEOREM ProposalsSettle == Spec => []Converges
<1>1. UpdatesOK(Requirements) => Converges
  <2> SUFFICES ASSUME UpdatesOK(Requirements), NEW d \in Dependencies, Proposed(d) # None
               PROVE  DetermineUpdate(d.name, Proposed(d).value) = None
    BY DEF Converges
  <2>1. d.value \in Requirements
    BY DependenciesIn
  <2> QED BY <2>1, Settles DEF Proposed
<1> QED BY <1>1, Always, PTL

\* What get_new_value writes for an upgrade admits the release it is for, except where
\* a range is widened for a pre-release: there it never does.
THEOREM UpgradesAdmit == Spec => []UpgradeAdmitsItsTarget
<1>1. UpdatesOK(Requirements) => UpgradeAdmitsItsTarget
  <2> SUFFICES ASSUME UpdatesOK(Requirements), NEW d \in Upgrades
               PROVE  Admits(Proposed(d).value, Proposed(d).target)
                          <=> Stable(Proposed(d).target) \/ Len(Proposed(d).value) = 1
    BY DEF UpgradeAdmitsItsTarget
  <2>1. d.value \in Requirements /\ Proposed(d) # None /\ Proposed(d).type # "rollback"
    BY DependenciesIn DEF Upgrades
  <2> QED BY <2>1, UpgradeAdmits DEF Proposed
<1> QED BY <1>1, Always, PTL

\* And a widened range keeps what was admitted, up to the major version of the release;
\* beyond it something is lost only for a pre-release or an exclusive floor.
THEOREM RewritesSound == Spec => []RewritesAreSound
<1>1. UpdatesOK(Requirements) => WidenKeepsTheRange
  <2> SUFFICES ASSUME UpdatesOK(Requirements), NEW d \in Upgrades,
                      Len(Proposed(d).value) > 1, NEW v \in Versions, Admits(d.value, v)
               PROVE  \/ Admits(Proposed(d).value, v)
                      \/ /\ v[1] > Proposed(d).target[1]
                         /\ Stable(Proposed(d).target) => \E i \in DOMAIN d.value : d.value[i].op = ">"
    BY DEF WidenKeepsTheRange
  <2>1. d.value \in Requirements /\ Proposed(d) # None /\ Proposed(d).type # "rollback"
    BY DependenciesIn DEF Upgrades
  <2> QED BY <2>1, WidenKeeps, VersionsAssumption DEF Proposed
<1> QED BY <1>1, Always, UpgradesAdmit, PTL DEF RewritesAreSound

-----------------------------------------------------------------------------
(* The edits of a run                                                      *)

\* A state that others' steps do not change, but for being alone.
SameButAlone(t, s) ==
    /\ t.pc = s.pc /\ t.edits = s.edits /\ t.contents = s.contents /\ t.updates = s.updates
    /\ t.left = s.left /\ (t.alone => t = s)

LEMMA NoticedIs ==
    ASSUME NEW A, NEW s \in StatesOf(A)
    PROVE  LET t == [s EXCEPT !.alone = FALSE] IN SameButAlone(t, s) /\ ~t.alone
BY DEF StatesOf, SameButAlone

LEMMA OnlyOne ==
    ASSUME NEW A, NEW size, RunsOK(A, size), NEW r \in Runs, NEW s, Become(r, s) \/ Overtaking(r, s)
    PROVE  /\ run'[r] = s
           /\ \A q \in Runs : q # r => SameButAlone(run'[q], run[q])
           /\ Overtaking(r, s) => \A q \in Runs : q # r => ~run'[q].alone
<1>1. DOMAIN run = Runs /\ \A q \in Runs : run[q] \in StatesOf(A)
  BY StateIs DEF RunsOK
<1>2. CASE Become(r, s)
  <2>1. run'[r] = s /\ \A q \in Runs : q # r => run'[q] = run[q]
    BY <1>1, <1>2 DEF Become
  <2>2. \A q \in Runs : q # r => SameButAlone(run'[q], run[q])
    BY <2>1 DEF SameButAlone
  <2>3. ASSUME Overtaking(r, s), NEW q \in Runs, q # r PROVE ~run'[q].alone
    <3>1. run'[q] = [run[q] EXCEPT !.alone = FALSE]
      BY <2>3 DEF Overtaking
    <3> QED BY <1>1, <3>1, NoticedIs
  <2> QED BY <2>1, <2>2, <2>3
<1>3. CASE Overtaking(r, s)
  <2>1. run'[r] = s /\ \A q \in Runs : q # r => run'[q] = [run[q] EXCEPT !.alone = FALSE]
    BY <1>3 DEF Overtaking
  <2>2. ASSUME NEW q \in Runs, q # r PROVE SameButAlone(run'[q], run[q]) /\ ~run'[q].alone
    BY <1>1, <2>1, <2>2, NoticedIs
  <2> QED BY <2>1, <2>2
<1> QED BY <1>2, <1>3

LEMMA AllNoticeIs ==
    ASSUME NEW A, NEW size, RunsOK(A, size), Unnoticed, NEW q \in Runs
    PROVE  SameButAlone(run'[q], run[q]) /\ ~run'[q].alone
<1>1. run[q] \in StatesOf(A) /\ run'[q] = [run[q] EXCEPT !.alone = FALSE]
  BY StateIs DEF RunsOK, Unnoticed
<1> QED BY <1>1, NoticedIs

\* Where each step takes the run that takes it.
Early(r) == ListFiles(r) \/ ReadFile(r) \/ Lookup(r) \/ FinishFile(r)
LEMMA EarlyIs ==
    ASSUME NEW A, NEW size, RunsOK(A, size), NEW r \in Runs, Early(r)
    PROVE  \E s : Become(r, s) /\ s.pc \in {"read", "lookup"}
<1>1. run[r] \in StatesOf(A) /\ Resting \in StatesOf(A)
  BY StateIs, RestingOK DEF RunsOK, StateOK
<1>2. CASE ListFiles(r)
  <2> DEFINE listed == {p \in PathSet : base[p] # None}
             free == (head = None)
             s == [Resting EXCEPT !.pc = "read", !.paths = listed, !.alone = free]
  <2>1. Become(r, s)
    BY <1>2 DEF ListFiles
  <2> HIDE DEF listed, free
  <2>2. s.pc = "read"
    BY <1>1 DEF StatesOf
  <2> HIDE DEF s
  <2> QED BY <2>1, <2>2
<1>3. CASE ReadFile(r)
  <2> DEFINE p == FirstPath(run[r].paths)
             gone == [run[r] EXCEPT !.paths = @ \ {p}]
             m == base[p]
             lines == Extract(base[p])
             there == [run[r] EXCEPT !.pc = "lookup", !.read = m, !.lines = lines]
  <2>1. run[r].pc = "read" /\ Become(r, IF base[p] = None THEN gone ELSE there)
    BY <1>3 DEF ReadFile
  <2> HIDE DEF p, m, lines
  <2>2. gone.pc = run[r].pc /\ there.pc = "lookup"
    BY <1>1 DEF StatesOf
  <2> HIDE DEF gone, there
  <2> QED BY <2>1, <2>2
<1>4. CASE Lookup(r)
  <2> DEFINE p == FirstPath(run[r].paths)
             line == FirstLine(run[r].read, run[r].lines)
             d == run[r].read[line]
             update == DetermineUpdate(d.name, d.value)
             seen == [run[r] EXCEPT !.lines = @ \ {line}]
             entry == [path |-> p, name |-> d.name, dep |-> d.dep, value |-> update.value]
             more == [seen EXCEPT !.updates = Append(@, entry), !.contents[p] = run[r].read]
  <2>1. run[r].pc = "lookup" /\ Become(r, IF update = None THEN seen ELSE more)
    BY <1>4 DEF Lookup
  <2> HIDE DEF line, update, entry, p
  <2>2. seen.pc = run[r].pc
    BY <1>1 DEF StatesOf
  <2>3. more.pc = seen.pc
    <3> DEFINE fed == Append(seen.updates, entry)
               held == [seen.contents EXCEPT ![p] = run[r].read]
    <3>1. more = [seen EXCEPT !.updates = fed, !.contents = held]
      BY <1>1 DEF StatesOf
    <3>2. "pc" \in DOMAIN seen
      BY <1>1 DEF StatesOf
    <3> HIDE DEF fed, held, more, seen
    <3> QED BY <3>1, <3>2
  <2> HIDE DEF seen, more
  <2> QED BY <2>1, <2>2, <2>3
<1>5. CASE FinishFile(r)
  <2> DEFINE rest == run[r].paths \ {FirstPath(run[r].paths)}
             s == [run[r] EXCEPT !.pc = "read", !.paths = rest, !.read = None]
  <2>1. Become(r, s)
    BY <1>5 DEF FinishFile
  <2> HIDE DEF rest
  <2>2. s.pc = "read"
    BY <1>1 DEF StatesOf
  <2> HIDE DEF s
  <2> QED BY <2>1, <2>2
<1> QED BY <1>2, <1>3, <1>4, <1>5 DEF Early

\* What a run holds when it has built its edits.
LEMMA BuildEditsIs ==
    ASSUME NEW A, NEW size, RunsOK(A, size), NEW r \in Runs, BuildEdits(r)
    PROVE  \E s : /\ Become(r, s)
                  /\ \/ s = Resting
                     \/ /\ s.pc = "branch" /\ s.contents = run[r].contents /\ s.updates = run[r].updates
                        /\ s.edits = [p \in PathSet |-> Edited(run[r].updates, p, run[r].contents[p])]
                        /\ \A p \in PathSet : s.contents[p] # None => s.edits[p] # None
<1> DEFINE contents == run[r].contents
           changed == {p \in PathSet : contents[p] # None}
           edits == [p \in PathSet |-> Edited(run[r].updates, p, contents[p])]
           s == [run[r] EXCEPT !.pc = "branch", !.edits = edits, !.left = changed]
<1>1. /\ run[r] \in StatesOf(A)
      /\ \/ Become(r, Resting)
         \/ (\A p \in changed : edits[p] # None) /\ Become(r, s)
  BY StateIs DEF RunsOK, BuildEdits, End
<1> HIDE DEF edits, changed
<1>2. s.pc = "branch" /\ s.contents = contents /\ s.updates = run[r].updates /\ s.edits = edits
  BY <1>1 DEF StatesOf
<1> HIDE DEF s
<1>3. CASE (\A p \in changed : edits[p] # None) /\ Become(r, s)
  BY <1>2, <1>3 DEF changed, edits
<1> QED BY <1>1, <1>3

\* The branch of a run that is alone, where it is to be made, and its pull request.
Lone(s, ours, theirs, common, opened) ==
    /\ s.alone /\ s.pc = "ref" => s.from = ours
    /\ s.alone /\ s.pc \in {"sha", "write", "find", "create", "answer"} =>
         /\ theirs = [p \in PathSet |-> IF s.edits[p] # None /\ p \notin s.left THEN s.edits[p] ELSE ours[p]]
         /\ common = ours
         /\ s.pc = "answer" => opened
LoneRuns == \A r \in Runs : Lone(run[r], base, head, fork, open)

\* A run that has its edits makes the branch, writes them one by one, and ends.
LEMMA ReadBaseHeadIs ==
    ASSUME NEW A, NEW size, RunsOK(A, size), NEW r \in Runs, ReadBaseHead(r)
    PROVE  \E s : s.pc # "branch" /\ Lone(s, base', head', fork', open') /\ Become(r, s) /\ UNCHANGED forge
<1> DEFINE at == base
           s == [run[r] EXCEPT !.pc = "ref", !.from = at]
<1>1. run[r] \in StatesOf(A) /\ Become(r, s) /\ UNCHANGED forge /\ base' = at
  BY StateIs DEF RunsOK, ReadBaseHead, forge
<1> HIDE DEF at
<1>2. s.pc = "ref" /\ s.from = at
  BY <1>1 DEF StatesOf
<1> HIDE DEF s
<1>3. Lone(s, base', head', fork', open')
  BY <1>1, <1>2 DEF Lone
<1> QED BY <1>1, <1>2, <1>3

LEMMA EnsureBranchIs ==
    ASSUME NEW A, Closed(A), NEW size, ForgeOK(A, size), RunsOK(A, size), NEW r \in Runs,
           Lone(run[r], base, head, fork, open), EnsureBranch(r)
    PROVE  \E s : /\ s.pc # "branch" /\ Lone(s, base', head', fork', open')
                  /\ Overtaking(r, s) \/ (Become(r, s) /\ UNCHANGED forge)
<1>1. run[r] \in StatesOf(A) /\ StageOK(run[r]) /\ run[r].pc = "ref" /\ UNCHANGED <<base, open>>
  BY StateIs DEF RunsOK, EnsureBranch
<1>2. CASE BranchExists
  <2> DEFINE s == [run[r] EXCEPT !.pc = "sha", !.from = None, !.alone = FALSE]
  <2>1. Become(r, s) /\ UNCHANGED forge
    BY <1>2 DEF EnsureBranch, forge
  <2>2. s.pc = "sha" /\ ~s.alone
    BY <1>1 DEF StatesOf
  <2> HIDE DEF s
  <2> QED BY <2>1, <2>2 DEF Lone
<1>3. CASE ~BranchExists
  <2> DEFINE s == [run[r] EXCEPT !.pc = "sha", !.from = None]
  <2>1. Overtaking(r, s) /\ head' = run[r].from /\ fork' = run[r].from
    BY <1>3 DEF EnsureBranch
  <2>2. /\ s.pc = "sha" /\ s.edits = run[r].edits /\ s.left = run[r].left
        /\ s.alone = run[r].alone
    BY <1>1 DEF StatesOf
  <2>3. \A p \in PathSet : run[r].edits[p] # None => p \in run[r].left
    BY <1>1 DEF StageOK
  <2>4. base = [p \in PathSet |-> base[p]]
    BY DEF ForgeOK, FilesOK
  <2> HIDE DEF s
  <2>5. base = [p \in PathSet |-> IF s.edits[p] # None /\ p \notin s.left THEN s.edits[p] ELSE base[p]]
    BY <2>2, <2>3, <2>4
  <2>6. s.alone => run[r].from = base
    BY <1>1, <2>2 DEF Lone
  <2>7. Lone(s, base', head', fork', open')
    BY <1>1, <2>1, <2>2, <2>5, <2>6 DEF Lone
  <2> QED BY <2>1, <2>2, <2>7
<1> QED BY <1>2, <1>3

\* One more edit is done.
LEMMA WriteEditIs ==
    ASSUME NEW A, Closed(A), NEW size, ForgeOK(A, size), RunsOK(A, size), NEW r \in Runs,
           Lone(run[r], base, head, fork, open), WriteEdit(r)
    PROVE  \E s : /\ s.pc # "branch" /\ Lone(s, base', head', fork', open')
                  /\ Overtaking(r, s) \/ (Become(r, s) /\ UNCHANGED forge)
<1>1. StateOK(run[r], A, size) /\ StageOK(run[r]) /\ run[r].pc = "write" /\ UNCHANGED <<base, fork, open>>
  BY StateIs DEF RunsOK, WriteEdit
<1>2. CASE head # None /\ Write(r) /\ Overtaking(r, Written(r))
  <2> DEFINE s == Written(r)
             t == Target(r)
  <2>1. /\ s.alone = run[r].alone /\ s.left = run[r].left \ {t} /\ s.edits = run[r].edits
        /\ s.pc \in {"sha", "find"} /\ t \in run[r].left /\ t \in PathSet
    <3>1. SameEdits(s, run[r])
      BY <1>1, WrittenIs
    <3> QED BY <1>1, <3>1, WrittenIs DEF SameEdits
  <2>2. head' = [head EXCEPT ![t] = run[r].edits[t]] /\ run[r].edits[t] # None
    BY <1>1, <1>2, <2>1 DEF Write, StageOK
  <2> HIDE DEF s, t
  <2>3. ASSUME s.alone PROVE /\ head' = [p \in PathSet |-> IF s.edits[p] # None /\ p \notin s.left
                                                          THEN s.edits[p] ELSE base[p]]
                             /\ fork = base
    <3>1. /\ head = [p \in PathSet |-> IF run[r].edits[p] # None /\ p \notin run[r].left
                                       THEN run[r].edits[p] ELSE base[p]]
          /\ fork = base
      BY <1>1, <2>1, <2>3 DEF Lone
    <3>2. ASSUME NEW p \in PathSet
          PROVE  head'[p] = IF s.edits[p] # None /\ p \notin s.left THEN s.edits[p] ELSE base[p]
      BY <2>1, <2>2, <3>1
    <3>3. head' = [p \in PathSet |-> head'[p]]
      BY <2>2, <3>1
    <3> QED BY <3>1, <3>2, <3>3
  <2>4. Lone(s, base', head', fork', open')
    BY <1>1, <2>1, <2>3 DEF Lone
  <2> QED BY <1>2, <2>1, <2>4 DEF s
<1>3. CASE End(r) /\ UNCHANGED head
  <2>1. Resting.pc = "idle" /\ ~Resting.alone
    BY DEF Resting
  <2> QED BY <1>1, <1>3, <2>1 DEF End, Lone, forge
<1> QED BY <1>2, <1>3 DEF WriteEdit

LEMMA ReadShaIs ==
    ASSUME NEW A, NEW size, RunsOK(A, size), NEW r \in Runs,
           Lone(run[r], base, head, fork, open), ReadSha(r)
    PROVE  \E s : s.pc # "branch" /\ Lone(s, base', head', fork', open') /\ Become(r, s) /\ UNCHANGED forge
<1> DEFINE sha == IF head = None THEN None ELSE head[Target(r)]
           s == [run[r] EXCEPT !.pc = "write", !.sha = sha]
<1>1. run[r] \in StatesOf(A) /\ run[r].pc = "sha" /\ Become(r, s) /\ UNCHANGED <<base, head, fork, open>>
  BY StateIs DEF RunsOK, ReadSha, forge
<1> HIDE DEF sha
<1>2. s.pc = "write" /\ s.edits = run[r].edits /\ s.left = run[r].left /\ s.alone = run[r].alone
  BY <1>1 DEF StatesOf
<1> HIDE DEF s
<1>3. Lone(s, base', head', fork', open')
  BY <1>1, <1>2 DEF Lone
<1> QED BY <1>1, <1>2, <1>3 DEF forge

LEMMA PullRequestIs ==
    ASSUME NEW A, NEW size, RunsOK(A, size), NEW r \in Runs,
           Lone(run[r], base, head, fork, open), FindPullRequest(r) \/ CreatePullRequest(r)
    PROVE  \E s : /\ s.pc # "branch" /\ Lone(s, base', head', fork', open') /\ Become(r, s)
                  /\ UNCHANGED <<base, head, fork>> /\ (open => open')
<1>1. run[r] \in StatesOf(A) /\ run[r].pc \in {"find", "create"} /\ UNCHANGED <<base, head, fork>>
  BY StateIs DEF RunsOK, FindPullRequest, CreatePullRequest, forge
<1>2. ASSUME NEW pc \in {"answer", "create"}, Goto(r, pc), pc = "answer" => open', open => open'
      PROVE  \E s : /\ s.pc # "branch" /\ Lone(s, base', head', fork', open') /\ Become(r, s)
                    /\ UNCHANGED <<base, head, fork>> /\ (open => open')
  <2> DEFINE s == [run[r] EXCEPT !.pc = pc]
  <2>1. Become(r, s)
    BY <1>2 DEF Goto
  <2>2. s.pc = pc /\ s.edits = run[r].edits /\ s.left = run[r].left /\ s.alone = run[r].alone
    BY <1>1 DEF StatesOf
  <2> HIDE DEF s
  <2>3. Lone(s, base', head', fork', open')
    BY <1>1, <1>2, <2>2 DEF Lone
  <2> QED BY <1>1, <1>2, <2>1, <2>2, <2>3
<1>3. CASE FindPullRequest(r)
  <2> DEFINE pc == IF open THEN "answer" ELSE "create"
  <2>1. pc \in {"answer", "create"} /\ Goto(r, pc) /\ UNCHANGED open /\ (pc = "answer" => open)
    BY <1>3 DEF FindPullRequest, forge
  <2> HIDE DEF pc
  <2> QED BY <1>2, <2>1
<1>4. CASE head # None /\ ~open /\ open' = TRUE /\ Goto(r, "answer")
  BY <1>2, <1>4
<1>5. CASE End(r) /\ UNCHANGED open
  <2>1. Resting.pc = "idle" /\ ~Resting.alone
    BY DEF Resting
  <2> QED BY <1>1, <1>5, <2>1 DEF End, Lone
<1> QED BY <1>3, <1>4, <1>5 DEF CreatePullRequest

\* A step of a run, whichever it is: what it makes of the run, and what the others see.
LEMMA StepIs ==
    ASSUME NEW A, Closed(A), NEW size, UpdateInv(A, size), NEW r \in Runs,
           Lone(run[r], base, head, fork, open), Step(r)
    PROVE  \E s : /\ Lone(s, base', head', fork', open')
                  /\ Overtaking(r, s) \/ (Become(r, s) /\ UNCHANGED <<base, head, fork>> /\ (open => open'))
                  /\ s.pc = "branch" => BuildEdits(r)
<1>1. ForgeOK(A, size) /\ RunsOK(A, size)
  BY DEF UpdateInv
<1>2. ASSUME UNCHANGED forge PROVE UNCHANGED <<base, head, fork>> /\ (open => open')
  BY <1>2 DEF forge
<1>3. CASE Early(r)
  <2>1. UNCHANGED forge
    BY <1>3 DEF Early, ListFiles, ReadFile, Lookup, FinishFile
  <2>2. PICK s : Become(r, s) /\ s.pc \in {"read", "lookup"}
    BY <1>1, <1>3, EarlyIs
  <2> QED BY <1>2, <2>1, <2>2 DEF Lone
<1>4. CASE BuildEdits(r)
  <2>1. UNCHANGED forge
    BY <1>4 DEF BuildEdits
  <2>2. PICK s : Become(r, s) /\ (s = Resting \/ s.pc = "branch")
    BY <1>1, <1>4, BuildEditsIs
  <2>3. s.pc \in {"idle", "branch"}
    BY <2>2 DEF Resting
  <2> QED BY <1>2, <1>4, <2>1, <2>2, <2>3 DEF Lone
<1>5. CASE EnsureBranch(r)
  <2>1. PICK s : /\ s.pc # "branch" /\ Lone(s, base', head', fork', open')
                 /\ Overtaking(r, s) \/ (Become(r, s) /\ UNCHANGED forge)
    BY <1>1, <1>5, EnsureBranchIs
  <2> QED BY <1>2, <2>1
<1>6. CASE ReadBaseHead(r) \/ ReadSha(r)
  <2>1. PICK s : s.pc # "branch" /\ Lone(s, base', head', fork', open') /\ Become(r, s) /\ UNCHANGED forge
    BY <1>1, <1>6, ReadBaseHeadIs, ReadShaIs
  <2> QED BY <1>2, <2>1
<1>7. CASE WriteEdit(r)
  <2>1. PICK s : /\ s.pc # "branch" /\ Lone(s, base', head', fork', open')
                 /\ Overtaking(r, s) \/ (Become(r, s) /\ UNCHANGED forge)
    BY <1>1, <1>7, WriteEditIs
  <2> QED BY <1>2, <2>1
<1>8. CASE FindPullRequest(r) \/ CreatePullRequest(r)
  <2>1. PICK s : /\ s.pc # "branch" /\ Lone(s, base', head', fork', open') /\ Become(r, s)
                 /\ UNCHANGED <<base, head, fork>> /\ (open => open')
    BY <1>1, <1>8, PullRequestIs
  <2> QED BY <2>1
<1>9. CASE Answer(r) \/ Fail(r)
  <2>1. Become(r, Resting) /\ UNCHANGED forge
    BY <1>9 DEF Answer, Fail, End
  <2>2. Resting.pc = "idle"
    BY DEF Resting
  <2> QED BY <1>2, <2>1, <2>2 DEF Lone
<1> QED BY <1>3, <1>4, <1>5, <1>6, <1>7, <1>8, <1>9 DEF Step, Early

LEMMA LoneStays ==
    ASSUME NEW t, NEW s, SameButAlone(t, s), Lone(s, base, head, fork, open),
           ~t.alone \/ (UNCHANGED <<base, head, fork>> /\ (open => open'))
    PROVE  Lone(t, base', head', fork', open')
BY DEF SameButAlone, Lone

LEMMA LoneAlways == Spec => []LoneRuns
<1>1. Init => LoneRuns
  <2> SUFFICES ASSUME Init, NEW r \in Runs PROVE Lone(run[r], base, head, fork, open)
    BY DEF LoneRuns
  <2>1. ~run[r].alone
    BY DEF Init, Resting
  <2> QED BY <2>1 DEF Lone
<1>2. ASSUME NEW size \in [PathSet -> Nat], UpdateInv(Requirements, size),
             LoneRuns, [Next]_vars, NEW q \in Runs
      PROVE  Lone(run'[q], base', head', fork', open')
  <2>1. /\ Lone(run[q], base, head, fork, open) /\ RunsOK(Requirements, size)
        /\ SameButAlone(run[q], run[q])
    BY <1>2 DEF LoneRuns, UpdateInv, SameButAlone
  <2>2. CASE \E r \in Runs : Step(r)
    <3>1. PICK r \in Runs : Step(r)
      BY <2>2
    <3>2. PICK s : /\ Lone(s, base', head', fork', open')
                   /\ Overtaking(r, s) \/ (Become(r, s) /\ UNCHANGED <<base, head, fork>> /\ (open => open'))
      <4>1. Lone(run[r], base, head, fork, open)
        BY <1>2 DEF LoneRuns
      <4> QED BY <1>2, <3>1, <4>1, AllClosed, StepIs
    <3>3. CASE q = r
      BY <2>1, <3>2, <3>3, OnlyOne
    <3>4. CASE q # r
      <4>1. SameButAlone(run'[q], run[q]) /\ (Overtaking(r, s) => ~run'[q].alone)
        BY <2>1, <3>2, <3>4, OnlyOne
      <4> QED BY <2>1, <3>2, <4>1, LoneStays
    <3> QED BY <3>3, <3>4
  <2>3. CASE \/ \E n \in Names, v \in Versions : Release(n, v)
             \/ UNCHANGED vars
    <3>1. UNCHANGED <<base, head, fork, open, run>>
      BY <2>3 DEF Release, vars, forge
    <3> QED BY <2>1, <3>1
  <2>4. CASE \/ \E p \in PathSet :
                   RemoveManifest(p) \/ \E c \in Constraints, i \in 1..3 : PushConstraint(p, i, c)
             \/ \E deleted \in BOOLEAN : Merge(deleted) \/ Close(deleted)
    <3>1. Unnoticed
      BY <2>4 DEF RemoveManifest, PushConstraint, Merge, Close
    <3>2. ~run'[q].alone
      BY <2>1, <3>1, AllNoticeIs
    <3> QED BY <3>2 DEF Lone
  <2> QED BY <1>2, <2>2, <2>3, <2>4 DEF Next
<1>3. UpdatesOK(Requirements) /\ LoneRuns /\ [Next]_vars => LoneRuns'
  BY <1>2 DEF UpdatesOK, LoneRuns
<1> QED BY <1>1, <1>3, Always, PTL DEF Spec

\* A run that nobody interferes with has, on a branch of its own, the base with the edits
\* that are done, and in the end a pull request of them all.
THEOREM LoneRun == Spec => []LoneRunProposesItsUpdates
<1>1. LoneRuns => LoneRunProposesItsUpdates
  BY DEF LoneRuns, LoneRunProposesItsUpdates, Lone
<1> QED BY <1>1, LoneAlways, PTL

-----------------------------------------------------------------------------
(* What the edits are                                                      *)

\* The edits of a state follow its updates.
EditsFollow(s) ==
    \A p \in PathSet :
        LET old == s.contents[p]
            new == s.edits[p]
        IN  old # None /\ Unambiguous(old) =>
            /\ DOMAIN new = DOMAIN old
            /\ \A k \in DOMAIN old : Follows(new[k], old[k], s.updates, p, Len(s.updates))
RunsFollow == \A r \in Runs : run[r].pc = "branch" => EditsFollow(run[r])

\* They do when build_edits has built them.
LEMMA BuiltFollow ==
    ASSUME NEW A, NEW size, NEW s, StateOK(s, A, size), NEW t,
           t.contents = s.contents, t.updates = s.updates,
           t.edits = [p \in PathSet |-> Edited(s.updates, p, s.contents[p])],
           \A p \in PathSet : t.contents[p] # None => t.edits[p] # None
    PROVE  EditsFollow(t)
<1> SUFFICES ASSUME NEW p \in PathSet, t.contents[p] # None, Unambiguous(t.contents[p])
             PROVE  /\ DOMAIN t.edits[p] = DOMAIN t.contents[p]
                    /\ \A k \in DOMAIN t.contents[p] :
                         Follows(t.edits[p][k], t.contents[p][k], t.updates, p, Len(t.updates))
  BY DEF EditsFollow
<1> DEFINE old == s.contents[p]
           new == Edited(s.updates, p, old)
<1>1. s.updates \in Seq(UpdatesWith(A)) /\ old \in Seq(EntriesOf(A))
  BY StateIs
<1>2. t.edits[p] = new /\ new # None /\ t.contents[p] = old
  OBVIOUS
<1> HIDE DEF old
<1>3. /\ new \in Seq(EntriesOf(A)) /\ Len(new) = Len(old)
      /\ \A k \in DOMAIN old : Follows(new[k], old[k], s.updates, p, Len(s.updates))
  BY <1>1, <1>2, EditedKeeps
<1> HIDE DEF new
<1>4. DOMAIN new = DOMAIN old
  BY <1>1, <1>3, SequenceIs
<1> QED BY <1>2, <1>3, <1>4

AsUpdated(r, p, new, old) ==
    IF UpdatesOf(r, p, old) = {} THEN new = old
    ELSE \E u \in UpdatesOf(r, p, old) : new = [old EXCEPT !.value = u.value]

LEMMA FollowsIs ==
    ASSUME NEW r, Len(run[r].updates) \in Nat, DOMAIN run[r].updates = 1..Len(run[r].updates),
           NEW p, NEW new, NEW old, Follows(new, old, run[r].updates, p, Len(run[r].updates))
    PROVE  AsUpdated(r, p, new, old)
<1> DEFINE us == run[r].updates
<1>1. \A j \in 1..Len(us) : For(us[j], p, old) <=> us[j] \in UpdatesOf(r, p, old)
  BY DEF For, UpdatesOf
<1>2. \A u \in UpdatesOf(r, p, old) : \E j \in 1..Len(us) : u = us[j]
  BY DEF UpdatesOf
<1> QED BY <1>1, <1>2 DEF Follows, SetTo, AsUpdated

\* What is edited is the text of the dependency that the update is for, and the rest is as
\* it was read, where a name is in one section of a type only.
THEOREM EditsFollowUpdates == Spec => []EditsAreTheUpdates
<1>1. Init => RunsFollow
  BY DEF Init, RunsFollow, Resting
<1>2. ASSUME NEW size \in [PathSet -> Nat], UpdateInv(Requirements, size),
             RunsFollow, LoneRuns, [Next]_vars, NEW q \in Runs, run'[q].pc = "branch"
      PROVE  EditsFollow(run'[q])
  <2>1. RunsOK(Requirements, size) /\ (run[q].pc = "branch" => EditsFollow(run[q]))
    BY <1>2 DEF UpdateInv, RunsFollow
  <2>2. ASSUME SameButAlone(run'[q], run[q]) PROVE EditsFollow(run'[q])
    BY <1>2, <2>1, <2>2 DEF SameButAlone, EditsFollow
  <2>3. CASE \E r \in Runs : Step(r)
    <3>1. PICK r \in Runs : Step(r)
      BY <2>3
    <3>2. PICK s : /\ Overtaking(r, s) \/ Become(r, s)
                   /\ s.pc = "branch" => BuildEdits(r)
      <4>1. Lone(run[r], base, head, fork, open)
        BY <1>2 DEF LoneRuns
      <4> QED BY <1>2, <3>1, <4>1, AllClosed, StepIs
    <3>3. CASE q = r
      <4>1. run'[r] = s /\ BuildEdits(r)
        BY <1>2, <2>1, <3>2, <3>3, OnlyOne
      <4>2. PICK t : /\ Become(r, t)
                     /\ \/ t = Resting
                        \/ /\ t.pc = "branch" /\ t.contents = run[r].contents /\ t.updates = run[r].updates
                           /\ t.edits = [p \in PathSet |-> Edited(run[r].updates, p, run[r].contents[p])]
                           /\ \A p \in PathSet : t.contents[p] # None => t.edits[p] # None
        BY <2>1, <4>1, BuildEditsIs
      <4>3. run'[r] = t
        BY <2>1, <4>2, OnlyOne
      <4>4. t # Resting
        BY <1>2, <3>3, <4>3 DEF Resting
      <4>5. StateOK(run[r], Requirements, size)
        BY <2>1 DEF RunsOK
      <4> QED BY <3>3, <4>2, <4>3, <4>4, <4>5, BuiltFollow
    <3>4. CASE q # r
      BY <2>1, <2>2, <3>2, <3>4, OnlyOne
    <3> QED BY <3>3, <3>4
  <2>4. CASE \/ \E n \in Names, v \in Versions : Release(n, v)
             \/ UNCHANGED vars
    <3>1. run' = run
      BY <2>4 DEF Release, vars
    <3> QED BY <1>2, <2>1, <3>1
  <2>5. CASE \/ \E p \in PathSet :
                   RemoveManifest(p) \/ \E c \in Constraints, i \in 1..3 : PushConstraint(p, i, c)
             \/ \E deleted \in BOOLEAN : Merge(deleted) \/ Close(deleted)
    <3>1. Unnoticed
      BY <2>5 DEF RemoveManifest, PushConstraint, Merge, Close
    <3> QED BY <2>1, <2>2, <3>1, AllNoticeIs
  <2> QED BY <1>2, <2>3, <2>4, <2>5 DEF Next
<1>3. UpdatesOK(Requirements) /\ LoneRuns /\ RunsFollow /\ [Next]_vars => RunsFollow'
  BY <1>2 DEF UpdatesOK, RunsFollow
<1>4. UpdatesOK(Requirements) /\ RunsFollow => EditsAreTheUpdates
  <2> SUFFICES ASSUME UpdatesOK(Requirements), RunsFollow, NEW r \in Runs, run[r].pc = "branch",
                      NEW p \in PathSet, run[r].contents[p] # None, Unambiguous(run[r].contents[p])
               PROVE  LET old == run[r].contents[p]
                          new == run[r].edits[p]
                      IN  /\ DOMAIN new = DOMAIN old
                          /\ \A k \in DOMAIN old :
                               IF UpdatesOf(r, p, old[k]) = {} THEN new[k] = old[k]
                               ELSE \E u \in UpdatesOf(r, p, old[k]) : new[k] = [old[k] EXCEPT !.value = u.value]
    BY DEF EditsAreTheUpdates
  <2>1. EditsFollow(run[r])
    BY DEF RunsFollow
  <2>2. Len(run[r].updates) \in Nat /\ DOMAIN run[r].updates = 1..Len(run[r].updates)
    <3>1. run[r].updates \in Seq(UpdatesWith(Requirements))
      BY StateIs DEF UpdatesOK, UpdateInv, RunsOK
    <3> QED BY <3>1, SequenceIs
  <2> DEFINE old == run[r].contents[p]
             new == run[r].edits[p]
  <2>3. /\ DOMAIN new = DOMAIN old
        /\ \A k \in DOMAIN old : Follows(new[k], old[k], run[r].updates, p, Len(run[r].updates))
    BY <2>1 DEF EditsFollow
  <2> HIDE DEF old, new
  <2>4. \A k \in DOMAIN old : AsUpdated(r, p, new[k], old[k])
    BY <2>2, <2>3, FollowsIs
  <2> QED BY <2>3, <2>4 DEF old, new, AsUpdated
<1> QED BY <1>1, <1>3, <1>4, Always, LoneAlways, PTL DEF Spec

=============================================================================
