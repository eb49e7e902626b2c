----------------------- MODULE PublishAdmissionProofs -----------------------
(***************************************************************************)
(* What TLAPS proves of PublishAdmission for every number of publishes,    *)
(* coordinates and locks, with cancellation, failing rollbacks and         *)
(* restarts allowed or not: the lock map does give mutual exclusion, and   *)
(* hence what a publish observed under its lock stays true; the ledger's   *)
(* reservations are those of the publishes in flight and within the        *)
(* ceilings.                                                               *)
(***************************************************************************)
EXTENDS PublishAdmission, FiniteSetTheorems, WellFoundedInduction, TLAPS

\* A publish that waits for or owns a mutex uses the one the map holds, and the
\* map does not share a mutex between coordinates.
MapIsCurrent ==
    /\ \A t \in Tasks : pc[t] \in Critical \cup {"waiting"} =>
         arc[t] # NoLock /\ lockMap[Coord(t)] = arc[t]
    /\ \A t \in Tasks : pc[t] \in {"idle", "prune"} => arc[t] = NoLock
    /\ \A c, e \in Coordinates :
         lockMap[c] # NoLock /\ lockMap[c] = lockMap[e] => c = e

\* A mutex has one owner.
OneOwner ==
    \A t, u \in Tasks :
        pc[t] \in Critical /\ pc[u] \in Critical /\ arc[t] = arc[u] => t = u

LockInv == MapIsCurrent /\ OneOwner

-----------------------------------------------------------------------------
(* Typing *)

\* The saturating sums and differences of usage are usage.
LEMMA UsageArithmetic ==
    ASSUME NEW a \in UsageType, NEW b \in UsageType
    PROVE  Plus(a, b) \in UsageType /\ Minus(a, b) \in UsageType
BY DEF UsageType, Plus, Minus, Usage

\* An idle service with an empty lock map and an empty ledger is well typed.
LEMMA TypeInit == Init => TypeOK
BY DEF Init, TypeOK, UsageType, Nothing, Usage, Write, NoWrite

\* TypeOK is inductive: every step of every publish keeps the types.
LEMMA TypeStep == TypeOK /\ [Next]_vars => TypeOK'
<1> SUFFICES ASSUME TypeOK, [Next]_vars PROVE TypeOK'
    OBVIOUS
<1> USE RequestsAssumption, NamespaceAssumption
    DEF TypeOK, Critical, Goto, Coord, QuotaKey, lockVars, ledgerVars, writerVars, Request
<1>1. ASSUME NEW t \in Tasks, NEW q \in Requests, CloneLock(t, q) PROVE TypeOK'
  BY <1>1 DEF CloneLock
<1>2. ASSUME NEW t \in Tasks, Lock(t) PROVE TypeOK'
  BY <1>2 DEF Lock
<1>3. ASSUME NEW t \in Tasks, AbandonWait(t) PROVE TypeOK'
  BY <1>3 DEF AbandonWait
<1>4. ASSUME NEW t \in Tasks, CheckExists(t) PROVE TypeOK'
  BY <1>4 DEF CheckExists
<1>5. ASSUME NEW t \in Tasks, Refuse(t) PROVE TypeOK'
  BY <1>5 DEF Refuse
<1>6. ASSUME NEW t \in Tasks, ReserveQuota(t) PROVE TypeOK'
  <2>1. QuotaKey(t) \in Namespaces /\ Delta(t) \in UsageType
    BY <1>6 DEF ReserveQuota, Delta, Usage, UsageType
  <2>2. Plus(reserved[QuotaKey(t)], Delta(t)) \in UsageType
    BY <2>1, UsageArithmetic
  <2> QED BY <1>6, <2>1, <2>2 DEF ReserveQuota
<1>7. ASSUME NEW t \in Tasks, StageMetadata(t) PROVE TypeOK'
  BY <1>7 DEF StageMetadata
<1>8. ASSUME NEW t \in Tasks, Reconcile(t) PROVE TypeOK'
  <2>1. CASE guard[t] = NoGuard
    BY <1>8, <2>1 DEF Reconcile
  <2>2. CASE guard[t] # NoGuard
    <3>1. QuotaKey(t) \in Namespaces /\ guard[t] \in UsageType
      BY <1>8, <2>2 DEF Reconcile
    <3>2. /\ Minus(reserved[QuotaKey(t)], guard[t]) \in UsageType
          /\ Plus(committed[QuotaKey(t)], guard[t]) \in UsageType
      BY <3>1, UsageArithmetic
    <3> QED BY <1>8, <2>2, <3>1, <3>2 DEF Reconcile
  <2> QED BY <2>1, <2>2
<1>9. ASSUME NEW t \in Tasks, FailTransaction(t) PROVE TypeOK'
  BY <1>9 DEF FailTransaction
<1>10. ASSUME NEW t \in Tasks, Rollback(t) PROVE TypeOK'
  BY <1>10 DEF Rollback, PutBack
<1>11. ASSUME NEW t \in Tasks, DropReservation(t) PROVE TypeOK'
  <2>1. CASE guard[t] = NoGuard
    BY <1>11, <2>1 DEF DropReservation
  <2>2. CASE guard[t] # NoGuard
    <3>1. QuotaKey(t) \in Namespaces /\ guard[t] \in UsageType
      BY <1>11, <2>2 DEF DropReservation
    <3>2. Minus(reserved[QuotaKey(t)], guard[t]) \in UsageType
      BY <3>1, UsageArithmetic
    <3> QED BY <1>11, <2>2, <3>1, <3>2 DEF DropReservation
  <2> QED BY <2>1, <2>2
<1>12. ASSUME NEW t \in Tasks, ReleaseLock(t) PROVE TypeOK'
  BY <1>12 DEF ReleaseLock
<1>13. ASSUME NEW t \in Tasks, PruneLock(t) PROVE TypeOK'
  BY <1>13 DEF PruneLock
<1>14. ASSUME NEW t \in Tasks, Cancel(t) PROVE TypeOK'
  BY <1>14 DEF Cancel
<1>15. ASSUME Restart PROVE TypeOK'
  <2>1. Nothing \in UsageType
    BY DEF Nothing, Usage, UsageType
  <2> QED BY <1>15, <2>1 DEF Restart, Write, NoWrite
<1>16. CASE UNCHANGED vars
  BY <1>16 DEF vars
<1>17. ASSUME NEW t \in Tasks, TrackMetadata(t) PROVE TypeOK'
  BY <1>17 DEF TrackMetadata
<1>18. ASSUME NEW w \in Writers, WriteUnlocked(w) PROVE TypeOK'
  <2>1. /\ writer' \in [Writers -> Write]
        /\ \A x \in Writers : writer'[x].pc # "idle" => writer'[x].coord \in Coordinates
    <3>1. ASSUME NEW x \in Write, x.pc # "idle" => x.coord \in Coordinates,
                 writer' = [writer EXCEPT ![w] = x]
          PROVE  /\ writer' \in [Writers -> Write]
                 /\ \A y \in Writers : writer'[y].pc # "idle" => writer'[y].coord \in Coordinates
      BY <3>1
    <3>2. NoWrite \in Write /\ NoWrite.pc = "idle"
      BY DEF NoWrite, Write
    <3>3. CASE \E c \in Asked : StartWrite(w, c)
      BY <3>1, <3>3, AskedAssumption DEF StartWrite, NoWrite, Write
    <3>4. CASE TrackWrite(w)
      BY <3>1, <3>4 DEF TrackWrite, Write
    <3>5. CASE PutWrite(w) \/ FailPut(w)
      BY <3>1, <3>2, <3>5 DEF PutWrite, FailPut, Write
    <3>6. CASE UndoWrite(w) \/ EndWrite(w)
      BY <3>1, <3>2, <3>6 DEF UndoWrite, EndWrite
    <3> QED BY <1>18, <3>3, <3>4, <3>5, <3>6 DEF WriteUnlocked
  <2>2. published' \subseteq Coordinates /\ overtaken' \subseteq Tasks
    BY <1>18
    DEF WriteUnlocked, StartWrite, TrackWrite, PutWrite, FailPut, UndoWrite, EndWrite, Overtake,
        PutBack, Write
  <2>3. UNCHANGED publishVars
    BY <1>18 DEF WriteUnlocked, StartWrite, TrackWrite, PutWrite, FailPut, UndoWrite, EndWrite
  <2> QED BY <2>1, <2>2, <2>3 DEF publishVars
<1> QED BY <1>1, <1>2, <1>3, <1>4, <1>5, <1>6, <1>7, <1>8, <1>9, <1>10, <1>11, <1>12, <1>13, <1>14, <1>15, <1>16, <1>17, <1>18 DEF Next, Proceed

\* Every variable keeps its type.
THEOREM TypeCorrect == Spec => []TypeOK
BY TypeInit, TypeStep, PTL DEF Spec

-----------------------------------------------------------------------------
(* The lock map *)

\* LockInv holds of an empty lock map.
LEMMA LockInit == Init => LockInv
BY DEF Init, LockInv, MapIsCurrent, OneOwner, Critical

\* LockInv is inductive: a mutex in use stays the one in the map, whoever comes,
\* leaves, gives up or prunes.
LEMMA LockStep == TypeOK /\ LockInv /\ [Next]_vars => LockInv'
<1> SUFFICES ASSUME TypeOK, LockInv, [Next]_vars PROVE LockInv'
    OBVIOUS
<1> USE RequestsAssumption, NoLockAssumption
    DEF TypeOK, LockInv, MapIsCurrent, OneOwner, Critical, Goto, Coord, Users, lockVars, Request
<1>1. ASSUME NEW t \in Tasks, NEW q \in Requests, CloneLock(t, q) PROVE LockInv'
  BY <1>1 DEF CloneLock
<1>2. ASSUME NEW t \in Tasks, Lock(t) PROVE LockInv'
  BY <1>2 DEF Lock
<1>3. ASSUME NEW t \in Tasks, AbandonWait(t) PROVE LockInv'
  BY <1>3 DEF AbandonWait
<1>4. ASSUME NEW t \in Tasks, CheckExists(t) PROVE LockInv'
  BY <1>4 DEF CheckExists
<1>5. ASSUME NEW t \in Tasks, Refuse(t) PROVE LockInv'
  BY <1>5 DEF Refuse
<1>6. ASSUME NEW t \in Tasks, ReserveQuota(t) PROVE LockInv'
  BY <1>6 DEF ReserveQuota
<1>7. ASSUME NEW t \in Tasks, StageMetadata(t) PROVE LockInv'
  BY <1>7 DEF StageMetadata
<1>8. ASSUME NEW t \in Tasks, Reconcile(t) PROVE LockInv'
  BY <1>8 DEF Reconcile
<1>9. ASSUME NEW t \in Tasks, FailTransaction(t) PROVE LockInv'
  BY <1>9 DEF FailTransaction
<1>10. ASSUME NEW t \in Tasks, Rollback(t) PROVE LockInv'
  BY <1>10 DEF Rollback
<1>11. ASSUME NEW t \in Tasks, DropReservation(t) PROVE LockInv'
  BY <1>11 DEF DropReservation
<1>12. ASSUME NEW t \in Tasks, ReleaseLock(t) PROVE LockInv'
  BY <1>12 DEF ReleaseLock
<1>13. ASSUME NEW t \in Tasks, PruneLock(t) PROVE LockInv'
  BY <1>13 DEF PruneLock
<1>14. ASSUME NEW t \in Tasks, Cancel(t) PROVE LockInv'
  BY <1>14 DEF Cancel
<1>15. ASSUME Restart PROVE LockInv'
  BY <1>15 DEF Restart
<1>16. CASE UNCHANGED vars
  BY <1>16 DEF vars
<1>17. ASSUME NEW t \in Tasks, TrackMetadata(t) PROVE LockInv'
  BY <1>17 DEF TrackMetadata
<1>18. ASSUME NEW w \in Writers, WriteUnlocked(w) PROVE LockInv'
  <2>1. UNCHANGED publishVars
    BY <1>18 DEF WriteUnlocked, StartWrite, TrackWrite, PutWrite, FailPut, UndoWrite, EndWrite
  <2> QED BY <2>1 DEF publishVars
<1> QED BY <1>1, <1>2, <1>3, <1>4, <1>5, <1>6, <1>7, <1>8, <1>9, <1>10, <1>11, <1>12, <1>13, <1>14, <1>15, <1>16, <1>17, <1>18 DEF Next, Proceed

\* One owner per current mutex, and one current mutex per coordinate, make the
\* publishes of a coordinate exclude one another.
LEMMA LockInvExcludes == TypeOK /\ LockInv => MutualExclusion
BY DEF TypeOK, LockInv, MapIsCurrent, OneOwner, MutualExclusion, Critical

\* Publishes of one version are serialized.
THEOREM Serialized == Spec => []MutualExclusion
BY TypeCorrect, LockInit, LockStep, LockInvExcludes, PTL DEF Spec

-----------------------------------------------------------------------------
(* What is observed under the lock *)

\* Nothing has been observed while everybody is idle.
LEMMA ObservationInit == Init => ObservationHolds
BY DEF Init, ObservationHolds, ObservedIsStored

\* Under mutual exclusion no step of another publish changes what this one saw,
\* and a write without the lock that does is on record.
LEMMA ObservationStep ==
    TypeOK /\ MutualExclusion /\ ObservationHolds /\ [Next]_vars => ObservationHolds'
<1> SUFFICES ASSUME TypeOK, MutualExclusion, ObservationHolds, [Next]_vars PROVE ObservationHolds'
    OBVIOUS
<1> USE DEF TypeOK, MutualExclusion, ObservationHolds, ObservedIsStored, Critical, Goto, Coord, lockVars,
            ledgerVars, writerVars
<1>1. ASSUME NEW t \in Tasks, NEW q \in Requests, CloneLock(t, q) PROVE ObservationHolds'
  BY <1>1 DEF CloneLock
<1>2. ASSUME NEW t \in Tasks, Lock(t) PROVE ObservationHolds'
  BY <1>2 DEF Lock
<1>3. ASSUME NEW t \in Tasks, AbandonWait(t) PROVE ObservationHolds'
  BY <1>3 DEF AbandonWait
<1>4. ASSUME NEW t \in Tasks, CheckExists(t) PROVE ObservationHolds'
  BY <1>4 DEF CheckExists
<1>5. ASSUME NEW t \in Tasks, Refuse(t) PROVE ObservationHolds'
  BY <1>5 DEF Refuse
<1>6. ASSUME NEW t \in Tasks, ReserveQuota(t) PROVE ObservationHolds'
  BY <1>6 DEF ReserveQuota
<1>7. ASSUME NEW t \in Tasks, StageMetadata(t) PROVE ObservationHolds'
  BY <1>7 DEF StageMetadata
<1>8. ASSUME NEW t \in Tasks, Reconcile(t) PROVE ObservationHolds'
  BY <1>8 DEF Reconcile
<1>9. ASSUME NEW t \in Tasks, FailTransaction(t) PROVE ObservationHolds'
  BY <1>9 DEF FailTransaction
<1>10. ASSUME NEW t \in Tasks, Rollback(t) PROVE ObservationHolds'
  BY <1>10 DEF Rollback, PutBack
<1>11. ASSUME NEW t \in Tasks, DropReservation(t) PROVE ObservationHolds'
  BY <1>11 DEF DropReservation
<1>12. ASSUME NEW t \in Tasks, ReleaseLock(t) PROVE ObservationHolds'
  BY <1>12 DEF ReleaseLock
<1>13. ASSUME NEW t \in Tasks, PruneLock(t) PROVE ObservationHolds'
  BY <1>13 DEF PruneLock
<1>14. ASSUME NEW t \in Tasks, Cancel(t) PROVE ObservationHolds'
  BY <1>14 DEF Cancel
<1>15. ASSUME Restart PROVE ObservationHolds'
  BY <1>15 DEF Restart
<1>16. CASE UNCHANGED vars
  BY <1>16 DEF vars
<1>17. ASSUME NEW t \in Tasks, TrackMetadata(t) PROVE ObservationHolds'
  BY <1>17 DEF TrackMetadata
<1>18. ASSUME NEW w \in Writers, WriteUnlocked(w) PROVE ObservationHolds'
  <2>1. UNCHANGED publishVars
    BY <1>18 DEF WriteUnlocked, StartWrite, TrackWrite, PutWrite, FailPut, UndoWrite, EndWrite
  <2>2. overtaken \subseteq overtaken'
        /\ \A t \in Tasks \ overtaken' :
             pc[t] \in {"gates", "write", "put"} => (Coord(t) \in published') = (Coord(t) \in published)
    <3>1. CASE UNCHANGED <<published, overtaken>>
      BY <3>1
    <3>2. CASE \E c : Overtake(c) /\ (published' = published \cup {c} \/ published' = published \ {c})
      BY <3>2 DEF Overtake
    <3>3. CASE PutWrite(w)
      BY <3>2, <3>3 DEF PutWrite
    <3>4. CASE UndoWrite(w)
      BY <3>1, <3>2, <3>4 DEF UndoWrite, PutBack, Overtake
    <3> QED BY <1>18, <3>1, <3>3, <3>4 DEF WriteUnlocked, StartWrite, TrackWrite, FailPut, EndWrite
  <2> QED BY <2>1, <2>2 DEF publishVars
<1> QED BY <1>1, <1>2, <1>3, <1>4, <1>5, <1>6, <1>7, <1>8, <1>9, <1>10, <1>11, <1>12, <1>13, <1>14, <1>15, <1>16, <1>17, <1>18 DEF Next, Proceed

\* From the duplicate check to the first staged write, version_already_exists is
\* what is stored, whatever other publishes do; a fill or a yank, which take no
\* lock, overtakes the publish.
THEOREM ObservationStable == Spec => []ObservationHolds
BY TypeCorrect, Serialized, ObservationInit, ObservationStep, PTL DEF Spec

-----------------------------------------------------------------------------
(* The map forgets *)

\* EntriesPruned is kept by a step that leaves the map and every request as they
\* are and takes no mutex away.
LEMMA EntriesKept ==
    ASSUME EntriesPruned, UNCHANGED <<lockVars, req, abandoned>>,
           \A t \in Tasks : pc[t] = "prune" => pc'[t] = "prune"
    PROVE  EntriesPruned'
BY DEF EntriesPruned, Users, Coord, lockVars

\* Who gives a mutex up is about to prune its entry or marks it abandoned.
LEMMA EntriesStep ==
    TypeOK /\ LockInv /\ EntriesPruned /\ [Next]_vars => EntriesPruned'
<1> SUFFICES ASSUME TypeOK, LockInv, EntriesPruned, [Next]_vars PROVE EntriesPruned'
    OBVIOUS
<1>1. ASSUME NEW t \in Tasks, NEW q \in Requests, CloneLock(t, q) PROVE EntriesPruned'
  <2>1. /\ q.coord \in Coordinates /\ arc[t] = NoLock /\ arc' = [arc EXCEPT ![t] = arc'[t]]
        /\ req' = [req EXCEPT ![t] = q] /\ abandoned' = abandoned
        /\ pc[t] = "idle" /\ pc' = [pc EXCEPT ![t] = "waiting"]
        /\ lockMap' = [lockMap EXCEPT ![q.coord] = arc'[t]]
    BY <1>1, RequestsAssumption DEF CloneLock, TypeOK, LockInv, MapIsCurrent, Goto, Request
  <2> SUFFICES ASSUME NEW c \in Coordinates, (lockMap[c] # NoLock)', (Users(lockMap[c]) = {})'
               PROVE  c \in abandoned' \/ \E u \in Tasks : pc'[u] = "prune" /\ Coord(u)' = c
      BY DEF EntriesPruned
  <2>2. c # q.coord /\ lockMap'[c] = lockMap[c]
    BY <2>1 DEF TypeOK, Users
  <2>3. Users(lockMap[c]) = {}
    BY <2>1, <2>2 DEF TypeOK, Users
  <2>4. c \in abandoned \/ \E u \in Tasks : pc[u] = "prune" /\ Coord(u) = c
    BY <2>2, <2>3 DEF EntriesPruned
  <2> QED BY <2>1, <2>4 DEF TypeOK, Coord
<1>2. ASSUME NEW t \in Tasks, AbandonWait(t) PROVE EntriesPruned'
  <2>1. /\ lockMap' = lockMap /\ lockMap[Coord(t)] = arc[t] /\ Coord(t) \in abandoned'
        /\ arc' = [arc EXCEPT ![t] = NoLock] /\ req' = [req EXCEPT ![t] = NoRequest]
        /\ abandoned \subseteq abandoned'
        /\ pc[t] = "waiting" /\ pc' = [pc EXCEPT ![t] = "idle"]
    BY <1>2 DEF AbandonWait, LockInv, MapIsCurrent, Goto
  <2> SUFFICES ASSUME NEW c \in Coordinates, lockMap[c] # NoLock, Users(lockMap[c])' = {},
                      c \notin abandoned'
               PROVE  \E u \in Tasks : pc'[u] = "prune" /\ Coord(u)' = c
      BY <2>1 DEF EntriesPruned
  <2>2. arc[t] # lockMap[c]
    BY <1>2, <2>1, RequestsAssumption DEF TypeOK, LockInv, MapIsCurrent, Coord, Request
  <2>3. Users(lockMap[c]) = {}
    BY <2>1, <2>2 DEF TypeOK, Users
  <2>4. c \in abandoned \/ \E u \in Tasks : pc[u] = "prune" /\ Coord(u) = c
    BY <2>3 DEF EntriesPruned
  <2> QED BY <2>1, <2>4 DEF TypeOK, Coord
<1>3. ASSUME NEW t \in Tasks, ReleaseLock(t) PROVE EntriesPruned'
  <2>1. /\ UNCHANGED <<lockMap, req, abandoned>> /\ lockMap[Coord(t)] = arc[t]
        /\ arc' = [arc EXCEPT ![t] = NoLock] /\ Coord(t) \in Coordinates
        /\ pc[t] = "release" /\ pc' = [pc EXCEPT ![t] = "prune"]
    BY <1>3, RequestsAssumption
    DEF ReleaseLock, TypeOK, LockInv, MapIsCurrent, Critical, Coord, Goto, Request
  <2> SUFFICES ASSUME NEW c \in Coordinates, lockMap[c] # NoLock, (Users(lockMap[c]) = {})', c # Coord(t)
               PROVE  c \in abandoned \/ \E u \in Tasks : pc'[u] = "prune" /\ Coord(u) = c
      BY <2>1 DEF EntriesPruned, TypeOK, Coord
  <2>2. arc[t] # lockMap[c]
    BY <2>1 DEF LockInv, MapIsCurrent
  <2>3. Users(lockMap[c]) = {}
    BY <2>1, <2>2 DEF TypeOK, Users
  <2>4. c \in abandoned \/ \E u \in Tasks : pc[u] = "prune" /\ Coord(u) = c
    BY <2>3 DEF EntriesPruned
  <2> QED BY <2>1, <2>4 DEF TypeOK
<1>4. ASSUME NEW t \in Tasks, PruneLock(t) PROVE EntriesPruned'
  BY <1>4 DEF TypeOK, LockInv, MapIsCurrent, EntriesPruned, PruneLock, Users, Coord, Goto
<1>5. ASSUME NEW t \in Tasks,
             \/ Lock(t) \/ CheckExists(t) \/ Refuse(t) \/ ReserveQuota(t) \/ TrackMetadata(t) \/ StageMetadata(t)
             \/ Reconcile(t) \/ FailTransaction(t) \/ Rollback(t) \/ DropReservation(t) \/ Cancel(t)
      PROVE  EntriesPruned'
  <2>1. /\ UNCHANGED <<lockVars, req, abandoned>>
        /\ \A u \in Tasks : pc[u] = "prune" => pc'[u] = "prune"
    BY <1>5
    DEF TypeOK, Lock, CheckExists, Refuse, ReserveQuota, TrackMetadata, StageMetadata, Reconcile,
        FailTransaction, Rollback, DropReservation, Cancel, Goto
  <2> QED BY <2>1, EntriesKept
<1>6. ASSUME Restart PROVE EntriesPruned'
  BY <1>6 DEF Restart, EntriesPruned
<1>7. CASE UNCHANGED vars
  BY <1>7, EntriesKept DEF vars, lockVars
<1>8. ASSUME NEW w \in Writers, WriteUnlocked(w) PROVE EntriesPruned'
  <2>1. UNCHANGED publishVars
    BY <1>8 DEF WriteUnlocked, StartWrite, TrackWrite, PutWrite, FailPut, UndoWrite, EndWrite
  <2> QED BY <2>1, EntriesKept DEF publishVars, lockVars
<1> QED BY <1>1, <1>2, <1>3, <1>4, <1>5, <1>6, <1>7, <1>8 DEF Next, Proceed

\* prune_publish_lock leaves no entry behind, of whatever coordinate, but those a
\* publish was dropped waiting for.
THEOREM Pruned == Spec => []EntriesPruned
<1>1. Init => EntriesPruned
  BY DEF Init, EntriesPruned
<1> QED BY <1>1, TypeCorrect, LockInit, LockStep, EntriesStep, PTL DEF Spec

-----------------------------------------------------------------------------
(* Sums over finite sets *)

\* A non-empty set of numbers has a least one.
LEMMA Least ==
    ASSUME NEW N, N \subseteq Nat, N # {}
    PROVE  \E i \in N : \A j \in N : i <= j
<1> DEFINE R == {ss \in Nat \X Nat : ss[1] < ss[2]}
<1>1. IsWellFoundedOn(R, Nat)
  BY NatLessThanWellFounded DEF OpToRel
<1> HIDE DEF R
<1>2. PICK i \in N : \A j \in N : <<j, i>> \notin R
  BY <1>1, WFMin
<1>3. ASSUME NEW j \in N PROVE ~(j < i)
  <2> DEFINE p == <<j, i>>
  <2>1. p \in Nat \X Nat /\ p[1] = j /\ p[2] = i
    OBVIOUS
  <2>2. p \notin R
    BY <1>2, Zenon
  <2> HIDE DEF p
  <2>3. ~(p[1] < p[2])
    BY <2>1, <2>2, Zenon DEF R
  <2> QED BY <2>1, <2>3, Zenon
<1>4. \A j \in N : i <= j
  BY <1>3
<1> QED BY <1>4

\* A non-empty set of finite sets has a member none of whose proper subsets is
\* one: induction over finite sets, for the set of counterexamples.
LEMMA Minimal ==
    ASSUME NEW S, IsFiniteSet(S), NEW Bad, Bad \subseteq SUBSET S, Bad # {}
    PROVE  \E s \in Bad : \A r \in Bad : r \subseteq s => r = s
<1> DEFINE Sizes == {Cardinality(s) : s \in Bad}
<1>1. \A s \in Bad : IsFiniteSet(s) /\ Cardinality(s) \in Nat
  BY FS_Subset, FS_CardinalityType
<1>2. Sizes \subseteq Nat /\ Sizes # {}
  BY <1>1
<1>3. PICK i \in Sizes : \A j \in Sizes : i <= j
  <2> HIDE DEF Sizes
  <2> QED BY <1>2, Least
<1>4. PICK s \in Bad : i = Cardinality(s)
  BY <1>3
<1>5. ASSUME NEW r \in Bad, r \subseteq s PROVE r = s
  <2>1. Cardinality(s) <= Cardinality(r)
    BY <1>3, <1>4, <1>5
  <2>2. Cardinality(r) <= Cardinality(s) /\ (Cardinality(s) = Cardinality(r) => s = r)
    BY <1>1, <1>5, FS_Subset
  <2>3. Cardinality(s) \in Nat /\ Cardinality(r) \in Nat
    BY <1>1
  <2> HIDE DEF Sizes
  <2> QED BY <2>1, <2>2, <2>3
<1> QED BY <1>5

\* The element the folds of the library take first.
Pick(s) == CHOOSE x \in s : TRUE

\* f sums w over every subset of S, one picked element at a time.
Adds(f, w, S) ==
    f = [s \in SUBSET S |-> IF s = {} THEN 0 ELSE w[Pick(s)] + f[s \ {Pick(s)}]]

\* The fold is the value at S of such a function.
LEMMA SumIsAdded ==
    ASSUME NEW w, NEW S
    PROVE  SumFunctionOnSet(w, S) = (CHOOSE f : Adds(f, w, S))[S]
BY DEF SumFunctionOnSet, FoldFunctionOnSet, MapThenFoldSet, Adds, Pick

\* What Adds says of one subset.
LEMMA AddsAt ==
    ASSUME NEW f, NEW w, NEW S, Adds(f, w, S), NEW s \in SUBSET S
    PROVE  /\ s = {} => f[s] = 0
           /\ s # {} => Pick(s) \in s /\ f[s] = w[Pick(s)] + f[s \ {Pick(s)}]
<1>1. f[s] = IF s = {} THEN 0 ELSE w[Pick(s)] + f[s \ {Pick(s)}]
  BY Zenon DEF Adds
<1>2. s # {} => Pick(s) \in s
  BY DEF Pick
<1> QED BY <1>1, <1>2

\* Two functions that add agree where both are defined.
LEMMA AddsAgree ==
    ASSUME NEW w, NEW S, NEW T, IsFiniteSet(S), NEW f, NEW g, Adds(f, w, S), Adds(g, w, T)
    PROVE  \A s \in (SUBSET S) \cap (SUBSET T) : f[s] = g[s]
<1> DEFINE Bad == {s \in (SUBSET S) \cap (SUBSET T) : f[s] # g[s]}
<1> SUFFICES ASSUME Bad # {} PROVE FALSE
    OBVIOUS
<1>1. PICK s \in Bad : \A r \in Bad : r \subseteq s => r = s
  <2>1. Bad \subseteq SUBSET S
    OBVIOUS
  <2> HIDE DEF Bad
  <2> QED BY <2>1, Minimal
<1>2. s # {} /\ Pick(s) \in s
  BY <1>1, AddsAt
<1>3. f[s \ {Pick(s)}] = g[s \ {Pick(s)}]
  BY <1>1, <1>2
<1>4. s \in SUBSET S /\ s \in SUBSET T /\ f[s] # g[s]
  BY <1>1
<1> HIDE DEF Bad
<1>5. f[s] = w[Pick(s)] + f[s \ {Pick(s)}]
  BY <1>2, <1>4, AddsAt
<1>6. g[s] = w[Pick(s)] + g[s \ {Pick(s)}]
  BY <1>2, <1>4, AddsAt
<1> QED BY <1>3, <1>4, <1>5, <1>6

\* There is a function that adds over a finite set.
LEMMA AddsExists ==
    ASSUME NEW w, NEW S, IsFiniteSet(S)
    PROVE  Adds(CHOOSE f : Adds(f, w, S), w, S)
<1> DEFINE G(U) == CHOOSE g : Adds(g, w, U)
           Bad == {U \in SUBSET S : ~Adds(G(U), w, U)}
<1> SUFFICES ASSUME Bad # {} PROVE FALSE
    OBVIOUS
<1>1. PICK T \in Bad : \A U \in Bad : U \subseteq T => U = T
  <2>1. Bad \subseteq SUBSET S
    OBVIOUS
  <2> HIDE DEF Bad
  <2> QED BY <2>1, Minimal
<1> DEFINE f == [s \in SUBSET T |-> IF s = {} THEN 0 ELSE w[Pick(s)] + G(s \ {Pick(s)})[s \ {Pick(s)}]]
<1>2. \A U \in SUBSET T : U # T => Adds(G(U), w, U)
  BY <1>1
<1>3. \A U \in SUBSET T : IsFiniteSet(U)
  BY <1>1, FS_Subset
<1>4. ASSUME NEW U \in SUBSET T, U # T PROVE f[U] = G(U)[U]
  <2>1. Adds(G(U), w, U)
    BY <1>2, <1>4
  <2>2. CASE U = {}
    <3>1. G(U)[U] = 0
      <4> HIDE DEF G
      <4> QED BY <2>1, <2>2, AddsAt
    <3> QED BY <2>2, <3>1
  <2>3. CASE U # {}
    <3> DEFINE V == U \ {Pick(U)}
    <3>1. Pick(U) \in U
      BY <2>3 DEF Pick
    <3>2. V \in SUBSET T /\ V # T /\ V \in SUBSET U
      BY <3>1
    <3>3. Adds(G(V), w, V)
      BY <1>2, <3>2
    <3>4. IsFiniteSet(U)
      BY <1>3
    <3>5. G(U)[V] = G(V)[V]
      <4> HIDE DEF G, V
      <4> QED BY <2>1, <3>2, <3>3, <3>4, AddsAgree
    <3>6. G(U)[U] = w[Pick(U)] + G(U)[V]
      <4> HIDE DEF G
      <4> QED BY <2>1, <2>3, AddsAt
    <3>7. f[U] = w[Pick(U)] + G(V)[V]
      <4> HIDE DEF G
      <4> QED BY <2>3
    <3> HIDE DEF G, f, V
    <3> QED BY <3>5, <3>6, <3>7
  <2> QED BY <2>2, <2>3
<1>5. ASSUME NEW s \in SUBSET T, s # {}
      PROVE  f[s \ {Pick(s)}] = G(s \ {Pick(s)})[s \ {Pick(s)}]
  <2>1. Pick(s) \in s
    BY <1>5 DEF Pick
  <2>2. s \ {Pick(s)} \in SUBSET T /\ s \ {Pick(s)} # T
    BY <2>1
  <2> HIDE DEF f, G
  <2> QED BY <1>4, <2>2
<1>6. Adds(f, w, T)
  <2>1. f = [s \in SUBSET T |-> IF s = {} THEN 0 ELSE w[Pick(s)] + f[s \ {Pick(s)}]]
    <3> DEFINE h == [s \in SUBSET T |-> IF s = {} THEN 0 ELSE w[Pick(s)] + f[s \ {Pick(s)}]]
    <3>1. ASSUME NEW s \in SUBSET T PROVE f[s] = h[s]
      <4>1. CASE s = {}
        BY <4>1
      <4>2. CASE s # {}
        <5>1. f[s] = w[Pick(s)] + G(s \ {Pick(s)})[s \ {Pick(s)}]
          <6> HIDE DEF G
          <6> QED BY <4>2
        <5>2. h[s] = w[Pick(s)] + f[s \ {Pick(s)}]
          <6> HIDE DEF f
          <6> QED BY <4>2
        <5> HIDE DEF f, h, G
        <5> QED BY <5>1, <5>2, <1>5, <4>2
      <4> QED BY <4>1, <4>2
    <3> HIDE DEF G
    <3>2. f \in [SUBSET T -> {f[s] : s \in SUBSET T}] /\ DOMAIN f = SUBSET T
      OBVIOUS
    <3>3. f = [s \in SUBSET T |-> f[s]]
      OBVIOUS
    <3>4. h = [s \in SUBSET T |-> h[s]]
      <4> HIDE DEF f
      <4> QED OBVIOUS
    <3>5. [s \in SUBSET T |-> f[s]] = [s \in SUBSET T |-> h[s]]
      <4> HIDE DEF f, h
      <4> QED BY <3>1
    <3>6. f = h
      <4> HIDE DEF f, h
      <4> QED BY <3>3, <3>4, <3>5
    <3> HIDE DEF f
    <3> QED BY <3>6
  <2> HIDE DEF f
  <2> QED BY <2>1 DEF Adds
<1>7. Adds(G(T), w, T)
  <2> HIDE DEF f
  <2> QED BY <1>6
<1> QED BY <1>1, <1>7

\* Nothing adds up to zero.
LEMMA SumEmpty ==
    ASSUME NEW w
    PROVE  SumFunctionOnSet(w, {}) = 0
BY SumIsAdded, AddsExists, AddsAt, FS_EmptySet

\* The fold takes the picked element first.
LEMMA SumPicked ==
    ASSUME NEW w, NEW S, IsFiniteSet(S), S # {}
    PROVE  /\ Pick(S) \in S
           /\ SumFunctionOnSet(w, S) = w[Pick(S)] + SumFunctionOnSet(w, S \ {Pick(S)})
<1> DEFINE R == S \ {Pick(S)}
           f == CHOOSE f : Adds(f, w, S)
           g == CHOOSE g : Adds(g, w, R)
<1>1. IsFiniteSet(R)
  BY FS_Subset
<1>2. Adds(f, w, S)
  BY AddsExists
<1>3. Adds(g, w, R)
  <2> HIDE DEF R
  <2> QED BY <1>1, AddsExists
<1>4. SumFunctionOnSet(w, S) = f[S] /\ SumFunctionOnSet(w, R) = g[R]
  BY SumIsAdded
<1> HIDE DEF f, g
<1>5. Pick(S) \in S /\ f[S] = w[Pick(S)] + f[R]
  BY <1>2, AddsAt
<1>6. f[R] = g[R]
  <2>1. R \in (SUBSET S) \cap (SUBSET R)
    OBVIOUS
  <2> HIDE DEF R
  <2> QED BY <1>2, <1>3, <2>1, AddsAgree
<1> QED BY <1>4, <1>5, <1>6

\* A sum of naturals is one.
LEMMA SumType ==
    ASSUME NEW w, NEW S, IsFiniteSet(S), \A x \in S : w[x] \in Nat
    PROVE  SumFunctionOnSet(w, S) \in Nat
<1> DEFINE Bad == {T \in SUBSET S : SumFunctionOnSet(w, T) \notin Nat}
<1> SUFFICES ASSUME Bad # {} PROVE FALSE
    OBVIOUS
<1>1. PICK T \in Bad : \A U \in Bad : U \subseteq T => U = T
  <2>1. Bad \subseteq SUBSET S
    OBVIOUS
  <2> HIDE DEF Bad
  <2> QED BY <2>1, Minimal
<1>2. T # {} /\ IsFiniteSet(T)
  <2>1. SumFunctionOnSet(w, {}) \in Nat
    BY SumEmpty
  <2> QED BY <1>1, <2>1, FS_Subset
<1>3. Pick(T) \in T /\ SumFunctionOnSet(w, T) = w[Pick(T)] + SumFunctionOnSet(w, T \ {Pick(T)})
  BY <1>2, SumPicked
<1>4. SumFunctionOnSet(w, T \ {Pick(T)}) \in Nat
  BY <1>1, <1>3
<1> QED BY <1>1, <1>3, <1>4

\* Any element may be taken out first.
LEMMA SumSplit ==
    ASSUME NEW w, NEW S, IsFiniteSet(S), \A y \in S : w[y] \in Nat, NEW x \in S
    PROVE  SumFunctionOnSet(w, S) = w[x] + SumFunctionOnSet(w, S \ {x})
<1> DEFINE Bad == {T \in SUBSET S : \E y \in T :
                     SumFunctionOnSet(w, T) # w[y] + SumFunctionOnSet(w, T \ {y})}
<1> SUFFICES ASSUME Bad # {} PROVE FALSE
    OBVIOUS
<1>1. PICK T \in Bad : \A U \in Bad : U \subseteq T => U = T
  <2>1. Bad \subseteq SUBSET S
    OBVIOUS
  <2> HIDE DEF Bad
  <2> QED BY <2>1, Minimal
<1>2. PICK y \in T : SumFunctionOnSet(w, T) # w[y] + SumFunctionOnSet(w, T \ {y})
  BY <1>1
<1>3. \A U \in SUBSET T : /\ IsFiniteSet(U)
                          /\ SumFunctionOnSet(w, U) \in Nat
                          /\ \A z \in U : U # T =>
                               SumFunctionOnSet(w, U) = w[z] + SumFunctionOnSet(w, U \ {z})
  BY <1>1, FS_Subset, SumType
<1> DEFINE p == Pick(T)
<1>4. p \in T /\ SumFunctionOnSet(w, T) = w[p] + SumFunctionOnSet(w, T \ {p})
  BY <1>2, <1>3, SumPicked
<1> HIDE DEF p
<1>5. p # y
  BY <1>2, <1>4
<1>6. SumFunctionOnSet(w, T \ {p}) = w[y] + SumFunctionOnSet(w, (T \ {p}) \ {y})
  BY <1>2, <1>3, <1>4, <1>5
<1>7. SumFunctionOnSet(w, T \ {y}) = w[p] + SumFunctionOnSet(w, (T \ {y}) \ {p})
  BY <1>2, <1>3, <1>4, <1>5
<1>8. (T \ {p}) \ {y} = (T \ {y}) \ {p}
  OBVIOUS
<1>9. w[p] \in Nat /\ w[y] \in Nat /\ SumFunctionOnSet(w, (T \ {y}) \ {p}) \in Nat
  BY <1>1, <1>2, <1>3, <1>4
<1> QED BY <1>2, <1>4, <1>6, <1>7, <1>8, <1>9

\* A sum depends on the values it adds only.
LEMMA SumCongruence ==
    ASSUME NEW w, NEW v, NEW S, IsFiniteSet(S), \A x \in S : w[x] = v[x]
    PROVE  SumFunctionOnSet(w, S) = SumFunctionOnSet(v, S)
<1> DEFINE Bad == {T \in SUBSET S : SumFunctionOnSet(w, T) # SumFunctionOnSet(v, T)}
<1> SUFFICES ASSUME Bad # {} PROVE FALSE
    OBVIOUS
<1>1. PICK T \in Bad : \A U \in Bad : U \subseteq T => U = T
  <2>1. Bad \subseteq SUBSET S
    OBVIOUS
  <2> HIDE DEF Bad
  <2> QED BY <2>1, Minimal
<1>2. T # {} /\ IsFiniteSet(T)
  BY <1>1, SumEmpty, FS_Subset
<1>3. /\ Pick(T) \in T
      /\ SumFunctionOnSet(w, T) = w[Pick(T)] + SumFunctionOnSet(w, T \ {Pick(T)})
      /\ SumFunctionOnSet(v, T) = v[Pick(T)] + SumFunctionOnSet(v, T \ {Pick(T)})
  BY <1>2, SumPicked
<1>4. SumFunctionOnSet(w, T \ {Pick(T)}) = SumFunctionOnSet(v, T \ {Pick(T)})
  BY <1>1, <1>3
<1> QED BY <1>1, <1>3, <1>4

-----------------------------------------------------------------------------
(* The ledger *)

\* The publishes that hold a reservation in a namespace, and what they hold.
Holders(n) == {t \in Tasks : guard[t] # NoGuard /\ QuotaKey(t) = n}
VersionsHeld(n) == SumFunction([t \in Holders(n) |-> guard[t].versions])
BytesHeld(n) == SumFunction([t \in Holders(n) |-> guard[t].bytes])

\* A reservation is held from reserve_quota to reconcile or drop, and by finitely
\* many publishes at a time, however many there are.
GuardsHeld ==
    /\ \A t \in Tasks : guard[t] # NoGuard => pc[t] \in {"write", "put", "staged", "rollback", "drop"}
    /\ \A n \in Namespaces : IsFiniteSet(Holders(n))

LedgerInv == GuardsHeld /\ LedgerBalances /\ CeilingRespected

\* LedgerBalances, in the words of the sums.
LEMMA Balanced ==
    LedgerBalances <=>
        \A n \in Namespaces :
            reserved[n].versions = VersionsHeld(n) /\ reserved[n].bytes = BytesHeld(n)
BY DEF LedgerBalances, VersionsHeld, BytesHeld, Holders

\* What the holders of a namespace hold is a natural number.
LEMMA HeldType ==
    ASSUME TypeOK, GuardsHeld, NEW n \in Namespaces
    PROVE  VersionsHeld(n) \in Nat /\ BytesHeld(n) \in Nat
<1>1. \A t \in Holders(n) : guard[t].versions \in Nat /\ guard[t].bytes \in Nat
  BY DEF TypeOK, UsageType, Holders
<1> QED BY <1>1, SumType DEF GuardsHeld, VersionsHeld, BytesHeld, SumFunction

\* The sums of a namespace none of whose holders changes.
LEMMA HoldersStay ==
    ASSUME NEW n, Holders(n)' = Holders(n), \A t \in Holders(n) : guard'[t] = guard[t]
    PROVE  VersionsHeld(n)' = VersionsHeld(n) /\ BytesHeld(n)' = BytesHeld(n)
<1>1. /\ [t \in Holders(n) |-> guard'[t].versions] = [t \in Holders(n) |-> guard[t].versions]
      /\ [t \in Holders(n) |-> guard'[t].bytes] = [t \in Holders(n) |-> guard[t].bytes]
  OBVIOUS
<1> QED BY <1>1 DEF VersionsHeld, BytesHeld

\* A function's sum over a set and over the set with one more member.
LEMMA SumJoined ==
    ASSUME NEW H, IsFiniteSet(H), NEW t, t \notin H, NEW w, NEW v,
           DOMAIN w = H, DOMAIN v = H \cup {t},
           \A u \in H : v[u] = w[u], \A u \in H \cup {t} : v[u] \in Nat
    PROVE  SumFunction(v) = v[t] + SumFunction(w)
<1>1. IsFiniteSet(H \cup {t}) /\ (H \cup {t}) \ {t} = H
  BY FS_AddElement
<1>2. SumFunctionOnSet(v, H \cup {t}) = v[t] + SumFunctionOnSet(v, (H \cup {t}) \ {t})
  BY <1>1, SumSplit
<1>3. SumFunctionOnSet(v, H) = SumFunctionOnSet(w, H)
  BY SumCongruence
<1> QED BY <1>1, <1>2, <1>3 DEF SumFunction

\* A publish that reserves adds its delta to the sums of its namespace.
LEMMA HolderJoins ==
    ASSUME NEW n, NEW t, t \notin Holders(n), IsFiniteSet(Holders(n)),
           Holders(n)' = Holders(n) \cup {t}, \A u \in Holders(n) : guard'[u] = guard[u],
           \A u \in Holders(n)' : guard'[u] \in UsageType
    PROVE  /\ IsFiniteSet(Holders(n))'
           /\ VersionsHeld(n)' = guard'[t].versions + VersionsHeld(n)
           /\ BytesHeld(n)' = guard'[t].bytes + BytesHeld(n)
<1> DEFINE H == Holders(n)
           J == H \cup {t}
<1>1. \A u \in J : guard'[u].versions \in Nat /\ guard'[u].bytes \in Nat
  BY DEF UsageType
<1>2. IsFiniteSet(J)
  BY FS_AddElement
<1>3. SumFunction([u \in J |-> guard'[u].versions])
      = guard'[t].versions + SumFunction([u \in H |-> guard[u].versions])
  <2> DEFINE w == [u \in H |-> guard[u].versions]
             v == [u \in J |-> guard'[u].versions]
  <2>1. /\ DOMAIN w = H /\ DOMAIN v = J /\ \A u \in H : v[u] = w[u]
        /\ \A u \in J : v[u] \in Nat
        /\ v[t] = guard'[t].versions
    BY <1>1
  <2>2. /\ IsFiniteSet(H) /\ t \notin H /\ DOMAIN w = H /\ DOMAIN v = H \cup {t}
        /\ \A u \in H : v[u] = w[u]
        /\ \A u \in H \cup {t} : v[u] \in Nat
    BY <2>1
  <2> HIDE DEF w, v, H, J
  <2>3. SumFunction(v) = v[t] + SumFunction(w)
    BY <2>2, SumJoined
  <2> QED BY <2>1, <2>3 DEF w, v
<1>4. SumFunction([u \in J |-> guard'[u].bytes])
      = guard'[t].bytes + SumFunction([u \in H |-> guard[u].bytes])
  <2> DEFINE w == [u \in H |-> guard[u].bytes]
             v == [u \in J |-> guard'[u].bytes]
  <2>1. /\ DOMAIN w = H /\ DOMAIN v = J /\ \A u \in H : v[u] = w[u]
        /\ \A u \in J : v[u] \in Nat
        /\ v[t] = guard'[t].bytes
    BY <1>1
  <2>2. /\ IsFiniteSet(H) /\ t \notin H /\ DOMAIN w = H /\ DOMAIN v = H \cup {t}
        /\ \A u \in H : v[u] = w[u]
        /\ \A u \in H \cup {t} : v[u] \in Nat
    BY <2>1
  <2> HIDE DEF w, v, H, J
  <2>3. SumFunction(v) = v[t] + SumFunction(w)
    BY <2>2, SumJoined
  <2> QED BY <2>1, <2>3 DEF w, v
<1> QED BY <1>2, <1>3, <1>4 DEF VersionsHeld, BytesHeld

\* A publish that gives its reservation back takes it out of the sums, which it
\* is part of.
LEMMA HolderLeaves ==
    ASSUME NEW n, NEW t \in Holders(n), IsFiniteSet(Holders(n)),
           Holders(n)' = Holders(n) \ {t}, \A u \in Holders(n)' : guard'[u] = guard[u],
           \A u \in Holders(n) : guard[u] \in UsageType
    PROVE  /\ IsFiniteSet(Holders(n))'
           /\ VersionsHeld(n) = guard[t].versions + VersionsHeld(n)'
           /\ BytesHeld(n) = guard[t].bytes + BytesHeld(n)'
           /\ VersionsHeld(n)' \in Nat /\ BytesHeld(n)' \in Nat
<1> DEFINE J == Holders(n)
           H == J \ {t}
<1>1. \A u \in J : guard[u].versions \in Nat /\ guard[u].bytes \in Nat
  BY DEF UsageType
<1>2. IsFiniteSet(H) /\ H \cup {t} = J
  BY FS_Subset
<1>3. /\ SumFunction([u \in J |-> guard[u].versions])
           = guard[t].versions + SumFunction([u \in H |-> guard'[u].versions])
      /\ SumFunction([u \in H |-> guard'[u].versions]) \in Nat
  <2> DEFINE w == [u \in H |-> guard'[u].versions]
             v == [u \in J |-> guard[u].versions]
  <2>1. /\ DOMAIN w = H /\ DOMAIN v = J /\ \A u \in H : v[u] = w[u]
        /\ \A u \in H : w[u] \in Nat
        /\ \A u \in J : v[u] \in Nat
        /\ v[t] = guard[t].versions
    BY <1>1
  <2>2. /\ IsFiniteSet(H) /\ t \notin H /\ DOMAIN w = H /\ DOMAIN v = H \cup {t}
        /\ \A u \in H : v[u] = w[u]
        /\ \A u \in H \cup {t} : v[u] \in Nat
    BY <1>2, <2>1
  <2> HIDE DEF w, v, H, J
  <2>3. SumFunction(v) = v[t] + SumFunction(w)
    BY <2>2, SumJoined
  <2>4. SumFunction(w) \in Nat
    BY <1>2, <2>1, SumType DEF SumFunction
  <2> QED BY <2>1, <2>3, <2>4 DEF w, v
<1>4. /\ SumFunction([u \in J |-> guard[u].bytes])
           = guard[t].bytes + SumFunction([u \in H |-> guard'[u].bytes])
      /\ SumFunction([u \in H |-> guard'[u].bytes]) \in Nat
  <2> DEFINE w == [u \in H |-> guard'[u].bytes]
             v == [u \in J |-> guard[u].bytes]
  <2>1. /\ DOMAIN w = H /\ DOMAIN v = J /\ \A u \in H : v[u] = w[u]
        /\ \A u \in H : w[u] \in Nat
        /\ \A u \in J : v[u] \in Nat
        /\ v[t] = guard[t].bytes
    BY <1>1
  <2>2. /\ IsFiniteSet(H) /\ t \notin H /\ DOMAIN w = H /\ DOMAIN v = H \cup {t}
        /\ \A u \in H : v[u] = w[u]
        /\ \A u \in H \cup {t} : v[u] \in Nat
    BY <1>2, <2>1
  <2> HIDE DEF w, v, H, J
  <2>3. SumFunction(v) = v[t] + SumFunction(w)
    BY <2>2, SumJoined
  <2>4. SumFunction(w) \in Nat
    BY <1>2, <2>1, SumType DEF SumFunction
  <2> QED BY <2>1, <2>3, <2>4 DEF w, v
<1> QED BY <1>2, <1>3, <1>4 DEF VersionsHeld, BytesHeld

-----------------------------------------------------------------------------
\* The ledger of a process that has just started.
EmptyLedger ==
    /\ guard = [t \in Tasks |-> NoGuard]
    /\ committed = [n \in Namespaces |-> Nothing]
    /\ reserved = [n \in Namespaces |-> Nothing]

\* An empty ledger balances and is within every ceiling.
LEMMA LedgerEmpty == EmptyLedger => LedgerInv
<1> SUFFICES ASSUME EmptyLedger PROVE LedgerInv
    OBVIOUS
<1> USE DEF EmptyLedger
<1>1. \A n \in Namespaces : Holders(n) = {}
  BY DEF Holders
<1>2. \A n \in Namespaces : VersionsHeld(n) = 0 /\ BytesHeld(n) = 0
  <2>1. ASSUME NEW w, DOMAIN w = {} PROVE SumFunction(w) = 0
    BY <2>1, SumEmpty DEF SumFunction
  <2>2. ASSUME NEW n \in Namespaces PROVE VersionsHeld(n) = 0 /\ BytesHeld(n) = 0
    <3> DEFINE v == [t \in Holders(n) |-> guard[t].versions]
               b == [t \in Holders(n) |-> guard[t].bytes]
    <3>1. DOMAIN v = {} /\ DOMAIN b = {}
      BY <1>1
    <3> HIDE DEF v, b
    <3>2. SumFunction(v) = 0 /\ SumFunction(b) = 0
      BY <3>1, <2>1
    <3> QED BY <3>2 DEF VersionsHeld, BytesHeld, v, b
  <2> QED BY <2>2
<1>3. LedgerBalances
  BY <1>2, Balanced DEF Nothing, Usage
<1>4. GuardsHeld
  BY <1>1, FS_EmptySet DEF GuardsHeld
<1>5. CeilingRespected
  BY LimitsAssumption DEF CeilingRespected, WithinQuota, Within, Plus, Usage, Nothing
<1> QED BY <1>3, <1>4, <1>5 DEF LedgerInv

\* A step that leaves the ledger alone, and the request of whoever holds a
\* reservation.
LEMMA LedgerAlone ==
    ASSUME LedgerInv, UNCHANGED ledgerVars,
           \A t \in Tasks : guard[t] # NoGuard =>
             req'[t] = req[t] /\ pc'[t] \in {"write", "put", "staged", "rollback", "drop"}
    PROVE  LedgerInv'
<1>1. \A n : Holders(n)' = Holders(n)
  BY DEF Holders, QuotaKey, Coord, ledgerVars
<1>2. \A n : VersionsHeld(n)' = VersionsHeld(n) /\ BytesHeld(n)' = BytesHeld(n)
  BY <1>1, HoldersStay DEF ledgerVars
<1>3. LedgerBalances'
  <2>1. \A n \in Namespaces : /\ reserved'[n].versions = VersionsHeld(n)'
                              /\ reserved'[n].bytes = BytesHeld(n)'
    BY <1>2, Balanced DEF LedgerInv, ledgerVars
  <2> QED BY <2>1 DEF LedgerBalances, VersionsHeld, BytesHeld, Holders
<1>4. GuardsHeld'
  BY <1>1 DEF LedgerInv, GuardsHeld, ledgerVars
<1> QED BY <1>3, <1>4 DEF LedgerInv, CeilingRespected, WithinQuota, ledgerVars

\* Reserving adds the same to the ledger and to the sum of the reservations, and
\* only what the ceilings admit.
LEMMA LedgerReserves ==
    ASSUME TypeOK, TypeOK', LedgerInv, NEW t \in Tasks, ReserveQuota(t), guard' # guard
    PROVE  LedgerInv'
<1>0. req[t] \in Requests /\ QuotaKey(t) \in Namespaces /\ Delta(t) \in UsageType
  BY RequestsAssumption, NamespaceAssumption
  DEF ReserveQuota, TypeOK, QuotaKey, Coord, Request, Delta, Usage, UsageType
<1> PICK m \in Namespaces : m = QuotaKey(t)
  BY <1>0
<1> PICK d \in UsageType : d = Delta(t)
  BY <1>0
<1>1. /\ pc[t] = "gates" /\ guard[t] = NoGuard
      /\ pc' = [pc EXCEPT ![t] = "write"] /\ guard' = [guard EXCEPT ![t] = d]
      /\ reserved' = [reserved EXCEPT ![m] = Plus(reserved[m], d)]
      /\ UNCHANGED <<req, committed>> /\ Admitted(t)
  BY DEF ReserveQuota, Goto, TypeOK, LedgerInv, GuardsHeld
<1>2. d # NoGuard
  BY NoGuardAssumption
<1>3. /\ reserved[m] \in UsageType /\ committed[m] \in UsageType
      /\ Plus(reserved[m], d).versions = reserved[m].versions + d.versions
      /\ Plus(reserved[m], d).bytes = reserved[m].bytes + d.bytes
  BY <1>2 DEF TypeOK, Plus, Usage
<1>4. \A u \in Tasks : QuotaKey(u)' = QuotaKey(u)
  BY <1>1 DEF QuotaKey, Coord
<1>5. guard'[t] = d /\ \A u \in Tasks \ {t} : guard'[u] = guard[u]
  BY <1>1 DEF TypeOK
<1>6. Holders(m)' = Holders(m) \cup {t} /\ t \notin Holders(m)
  BY <1>1, <1>2, <1>4, <1>5 DEF Holders
<1>7. \A n : n # m => Holders(n)' = Holders(n)
  BY <1>1, <1>4, <1>5 DEF Holders
<1>8. /\ IsFiniteSet(Holders(m))'
      /\ VersionsHeld(m)' = d.versions + VersionsHeld(m)
      /\ BytesHeld(m)' = d.bytes + BytesHeld(m)
  <2>1. \A u \in Holders(m) : guard'[u] = guard[u]
    BY <1>5, <1>6 DEF Holders
  <2>2. \A u \in Holders(m)' : guard'[u] \in UsageType
    BY DEF TypeOK, Holders
  <2>3. IsFiniteSet(Holders(m))
    BY <1>2 DEF LedgerInv, GuardsHeld
  <2> QED BY <1>5, <1>6, <2>1, <2>2, <2>3, HolderJoins
<1>9. \A n : n # m => VersionsHeld(n)' = VersionsHeld(n) /\ BytesHeld(n)' = BytesHeld(n)
  <2> SUFFICES ASSUME NEW n, n # m PROVE VersionsHeld(n)' = VersionsHeld(n) /\ BytesHeld(n)' = BytesHeld(n)
    OBVIOUS
  <2>1. \A u \in Holders(n) : guard'[u] = guard[u]
    BY <1>1, <1>5 DEF Holders
  <2> QED BY <1>7, <2>1, HoldersStay
<1>10. \A n \in Namespaces : /\ reserved'[n].versions = VersionsHeld(n)'
                             /\ reserved'[n].bytes = BytesHeld(n)'
  <2> SUFFICES ASSUME NEW n \in Namespaces
               PROVE  reserved'[n].versions = VersionsHeld(n)' /\ reserved'[n].bytes = BytesHeld(n)'
    OBVIOUS
  <2>1. reserved[n].versions = VersionsHeld(n) /\ reserved[n].bytes = BytesHeld(n)
    BY Balanced DEF LedgerInv
  <2>2. VersionsHeld(n) \in Nat /\ BytesHeld(n) \in Nat /\ d.versions \in Nat /\ d.bytes \in Nat
    BY HeldType DEF LedgerInv, UsageType
  <2>3. CASE n = m
    BY <1>1, <1>2, <1>3, <1>8, <2>1, <2>2, <2>3 DEF TypeOK
  <2>4. CASE n # m
    BY <1>1, <1>9, <2>1, <2>4 DEF TypeOK
  <2> QED BY <2>3, <2>4
<1>11. LedgerBalances'
  BY <1>10 DEF LedgerBalances, VersionsHeld, BytesHeld, Holders
<1>12. GuardsHeld'
  <2>1. \A n \in Namespaces : IsFiniteSet(Holders(n))'
    BY <1>7, <1>8 DEF LedgerInv, GuardsHeld
  <2>2. \A u \in Tasks : guard'[u] # NoGuard => pc'[u] \in {"write", "put", "staged", "rollback", "drop"}
    BY <1>1, <1>5 DEF TypeOK, LedgerInv, GuardsHeld
  <2> QED BY <2>1, <2>2 DEF GuardsHeld
<1>13. CeilingRespected'
  <2>1. WithinQuota(m, Plus(Plus(committed[m], reserved[m]), d))
    BY <1>1 DEF Admitted
  <2>2. Plus(Plus(committed[m], reserved[m]), d) = Plus(committed[m], Plus(reserved[m], d))
    BY <1>2, <1>3 DEF Plus, Usage, UsageType
  <2>3. \A n \in Namespaces : Plus(committed[n], reserved[n])' =
          IF n = m THEN Plus(committed[m], Plus(reserved[m], d)) ELSE Plus(committed[n], reserved[n])
    BY <1>1 DEF TypeOK, Plus
  <2> QED BY <2>1, <2>2, <2>3 DEF CeilingRespected, LedgerInv, WithinQuota
<1> QED BY <1>11, <1>12, <1>13 DEF LedgerInv

\* Giving a reservation back takes it out of reserved usage in full, because it
\* is part of it; committing it or dropping it never raises the total.
LEMMA LedgerReturns ==
    ASSUME TypeOK, TypeOK', LedgerInv, NEW t \in Tasks, guard[t] # NoGuard,
           req[t] \in Requests, UNCHANGED req,
           guard' = [guard EXCEPT ![t] = NoGuard], pc' = [pc EXCEPT ![t] = "release"],
           reserved' = [reserved EXCEPT ![QuotaKey(t)] = Minus(reserved[QuotaKey(t)], guard[t])],
           \/ UNCHANGED committed
           \/ committed' = [committed EXCEPT ![QuotaKey(t)] = Plus(committed[QuotaKey(t)], guard[t])]
    PROVE  LedgerInv'
<1>0. QuotaKey(t) \in Namespaces /\ guard[t] \in UsageType
  BY RequestsAssumption, NamespaceAssumption DEF TypeOK, QuotaKey, Coord, Request
<1> PICK m \in Namespaces : m = QuotaKey(t)
  BY <1>0
<1> PICK g \in UsageType : g = guard[t]
  BY <1>0
<1>1. m \in Namespaces /\ g \in UsageType
  OBVIOUS
<1>2. \A u \in Tasks : QuotaKey(u)' = QuotaKey(u)
  BY DEF QuotaKey, Coord
<1>3. guard'[t] = NoGuard /\ \A u \in Tasks \ {t} : guard'[u] = guard[u]
  BY DEF TypeOK
<1>4. Holders(m)' = Holders(m) \ {t} /\ t \in Holders(m)
  BY <1>2, <1>3 DEF Holders
<1>5. \A n : n # m => Holders(n)' = Holders(n)
  BY <1>2, <1>3 DEF Holders
<1>6. /\ IsFiniteSet(Holders(m))'
      /\ VersionsHeld(m) = g.versions + VersionsHeld(m)'
      /\ BytesHeld(m) = g.bytes + BytesHeld(m)'
      /\ VersionsHeld(m)' \in Nat /\ BytesHeld(m)' \in Nat
  <2>1. \A u \in Holders(m)' : guard'[u] = guard[u]
    BY <1>3, <1>4 DEF Holders
  <2>2. \A u \in Holders(m) : guard[u] \in UsageType
    BY DEF TypeOK, Holders
  <2>3. IsFiniteSet(Holders(m))
    BY <1>1 DEF LedgerInv, GuardsHeld
  <2> QED BY <1>4, <2>1, <2>2, <2>3, HolderLeaves
<1>7. reserved[m].versions = VersionsHeld(m) /\ reserved[m].bytes = BytesHeld(m)
  BY <1>1, Balanced DEF LedgerInv
<1>8. /\ g.versions \in Nat /\ g.bytes \in Nat
      /\ reserved'[m].versions = VersionsHeld(m)' /\ reserved'[m].bytes = BytesHeld(m)'
      /\ reserved'[m].versions + g.versions = reserved[m].versions
      /\ reserved'[m].bytes + g.bytes = reserved[m].bytes
  <2>1. reserved'[m] = Minus(reserved[m], g)
    BY <1>1 DEF TypeOK
  <2>2. g.versions \in Nat /\ g.bytes \in Nat
    BY <1>1 DEF UsageType
  <2> QED BY <1>6, <1>7, <2>1, <2>2 DEF Minus, Usage
<1>9. \A n \in Namespaces : n # m =>
        /\ VersionsHeld(n)' = VersionsHeld(n) /\ BytesHeld(n)' = BytesHeld(n)
        /\ reserved'[n] = reserved[n] /\ committed'[n] = committed[n]
  <2> SUFFICES ASSUME NEW n \in Namespaces, n # m
               PROVE  /\ VersionsHeld(n)' = VersionsHeld(n) /\ BytesHeld(n)' = BytesHeld(n)
                      /\ reserved'[n] = reserved[n] /\ committed'[n] = committed[n]
    OBVIOUS
  <2>1. \A u \in Holders(n) : guard'[u] = guard[u]
    BY <1>3 DEF Holders
  <2>2. VersionsHeld(n)' = VersionsHeld(n) /\ BytesHeld(n)' = BytesHeld(n)
    BY <1>5, <2>1, HoldersStay
  <2> QED BY <2>2 DEF TypeOK
<1>10. LedgerBalances'
  <2>1. \A n \in Namespaces : /\ reserved'[n].versions = VersionsHeld(n)'
                              /\ reserved'[n].bytes = BytesHeld(n)'
    <3> QED BY <1>8, <1>9, Balanced DEF LedgerInv
  <2> QED BY <2>1 DEF LedgerBalances, VersionsHeld, BytesHeld, Holders
<1>11. GuardsHeld'
  <2>1. \A n \in Namespaces : IsFiniteSet(Holders(n))'
    <3> QED BY <1>5, <1>6 DEF LedgerInv, GuardsHeld
  <2>2. \A u \in Tasks : guard'[u] # NoGuard => pc'[u] \in {"write", "put", "staged", "rollback", "drop"}
    BY <1>3 DEF TypeOK, LedgerInv, GuardsHeld
  <2> QED BY <2>1, <2>2 DEF GuardsHeld
<1>12. CeilingRespected'
  <2> DEFINE old == Plus(committed[m], reserved[m])
             new == Plus(committed'[m], reserved'[m])
  <2>1. /\ old.versions \in Nat /\ old.bytes \in Nat /\ new.versions \in Nat /\ new.bytes \in Nat
        /\ new.versions <= old.versions /\ new.bytes <= old.bytes
    <3>1. /\ committed[m] \in UsageType /\ reserved[m] \in UsageType /\ reserved'[m] \in UsageType
          /\ committed'[m] = committed[m] \/ committed'[m] = Plus(committed[m], g)
      BY <1>1 DEF TypeOK
    <3> QED BY <1>8, <3>1 DEF Plus, Usage, UsageType
  <2>2. WithinQuota(m, old)
    BY <1>1 DEF LedgerInv, CeilingRespected
  <2>3. WithinQuota(m, new)
    <3>1. {MaxVersions[m], MaxBytes[m]} \subseteq Nat \cup {Unlimited}
      BY <1>1, LimitsAssumption
    <3> HIDE DEF old, new
    <3> QED BY <2>1, <2>2, <3>1 DEF WithinQuota, Within
  <2> SUFFICES ASSUME NEW n \in Namespaces PROVE WithinQuota(n, Plus(committed'[n], reserved'[n]))
    BY DEF CeilingRespected, WithinQuota, Plus
  <2>4. CASE n = m
    BY <2>3, <2>4
  <2>5. CASE n # m
    BY <1>9, <2>5 DEF LedgerInv, CeilingRespected
  <2> QED BY <2>4, <2>5
<1> QED BY <1>10, <1>11, <1>12 DEF LedgerInv

\* LedgerInv is inductive: only reserve_quota, reconcile and drop touch the
\* ledger, and a restart empties it.
LEMMA LedgerStep == TypeOK /\ TypeOK' /\ LedgerInv /\ [Next]_vars => LedgerInv'
<1> SUFFICES ASSUME TypeOK, TypeOK', LedgerInv, [Next]_vars PROVE LedgerInv'
    OBVIOUS
<1>1. ASSUME NEW t \in Tasks,
             \/ \E q \in Requests : CloneLock(t, q)
             \/ Lock(t) \/ AbandonWait(t) \/ CheckExists(t) \/ Refuse(t) \/ TrackMetadata(t)
             \/ StageMetadata(t) \/ FailTransaction(t) \/ Rollback(t) \/ ReleaseLock(t) \/ PruneLock(t) \/ Cancel(t)
      PROVE  LedgerInv'
  <2>1. /\ UNCHANGED ledgerVars
        /\ \A u \in Tasks : guard[u] # NoGuard =>
             req'[u] = req[u] /\ pc'[u] \in {"write", "put", "staged", "rollback", "drop"}
    BY <1>1
    DEF TypeOK, LedgerInv, GuardsHeld, Goto, CloneLock, Lock, AbandonWait, CheckExists, Refuse,
        TrackMetadata, StageMetadata, FailTransaction, Rollback, ReleaseLock, PruneLock, Cancel
  <2> QED BY <2>1, LedgerAlone
<1>2. ASSUME NEW t \in Tasks, ReserveQuota(t) PROVE LedgerInv'
  <2>1. CASE guard' # guard
    BY <1>2, <2>1, LedgerReserves
  <2>2. CASE guard' = guard
    <3>1. UNCHANGED ledgerVars /\ guard[t] = NoGuard
      <4>1. guard[t] = NoGuard
        BY <1>2 DEF ReserveQuota, LedgerInv, GuardsHeld
      <4>2. Delta(t) # NoGuard
        BY <1>2, NoGuardAssumption, RequestsAssumption
        DEF ReserveQuota, TypeOK, Delta, Usage, UsageType, Request
      <4> QED BY <1>2, <2>2, <4>1, <4>2 DEF ReserveQuota, TypeOK, ledgerVars
    <3>2. UNCHANGED req /\ \A u \in Tasks \ {t} : pc'[u] = pc[u]
      BY <1>2 DEF ReserveQuota, Goto, TypeOK
    <3> QED BY <3>1, <3>2, LedgerAlone DEF LedgerInv, GuardsHeld
  <2> QED BY <2>1, <2>2
<1>3. ASSUME NEW t \in Tasks, Reconcile(t) \/ DropReservation(t) PROVE LedgerInv'
  <2>1. CASE guard[t] # NoGuard
    <3>1. /\ req[t] \in Requests /\ UNCHANGED req
          /\ guard' = [guard EXCEPT ![t] = NoGuard] /\ pc' = [pc EXCEPT ![t] = "release"]
          /\ reserved' = [reserved EXCEPT ![QuotaKey(t)] = Minus(reserved[QuotaKey(t)], guard[t])]
          /\ \/ UNCHANGED committed
             \/ committed' = [committed EXCEPT ![QuotaKey(t)] = Plus(committed[QuotaKey(t)], guard[t])]
      BY <1>3, <2>1 DEF Reconcile, DropReservation, Goto, TypeOK
    <3> QED BY <2>1, <3>1, LedgerReturns
  <2>2. CASE guard[t] = NoGuard
    <3>1. UNCHANGED ledgerVars /\ UNCHANGED req /\ \A u \in Tasks \ {t} : pc'[u] = pc[u]
      BY <1>3, <2>2 DEF Reconcile, DropReservation, Goto, TypeOK, ledgerVars
    <3> QED BY <2>2, <3>1, LedgerAlone DEF LedgerInv, GuardsHeld
  <2> QED BY <2>1, <2>2
<1>4. ASSUME Restart PROVE LedgerInv'
  <2>1. EmptyLedger'
    BY <1>4 DEF Restart, EmptyLedger
  <2> QED BY <2>1, LedgerEmpty, PTL
<1>5. CASE UNCHANGED vars
  <2>1. UNCHANGED <<ledgerVars, pc, req>>
    BY <1>5 DEF vars
  <2> QED BY <2>1, LedgerAlone DEF LedgerInv, GuardsHeld
<1>6. ASSUME NEW w \in Writers, WriteUnlocked(w) PROVE LedgerInv'
  <2>1. UNCHANGED publishVars
    BY <1>6 DEF WriteUnlocked, StartWrite, TrackWrite, PutWrite, FailPut, UndoWrite, EndWrite
  <2> QED BY <2>1, LedgerAlone DEF publishVars, LedgerInv, GuardsHeld
<1> QED BY <1>1, <1>2, <1>3, <1>4, <1>5, <1>6 DEF Next, Proceed

\* LedgerInv holds of every reachable state.
LEMMA LedgerCorrect == Spec => []LedgerInv
<1>1. Init => LedgerInv
  BY LedgerEmpty DEF Init, EmptyLedger
<1> QED BY <1>1, TypeCorrect, LedgerStep, PTL DEF Spec

\* Whatever becomes of the publishes, the ledger's reservations are those of the
\* publishes in flight, and the lock map keeps no entry nobody uses.
THEOREM Returned == Spec => []GivenBack
<1>1. LedgerInv => LedgerBalances
  BY DEF LedgerInv
<1>2. EntriesPruned /\ LedgerBalances => GivenBack
  BY DEF GivenBack
<1> QED BY <1>1, <1>2, LedgerCorrect, Pruned, PTL

\* Racing publishes never push committed and reserved usage past a ceiling.
THEOREM WithinCeilings == Spec => []CeilingRespected
<1>1. LedgerInv => CeilingRespected
  BY DEF LedgerInv
<1> QED BY <1>1, LedgerCorrect, PTL
=============================================================================
