------------------------- MODULE ContentStoreProofs -------------------------
(***************************************************************************)
(* What TLAPS proves of ContentStore for every set of tasks, coordinates,  *)
(* digests and requests.                                                   *)
(*                                                                         *)
(* TypeOK and PublishInv are inductive as they stand, with any number of   *)
(* sweeps.  SweepInv needs that sweeps do not overlap: only then does a    *)
(* digest on a sweep's list keep the state it was listed in.               *)
(***************************************************************************)
EXTENDS ContentStore, TLAPS

\* Sweeps never overlap: the scheduler runs and nobody calls the admin endpoint.
OneSweeper == \A s, t \in Sweepers : s = t

-----------------------------------------------------------------------------
(* Strengthenings *)

\* The publish lock of a coordinate has one holder.
OneHolder ==
    \A p, o \in Publishers :
        pubComp[p] # None /\ pubComp[p] = pubComp[o] => p = o

\* The artifacts a publish has stored and referenced already.
Stored(p) ==
    pubFiles[p] \ (pubLeft[p] \cup
        (IF pubPc[p] \in {"insert", "put", "check", "reference"} THEN {pubCur[p]} ELSE {}))

\* While its component row stands, so do the references a publish has made.
KeepsReferences ==
    \A p \in Publishers :
        /\ pubPc[p] = "idle" => pubComp[p] = None
        /\ pubPc[p] = "component" => pubLeft[p] = pubFiles[p]
        /\ pubPc[p] = "done" => pubLeft[p] = {}
        /\ pubComp[p] \in components =>
             \A f \in Stored(p) : <<<<pubComp[p], f.path>>, f.digest>> \in refs

PublishInv == ReferentialIntegrity /\ OneHolder /\ KeepsReferences

\* Only a row is stamped with a grace window.
OnlyRowsExpire == \A d \in Digests : expires[d] # NotDeleted => d \in blobs

\* The digests on a sweep's list are still what the listing found.
ListsAreFresh ==
    \A s \in Sweepers :
        /\ gcPc[s] \in {"mark", "soft_delete"} =>
             \A d \in gcTodo[s] : d \in blobs /\ expires[d] = NotDeleted
        /\ gcPc[s] = "soft_delete" =>
             gcCur[s] \in blobs \ gcTodo[s] /\ expires[gcCur[s]] = NotDeleted
        /\ gcPc[s] \in {"delete_bytes", "delete_row"} =>
             \A d \in gcTodo[s] : d \in blobs /\ expires[d] = 0
        /\ gcPc[s] = "delete_row" =>
             gcCur[s] \in blobs \ gcTodo[s] /\ expires[gcCur[s]] = 0

SweepInv == OnlyRowsExpire /\ ListsAreFresh

\* A put is under way only for a row whose grace window has not begun to run out.
PutsAreFresh ==
    \A p \in Publishers :
        pubPc[p] = "put" =>
            pubCur[p].digest \in blobs /\ expires[pubCur[p].digest] \in {NotDeleted, Grace}

\* Between the two deletes of compact() the bytes stay away.
DeletedBytesStayAway ==
    \A s \in Sweepers : gcPc[s] = "delete_row" => gcCur[s] \notin stored

BytesInv == NoOrphanBytes /\ PutsAreFresh /\ DeletedBytesStayAway

-----------------------------------------------------------------------------
(* Typing *)

\* A step of the system is a step of one task, or of the clock.
LEMMA NextCases ==
    ASSUME Next
    PROVE  \/ \E p \in Publishers, q \in Requests : StartPublish(p, q)
           \/ \E p \in Publishers : UpsertComponent(p)
           \/ \E p \in Publishers : \E f \in pubLeft[p] : UpsertAsset(p, f)
           \/ \E p \in Publishers : InsertBlob(p)
           \/ \E p \in Publishers : PutBytes(p)
           \/ \E p \in Publishers : CheckBlob(p)
           \/ \E p \in Publishers : AddReference(p)
           \/ \E p \in Publishers : Acknowledge(p)
           \/ \E p \in Publishers : AbortPublish(p)
           \/ \E s \in Sweepers : ListUnreferenced(s)
           \/ \E s \in Sweepers : \E d \in gcTodo[s] : MarkUnreferenced(s, d)
           \/ \E s \in Sweepers : SoftDelete(s)
           \/ \E s \in Sweepers : ListExpired(s)
           \/ \E s \in Sweepers : \E d \in gcTodo[s] : DeleteBytes(s, d)
           \/ \E s \in Sweepers : DeleteRow(s)
           \/ \E s \in Sweepers : FinishSweep(s)
           \/ \E s \in Sweepers : AbortSweep(s)
           \/ \E r \in Retainers : \E selected \in SUBSET components : ListVersions(r, selected)
           \/ \E r \in Retainers : \E c \in doomed[r] : DeleteComponent(r, c)
           \/ \E r \in Retainers : AbortRetention(r)
           \/ Tick
BY DEF Next, PublishStep, SweepStep, Retention

\* The empty database, with nothing under way, is well typed.
LEMMA TypeInit == Init => TypeOK
BY GraceAssumption, FaultsAssumption DEF Init, TypeOK

\* TypeOK is inductive: every statement of every task keeps the types.
LEMMA TypeStep == TypeOK /\ [Next]_vars => TypeOK'
<1> SUFFICES ASSUME TypeOK, [Next]_vars PROVE TypeOK'
    OBVIOUS
<1> USE GraceAssumption, FaultsAssumption
    DEF Artifact, Request, Asset, TypeOK, blobVars, modelVars, pubVars, gcVars
<1>1. ASSUME NEW p \in Publishers, NEW q \in Requests, StartPublish(p, q) PROVE TypeOK'
  <2>1. q.comp \in Components /\ q.files \subseteq Artifact
    BY RequestsAssumption
  <2> QED BY <1>1, <2>1 DEF StartPublish, TypeOK, PubGoto, blobVars, modelVars, gcVars
<1>2. ASSUME NEW p \in Publishers, UpsertComponent(p) PROVE TypeOK'
    BY <1>2 DEF UpsertComponent, PubGoto
<1>3. ASSUME NEW p \in Publishers, NEW f \in pubLeft[p], UpsertAsset(p, f) PROVE TypeOK'
  <2>1. f \in Artifact /\ pubPc[p] = "asset"
    BY <1>3 DEF UpsertAsset
  <2>2. CASE PubReturn(p) /\ UNCHANGED assets
    BY <1>3, <2>2 DEF UpsertAsset, PubReturn, PubGoto
  <2>3. CASE /\ pubComp[p] \in components
             /\ assets' = assets \cup {<<pubComp[p], f.path>>}
             /\ pubLeft' = [pubLeft EXCEPT ![p] = @ \ {f}]
             /\ pubCur' = [pubCur EXCEPT ![p] = f]
             /\ PubGoto(p, "insert")
             /\ UNCHANGED <<pubComp, pubFiles>>
    <3>1. assets' \subseteq Asset
      BY <2>1, <2>3
    <3>2. /\ pubPc' \in [Publishers -> {"idle", "component", "asset", "insert", "put", "check", "reference", "done"}]
          /\ pubLeft' \in [Publishers -> SUBSET Artifact]
          /\ pubCur' \in [Publishers -> Artifact \cup {None}]
      BY <2>1, <2>3 DEF PubGoto
    <3>3. \A o \in Publishers :
            pubPc'[o] \in {"insert", "put", "check", "reference", "done"} => pubCur'[o] \in Artifact
      BY <2>1, <2>3 DEF PubGoto
    <3> QED
      BY <1>3, <2>3, <3>1, <3>2, <3>3 DEF UpsertAsset, PubGoto
  <2> QED
    BY <1>3, <2>2, <2>3 DEF UpsertAsset
<1>4. ASSUME NEW p \in Publishers, InsertBlob(p) PROVE TypeOK'
    BY <1>4 DEF InsertBlob, PubGoto
<1>5. ASSUME NEW p \in Publishers, PutBytes(p) PROVE TypeOK'
    BY <1>5 DEF PutBytes, PubGoto
<1>6. ASSUME NEW p \in Publishers, CheckBlob(p) PROVE TypeOK'
  <2>1. CASE PubReturn(p)
    BY <1>6, <2>1 DEF CheckBlob, PubGoto, PubReturn
  <2>2. CASE PubGoto(p, "reference") /\ UNCHANGED <<pubComp, pubFiles, pubLeft, pubCur>>
    BY <1>6, <2>2 DEF CheckBlob, PubGoto
  <2> QED
    BY <1>6, <2>1, <2>2 DEF CheckBlob
<1>7. ASSUME NEW p \in Publishers, AddReference(p) PROVE TypeOK'
  <2>1. CASE PubReturn(p) /\ UNCHANGED refs
    BY <1>7, <2>1 DEF AddReference, PubGoto, PubReturn
  <2>2. CASE /\ <<pubComp[p], pubCur[p].path>> \in assets
             /\ refs' = refs \cup {<<<<pubComp[p], pubCur[p].path>>, pubCur[p].digest>>}
             /\ UNCHANGED <<pubComp, pubFiles, pubLeft, pubCur>>
             /\ PubGoto(p, "asset") \/ PubGoto(p, "done")
    <3>1. refs' \subseteq Asset \X Digests
      BY <1>7, <2>2 DEF AddReference
    <3> QED
      BY <1>7, <2>2, <3>1 DEF AddReference, PubGoto
  <2> QED
    BY <1>7, <2>1, <2>2 DEF AddReference
<1>8. ASSUME NEW p \in Publishers, Acknowledge(p) PROVE TypeOK'
    BY <1>8 DEF Acknowledge, PubGoto, PubReturn
<1>9. ASSUME NEW p \in Publishers, AbortPublish(p) PROVE TypeOK'
    BY <1>9 DEF AbortPublish, PubGoto, PubReturn
<1>10. ASSUME NEW s \in Sweepers, ListUnreferenced(s) PROVE TypeOK'
    BY <1>10 DEF ListUnreferenced, GcGoto, Unreferenced
<1>11. ASSUME NEW s \in Sweepers, NEW d \in gcTodo[s], MarkUnreferenced(s, d) PROVE TypeOK'
    BY <1>11 DEF MarkUnreferenced, GcGoto
<1>12. ASSUME NEW s \in Sweepers, SoftDelete(s) PROVE TypeOK'
    BY <1>12 DEF SoftDelete, GcGoto
<1>13. ASSUME NEW s \in Sweepers, ListExpired(s) PROVE TypeOK'
    BY <1>13 DEF ListExpired, GcGoto, Expired
<1>14. ASSUME NEW s \in Sweepers, NEW d \in gcTodo[s], DeleteBytes(s, d) PROVE TypeOK'
    BY <1>14 DEF DeleteBytes, GcGoto
<1>15. ASSUME NEW s \in Sweepers, DeleteRow(s) PROVE TypeOK'
  <2>1. CASE GcReturn(s) /\ UNCHANGED <<blobs, marked, expires>>
    BY <1>15, <2>1 DEF DeleteRow, GcGoto, GcReturn
  <2>2. CASE /\ blobs' = blobs \ {gcCur[s]} /\ marked' = marked \ {gcCur[s]}
             /\ expires' = [expires EXCEPT ![gcCur[s]] = NotDeleted]
             /\ gcCur' = [gcCur EXCEPT ![s] = None]
             /\ GcGoto(s, "delete_bytes")
             /\ UNCHANGED gcTodo
    BY <1>15, <2>2 DEF DeleteRow, GcGoto
  <2> QED
    BY <1>15, <2>1, <2>2 DEF DeleteRow
<1>16. ASSUME NEW s \in Sweepers, FinishSweep(s) PROVE TypeOK'
    BY <1>16 DEF FinishSweep, GcGoto, GcReturn
<1>17. ASSUME NEW s \in Sweepers, AbortSweep(s) PROVE TypeOK'
    BY <1>17 DEF AbortSweep, GcGoto, GcReturn
<1>18. ASSUME NEW r \in Retainers, NEW selected \in SUBSET components, ListVersions(r, selected)
      PROVE  TypeOK'
    BY <1>18 DEF ListVersions
<1>19. ASSUME NEW r \in Retainers, NEW c \in doomed[r], DeleteComponent(r, c) PROVE TypeOK'
    BY <1>19 DEF DeleteComponent
<1>20. ASSUME NEW r \in Retainers, AbortRetention(r) PROVE TypeOK'
    BY <1>20 DEF AbortRetention
<1>21. ASSUME Tick PROVE TypeOK'
    BY <1>21 DEF Tick
<1>22. CASE UNCHANGED vars
    BY <1>22 DEF vars
<1> QED BY NextCases, <1>1, <1>2, <1>3, <1>4, <1>5, <1>6, <1>7, <1>8, <1>9, <1>10, <1>11,
           <1>12, <1>13, <1>14, <1>15, <1>16, <1>17, <1>18, <1>19, <1>20, <1>21, <1>22

\* Every variable keeps its type.
THEOREM TypeCorrect == Spec => []TypeOK
BY TypeInit, TypeStep, PTL DEF Spec

-----------------------------------------------------------------------------
(* Publishes and their references *)

\* A pair of a product has its components where they belong.
LEMMA PairInProduct ==
    ASSUME NEW S, NEW T, NEW x \in S \X T
    PROVE  x[1] \in S /\ x[2] \in T /\ x = <<x[1], x[2]>>
OBVIOUS

\* A row of asset_blobs is the reference of its asset to its blob.
LEMMA ReferencesOfBlob ==
    ASSUME TypeOK, NEW d, ~Referenced(d)
    PROVE  \A ref \in refs : ref[2] # d
<1> SUFFICES ASSUME NEW ref \in refs PROVE ref[2] # d
    OBVIOUS
<1>1. ref[1] \in Asset /\ ref = <<ref[1], ref[2]>>
  BY PairInProduct DEF TypeOK
<1> QED BY <1>1 DEF Referenced

\* PublishInv holds of the empty database.
LEMMA PublishInit == Init => PublishInv
BY NoneAssumption DEF Init, PublishInv, ReferentialIntegrity, OneHolder, KeepsReferences, Stored

\* PublishInv is inductive: the foreign keys, the publish lock and the references
\* a publish has made survive every step, retention and compaction included.
LEMMA PublishStepInv == TypeOK /\ PublishInv /\ [Next]_vars => PublishInv'
<1> SUFFICES ASSUME TypeOK, PublishInv, [Next]_vars PROVE PublishInv'
    OBVIOUS
<1> USE NoneAssumption, RequestsAssumption
    DEF Artifact, Request, Asset, TypeOK, PublishInv, ReferentialIntegrity, OneHolder,
        KeepsReferences, Stored, blobVars, modelVars, pubVars, gcVars
<1>1. ASSUME NEW p \in Publishers, NEW q \in Requests, StartPublish(p, q) PROVE PublishInv'
    BY <1>1 DEF StartPublish, PubGoto
<1>2. ASSUME NEW p \in Publishers, UpsertComponent(p) PROVE PublishInv'
    BY <1>2 DEF UpsertComponent, PubGoto
<1>3. ASSUME NEW p \in Publishers, NEW f \in pubLeft[p], UpsertAsset(p, f) PROVE PublishInv'
    BY <1>3 DEF UpsertAsset, PubGoto, PubReturn
<1>4. ASSUME NEW p \in Publishers, InsertBlob(p) PROVE PublishInv'
    BY <1>4 DEF InsertBlob, PubGoto
<1>5. ASSUME NEW p \in Publishers, PutBytes(p) PROVE PublishInv'
    BY <1>5 DEF PutBytes, PubGoto
<1>6. ASSUME NEW p \in Publishers, CheckBlob(p) PROVE PublishInv'
    BY <1>6 DEF CheckBlob, PubGoto, PubReturn
<1>7. ASSUME NEW p \in Publishers, AddReference(p) PROVE PublishInv'
  <2> DEFINE d == pubCur[p].digest
             a == <<pubComp[p], pubCur[p].path>>
  <2>1. CASE a \in assets /\ d \in blobs /\ refs' = refs \cup {<<a, d>>}
    <3>1. ReferentialIntegrity'
      BY <1>7, <2>1 DEF AddReference
    <3>2. CASE pubLeft[p] # {} /\ PubGoto(p, "asset") 
                /\ UNCHANGED <<pubComp, pubFiles, pubLeft, pubCur>>
      <4>1. OneHolder'
        BY <3>2
      <4>2. ASSUME NEW o \in Publishers, pubComp[o] \in components, NEW f \in Stored(o)'
            PROVE  <<<<pubComp[o], f.path>>, f.digest>> \in refs'
        BY <1>7, <2>1, <3>2, <4>2 DEF AddReference, PubGoto
      <4>3. KeepsReferences'
        BY <1>7, <3>2, <4>2 DEF AddReference, PubGoto
      <4> QED BY <3>1, <4>1, <4>3
    <3>3. CASE pubLeft[p] = {} /\ PubGoto(p, "done") 
                /\ UNCHANGED <<pubComp, pubFiles, pubLeft, pubCur>>
      <4>1. OneHolder'
        BY <3>3
      <4>2. ASSUME NEW o \in Publishers, pubComp[o] \in components, NEW f \in Stored(o)'
            PROVE  <<<<pubComp[o], f.path>>, f.digest>> \in refs'
        BY <1>7, <2>1, <3>3, <4>2 DEF AddReference, PubGoto
      <4>3. KeepsReferences'
        BY <1>7, <3>3, <4>2 DEF AddReference, PubGoto
      <4> QED BY <3>1, <4>1, <4>3
    <3> QED BY <1>7, <2>1, <3>2, <3>3 DEF AddReference
  <2>2. CASE PubReturn(p) /\ UNCHANGED refs
    BY <1>7, <2>2 DEF AddReference, PubGoto, PubReturn
  <2> QED BY <1>7, <2>1, <2>2 DEF AddReference
<1>8. ASSUME NEW p \in Publishers, Acknowledge(p) PROVE PublishInv'
    BY <1>8 DEF Acknowledge, PubGoto, PubReturn
<1>9. ASSUME NEW p \in Publishers, AbortPublish(p) PROVE PublishInv'
    BY <1>9 DEF AbortPublish, PubGoto, PubReturn
<1>10. ASSUME NEW s \in Sweepers, ListUnreferenced(s) PROVE PublishInv'
    BY <1>10 DEF ListUnreferenced
<1>11. ASSUME NEW s \in Sweepers, NEW d \in gcTodo[s], MarkUnreferenced(s, d) PROVE PublishInv'
    BY <1>11 DEF MarkUnreferenced
<1>12. ASSUME NEW s \in Sweepers, SoftDelete(s) PROVE PublishInv'
    BY <1>12 DEF SoftDelete
<1>13. ASSUME NEW s \in Sweepers, ListExpired(s) PROVE PublishInv'
    BY <1>13 DEF ListExpired
<1>14. ASSUME NEW s \in Sweepers, NEW d \in gcTodo[s], DeleteBytes(s, d) PROVE PublishInv'
    BY <1>14 DEF DeleteBytes
<1>15. ASSUME NEW s \in Sweepers, DeleteRow(s) PROVE PublishInv'
  <2>1. CASE UNCHANGED blobs
    BY <1>15, <2>1 DEF DeleteRow
  <2>2. CASE ~Referenced(gcCur[s]) /\ blobs' = blobs \ {gcCur[s]}
    <3>1. \A ref \in refs : ref[2] # gcCur[s]
      BY <2>2, ReferencesOfBlob
    <3> QED BY <1>15, <2>2, <3>1 DEF DeleteRow
  <2> QED BY <1>15, <2>1, <2>2 DEF DeleteRow
<1>16. ASSUME NEW s \in Sweepers, FinishSweep(s) PROVE PublishInv'
    BY <1>16 DEF FinishSweep
<1>17. ASSUME NEW s \in Sweepers, AbortSweep(s) PROVE PublishInv'
    BY <1>17 DEF AbortSweep
<1>18. ASSUME NEW r \in Retainers, NEW selected \in SUBSET components, ListVersions(r, selected)
      PROVE  PublishInv'
    BY <1>18 DEF ListVersions
<1>19. ASSUME NEW r \in Retainers, NEW c \in doomed[r], DeleteComponent(r, c) PROVE PublishInv'
    BY <1>19 DEF DeleteComponent
<1>20. ASSUME NEW r \in Retainers, AbortRetention(r) PROVE PublishInv'
    BY <1>20 DEF AbortRetention
<1>21. ASSUME Tick PROVE PublishInv'
    BY <1>21 DEF Tick
<1>22. CASE UNCHANGED vars
    BY <1>22 DEF vars
<1> QED BY NextCases, <1>1, <1>2, <1>3, <1>4, <1>5, <1>6, <1>7, <1>8, <1>9, <1>10, <1>11,
           <1>12, <1>13, <1>14, <1>15, <1>16, <1>17, <1>18, <1>19, <1>20, <1>21, <1>22

\* The foreign keys of the schema hold in every reachable state.
THEOREM Integrity == Spec => []ReferentialIntegrity
<1>1. PublishInv => ReferentialIntegrity
  BY DEF PublishInv
<1> QED BY <1>1, PublishInit, PublishStepInv, TypeCorrect, PTL DEF Spec

\* A publish answers with success only when every artifact of it is referenced.
THEOREM Acknowledged == Spec => []AcknowledgedIsReferenced
<1>1. TypeOK /\ PublishInv => AcknowledgedIsReferenced
  BY DEF TypeOK, PublishInv, KeepsReferences, Stored, AcknowledgedIsReferenced
<1> QED BY <1>1, PublishInit, PublishStepInv, TypeCorrect, PTL DEF Spec

-----------------------------------------------------------------------------
(* One sweep at a time *)

\* SweepInv holds while nothing is soft-deleted.
LEMMA SweepInit == Init => SweepInv
BY DEF Init, SweepInv, OnlyRowsExpire, ListsAreFresh

\* With one sweep at a time what a sweep listed is still so when it acts on it.
LEMMA SweepStepInv ==
    ASSUME OneSweeper
    PROVE  TypeOK /\ SweepInv /\ [Next]_vars => SweepInv'
<1> SUFFICES ASSUME TypeOK, SweepInv, [Next]_vars PROVE SweepInv'
    OBVIOUS
<1> USE GraceAssumption, NotDeletedAssumption
    DEF TypeOK, SweepInv, OnlyRowsExpire, ListsAreFresh, OneSweeper,
        blobVars, modelVars, pubVars, gcVars
<1>1. ASSUME NEW p \in Publishers, NEW q \in Requests, StartPublish(p, q) PROVE SweepInv'
    BY <1>1 DEF StartPublish, PubGoto
<1>2. ASSUME NEW p \in Publishers, UpsertComponent(p) PROVE SweepInv'
    BY <1>2 DEF UpsertComponent, PubGoto
<1>3. ASSUME NEW p \in Publishers, NEW f \in pubLeft[p], UpsertAsset(p, f) PROVE SweepInv'
    BY <1>3 DEF UpsertAsset, PubGoto, PubReturn
<1>4. ASSUME NEW p \in Publishers, InsertBlob(p) PROVE SweepInv'
    BY <1>4 DEF InsertBlob, PubGoto
<1>5. ASSUME NEW p \in Publishers, PutBytes(p) PROVE SweepInv'
    BY <1>5 DEF PutBytes, PubGoto
<1>6. ASSUME NEW p \in Publishers, CheckBlob(p) PROVE SweepInv'
    BY <1>6 DEF CheckBlob, PubGoto, PubReturn
<1>7. ASSUME NEW p \in Publishers, AddReference(p) PROVE SweepInv'
    BY <1>7 DEF AddReference, PubGoto, PubReturn
<1>8. ASSUME NEW p \in Publishers, Acknowledge(p) PROVE SweepInv'
    BY <1>8 DEF Acknowledge, PubGoto, PubReturn
<1>9. ASSUME NEW p \in Publishers, AbortPublish(p) PROVE SweepInv'
    BY <1>9 DEF AbortPublish, PubGoto, PubReturn
<1>10. ASSUME NEW s \in Sweepers, ListUnreferenced(s) PROVE SweepInv'
    BY <1>10 DEF ListUnreferenced, GcGoto, Unreferenced
<1>11. ASSUME NEW s \in Sweepers, NEW d \in gcTodo[s], MarkUnreferenced(s, d) PROVE SweepInv'
    BY <1>11 DEF MarkUnreferenced, GcGoto
<1>12. ASSUME NEW s \in Sweepers, SoftDelete(s) PROVE SweepInv'
    BY <1>12 DEF SoftDelete, GcGoto
<1>13. ASSUME NEW s \in Sweepers, ListExpired(s) PROVE SweepInv'
    BY <1>13 DEF ListExpired, GcGoto, Expired
<1>14. ASSUME NEW s \in Sweepers, NEW d \in gcTodo[s], DeleteBytes(s, d) PROVE SweepInv'
    BY <1>14 DEF DeleteBytes, GcGoto
<1>15. ASSUME NEW s \in Sweepers, DeleteRow(s) PROVE SweepInv'
    BY <1>15 DEF DeleteRow, GcGoto, GcReturn
<1>16. ASSUME NEW s \in Sweepers, FinishSweep(s) PROVE SweepInv'
    BY <1>16 DEF FinishSweep, GcGoto, GcReturn
<1>17. ASSUME NEW s \in Sweepers, AbortSweep(s) PROVE SweepInv'
    BY <1>17 DEF AbortSweep, GcGoto, GcReturn
<1>18. ASSUME NEW r \in Retainers, NEW selected \in SUBSET components, ListVersions(r, selected)
      PROVE  SweepInv'
    BY <1>18 DEF ListVersions
<1>19. ASSUME NEW r \in Retainers, NEW c \in doomed[r], DeleteComponent(r, c) PROVE SweepInv'
    BY <1>19 DEF DeleteComponent
<1>20. ASSUME NEW r \in Retainers, AbortRetention(r) PROVE SweepInv'
    BY <1>20 DEF AbortRetention
<1>21. ASSUME Tick PROVE SweepInv'
    BY <1>21 DEF Tick
<1>22. CASE UNCHANGED vars
    BY <1>22 DEF vars
<1> QED BY NextCases, <1>1, <1>2, <1>3, <1>4, <1>5, <1>6, <1>7, <1>8, <1>9, <1>10, <1>11,
           <1>12, <1>13, <1>14, <1>15, <1>16, <1>17, <1>18, <1>19, <1>20, <1>21, <1>22

\* Without overlapping sweeps, compact() takes the bytes of soft-deleted blobs
\* whose grace window has run out, and of no others.
THEOREM GraceRespected ==
    ASSUME OneSweeper
    PROVE  Spec => BytesOutliveGrace
<1>1. ASSUME TypeOK, SweepInv, [Next]_vars
      PROVE  [stored \ stored' \subseteq Expired]_vars
  <2>1. CASE \E s \in Sweepers : \E d \in gcTodo[s] : DeleteBytes(s, d)
    BY <1>1, <2>1 DEF DeleteBytes, Expired, SweepInv, ListsAreFresh
  <2>2. CASE ~ \E s \in Sweepers : \E d \in gcTodo[s] : DeleteBytes(s, d)
    <3>1. stored \subseteq stored' \/ UNCHANGED vars
      BY <1>1, <2>2, NextCases
      DEF StartPublish, UpsertComponent, UpsertAsset, InsertBlob, PutBytes, CheckBlob, AddReference,
          Acknowledge, AbortPublish, ListUnreferenced, MarkUnreferenced, SoftDelete, ListExpired,
          DeleteRow, FinishSweep, AbortSweep, ListVersions, DeleteComponent, AbortRetention, Tick,
          blobVars
    <3> QED BY <3>1
  <2> QED BY <2>1, <2>2
<1> QED BY <1>1, SweepInit, SweepStepInv, TypeCorrect, PTL DEF Spec, BytesOutliveGrace

-----------------------------------------------------------------------------
(* Bytes and rows *)

\* BytesInv holds of empty tables and empty storage.
LEMMA BytesInit == Init => BytesInv
BY DEF Init, BytesInv, NoOrphanBytes, PutsAreFresh, DeletedBytesStayAway

\* With one sweep at a time, and puts that end before the grace window does, bytes
\* and rows stay in step.
LEMMA BytesStepInv ==
    ASSUME OneSweeper, ~SlowPuts, Grace > 0
    PROVE  TypeOK /\ SweepInv /\ BytesInv /\ [Next]_vars => BytesInv'
<1> SUFFICES ASSUME TypeOK, SweepInv, BytesInv, [Next]_vars PROVE BytesInv'
    OBVIOUS
<1> USE GraceAssumption, NotDeletedAssumption
    DEF TypeOK, SweepInv, OnlyRowsExpire, ListsAreFresh, BytesInv, NoOrphanBytes, PutsAreFresh,
        DeletedBytesStayAway, OneSweeper, blobVars, modelVars, pubVars, gcVars
<1>1. ASSUME NEW p \in Publishers, NEW q \in Requests, StartPublish(p, q) PROVE BytesInv'
    BY <1>1 DEF StartPublish, PubGoto
<1>2. ASSUME NEW p \in Publishers, UpsertComponent(p) PROVE BytesInv'
    BY <1>2 DEF UpsertComponent, PubGoto
<1>3. ASSUME NEW p \in Publishers, NEW f \in pubLeft[p], UpsertAsset(p, f) PROVE BytesInv'
    BY <1>3 DEF UpsertAsset, PubGoto, PubReturn
<1>4. ASSUME NEW p \in Publishers, InsertBlob(p) PROVE BytesInv'
  <2> DEFINE d == pubCur[p].digest
  <2>1. CASE d \notin blobs /\ blobs' = blobs \cup {d} /\ PubGoto(p, "put")
    <3>1. d \in Digests /\ expires[d] = NotDeleted
      BY <1>4, <2>1 DEF InsertBlob, Artifact
    <3>2. PutsAreFresh'
      BY <1>4, <2>1, <3>1 DEF InsertBlob, PubGoto
    <3> QED BY <1>4, <2>1, <3>2 DEF InsertBlob
  <2>2. CASE d \in blobs /\ PubGoto(p, "check") /\ UNCHANGED blobs
    BY <1>4, <2>2 DEF InsertBlob, PubGoto
  <2> QED BY <1>4, <2>1, <2>2 DEF InsertBlob
<1>5. ASSUME NEW p \in Publishers, PutBytes(p) PROVE BytesInv'
    BY <1>5 DEF PutBytes, PubGoto
<1>6. ASSUME NEW p \in Publishers, CheckBlob(p) PROVE BytesInv'
    BY <1>6 DEF CheckBlob, PubGoto, PubReturn
<1>7. ASSUME NEW p \in Publishers, AddReference(p) PROVE BytesInv'
    BY <1>7 DEF AddReference, PubGoto, PubReturn
<1>8. ASSUME NEW p \in Publishers, Acknowledge(p) PROVE BytesInv'
    BY <1>8 DEF Acknowledge, PubGoto, PubReturn
<1>9. ASSUME NEW p \in Publishers, AbortPublish(p) PROVE BytesInv'
    BY <1>9 DEF AbortPublish, PubGoto, PubReturn
<1>10. ASSUME NEW s \in Sweepers, ListUnreferenced(s) PROVE BytesInv'
    BY <1>10 DEF ListUnreferenced, GcGoto, Unreferenced
<1>11. ASSUME NEW s \in Sweepers, NEW d \in gcTodo[s], MarkUnreferenced(s, d) PROVE BytesInv'
    BY <1>11 DEF MarkUnreferenced, GcGoto
<1>12. ASSUME NEW s \in Sweepers, SoftDelete(s) PROVE BytesInv'
    BY <1>12 DEF SoftDelete, GcGoto
<1>13. ASSUME NEW s \in Sweepers, ListExpired(s) PROVE BytesInv'
    BY <1>13 DEF ListExpired, GcGoto, Expired
<1>14. ASSUME NEW s \in Sweepers, NEW d \in gcTodo[s], DeleteBytes(s, d) PROVE BytesInv'
    BY <1>14 DEF DeleteBytes, GcGoto
<1>15. ASSUME NEW s \in Sweepers, DeleteRow(s) PROVE BytesInv'
    BY <1>15 DEF DeleteRow, GcGoto, GcReturn
<1>16. ASSUME NEW s \in Sweepers, FinishSweep(s) PROVE BytesInv'
    BY <1>16 DEF FinishSweep, GcGoto, GcReturn
<1>17. ASSUME NEW s \in Sweepers, AbortSweep(s) PROVE BytesInv'
    BY <1>17 DEF AbortSweep, GcGoto, GcReturn
<1>18. ASSUME NEW r \in Retainers, NEW selected \in SUBSET components, ListVersions(r, selected)
      PROVE  BytesInv'
    BY <1>18 DEF ListVersions
<1>19. ASSUME NEW r \in Retainers, NEW c \in doomed[r], DeleteComponent(r, c) PROVE BytesInv'
    BY <1>19 DEF DeleteComponent
<1>20. ASSUME NEW r \in Retainers, AbortRetention(r) PROVE BytesInv'
    BY <1>20 DEF AbortRetention
<1>21. ASSUME Tick PROVE BytesInv'
    BY <1>21 DEF Tick
<1>22. CASE UNCHANGED vars
    BY <1>22 DEF vars
<1> QED BY NextCases, <1>1, <1>2, <1>3, <1>4, <1>5, <1>6, <1>7, <1>8, <1>9, <1>10, <1>11,
           <1>12, <1>13, <1>14, <1>15, <1>16, <1>17, <1>18, <1>19, <1>20, <1>21, <1>22

\* Without overlapping sweeps, and with puts shorter than the grace window, bytes
\* in storage always have their blob row.
THEOREM NoOrphans ==
    ASSUME OneSweeper, ~SlowPuts, Grace > 0
    PROVE  Spec => []NoOrphanBytes
<1>1. BytesInv => NoOrphanBytes
  BY DEF BytesInv
<1> QED BY <1>1, SweepInit, SweepStepInv, BytesInit, BytesStepInv, TypeCorrect, PTL DEF Spec

-----------------------------------------------------------------------------
(* Refinement *)

\* A stage of one blob is a step of the abstract life cycle.
LEMMA BlobStep ==
    ASSUME NEW d \in Digests,
           \/ Lifecycle!Insert(d) \/ Lifecycle!Write(d) \/ Lifecycle!SoftDelete(d)
           \/ Lifecycle!Purge(d) \/ Lifecycle!Remove(d)
    PROVE  Lifecycle!Next
BY DEF Lifecycle!Next

\* A step that leaves rows, clocks and bytes alone is a stutter of the life cycle.
LEMMA BlobPhaseStutter ==
    ASSUME UNCHANGED <<blobs, expires, stored>>
    PROVE  UNCHANGED Lifecycle!vars
BY DEF BlobPhase, Lifecycle!vars

\* Every step takes the blobs one stage round the cycle, or leaves them alone.
LEMMA LifecycleStep ==
    ASSUME OneSweeper, ~SlowPuts, Grace > 0,
           TypeOK, SweepInv, BytesInv, [Next]_vars
    PROVE  [Lifecycle!Next]_(Lifecycle!vars)
<1> USE GraceAssumption, NotDeletedAssumption DEF TypeOK, SweepInv, BytesInv, blobVars
<1>1. ASSUME NEW p \in Publishers, InsertBlob(p), UNCHANGED blobs
      PROVE  UNCHANGED <<blobs, expires, stored>>
  BY <1>1 DEF InsertBlob
<1>2. ASSUME NEW p \in Publishers, InsertBlob(p), blobs' # blobs PROVE Lifecycle!Next
  <2> DEFINE d == pubCur[p].digest
  <2>1. d \in Digests /\ d \notin blobs /\ expires[d] = NotDeleted /\ d \notin stored
    BY <1>2 DEF InsertBlob, Artifact, OnlyRowsExpire, NoOrphanBytes
  <2>2. BlobPhase[d] = "absent" /\ BlobPhase' = [BlobPhase EXCEPT ![d] = "live"]
    BY <1>2, <2>1 DEF InsertBlob, BlobPhase
  <2>3. Lifecycle!Insert(d)
    BY <1>2, <2>1, <2>2 DEF InsertBlob, Lifecycle!Insert, Lifecycle!Move
  <2> QED BY <2>1, <2>3, BlobStep
<1>3. ASSUME NEW p \in Publishers, PutBytes(p) PROVE Lifecycle!Next
  <2> DEFINE d == pubCur[p].digest
  <2>1. d \in Digests /\ BlobPhase[d] \in {"live", "grace"}
    BY <1>3 DEF PutBytes, Artifact, PutsAreFresh, BlobPhase
  <2>2. UNCHANGED BlobPhase
    BY <1>3 DEF PutBytes, BlobPhase
  <2>3. Lifecycle!Write(d)
    BY <1>3, <2>1, <2>2 DEF PutBytes, Lifecycle!Write
  <2> QED BY <2>1, <2>3, BlobStep
<1>4. ASSUME NEW s \in Sweepers, SoftDelete(s) PROVE Lifecycle!Next
  <2> DEFINE d == gcCur[s]
  <2>1. d \in Digests /\ d \in blobs /\ expires[d] = NotDeleted
    BY <1>4 DEF SoftDelete, ListsAreFresh
  <2>2. expires' = [expires EXCEPT ![d] = Grace] /\ UNCHANGED <<blobs, stored>>
    BY <1>4, <2>1 DEF SoftDelete
  <2>3. BlobPhase[d] = "live"
    BY <2>1 DEF BlobPhase
  <2>4. BlobPhase' = [BlobPhase EXCEPT ![d] = "grace"]
    <3> HIDE DEF d
    <3>1. \A x \in Digests : expires'[x] = IF x = d THEN Grace ELSE expires[x]
      BY <2>1, <2>2
    <3>2. BlobPhase' = [x \in Digests |-> IF x = d THEN "grace" ELSE BlobPhase[x]]
      BY <2>1, <2>2, <3>1 DEF BlobPhase
    <3> QED BY <3>2 DEF BlobPhase
  <2>5. Lifecycle!SoftDelete(d)
    BY <2>2, <2>3, <2>4 DEF Lifecycle!SoftDelete, Lifecycle!Move
  <2> QED BY <2>1, <2>5, BlobStep
<1>5. ASSUME NEW s \in Sweepers, NEW d \in gcTodo[s], DeleteBytes(s, d) PROVE Lifecycle!Next
  <2>1. d \in Digests /\ BlobPhase[d] = "expired"
    BY <1>5 DEF DeleteBytes, ListsAreFresh, BlobPhase
  <2>2. UNCHANGED BlobPhase
    BY <1>5 DEF DeleteBytes, BlobPhase
  <2>3. Lifecycle!Purge(d)
    BY <1>5, <2>1, <2>2 DEF DeleteBytes, Lifecycle!Purge
  <2> QED BY <2>1, <2>3, BlobStep
<1>6. ASSUME NEW s \in Sweepers, DeleteRow(s), Referenced(gcCur[s])
      PROVE  UNCHANGED <<blobs, expires, stored>>
  BY <1>6 DEF DeleteRow
<1>7. ASSUME NEW s \in Sweepers, DeleteRow(s), ~Referenced(gcCur[s]) PROVE Lifecycle!Next
  <2> DEFINE d == gcCur[s]
  <2>1. d \in Digests /\ d \in blobs /\ expires[d] = 0 /\ d \notin stored
    BY <1>7 DEF DeleteRow, ListsAreFresh, DeletedBytesStayAway
  <2>2. /\ blobs' = blobs \ {d}
        /\ expires' = [expires EXCEPT ![d] = NotDeleted]
        /\ UNCHANGED stored
    BY <1>7 DEF DeleteRow
  <2>3. BlobPhase[d] = "expired"
    BY <2>1 DEF BlobPhase
  <2>4. BlobPhase' = [BlobPhase EXCEPT ![d] = "absent"]
    <3> HIDE DEF d
    <3>1. \A x \in Digests : expires'[x] = IF x = d THEN NotDeleted ELSE expires[x]
      BY <2>1, <2>2
    <3>2. BlobPhase' = [x \in Digests |-> IF x = d THEN "absent" ELSE BlobPhase[x]]
      BY <2>1, <2>2, <3>1 DEF BlobPhase
    <3> QED BY <3>2 DEF BlobPhase
  <2>5. Lifecycle!Remove(d)
    BY <2>1, <2>2, <2>3, <2>4 DEF Lifecycle!Remove, Lifecycle!Move
  <2> QED BY <2>1, <2>5, BlobStep
<1>8. ASSUME Tick PROVE Lifecycle!Next
  <2> DEFINE D == {d \in Digests : expires[d] = 1}
  <2>1. \A d \in D : BlobPhase[d] = "grace"
    BY DEF OnlyRowsExpire, BlobPhase
  <2>2. BlobPhase' = [d \in Digests |-> IF d \in D THEN "expired" ELSE BlobPhase[d]]
    BY <1>8 DEF Tick, OnlyRowsExpire, BlobPhase
  <2>3. Lifecycle!Elapse(D)
    BY <1>8, <2>1, <2>2 DEF Tick, Lifecycle!Elapse
  <2>4. D \in SUBSET Digests
    OBVIOUS
  <2> QED BY ONLY <2>3, <2>4 DEF Lifecycle!Next
<1>9. \/ UNCHANGED <<blobs, expires, stored>>
      \/ \E p \in Publishers : InsertBlob(p) \/ PutBytes(p)
      \/ \E s \in Sweepers :
            SoftDelete(s) \/ DeleteRow(s) \/ \E d \in gcTodo[s] : DeleteBytes(s, d)
      \/ Tick
  BY NextCases
  DEF StartPublish, UpsertComponent, UpsertAsset, CheckBlob, AddReference, Acknowledge,
      AbortPublish, ListUnreferenced, MarkUnreferenced, ListExpired, FinishSweep, AbortSweep,
      ListVersions, DeleteComponent, AbortRetention, vars
<1> QED BY <1>1, <1>2, <1>3, <1>4, <1>5, <1>6, <1>7, <1>8, <1>9, BlobPhaseStutter

\* Without overlapping sweeps, and with puts shorter than the grace window, the
\* content store implements the promised life cycle of a blob.
THEOREM Implementation ==
    ASSUME OneSweeper, ~SlowPuts, Grace > 0
    PROVE  Spec => ImplementsLifecycle
<1>1. Init => Lifecycle!Init
  BY DEF Init, Lifecycle!Init, BlobPhase
<1>2. ASSUME TypeOK, SweepInv, BytesInv, [Next]_vars
      PROVE  [Lifecycle!Next]_(Lifecycle!vars)
  BY <1>2, LifecycleStep
<1> QED BY <1>1, <1>2, SweepInit, SweepStepInv, BytesInit, BytesStepInv, TypeCorrect, PTL
        DEF Spec, ImplementsLifecycle, Lifecycle!Spec
=============================================================================
