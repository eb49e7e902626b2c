--------------------------- MODULE QuarantineProofs ---------------------------
(***************************************************************************)
(* Proofs about Quarantine, for any number of clients, operators, serves,  *)
(* packages and digests, whether or not calls fail and reviews are cut     *)
(* off: every variable keeps its type, and what is published with a        *)
(* blocked artifact was approved by an operator under its own coordinate.  *)
(* Where one operator decides at a time and a package has one blocked      *)
(* artifact, what is parked stays recoverable and what is rejected does    *)
(* not become published, whatever fails and wherever reviews are cut off.  *)
(***************************************************************************)
EXTENDS Quarantine, TLAPS

-----------------------------------------------------------------------------
(* Typing *)

\* A publish has a first artifact, and each of its artifacts has a digest.
LEMMA RequestShape ==
    ASSUME NEW q \in Requests
    PROVE  /\ q # Nothing
           /\ q.coord \in Coordinates
           /\ Len(q.digests) \in Nat \ {0}
           /\ 1 \in DOMAIN q.digests
           /\ DOMAIN q.digests = 1 .. Len(q.digests)
           /\ \A i \in DOMAIN q.digests : q.digests[i] \in Digests
<1>1. q \in Request /\ q # Nothing
  BY RequestsAssumption, NothingAssumption
<1>2. q.digests \in Seq(Digests) /\ q.digests # <<>> /\ q.coord \in Coordinates
  BY <1>1 DEF Request
<1> QED
  BY <1>1, <1>2

\* A decision leaves a record a record.
LEMMA DecidedIsRecord ==
    ASSUME NEW r \in Record, NEW state \in {"quarantined", "promoted", "rejected"}
    PROVE  /\ Decided(r, state) \in Record
           /\ Decided(r, state) # Nothing
           /\ Decided(r, state).artifact = r.artifact
           /\ Decided(r, state).state = state
<1>1. Decided(r, state) \in Record /\ Decided(r, state).artifact = r.artifact
        /\ Decided(r, state).state = state
  BY DEF Decided, Record
<1> QED
  BY <1>1, NothingAssumption

\* The type of the objects and of the history, of the tasks' variables, and what
\* the label of a task says about them.
StoreOK ==
    /\ record \in [Digests -> Record \cup {Nothing}]
    /\ manifest \in [Digests -> Requests \cup {Nothing}]
    /\ held \subseteq Digests /\ landed \subseteq Requests
    /\ approved \subseteq ArtifactId \X Digests
    /\ owed \subseteq Requests /\ rejected \subseteq Requests
    /\ halfway \subseteq Digests \X {"promote", "reject"}

TasksOK ==
    /\ pc \in [Tasks -> Labels]
    /\ op \in [Tasks -> {"none", "publish", "promote", "reject"}]
    /\ req \in [Tasks -> Requests \cup {Nothing}]
    /\ idx \in [Tasks -> Nat \ {0}]
    /\ hold \in [Tasks -> Nat \ {0}]
    /\ subject \in [Tasks -> Digests \cup {Nothing}]
    /\ copy \in [Tasks -> Record \cup {Nothing}]

TaskOK(t) ==
    /\ pc[t] \in HasRequest => req[t] # Nothing
    /\ pc[t] \in HasArtifact => idx[t] \in DOMAIN req[t].digests
    /\ pc[t] \in AtStart => idx[t] = 1
    /\ HasRecord(t) => copy[t] # Nothing /\ subject[t] # Nothing
    /\ pc[t] \in {"load", "review"} => subject[t] # Nothing /\ record[subject[t]] # Nothing

\* TypeOK is these three.
LEMMA TypeParts == TypeOK <=> StoreOK /\ TasksOK /\ \A t \in Tasks : TaskOK(t)
  BY DEF TypeOK, StoreOK, TasksOK, TaskOK

\* A step of t leaves the other tasks alone, and no record ever disappears.
Frame(t) ==
    \A u \in Tasks \ {t} :
        /\ pc'[u] = pc[u] /\ op'[u] = op[u] /\ req'[u] = req[u] /\ idx'[u] = idx[u]
        /\ hold'[u] = hold[u] /\ subject'[u] = subject[u] /\ copy'[u] = copy[u]

RecordsStay == \A d \in Digests : record[d] # Nothing => record'[d] # Nothing

\* It is enough to look at the task that moves.
LEMMA TypeOfStep ==
    ASSUME TypeOK, NEW t \in Tasks, StoreOK', RecordsStay, TasksOK', Frame(t), TaskOK(t)'
    PROVE  TypeOK'
<1>1. ASSUME NEW u \in Tasks, u # t PROVE TaskOK(u)'
  <2>1. TaskOK(u) /\ TasksOK
    BY TypeParts
  <2>2. /\ pc'[u] = pc[u] /\ op'[u] = op[u] /\ req'[u] = req[u] /\ idx'[u] = idx[u]
        /\ hold'[u] = hold[u] /\ subject'[u] = subject[u] /\ copy'[u] = copy[u]
    BY <1>1 DEF Frame
  <2>3. HasRecord(u)' = HasRecord(u)
    BY <2>2 DEF HasRecord
  <2>4. record[subject[u]] # Nothing /\ subject[u] # Nothing => record'[subject[u]] # Nothing
    BY <2>1 DEF RecordsStay, TasksOK
  <2> QED
    BY <2>1, <2>2, <2>3, <2>4 DEF TaskOK
<1>2. \A u \in Tasks : TaskOK(u)'
  BY <1>1
<1> QED
  BY <1>2 DEF TypeOK, StoreOK, TasksOK, TaskOK

\* A task that ends is idle and holds nothing.
LEMMA TypeOfReturn ==
    ASSUME TypeOK, NEW t \in Tasks, StoreOK', RecordsStay, Return(t)
    PROVE  TypeOK'
<1>1. TasksOK
  BY TypeParts
<1>2. TasksOK' /\ Frame(t)
  BY <1>1 DEF TasksOK, Return, Goto, Frame, Labels
<1>3. TaskOK(t)'
  BY <1>1 DEF TasksOK, Return, Goto, TaskOK, HasRequest, HasArtifact, AtStart, HasRecord, Publishing
<1> QED
  BY <1>2, <1>3, TypeOfStep

\* Nothing is in flight at first.
LEMMA TypeInit == Init => TypeOK
  BY DEF Init, TypeOK, Labels, Publishing, HasRequest, HasArtifact, AtStart, HasRecord

\* A publish that returns Ok ends, or goes on to purge what was parked.
LEMMA TypeOfPublishOk ==
    ASSUME TypeOK, NEW t \in Tasks, StoreOK', RecordsStay, pc[t] \in Publishing, PublishOk(t)
    PROVE  TypeOK'
<1>1. TasksOK /\ TaskOK(t)
  BY TypeParts
<1>2. CASE op[t] = "publish" /\ Return(t)
  BY <1>2, TypeOfReturn
<1>3. CASE op[t] = "promote" /\ Goto(t, "purge") /\ UNCHANGED <<op, req, idx, hold, subject, copy>>
  <2>1. TasksOK' /\ Frame(t)
    BY <1>1, <1>3 DEF TasksOK, Goto, Frame, Labels
  <2>2. TaskOK(t)'
    BY <1>1, <1>3 DEF TasksOK, TaskOK, Goto, HasRequest, HasArtifact, AtStart, HasRecord, Publishing
  <2> QED
    BY <2>1, <2>2, TypeOfStep
<1> QED
  BY <1>2, <1>3 DEF PublishOk

\* A publish that fails ends, or reverts the record it was promoted by.
LEMMA TypeOfPublishErr ==
    ASSUME TypeOK, NEW t \in Tasks, StoreOK', RecordsStay, pc[t] \in Publishing \cup {"lock"},
           PublishErr(t)
    PROVE  TypeOK'
<1>1. TasksOK /\ TaskOK(t)
  BY TypeParts
<1>2. CASE op[t] = "publish" /\ Return(t)
  BY <1>2, TypeOfReturn
<1>3. CASE /\ op[t] = "promote" /\ Goto(t, "revert")
           /\ idx' = [idx EXCEPT ![t] = 1]
           /\ UNCHANGED <<op, req, hold, subject, copy>>
  <2>1. TasksOK' /\ Frame(t)
    BY <1>1, <1>3 DEF TasksOK, Goto, Frame, Labels
  <2>2. TaskOK(t)'
    BY <1>1, <1>3 DEF TasksOK, TaskOK, Goto, HasRequest, HasArtifact, AtStart, HasRecord, Publishing
  <2> QED
    BY <2>1, <2>2, TypeOfStep
<1> QED
  BY <1>2, <1>3 DEF PublishErr

\* A task within its request goes to the next artifact, or to the step after the
\* loop, which may be one that needs no more than it had.
LEMMA TypeOfAdvance ==
    ASSUME TypeOK, NEW t \in Tasks, StoreOK', RecordsStay, pc[t] \in HasArtifact \cap HasRequest,
           NEW label \in {"land", "manifest", "promote", "purge", "purge_manifest"},
           label \in {"promote", "purge", "purge_manifest"} => copy[t] # Nothing /\ subject[t] # Nothing,
           Advance(t, label), UNCHANGED <<op, req, subject, copy>>,
           hold' = hold \/ hold' = [hold EXCEPT ![t] = idx[t]]
    PROVE  TypeOK'
<1>1. TasksOK /\ TaskOK(t) /\ req[t] \in Requests
  BY TypeParts DEF TaskOK, TasksOK
<1>2. /\ Len(req[t].digests) \in Nat \ {0}
      /\ DOMAIN req[t].digests = 1 .. Len(req[t].digests)
  BY <1>1, RequestShape
<1>3. idx[t] \in 1 .. Len(req[t].digests)
  BY <1>1, <1>2 DEF TaskOK
<1>4. CASE ~Last(t) /\ idx' = [idx EXCEPT ![t] = @ + 1] /\ UNCHANGED pc
  <2>1. TasksOK' /\ Frame(t)
    BY <1>1, <1>4 DEF TasksOK, Frame
  <2>2. idx'[t] = idx[t] + 1 /\ idx'[t] \in 1 .. Len(req[t].digests)
    BY <1>1, <1>2, <1>3, <1>4 DEF TasksOK, Last
  <2>3. idx'[t] \in DOMAIN req'[t].digests
    BY <1>2, <2>2
  <2>4. pc'[t] = pc[t] /\ pc[t] \notin AtStart \cup {"load", "review"}
    BY <1>4 DEF HasArtifact, AtStart, Publishing
  <2>5. TaskOK(t)'
    BY <1>1, <2>3, <2>4 DEF TaskOK, HasRecord
  <2> QED
    BY <2>1, <2>5, TypeOfStep
<1>5. CASE Last(t) /\ idx' = [idx EXCEPT ![t] = 1] /\ Goto(t, label)
  <2>1. TasksOK' /\ Frame(t)
    BY <1>1, <1>5 DEF TasksOK, Frame, Goto, Labels, Publishing
  <2>2. idx'[t] = 1 /\ idx'[t] \in DOMAIN req'[t].digests /\ pc'[t] = label
    BY <1>1, <1>2, <1>5 DEF TasksOK, Goto
  <2>3. HasRecord(t)' => copy[t] # Nothing /\ subject[t] # Nothing
    BY <1>1, <2>2 DEF TaskOK, HasRecord, HasArtifact, Publishing
  <2>4. TaskOK(t)'
    BY <1>1, <2>2, <2>3 DEF TaskOK
  <2> QED
    BY <2>1, <2>4, TypeOfStep
<1> QED
  BY <1>4, <1>5 DEF Advance

\* What may be served is an artifact of a package, with its digest.
LEMMA ServableType ==
    ASSUME StoreOK, NEW s \in Servable
    PROVE  s[1] \in ArtifactId /\ s[2] \in Digests
<1>1. CASE s \in Proxied
  BY <1>1, ProxiedAssumption
<1>2. ASSUME NEW q \in landed, s \in Files(q) PROVE s[1] \in ArtifactId /\ s[2] \in Digests
  <2>1. q \in Requests
    BY <1>2 DEF StoreOK
  <2>2. PICK i \in DOMAIN q.digests : s = <<<<q.coord, i>>, q.digests[i]>>
    BY <1>2 DEF Files
  <2>3. i \in Nat \ {0} /\ q.coord \in Coordinates /\ q.digests[i] \in Digests
    BY <2>1, <2>2, RequestShape
  <2> QED
    BY <2>2, <2>3 DEF ArtifactId
<1> QED
  BY <1>1, <1>2 DEF Servable

\* A review that cannot rebuild the parked publish ends, or rejects it unpurged.
LEMMA TypeOfNotRebuilt ==
    ASSUME TypeOK, NEW t \in Tasks, StoreOK', RecordsStay, HasRecord(t), NotRebuilt(t)
    PROVE  TypeOK'
<1>1. TasksOK /\ TaskOK(t)
  BY TypeParts
<1>2. CASE Return(t)
  BY <1>2, TypeOfReturn
<1>3. CASE /\ Goto(t, "reject")
           /\ req' = [req EXCEPT ![t] = Nothing]
           /\ idx' = [idx EXCEPT ![t] = 1]
           /\ UNCHANGED <<op, hold, subject, copy>>
  <2>1. TasksOK' /\ Frame(t)
    BY <1>1, <1>3 DEF TasksOK, Frame, Goto, Labels
  <2>2. TaskOK(t)'
    BY <1>1, <1>3 DEF TasksOK, TaskOK, Goto, HasRequest, HasArtifact, AtStart, HasRecord, Publishing
  <2> QED
    BY <2>1, <2>2, TypeOfStep
<1> QED
  BY <1>2, <1>3 DEF NotRebuilt

\* No step takes a variable out of its type.
LEMMA TypeStep == TypeOK /\ [Next]_vars => TypeOK'
<1> SUFFICES ASSUME TypeOK, [Next]_vars PROVE TypeOK'
  OBVIOUS
<1>1. ASSUME NEW t \in Clients, NEW q \in Requests, StartPublish(t, q) PROVE TypeOK'
  <2>1. t \in Tasks /\ StoreOK /\ TasksOK /\ TaskOK(t)
    BY <1>1, TypeParts DEF Tasks
  <2>2. StoreOK' /\ RecordsStay
    BY <1>1, <2>1, NothingAssumption, RequestShape DEF StartPublish, StoreOK, RecordsStay, store, history, TasksOK, TaskOK, HasRecord
  <2>3. TasksOK' /\ Frame(t)
    BY <1>1, <2>1, NothingAssumption, RequestShape DEF StartPublish, TasksOK, StoreOK, Frame, Goto, Labels, Publishing
  <2>4. TaskOK(t)'
    BY <1>1, <2>1, NothingAssumption, RequestShape DEF StartPublish, TasksOK, StoreOK, TaskOK, Goto, HasRequest, HasArtifact, AtStart, HasRecord, Publishing
  <2> QED
    BY <2>1, <2>2, <2>3, <2>4, TypeOfStep
<1>2. ASSUME NEW t \in Clients \cup Operators, LockAndCheck(t) PROVE TypeOK'
  <2>1. t \in Tasks /\ StoreOK /\ TasksOK /\ TaskOK(t)
    BY <1>2, TypeParts DEF Tasks
  <2>2. StoreOK' /\ RecordsStay
    BY <1>2, <2>1 DEF LockAndCheck, StoreOK, RecordsStay, store, history, TasksOK, TaskOK
  <2>3. CASE PublishErr(t)
    BY <1>2, <2>1, <2>2, <2>3, TypeOfPublishErr DEF LockAndCheck
  <2>4. CASE Goto(t, "gate") /\ UNCHANGED <<op, req, idx, hold, subject, copy>>
    <3>1. TasksOK' /\ Frame(t)
      BY <2>1, <2>4 DEF TasksOK, Frame, Goto, Labels, Publishing
    <3>2. pc[t] = "lock" /\ 1 \in DOMAIN req[t].digests
      BY <1>2, <2>1, RequestShape DEF LockAndCheck, TasksOK, TaskOK, HasRequest
    <3>3. TaskOK(t)'
      BY <2>1, <2>4, <3>2 DEF TasksOK, TaskOK, Goto, HasRequest, HasArtifact, AtStart, HasRecord, Publishing
    <3> QED
      BY <2>1, <2>2, <3>1, <3>3, TypeOfStep
  <2> QED
    BY <1>2, <2>3, <2>4 DEF LockAndCheck
<1>3. ASSUME NEW t \in Clients \cup Operators, ScanGate(t) PROVE TypeOK'
  <2>1. t \in Tasks /\ StoreOK /\ TasksOK /\ TaskOK(t)
    BY <1>3, TypeParts DEF Tasks
  <2>2. StoreOK' /\ RecordsStay
    BY <1>3, <2>1 DEF ScanGate, StoreOK, RecordsStay, store, history, TasksOK, TaskOK
  <2>3. CASE Advance(t, "land") /\ UNCHANGED hold
    BY <1>3, <2>1, <2>2, <2>3, TypeOfAdvance DEF ScanGate, HasArtifact, HasRequest, Publishing
  <2>4. CASE /\ hold' = [hold EXCEPT ![t] = idx[t]]
             /\ idx' = [idx EXCEPT ![t] = 1]
             /\ Goto(t, "park")
    <3>1. TasksOK' /\ Frame(t)
      BY <1>3, <2>1, <2>4 DEF ScanGate, TasksOK, Frame, Goto, Labels, Publishing
    <3>2. pc[t] = "gate" /\ 1 \in DOMAIN req[t].digests
      BY <1>3, <2>1, RequestShape DEF ScanGate, TasksOK, TaskOK, HasRequest, Publishing
    <3>3. TaskOK(t)'
      BY <1>3, <2>1, <2>4, <3>2 DEF ScanGate, TasksOK, TaskOK, Goto, HasRequest, HasArtifact, AtStart, HasRecord, Publishing
    <3> QED
      BY <2>1, <2>2, <3>1, <3>3, TypeOfStep
  <2> QED
    BY <1>3, <2>3, <2>4 DEF ScanGate
<1>4. ASSUME NEW t \in Clients \cup Operators, Land(t) PROVE TypeOK'
  <2>1. t \in Tasks /\ StoreOK /\ TasksOK /\ TaskOK(t) /\ pc[t] = "land"
    BY <1>4, TypeParts DEF Tasks, Land
  <2>2. req[t] \in Requests
    BY <2>1 DEF TasksOK, TaskOK, HasRequest, Publishing
  <2>3. StoreOK' /\ RecordsStay
    BY <1>4, <2>1, <2>2 DEF Land, StoreOK, RecordsStay
  <2> QED
    BY <1>4, <2>1, <2>3, TypeOfPublishOk, TypeOfPublishErr DEF Land, Publishing
<1>5. ASSUME NEW t \in Clients \cup Operators, ParkBytes(t) PROVE TypeOK'
  <2>1. t \in Tasks /\ StoreOK /\ TasksOK /\ TaskOK(t) /\ pc[t] = "park"
    BY <1>5, TypeParts DEF Tasks, ParkBytes
  <2>2. Digest(t) \in Digests
    BY <2>1, RequestShape DEF TasksOK, TaskOK, HasRequest, HasArtifact, Publishing, Digest
  <2>3. StoreOK' /\ RecordsStay
    BY <1>5, <2>1, <2>2 DEF ParkBytes, StoreOK, RecordsStay, history
  <2> QED
    BY <1>5, <2>1, <2>3, TypeOfAdvance DEF ParkBytes, HasArtifact, HasRequest, Publishing
<1>6. ASSUME NEW t \in Clients \cup Operators, ParkManifest(t) PROVE TypeOK'
  <2>1. t \in Tasks /\ StoreOK /\ TasksOK /\ TaskOK(t) /\ pc[t] = "manifest"
    BY <1>6, TypeParts DEF Tasks, ParkManifest
  <2>2. req[t] \in Requests
    BY <2>1 DEF TasksOK, TaskOK, HasRequest, Publishing
  <2>3. StoreOK' /\ RecordsStay
    BY <1>6, <2>1, <2>2 DEF ParkManifest, StoreOK, RecordsStay, history
  <2>4. TasksOK' /\ Frame(t)
    BY <1>6, <2>1 DEF ParkManifest, TasksOK, Frame, Goto, Labels, Publishing
  <2>5. TaskOK(t)'
    BY <1>6, <2>1 DEF ParkManifest, TasksOK, TaskOK, Goto, HasRequest, HasArtifact, AtStart, HasRecord, Publishing
  <2> QED
    BY <2>1, <2>3, <2>4, <2>5, TypeOfStep
<1>7. ASSUME NEW t \in Clients \cup Operators, ParkRecord(t) PROVE TypeOK'
  <2>1. t \in Tasks /\ StoreOK /\ TasksOK /\ TaskOK(t) /\ pc[t] = "record"
    BY <1>7, TypeParts DEF Tasks, ParkRecord
  <2>2. req[t] \in Requests /\ req[t].coord \in Coordinates
    BY <2>1, RequestShape DEF TasksOK, TaskOK, HasRequest, Publishing
  <2> DEFINE r == [artifact |-> <<req[t].coord, hold[t]>>, origin |-> "ingest", state |-> "quarantined"]
  <2>3. r \in Record /\ r # Nothing
    BY <2>1, <2>2, NothingAssumption DEF Record, ArtifactId, TasksOK
  <2>4. record' = [record EXCEPT ![req[t].digests[hold[t]]] = r]
    BY <1>7 DEF ParkRecord
  <2> HIDE DEF r
  <2>5. StoreOK' /\ RecordsStay
    BY <1>7, <2>1, <2>2, <2>3, <2>4 DEF ParkRecord, StoreOK, RecordsStay
  <2> QED
    BY <1>7, <2>1, <2>5, TypeOfPublishOk DEF ParkRecord, Publishing
<1>8. ASSUME NEW t \in Clients \cup Operators, FailToPublish(t) PROVE TypeOK'
  <2>1. t \in Tasks /\ StoreOK /\ TasksOK /\ TaskOK(t)
    BY <1>8, TypeParts DEF Tasks
  <2>2. StoreOK' /\ RecordsStay
    BY <1>8, <2>1 DEF FailToPublish, StoreOK, RecordsStay, store, history, TasksOK, TaskOK
  <2> QED
    BY <1>8, <2>1, <2>2, TypeOfPublishErr DEF FailToPublish, Publishing
<1>9. ASSUME NEW t \in Operators, NEW d \in Digests, NEW decision \in {"promote", "reject"},
                StartReview(t, d, decision) PROVE TypeOK'
  <2>1. t \in Tasks /\ StoreOK /\ TasksOK /\ TaskOK(t)
    BY <1>9, TypeParts DEF Tasks
  <2>2. StoreOK' /\ RecordsStay
    BY <1>9, <2>1, NothingAssumption DEF StartReview, StoreOK, RecordsStay, store, history, TasksOK, TaskOK, HasRecord
  <2>3. TasksOK' /\ Frame(t)
    BY <1>9, <2>1, NothingAssumption DEF StartReview, TasksOK, StoreOK, Frame, Goto, Labels, Publishing
  <2>4. /\ pc[t] = "idle" /\ idx'[t] = 1 /\ pc'[t] \in {"load", "review"}
        /\ subject'[t] = d /\ d # Nothing /\ record'[d] # Nothing
    BY <1>9, <2>1, NothingAssumption DEF StartReview, TasksOK, TaskOK, AtStart, Goto, store
  <2>5. TaskOK(t)'
    BY <2>4 DEF TaskOK, HasRequest, HasArtifact, HasRecord, Publishing
  <2> QED
    BY <2>1, <2>2, <2>3, <2>5, TypeOfStep
<1>10. ASSUME NEW t \in Operators, LoadRecord(t) PROVE TypeOK'
  <2>1. t \in Tasks /\ StoreOK /\ TasksOK /\ TaskOK(t)
    BY <1>10, TypeParts DEF Tasks
  <2>2. StoreOK' /\ RecordsStay
    BY <1>10, <2>1, NothingAssumption DEF LoadRecord, StoreOK, RecordsStay, store, history, TasksOK, TaskOK, HasRecord
  <2>3. pc[t] = "review" /\ record[subject[t]] \in Record \cup {Nothing}
    BY <1>10, <2>1 DEF LoadRecord, TaskOK, TasksOK, StoreOK
  <2>4. TasksOK' /\ Frame(t)
    BY <1>10, <2>1, <2>3 DEF LoadRecord, TasksOK, Frame, Goto, Labels
  <2>5. /\ pc'[t] = "stamp" /\ subject'[t] = subject[t] /\ copy'[t] = record[subject[t]]
    BY <1>10, <2>1 DEF LoadRecord, TasksOK, Goto
  <2>6. TaskOK(t)'
    BY <2>1, <2>3, <2>5 DEF TaskOK, HasRequest, HasArtifact, AtStart, HasRecord, Publishing
  <2> QED
    BY <2>1, <2>2, <2>4, <2>6, TypeOfStep
<1>11. ASSUME NEW t \in Operators, StampRecord(t) PROVE TypeOK'
  <2>1. t \in Tasks /\ StoreOK /\ TasksOK /\ TaskOK(t) /\ pc[t] = "stamp"
    BY <1>11, TypeParts DEF Tasks, StampRecord
  <2>2. copy[t] \in Record /\ copy[t].artifact \in ArtifactId /\ subject[t] \in Digests
    BY <2>1 DEF TasksOK, TaskOK, HasRecord, Record
  <2>3. StoreOK' /\ RecordsStay
    BY <1>11, <2>1, <2>2, DecidedIsRecord DEF StampRecord, StoreOK, RecordsStay, history
  <2> QED
    BY <1>11, <2>1, <2>3, TypeOfReturn DEF StampRecord
<1>12. ASSUME NEW t \in Operators, Revert(t) PROVE TypeOK'
  <2>1. t \in Tasks /\ StoreOK /\ TasksOK /\ TaskOK(t) /\ pc[t] = "revert"
    BY <1>12, TypeParts DEF Tasks, Revert
  <2>2. copy[t] \in Record /\ copy[t].artifact \in ArtifactId /\ subject[t] \in Digests
    BY <2>1 DEF TasksOK, TaskOK, HasRecord, Record
  <2>3. StoreOK' /\ RecordsStay
    BY <1>12, <2>1, <2>2, DecidedIsRecord DEF Revert, StoreOK, RecordsStay, history
  <2> QED
    BY <1>12, <2>1, <2>3, TypeOfReturn DEF Revert
<1>13. ASSUME NEW t \in Operators, LoadIngestRecord(t) PROVE TypeOK'
  <2>1. t \in Tasks /\ StoreOK /\ TasksOK /\ TaskOK(t)
    BY <1>13, TypeParts DEF Tasks
  <2>2. StoreOK' /\ RecordsStay
    BY <1>13, <2>1 DEF LoadIngestRecord, StoreOK, RecordsStay, store, history, TasksOK, TaskOK
  <2>3. CASE Return(t)
    BY <2>1, <2>2, <2>3, TypeOfReturn
  <2>4. CASE /\ copy' = [copy EXCEPT ![t] = record[subject[t]]]
             /\ Goto(t, "rebuild")
             /\ UNCHANGED <<op, req, idx, hold, subject>>
    <3>1. /\ pc[t] = "load" /\ subject[t] \in Digests
          /\ record[subject[t]] \in Record \cup {Nothing} /\ record[subject[t]] # Nothing
      BY <1>13, <2>1 DEF LoadIngestRecord, StoreOK, TasksOK, TaskOK
    <3>2. TasksOK' /\ Frame(t)
      BY <2>1, <2>4, <3>1 DEF TasksOK, Frame, Goto, Labels
    <3>3. TaskOK(t)'
      BY <2>1, <2>4, <3>1, NothingAssumption DEF TasksOK, TaskOK, Goto, HasRequest, HasArtifact, AtStart, HasRecord, Publishing
    <3> QED
      BY <2>1, <2>2, <3>2, <3>3, TypeOfStep
  <2> QED
    BY <1>13, <2>3, <2>4 DEF LoadIngestRecord
<1>14. ASSUME NEW t \in Operators, ReadManifest(t) PROVE TypeOK'
  <2>1. t \in Tasks /\ StoreOK /\ TasksOK /\ TaskOK(t)
    BY <1>14, TypeParts DEF Tasks
  <2>2. StoreOK' /\ RecordsStay
    BY <1>14, <2>1 DEF ReadManifest, StoreOK, RecordsStay, store, history, TasksOK, TaskOK
  <2>3. pc[t] = "rebuild" /\ subject[t] \in Digests /\ HasRecord(t)
    BY <1>14, <2>1 DEF ReadManifest, TasksOK, TaskOK, HasRecord
  <2>4. CASE NotRebuilt(t)
    BY <2>1, <2>2, <2>3, <2>4, TypeOfNotRebuilt
  <2>5. CASE /\ manifest[subject[t]] # Nothing
             /\ req' = [req EXCEPT ![t] = manifest[subject[t]]]
             /\ Goto(t, "read_bytes")
             /\ UNCHANGED <<op, idx, hold, subject, copy>>
    <3>1. manifest[subject[t]] \in Requests /\ 1 \in DOMAIN manifest[subject[t]].digests
      BY <2>1, <2>3, <2>5, RequestShape DEF StoreOK
    <3>2. TasksOK' /\ Frame(t)
      BY <2>1, <2>5, <3>1 DEF TasksOK, Frame, Goto, Labels
    <3>3. TaskOK(t)'
      BY <2>1, <2>3, <2>5, <3>1 DEF TasksOK, TaskOK, Goto, HasRequest, HasArtifact, AtStart, HasRecord, Publishing
    <3> QED
      BY <2>1, <2>2, <3>2, <3>3, TypeOfStep
  <2> QED
    BY <1>14, <2>4, <2>5 DEF ReadManifest
<1>15. ASSUME NEW t \in Operators, ReadBytes(t) PROVE TypeOK'
  <2>1. t \in Tasks /\ StoreOK /\ TasksOK /\ TaskOK(t)
    BY <1>15, TypeParts DEF Tasks
  <2>2. StoreOK' /\ RecordsStay
    BY <1>15, <2>1 DEF ReadBytes, StoreOK, RecordsStay, store, history, TasksOK, TaskOK
  <2>3. pc[t] \in HasArtifact \cap HasRequest /\ HasRecord(t) /\ copy[t] # Nothing /\ subject[t] # Nothing
    BY <1>15, <2>1 DEF ReadBytes, TaskOK, HasRecord, HasArtifact, HasRequest
  <2>4. CASE NotRebuilt(t)
    BY <2>1, <2>2, <2>3, <2>4, TypeOfNotRebuilt
  <2>5. CASE /\ Advance(t, IF op[t] = "promote" THEN "promote" ELSE "purge")
             /\ UNCHANGED <<op, req, hold, subject, copy>>
    BY <2>1, <2>2, <2>3, <2>5, TypeOfAdvance
  <2> QED
    BY <1>15, <2>4, <2>5 DEF ReadBytes
<1>16. ASSUME NEW t \in Operators, MarkPromoted(t) PROVE TypeOK'
  <2>1. t \in Tasks /\ StoreOK /\ TasksOK /\ TaskOK(t) /\ pc[t] = "promote"
    BY <1>16, TypeParts DEF Tasks, MarkPromoted
  <2>2. copy[t] \in Record /\ copy[t].artifact \in ArtifactId /\ subject[t] \in Digests
    BY <2>1 DEF TasksOK, TaskOK, HasRecord, Record
  <2>3. StoreOK' /\ RecordsStay
    BY <1>16, <2>1, <2>2, DecidedIsRecord DEF MarkPromoted, StoreOK, RecordsStay
  <2>4. TasksOK' /\ Frame(t)
    BY <1>16, <2>1 DEF MarkPromoted, TasksOK, Frame, Goto, Labels
  <2>5. TaskOK(t)'
    BY <1>16, <2>1 DEF MarkPromoted, TasksOK, TaskOK, Goto, HasRequest, HasArtifact, AtStart, HasRecord, Publishing
  <2> QED
    BY <2>1, <2>3, <2>4, <2>5, TypeOfStep
<1>17. ASSUME NEW t \in Operators, PurgeBytes(t) PROVE TypeOK'
  <2>1. t \in Tasks /\ StoreOK /\ TasksOK /\ TaskOK(t)
    BY <1>17, TypeParts DEF Tasks
  <2>2. StoreOK' /\ RecordsStay
    BY <1>17, <2>1 DEF PurgeBytes, StoreOK, RecordsStay, store, history, TasksOK, TaskOK
  <2>3. pc[t] \in HasArtifact \cap HasRequest /\ copy[t] # Nothing /\ subject[t] # Nothing
    BY <1>17, <2>1 DEF PurgeBytes, TaskOK, HasRecord, HasArtifact, HasRequest
  <2> QED
    BY <1>17, <2>1, <2>2, <2>3, TypeOfAdvance DEF PurgeBytes
<1>18. ASSUME NEW t \in Operators, PurgeManifest(t) PROVE TypeOK'
  <2>1. t \in Tasks /\ StoreOK /\ TasksOK /\ TaskOK(t)
    BY <1>18, TypeParts DEF Tasks
  <2>2. StoreOK' /\ RecordsStay
    BY <1>18, <2>1 DEF PurgeManifest, StoreOK, RecordsStay, store, history, TasksOK, TaskOK
  <2>3. CASE Return(t)
    BY <2>1, <2>2, <2>3, TypeOfReturn
  <2>4. CASE Goto(t, "reject") /\ UNCHANGED <<op, req, idx, hold, subject, copy>>
    <3>1. TasksOK' /\ Frame(t)
      BY <2>1, <2>4 DEF TasksOK, Frame, Goto, Labels
    <3>2. TaskOK(t)'
      BY <1>18, <2>1, <2>4 DEF PurgeManifest, TasksOK, TaskOK, Goto, HasRequest, HasArtifact, AtStart, HasRecord, Publishing
    <3> QED
      BY <2>1, <2>2, <3>1, <3>2, TypeOfStep
  <2> QED
    BY <1>18, <2>3, <2>4 DEF PurgeManifest
<1>19. ASSUME NEW t \in Operators, MarkRejected(t) PROVE TypeOK'
  <2>1. t \in Tasks /\ StoreOK /\ TasksOK /\ TaskOK(t) /\ pc[t] = "reject"
    BY <1>19, TypeParts DEF Tasks, MarkRejected
  <2>2. copy[t] \in Record /\ subject[t] \in Digests /\ req[t] \in Requests \cup {Nothing}
    BY <2>1 DEF TasksOK, TaskOK, HasRecord
  <2>3. StoreOK' /\ RecordsStay
    BY <1>19, <2>1, <2>2, DecidedIsRecord DEF MarkRejected, StoreOK, RecordsStay
  <2> QED
    BY <1>19, <2>1, <2>3, TypeOfReturn DEF MarkRejected
<1>20. ASSUME NEW t \in Operators, FailReview(t) \/ CancelReview(t) PROVE TypeOK'
  <2>1. t \in Tasks /\ StoreOK /\ TasksOK /\ TaskOK(t) /\ Stop(t)
    BY <1>20, TypeParts DEF Tasks, FailReview, CancelReview
  <2>2. IsHalfway(t) => <<subject[t], op[t]>> \in Digests \X {"promote", "reject"}
    BY <2>1 DEF IsHalfway, TasksOK, TaskOK, HasRecord, Publishing
  <2>3. StoreOK' /\ RecordsStay
    BY <2>1, <2>2 DEF Stop, StoreOK, RecordsStay, store
  <2> QED
    BY <2>1, <2>3, TypeOfReturn DEF Stop
<1>21. ASSUME NEW t \in Servers, NEW s \in Servable, CheckServe(t, s[1], s[2]) PROVE TypeOK'
  <2>1. t \in Tasks /\ StoreOK /\ TasksOK /\ TaskOK(t) /\ pc[t] = "idle"
    BY <1>21, TypeParts DEF Tasks, CheckServe
  <2>2. s[1] \in ArtifactId /\ s[2] \in Digests
    BY <2>1, ServableType
  <2> DEFINE r == [artifact |-> s[1], origin |-> "serve", state |-> "quarantined"]
  <2>3. r \in Record /\ r # Nothing /\ s[2] # Nothing
    BY <2>2, NothingAssumption DEF Record
  <2>4. /\ copy' = [copy EXCEPT ![t] = r] /\ subject' = [subject EXCEPT ![t] = s[2]]
        /\ Goto(t, "hold") /\ UNCHANGED <<store, op, req, idx, hold, history>>
    BY <1>21 DEF CheckServe
  <2> HIDE DEF r
  <2>5. StoreOK' /\ RecordsStay
    BY <2>1, <2>4 DEF StoreOK, RecordsStay, store, history
  <2>6. TasksOK' /\ Frame(t)
    BY <2>1, <2>2, <2>3, <2>4 DEF TasksOK, Frame, Goto, Labels
  <2>7. TaskOK(t)'
    BY <2>1, <2>3, <2>4 DEF TasksOK, TaskOK, Goto, HasRequest, HasArtifact, AtStart, HasRecord, Publishing
  <2> QED
    BY <2>1, <2>5, <2>6, <2>7, TypeOfStep
<1>22. ASSUME NEW t \in Servers, HoldServe(t) PROVE TypeOK'
  <2>1. t \in Tasks /\ StoreOK /\ TasksOK /\ TaskOK(t) /\ pc[t] = "hold"
    BY <1>22, TypeParts DEF Tasks, HoldServe
  <2>2. copy[t] \in Record /\ copy[t] # Nothing /\ subject[t] \in Digests
    BY <2>1 DEF TasksOK, TaskOK, HasRecord
  <2>3. StoreOK' /\ RecordsStay
    BY <1>22, <2>1, <2>2 DEF HoldServe, StoreOK, RecordsStay, history
  <2> QED
    BY <1>22, <2>1, <2>3, TypeOfReturn DEF HoldServe
<1>23. CASE UNCHANGED vars
  BY <1>23 DEF vars, store, taskVars, history, TypeOK, HasRecord
<1> QED
  BY <1>1, <1>2, <1>3, <1>4, <1>5, <1>6, <1>7, <1>8, <1>9, <1>10, <1>11, <1>12, <1>13, <1>14, <1>15, <1>16, <1>17, <1>18, <1>19, <1>20, <1>21, <1>22, <1>23 DEF Next, Publish, Review

\* Types, for any number of tasks, packages and digests.
THEOREM TypeCorrect == Spec => []TypeOK
<1> QED
  BY TypeInit, TypeStep, PTL DEF Spec

-----------------------------------------------------------------------------
(* What is published was approved *)

\* A blocked artifact with its digest that an operator has promoted.
IsApproved(q, i) == q.digests[i] \in Blocked => <<<<q.coord, i>>, q.digests[i]>> \in approved

\* What clears the gate of a publish was written by a promotion of that artifact.
PromotedIsApproved ==
    \A d \in Digests :
        record[d] # Nothing /\ record[d].state = "promoted" => <<record[d].artifact, d>> \in approved

\* Up to where a publish has passed the gate its artifacts are approved, and what
\* a serve is about to write approves nothing.
Gated == {"gate", "land", "hold"}
PassedIsApproved(t) ==
    /\ pc[t] = "gate" => \A i \in 1 .. idx[t] - 1 : IsApproved(req[t], i)
    /\ pc[t] = "land" => \A i \in DOMAIN req[t].digests : IsApproved(req[t], i)
    /\ pc[t] = "hold" => copy[t].state = "quarantined"

\* The inductive invariant.
Approvals ==
    /\ TypeOK
    /\ PromotedIsApproved
    /\ \A t \in Tasks : PassedIsApproved(t)
    /\ \A q \in landed : \A i \in DOMAIN q.digests : IsApproved(q, i)

\* The last conjunct is LandedIsApproved.
LEMMA ApprovalsImply == Approvals => LandedIsApproved
<1> SUFFICES ASSUME Approvals, NEW q \in landed, NEW f \in Files(q), f[2] \in Blocked
             PROVE  f \in approved
  BY DEF LandedIsApproved
<1>1. PICK i \in DOMAIN q.digests : f = <<<<q.coord, i>>, q.digests[i]>>
  BY DEF Files
<1> QED
  BY <1>1 DEF Approvals, IsApproved

\* A step of a publish or of a review changes its own variables only.
LEMMA PublishFrame ==
    ASSUME TypeOK, NEW t \in Tasks, Publish(t)
    PROVE  Frame(t)
<1>1. TasksOK
  BY TypeParts
<1>3. ASSUME NEW label, Advance(t, label), UNCHANGED <<op, req, hold, subject, copy>> PROVE Frame(t)
  BY <1>1, <1>3 DEF Advance, Goto, TasksOK, Frame
<1>4. CASE LockAndCheck(t)
  BY <1>1, <1>4 DEF LockAndCheck, PublishErr, Return, Goto, TasksOK, Frame
<1>5. CASE ScanGate(t)
  BY <1>1, <1>3, <1>5 DEF ScanGate, Goto, TasksOK, Frame
<1>6. CASE Land(t)
  BY <1>1, <1>6 DEF Land, PublishOk, PublishErr, Return, Goto, TasksOK, Frame
<1>7. CASE ParkBytes(t)
  BY <1>3, <1>7 DEF ParkBytes
<1>8. CASE ParkManifest(t)
  BY <1>1, <1>8 DEF ParkManifest, Goto, TasksOK, Frame
<1>9. CASE ParkRecord(t)
  BY <1>1, <1>9 DEF ParkRecord, PublishOk, Return, Goto, TasksOK, Frame
<1>10. CASE FailToPublish(t)
  BY <1>1, <1>10 DEF FailToPublish, PublishErr, Return, Goto, TasksOK, Frame
<1> QED
  BY <1>4, <1>5, <1>6, <1>7, <1>8, <1>9, <1>10 DEF Publish

LEMMA ReviewFrame ==
    ASSUME TypeOK, NEW t \in Tasks, Review(t)
    PROVE  Frame(t) /\ pc'[t] \notin Gated
<1>1. TasksOK
  BY TypeParts
<1>2. ASSUME Return(t) PROVE Frame(t) /\ pc'[t] \notin Gated
  BY <1>1, <1>2 DEF Return, Goto, TasksOK, Frame, Gated
<1>3. ASSUME NEW label, label \notin Gated, pc[t] \notin Gated, Advance(t, label),
             UNCHANGED <<op, req, hold, subject, copy>>
      PROVE  Frame(t) /\ pc'[t] \notin Gated
  BY <1>1, <1>3 DEF Advance, Goto, TasksOK, Frame
<1>4. ASSUME NotRebuilt(t) PROVE Frame(t) /\ pc'[t] \notin Gated
  BY <1>1, <1>2, <1>4 DEF NotRebuilt, Goto, TasksOK, Frame, Gated
<1>5. CASE LoadRecord(t)
  BY <1>1, <1>5 DEF LoadRecord, Goto, TasksOK, Frame, Gated
<1>6. CASE StampRecord(t)
  BY <1>2, <1>6 DEF StampRecord
<1>7. CASE LoadIngestRecord(t)
  BY <1>1, <1>2, <1>7 DEF LoadIngestRecord, Goto, TasksOK, Frame, Gated
<1>8. CASE ReadManifest(t)
  BY <1>1, <1>4, <1>8 DEF ReadManifest, Goto, TasksOK, Frame, Gated
<1>9. CASE ReadBytes(t)
  BY <1>3, <1>4, <1>9 DEF ReadBytes, Gated
<1>10. CASE MarkPromoted(t)
  BY <1>1, <1>10 DEF MarkPromoted, Goto, TasksOK, Frame, Gated
<1>11. CASE Revert(t)
  BY <1>2, <1>11 DEF Revert
<1>12. CASE PurgeBytes(t)
  BY <1>3, <1>12 DEF PurgeBytes, Gated
<1>13. CASE PurgeManifest(t)
  BY <1>1, <1>2, <1>13 DEF PurgeManifest, Goto, TasksOK, Frame, Gated
<1>14. CASE MarkRejected(t)
  BY <1>2, <1>14 DEF MarkRejected
<1>15. CASE FailReview(t)
  BY <1>2, <1>15 DEF FailReview, Stop
<1> QED
  BY <1>5, <1>6, <1>7, <1>8, <1>9, <1>10, <1>11, <1>12, <1>13, <1>14, <1>15 DEF Review

\* A record that is written is as good as the approval behind it.
LEMMA RecordWritten ==
    ASSUME TypeOK, PromotedIsApproved, approved \subseteq approved',
           NEW d \in Digests, NEW r,
           r.state = "promoted" => <<r.artifact, d>> \in approved',
           record' = record \/ record' = [record EXCEPT ![d] = r]
    PROVE  PromotedIsApproved'
  BY DEF TypeOK, PromotedIsApproved

\* Other tasks' publishes stay approved whatever t does, and so does what landed.
LEMMA ApprovalsOfStep ==
    ASSUME Approvals, TypeOK', PromotedIsApproved', approved \subseteq approved',
           NEW t \in Tasks, Frame(t), PassedIsApproved(t)',
           \A q \in landed' \ landed : \A i \in DOMAIN q.digests : IsApproved(q, i)'
    PROVE  Approvals'
<1>1. ASSUME NEW q, NEW i, IsApproved(q, i) PROVE IsApproved(q, i)'
  BY <1>1 DEF IsApproved
<1>2. ASSUME NEW u \in Tasks, u # t PROVE PassedIsApproved(u)'
  <2>1. /\ pc'[u] = pc[u] /\ req'[u] = req[u] /\ idx'[u] = idx[u] /\ copy'[u] = copy[u]
        /\ PassedIsApproved(u)
    BY <1>2 DEF Frame, Approvals
  <2>2. pc'[u] = "gate" => \A i \in 1 .. idx'[u] - 1 : IsApproved(req[u], i)'
    BY <1>1, <2>1 DEF PassedIsApproved
  <2>3. pc'[u] = "land" => \A i \in DOMAIN req'[u].digests : IsApproved(req[u], i)'
    BY <1>1, <2>1 DEF PassedIsApproved
  <2>4. pc'[u] = "hold" => copy'[u].state = "quarantined"
    BY <2>1 DEF PassedIsApproved
  <2> QED
    BY <2>1, <2>2, <2>3, <2>4 DEF PassedIsApproved, IsApproved
<1>3. \A u \in Tasks : PassedIsApproved(u)'
  BY <1>2
<1>4. ASSUME NEW q \in landed' PROVE \A i \in DOMAIN q.digests : IsApproved(q, i)'
  BY <1>1 DEF Approvals
<1> QED
  BY <1>3, <1>4 DEF Approvals, IsApproved

\* A step that lands nothing and leads to none of the gated labels.
LEMMA ApprovalsElsewhere ==
    ASSUME Approvals, TypeOK', PromotedIsApproved', approved \subseteq approved',
           NEW t \in Tasks, Frame(t), pc'[t] \notin Gated, landed' = landed
    PROVE  Approvals'
<1>1. PassedIsApproved(t)'
  BY DEF PassedIsApproved, Gated
<1> QED
  BY <1>1, ApprovalsOfStep

\* The gate lets an artifact pass when a record promotes that very artifact.
LEMMA ClearedIsApproved ==
    ASSUME Approvals, NEW t \in Tasks, pc[t] = "gate", Cleared(t)
    PROVE  IsApproved(req[t], idx[t])
<1>1. TasksOK /\ TaskOK(t) /\ req[t] \in Requests
  BY TypeParts DEF Approvals, TasksOK, TaskOK, HasRequest, Publishing
<1>2. req[t].digests[idx[t]] \in Digests
  BY <1>1, RequestShape DEF TaskOK, HasArtifact, Publishing
<1> QED
  BY <1>2 DEF Cleared, Digest, Artifact, IsApproved, Approvals, PromotedIsApproved

\* Every step keeps the approvals.
LEMMA ApprovalsStep == Approvals /\ [Next]_vars => Approvals'
<1> SUFFICES ASSUME Approvals, [Next]_vars PROVE Approvals'
  OBVIOUS
<1>1. TypeOK /\ TypeOK' /\ StoreOK /\ TasksOK /\ \A t \in Tasks : TaskOK(t)
  BY TypeStep, TypeParts DEF Approvals
<1>2. ASSUME record' = record, approved' = approved PROVE PromotedIsApproved'
  BY <1>2 DEF Approvals, PromotedIsApproved
<1>3. ASSUME NEW t \in Clients, NEW q \in Requests, StartPublish(t, q) PROVE Approvals'
  <2>1. t \in Tasks /\ Frame(t) /\ pc'[t] \notin Gated
    BY <1>1, <1>3 DEF StartPublish, Goto, TasksOK, Frame, Gated, Tasks
  <2> QED
    BY <1>1, <1>2, <1>3, <2>1, ApprovalsElsewhere DEF StartPublish, store
<1>4. ASSUME NEW t \in Clients \cup Operators, Publish(t) PROVE Approvals'
  <2>1. t \in Tasks /\ Frame(t)
    BY <1>1, <1>4, PublishFrame DEF Tasks
  <2>2. ASSUME PublishOk(t) \/ PublishErr(t) PROVE pc'[t] \notin Gated
    BY <1>1, <2>1, <2>2 DEF PublishOk, PublishErr, Return, Goto, TasksOK, Gated
  <2>3. CASE LockAndCheck(t)
    <3>1. PromotedIsApproved' /\ approved' = approved /\ landed' = landed
      BY <1>2, <2>3 DEF LockAndCheck, store, history
    <3>2. CASE PublishErr(t)
      BY <1>1, <2>1, <2>2, <3>1, <3>2, ApprovalsElsewhere
    <3>3. CASE Goto(t, "gate") /\ UNCHANGED <<op, req, idx, hold, subject, copy>>
      <4>1. idx'[t] = 1 /\ pc'[t] = "gate"
        BY <1>1, <2>1, <2>3, <3>3 DEF LockAndCheck, Goto, TasksOK, TaskOK, AtStart
      <4>2. PassedIsApproved(t)'
        BY <4>1 DEF PassedIsApproved
      <4> QED
        BY <1>1, <2>1, <3>1, <4>2, ApprovalsOfStep
    <3> QED
      BY <2>3, <3>2, <3>3 DEF LockAndCheck
  <2>4. CASE ScanGate(t)
    <3>1. /\ PromotedIsApproved' /\ approved' = approved /\ landed' = landed
          /\ req' = req /\ pc[t] = "gate"
      BY <1>2, <2>4 DEF ScanGate, store, history
    <3>2. CASE Cleared(t) /\ Advance(t, "land")
      <4>1. /\ req[t] \in Requests /\ idx[t] \in DOMAIN req[t].digests
            /\ Len(req[t].digests) \in Nat \ {0}
            /\ DOMAIN req[t].digests = 1 .. Len(req[t].digests)
        BY <1>1, <2>1, <3>1, RequestShape DEF TasksOK, TaskOK, HasRequest, HasArtifact, Publishing
      <4>2. \A i \in 1 .. idx[t] : IsApproved(req[t], i)
        BY <2>1, <3>1, <3>2, <4>1, ClearedIsApproved DEF Approvals, PassedIsApproved
      <4>3. CASE ~Last(t) /\ idx' = [idx EXCEPT ![t] = @ + 1] /\ UNCHANGED pc
        <5>1. pc'[t] = "gate" /\ idx'[t] - 1 = idx[t] /\ req'[t] = req[t]
          BY <1>1, <2>1, <3>1, <4>1, <4>3 DEF TasksOK
        <5>2. PassedIsApproved(t)'
          BY <3>1, <4>2, <5>1 DEF PassedIsApproved, IsApproved
        <5> QED
          BY <1>1, <2>1, <3>1, <5>2, ApprovalsOfStep
      <4>4. CASE Last(t) /\ idx' = [idx EXCEPT ![t] = 1] /\ Goto(t, "land")
        <5>1. pc'[t] = "land" /\ req'[t] = req[t] /\ DOMAIN req[t].digests = 1 .. idx[t]
          BY <1>1, <2>1, <3>1, <4>1, <4>4 DEF TasksOK, Goto, Last
        <5>2. PassedIsApproved(t)'
          BY <3>1, <4>2, <5>1 DEF PassedIsApproved, IsApproved
        <5> QED
          BY <1>1, <2>1, <3>1, <5>2, ApprovalsOfStep
      <4> QED
        BY <3>2, <4>3, <4>4 DEF Advance
    <3>3. CASE Goto(t, "park")
      <4>1. pc'[t] \notin Gated
        BY <1>1, <2>1, <3>3 DEF Goto, TasksOK, Gated
      <4> QED
        BY <1>1, <2>1, <3>1, <4>1, ApprovalsElsewhere
    <3> QED
      BY <2>4, <3>2, <3>3 DEF ScanGate
  <2>5. CASE Land(t)
    <3>1. PromotedIsApproved' /\ approved' = approved /\ pc[t] = "land" /\ pc'[t] \notin Gated
      BY <1>2, <2>2, <2>5 DEF Land
    <3>2. \A i \in DOMAIN req[t].digests : IsApproved(req[t], i)
      BY <2>1, <3>1 DEF Approvals, PassedIsApproved
    <3>3. \A q \in landed' \ landed : \A i \in DOMAIN q.digests : IsApproved(q, i)'
      BY <2>5, <3>1, <3>2 DEF Land, IsApproved
    <3>4. PassedIsApproved(t)'
      BY <3>1 DEF PassedIsApproved, Gated
    <3> QED
      BY <1>1, <2>1, <3>1, <3>3, <3>4, ApprovalsOfStep
  <2>6. CASE ParkBytes(t)
    <3>1. PromotedIsApproved' /\ approved' = approved /\ landed' = landed
      BY <1>2, <2>6 DEF ParkBytes, history
    <3>2. pc'[t] \notin Gated
      BY <1>1, <2>1, <2>6 DEF ParkBytes, Advance, Goto, TasksOK, Gated
    <3> QED
      BY <1>1, <2>1, <3>1, <3>2, ApprovalsElsewhere
  <2>7. CASE ParkManifest(t)
    <3>1. PromotedIsApproved' /\ approved' = approved /\ landed' = landed
      BY <1>2, <2>7 DEF ParkManifest, history
    <3>2. pc'[t] \notin Gated
      BY <1>1, <2>1, <2>7 DEF ParkManifest, Goto, TasksOK, Gated
    <3> QED
      BY <1>1, <2>1, <3>1, <3>2, ApprovalsElsewhere
  <2>8. CASE ParkRecord(t)
    <3> DEFINE r == [artifact |-> <<req[t].coord, hold[t]>>, origin |-> "ingest", state |-> "quarantined"]
    <3>1. PromotedIsApproved'
      <4>1. record' = [record EXCEPT ![req[t].digests[hold[t]]] = r] /\ r.state # "promoted"
        BY <2>8 DEF ParkRecord
      <4> HIDE DEF r
      <4> QED
        BY <1>1, <2>8, <4>1 DEF ParkRecord, Approvals, PromotedIsApproved, StoreOK
    <3>2. approved' = approved /\ landed' = landed /\ pc'[t] \notin Gated
      BY <2>2, <2>8 DEF ParkRecord
    <3> QED
      BY <1>1, <2>1, <3>1, <3>2, ApprovalsElsewhere
  <2>9. CASE FailToPublish(t)
    <3>1. PromotedIsApproved' /\ approved' = approved /\ landed' = landed
      BY <1>2, <2>9 DEF FailToPublish, store, history
    <3> QED
      BY <1>1, <2>1, <2>2, <2>9, <3>1, ApprovalsElsewhere DEF FailToPublish
  <2> QED
    BY <1>4, <2>3, <2>4, <2>5, <2>6, <2>7, <2>8, <2>9 DEF Publish
<1>5. ASSUME NEW t \in Operators, NEW d \in Digests, NEW decision \in {"promote", "reject"},
             StartReview(t, d, decision)
      PROVE  Approvals'
  <2>1. t \in Tasks /\ Frame(t) /\ pc'[t] \notin Gated
    BY <1>1, <1>5 DEF StartReview, Goto, TasksOK, Frame, Gated, Tasks
  <2> QED
    BY <1>1, <1>2, <1>5, <2>1, ApprovalsElsewhere DEF StartReview, store, history
<1>6. ASSUME NEW t \in Operators, Review(t) PROVE Approvals'
  <2>1. t \in Tasks /\ Frame(t) /\ pc'[t] \notin Gated
    BY <1>1, <1>6, ReviewFrame DEF Tasks
  <2>2. ASSUME NEW state \in {"quarantined", "promoted", "rejected"},
               pc[t] \in {"stamp", "promote", "revert", "reject"},
               record' = [record EXCEPT ![subject[t]] = Decided(copy[t], state)],
               state = "promoted" => <<copy[t].artifact, subject[t]>> \in approved',
               approved \subseteq approved'
        PROVE  PromotedIsApproved'
    <3>1. copy[t] \in Record /\ subject[t] \in Digests
      BY <1>1, <2>1, <2>2 DEF TasksOK, TaskOK, HasRecord
    <3>2. Decided(copy[t], state).artifact = copy[t].artifact /\ Decided(copy[t], state).state = state
      BY <3>1, DecidedIsRecord
    <3> HIDE DEF Decided
    <3> QED
      BY <1>1, <2>2, <3>1, <3>2, RecordWritten DEF Approvals
  <2>3. PromotedIsApproved' /\ approved \subseteq approved' /\ landed' = landed
    <3>1. CASE LoadRecord(t) \/ LoadIngestRecord(t) \/ ReadManifest(t) \/ ReadBytes(t)
      BY <1>2, <3>1 DEF LoadRecord, LoadIngestRecord, ReadManifest, ReadBytes, store, history
    <3>2. CASE PurgeBytes(t) \/ PurgeManifest(t)
      BY <1>2, <3>2 DEF PurgeBytes, PurgeManifest, history
    <3>3. CASE StampRecord(t)
      <4>1. approved \subseteq approved' /\ landed' = landed
        BY <3>3 DEF StampRecord
      <4>2. CASE op[t] = "promote"
        BY <2>2, <3>3, <4>1, <4>2 DEF StampRecord
      <4>3. CASE op[t] = "reject"
        BY <2>2, <3>3, <4>1, <4>3 DEF StampRecord
      <4> QED
        BY <3>3, <4>1, <4>2, <4>3 DEF StampRecord
    <3>4. CASE MarkPromoted(t)
      BY <2>2, <3>4 DEF MarkPromoted
    <3>5. CASE Revert(t)
      BY <2>2, <3>5 DEF Revert, history
    <3>6. CASE MarkRejected(t)
      BY <2>2, <3>6 DEF MarkRejected
    <3>7. CASE FailReview(t)
      BY <1>2, <3>7 DEF FailReview, Stop, store
    <3> QED
      BY <1>6, <3>1, <3>2, <3>3, <3>4, <3>5, <3>6, <3>7 DEF Review
  <2> QED
    BY <1>1, <2>1, <2>3, ApprovalsElsewhere
<1>7. ASSUME NEW t \in Operators, CancelReview(t) PROVE Approvals'
  <2>1. t \in Tasks /\ Frame(t) /\ pc'[t] \notin Gated
    BY <1>1, <1>7 DEF CancelReview, Stop, Return, Goto, TasksOK, Frame, Gated, Tasks
  <2> QED
    BY <1>1, <1>2, <1>7, <2>1, ApprovalsElsewhere DEF CancelReview, Stop, store
<1>8. ASSUME NEW t \in Servers, NEW s \in Servable, CheckServe(t, s[1], s[2]) PROVE Approvals'
  <2>1. /\ t \in Tasks /\ Frame(t) /\ pc'[t] = "hold"
        /\ copy'[t] = [artifact |-> s[1], origin |-> "serve", state |-> "quarantined"]
    BY <1>1, <1>8 DEF CheckServe, Goto, TasksOK, Frame, Tasks
  <2>2. PassedIsApproved(t)'
    BY <2>1 DEF PassedIsApproved
  <2> QED
    BY <1>1, <1>2, <1>8, <2>1, <2>2, ApprovalsOfStep DEF CheckServe, store, history
<1>9. ASSUME NEW t \in Servers, HoldServe(t) PROVE Approvals'
  <2>1. t \in Tasks /\ Frame(t) /\ pc'[t] \notin Gated /\ subject[t] \in Digests
    BY <1>1, <1>9 DEF HoldServe, Return, Goto, TasksOK, TaskOK, HasRecord, Frame, Gated, Tasks
  <2>2. copy[t].state = "quarantined"
    BY <1>9, <2>1 DEF HoldServe, Approvals, PassedIsApproved
  <2>3. PromotedIsApproved'
    BY <1>1, <1>9, <2>1, <2>2, RecordWritten DEF HoldServe, history, Approvals
  <2> QED
    BY <1>1, <1>9, <2>1, <2>3, ApprovalsElsewhere DEF HoldServe, history
<1>10. CASE UNCHANGED vars
  BY <1>1, <1>10 DEF vars, store, taskVars, history, Approvals, PromotedIsApproved,
                     PassedIsApproved, IsApproved
<1> QED
  BY <1>3, <1>4, <1>5, <1>6, <1>7, <1>8, <1>9, <1>10 DEF Next

\* Nothing has landed and nothing is promoted at first.
LEMMA ApprovalsInit == Init => Approvals
  BY TypeInit DEF Init, Approvals, PromotedIsApproved, PassedIsApproved

\* A blocked artifact is published only when an operator promoted it under its
\* own coordinate.
THEOREM Approved == Spec => []LandedIsApproved
<1>1. Spec => []Approvals
  BY ApprovalsInit, ApprovalsStep, PTL DEF Spec
<1> QED
  BY <1>1, ApprovalsImply, PTL

-----------------------------------------------------------------------------
(* What is parked and what is rejected *)

Hashes(q) == {q.digests[i] : i \in DOMAIN q.digests}

\* One operator; clients do not send again what is parked, published or rejected;
\* the packages and the upstreams have no bytes in common; of a package one
\* artifact is blocked at most.
Orderly ==
    /\ \A o, p \in Operators : o = p
    /\ ~MayResend
    /\ \A q, r \in Requests : Hashes(q) \cap Hashes(r) # {} => q = r
    /\ \A q \in Requests, s \in Proxied : s[2] \notin Hashes(q)
    /\ \A q \in Requests : \A i, j \in DOMAIN q.digests :
         q.digests[i] \in Blocked /\ q.digests[j] \in Blocked => i = j

Replaying == {"lock", "gate", "land", "revert"}
Purging == {"purge", "purge_manifest", "reject"}
Reviewing == {"load", "rebuild", "read_bytes", "promote"} \cup Replaying \cup Purging

\* The digest has a review that was left half done.
HalfPromoted(d) == <<d, "promote">> \in halfway
HalfRejected(d) == <<d, "reject">> \in halfway

\* What is known of the publish q.  Its records are of that artifact, parked at
\* ingest.  It is parked, or published, or rejected, or none of these and then
\* nobody has decided anything about it.  Once rejected nobody can decide it again.
\* While it is parked it is all there until a rejection takes it away, and its
\* record says quarantined until a promotion replays it.
DecidedOnce(q) ==
    /\ q \in owed => q \notin landed \cup rejected
    /\ q \in landed => q \notin rejected
    /\ q \notin owed \cup landed \cup rejected => \A d \in Hashes(q) : record[d] = Nothing
    /\ q \in landed => \A d \in Hashes(q) : d \in Blocked => record[d] # Nothing
    /\ q \in rejected => \A d \in Hashes(q) : manifest[d] = Nothing

Parked(q) ==
    q \in owed =>
      /\ Hashes(q) \cap Blocked # {}
      /\ \A d \in Hashes(q) \cap Blocked :
           /\ record[d] # Nothing
           /\ \/ \E o \in Operators : subject[o] = d /\ pc[o] \in Replaying
              \/ HalfPromoted(d) \/ HalfRejected(d)
              \/ record[d].state = "quarantined"
           /\ \/ \E o \in Operators : subject[o] = d /\ pc[o] \in Purging
              \/ HalfRejected(d)
              \/ manifest[d] = q /\ Hashes(q) \subseteq held

RequestOK(q) ==
    /\ \A i \in DOMAIN q.digests :
         LET r == record[q.digests[i]] IN
         r # Nothing => /\ q.digests[i] \in Blocked
                        /\ r.artifact = <<q.coord, i>> /\ r.origin = "ingest"
    /\ DecidedOnce(q) /\ Parked(q)

\* A record of other bytes is of a serve, and a manifest is kept by the blocked
\* digest of its publish.
DigestOK(d) ==
    /\ record[d] # Nothing /\ record[d].origin = "ingest" => \E q \in Requests : d \in Hashes(q)
    /\ manifest[d] # Nothing => d \in Blocked /\ d \in Hashes(manifest[d])

\* A client's publish is not decided yet, it alone sends it, and what it has
\* parked so far is still there.
ClientOK(t) ==
    LET q == req[t] IN
    /\ pc[t] \in {"idle", "lock"} \cup Publishing
    /\ subject[t] = Nothing
    /\ pc[t] = "idle" <=> q = Nothing
    /\ pc[t] # "idle" =>
         /\ op[t] = "publish" /\ q \notin owed \cup landed \cup rejected
         /\ \A u \in Clients : req[u] = q => u = t
    /\ pc[t] = "gate" => \A i \in 1 .. idx[t] - 1 : q.digests[i] \notin Blocked
    /\ pc[t] = "land" => \A i \in DOMAIN q.digests : q.digests[i] \notin Blocked
    /\ pc[t] \in {"park", "manifest", "record"} =>
         hold[t] \in DOMAIN q.digests /\ q.digests[hold[t]] \in Blocked
    /\ pc[t] = "park" => \A i \in 1 .. idx[t] - 1 : q.digests[i] \in held
    /\ pc[t] \in {"manifest", "record"} => Hashes(q) \subseteq held
    /\ pc[t] = "record" => manifest[q.digests[hold[t]]] = q

\* What a review of the artifact i of q has in hand.
ReviewOK(o, q, i) ==
    /\ subject[o] = q.digests[i] /\ q.digests[i] \in Blocked /\ record[subject[o]] # Nothing
    /\ req[o] \in {q, Nothing}
    /\ pc[o] \in {"read_bytes", "promote", "purge", "purge_manifest"} \cup Replaying => req[o] = q
    /\ pc[o] # "load" => copy[o].artifact = <<q.coord, i>> /\ copy[o].origin = "ingest"
    /\ pc[o] \in {"promote"} \cup Replaying => op[o] = "promote"
    /\ pc[o] = "reject" => op[o] = "reject"
    /\ req[o] = q => q \in owed \cup landed
    /\ pc[o] \in {"read_bytes", "promote"} \cup Replaying => manifest[subject[o]] = q
    /\ pc[o] = "read_bytes" => \A j \in 1 .. idx[o] - 1 : q.digests[j] \in held
    /\ pc[o] \in {"promote"} \cup Replaying => Hashes(q) \subseteq held
    /\ pc[o] \in Replaying => record[subject[o]].state = "promoted"
    /\ pc[o] \in {"purge", "purge_manifest"} /\ op[o] = "promote" => q \in landed
    /\ pc[o] = "reject" /\ req[o] = q => manifest[subject[o]] = Nothing

OperatorOK(o) ==
    /\ pc[o] \in {"idle", "review", "stamp"} \cup Reviewing
    /\ pc[o] # "idle" => op[o] \in {"promote", "reject"}
    /\ pc[o] \in {"idle", "review", "stamp", "load", "rebuild"} => req[o] = Nothing
    /\ pc[o] = "idle" => subject[o] = Nothing
    /\ pc[o] \in {"review", "stamp"} => \A q \in Requests : subject[o] \notin Hashes(q)
    /\ pc[o] = "stamp" => copy[o].origin = "serve"
    /\ pc[o] \in Reviewing => \E q \in Requests : \E i \in DOMAIN q.digests : ReviewOK(o, q, i)

\* A serve holds proxied bytes only.
ServerOK(s) ==
    /\ pc[s] \in {"idle", "hold"} /\ req[s] = Nothing
    /\ \A q \in Requests : subject[s] \notin Hashes(q)
    /\ pc[s] = "hold" => copy[s].origin = "serve"

HoldInv ==
    /\ \A q \in Requests : RequestOK(q)
    /\ \A d \in Digests : DigestOK(d)
    /\ \A t \in Clients : ClientOK(t)
    /\ \A o \in Operators : OperatorOK(o)
    /\ \A s \in Servers : ServerOK(s)

\* The digests of a publish.
LEMMA HashShape ==
    ASSUME NEW q \in Requests
    PROVE  Hashes(q) \subseteq Digests /\ \A i \in DOMAIN q.digests : q.digests[i] \in Hashes(q)
BY RequestShape DEF Hashes

\* A digest is of one publish, and the blocked one is in one place of it.
LEMMA OneHome ==
    ASSUME Orderly, NEW q \in Requests, NEW r \in Requests, NEW d \in Hashes(q), d \in Hashes(r)
    PROVE  q = r
BY DEF Orderly

LEMMA OneBlocked ==
    ASSUME Orderly, NEW q \in Requests, NEW d \in Hashes(q) \cap Blocked, NEW e \in Hashes(q) \cap Blocked
    PROVE  d = e
BY DEF Orderly, Hashes

\* A step of t that concerns no publish but those of T.
Aside(t, T) ==
    /\ Frame(t)
    /\ \A q \in Requests \ T :
         /\ (q \in owed' <=> q \in owed) /\ (q \in landed' <=> q \in landed)
         /\ (q \in rejected' <=> q \in rejected)
         /\ \A d \in Hashes(q) :
              /\ record'[d] = record[d] /\ manifest'[d] = manifest[d] /\ (d \in held => d \in held')
              /\ (HalfPromoted(d)' <=> HalfPromoted(d)) /\ (HalfRejected(d)' <=> HalfRejected(d))
              /\ t \in Operators => subject[t] # d /\ subject'[t] # d

LEMMA RequestElsewhere ==
    ASSUME NEW t \in Tasks, NEW T, Aside(t, T), NEW q \in Requests \ T, RequestOK(q)
    PROVE  RequestOK(q)'
<1>1. ASSUME NEW o \in Operators, NEW d \in Hashes(q), NEW L
      PROVE  subject'[o] = d /\ pc'[o] \in L <=> subject[o] = d /\ pc[o] \in L
  <2>1. CASE o = t
    BY <2>1 DEF Aside
  <2>2. CASE o # t
    BY <2>2 DEF Aside, Frame, Tasks
  <2> QED BY <2>1, <2>2
<1>2. /\ (q \in owed' <=> q \in owed) /\ (q \in landed' <=> q \in landed)
      /\ (q \in rejected' <=> q \in rejected)
      /\ \A d \in Hashes(q) :
           /\ record'[d] = record[d] /\ manifest'[d] = manifest[d] /\ (d \in held => d \in held')
           /\ (HalfPromoted(d)' <=> HalfPromoted(d)) /\ (HalfRejected(d)' <=> HalfRejected(d))
  BY DEF Aside
<1>3. \A i \in DOMAIN q.digests : record'[q.digests[i]] = record[q.digests[i]]
  BY <1>2, HashShape
<1>4. DecidedOnce(q)'
  BY <1>2 DEF RequestOK, DecidedOnce
<1>5. Parked(q)'
  <2> SUFFICES ASSUME q \in owed', NEW d \in Hashes(q) \cap Blocked
               PROVE  /\ record'[d] # Nothing
                      /\ \/ \E o \in Operators : subject'[o] = d /\ pc'[o] \in Replaying
                         \/ HalfPromoted(d)' \/ HalfRejected(d)'
                         \/ record'[d].state = "quarantined"
                      /\ \/ \E o \in Operators : subject'[o] = d /\ pc'[o] \in Purging
                         \/ HalfRejected(d)'
                         \/ manifest'[d] = q /\ Hashes(q) \subseteq held'
    BY <1>2 DEF RequestOK, Parked
  <2>1. /\ record[d] # Nothing
        /\ \/ \E o \in Operators : subject[o] = d /\ pc[o] \in Replaying
           \/ HalfPromoted(d) \/ HalfRejected(d)
           \/ record[d].state = "quarantined"
        /\ \/ \E o \in Operators : subject[o] = d /\ pc[o] \in Purging
           \/ HalfRejected(d)
           \/ manifest[d] = q /\ Hashes(q) \subseteq held
    BY <1>2 DEF RequestOK, Parked
  <2>2. (\E o \in Operators : subject'[o] = d /\ pc'[o] \in Replaying)
          <=> \E o \in Operators : subject[o] = d /\ pc[o] \in Replaying
    BY <1>1
  <2>3. (\E o \in Operators : subject'[o] = d /\ pc'[o] \in Purging)
          <=> \E o \in Operators : subject[o] = d /\ pc[o] \in Purging
    BY <1>1
  <2>4. /\ record'[d] = record[d] /\ manifest'[d] = manifest[d]
        /\ (Hashes(q) \subseteq held => Hashes(q) \subseteq held')
        /\ (HalfPromoted(d)' <=> HalfPromoted(d)) /\ (HalfRejected(d)' <=> HalfRejected(d))
    BY <1>2
  <2> QED BY <2>1, <2>2, <2>3, <2>4
<1> QED BY <1>3, <1>4, <1>5 DEF RequestOK

LEMMA ClientElsewhere ==
    ASSUME TypeOK, NEW t \in Tasks, NEW T, Aside(t, T), NEW u \in Clients, u # t, ClientOK(u),
           req[u] \notin T, t \in Clients => req'[t] = Nothing \/ req'[t] # req[u]
    PROVE  ClientOK(u)'
<1>1. /\ pc'[u] = pc[u] /\ op'[u] = op[u] /\ req'[u] = req[u] /\ idx'[u] = idx[u]
      /\ hold'[u] = hold[u] /\ subject'[u] = subject[u]
  BY DEF Aside, Frame, Tasks
<1>2. CASE pc[u] = "idle"
  BY <1>1, <1>2 DEF ClientOK, Publishing
<1>3. CASE pc[u] # "idle"
  <2>1. req[u] \in Requests \ T /\ TaskOK(u) /\ u \in Tasks /\ TasksOK
    BY <1>3, TypeParts DEF ClientOK, TasksOK, Tasks
  <2>2. PICK q \in Requests \ T : q = req[u]
    BY <2>1
  <2>3. /\ (q \in owed' <=> q \in owed) /\ (q \in landed' <=> q \in landed)
        /\ (q \in rejected' <=> q \in rejected)
        /\ \A d \in Hashes(q) : manifest'[d] = manifest[d] /\ (d \in held => d \in held')
    BY DEF Aside
  <2>4. \A v \in Clients : req'[v] = q => v = u
    <3>1. \A v \in Clients : req[v] = q => v = u
      BY <1>3, <2>2 DEF ClientOK
    <3>2. \A v \in Clients : v # t => req'[v] = req[v]
      BY DEF Aside, Frame, Tasks
    <3>3. q # Nothing
      BY RequestShape
    <3> QED BY <2>2, <3>1, <3>2, <3>3
  <2>5. pc[u] = "park" => \A i \in 1 .. idx[u] - 1 : q.digests[i] \in held'
    <3>1. pc[u] = "park" => idx[u] \in 1 .. Len(q.digests)
      BY <2>1, <2>2, RequestShape DEF TaskOK, HasArtifact, Publishing
    <3>2. \A i \in 1 .. Len(q.digests) : q.digests[i] \in Hashes(q)
      BY HashShape, RequestShape
    <3>3. Len(q.digests) \in Nat
      BY RequestShape
    <3>4. pc[u] = "park" => \A i \in 1 .. idx[u] - 1 : i \in 1 .. Len(q.digests) /\ q.digests[i] \in held
      BY <2>2, <3>1, <3>3 DEF ClientOK
    <3> QED BY <2>3, <3>2, <3>4
  <2>6. pc[u] \in {"manifest", "record"} => Hashes(q) \subseteq held'
    BY <2>2, <2>3 DEF ClientOK
  <2>7. pc[u] = "record" => manifest'[q.digests[hold[u]]] = q
    BY <2>2, <2>3, HashShape DEF ClientOK
  <2>8. pc[u] = "gate" => \A i \in 1 .. idx[u] - 1 : q.digests[i] \notin Blocked
    BY <2>2 DEF ClientOK
  <2>9. pc[u] = "land" => \A i \in DOMAIN q.digests : q.digests[i] \notin Blocked
    BY <2>2 DEF ClientOK
  <2>10. /\ pc[u] \in {"idle", "lock"} \cup Publishing /\ subject[u] = Nothing /\ q # Nothing
         /\ op[u] = "publish" /\ q \notin owed \cup landed \cup rejected
         /\ pc[u] \in {"park", "manifest", "record"} =>
              hold[u] \in DOMAIN q.digests /\ q.digests[hold[u]] \in Blocked
    BY <1>3, <2>2, RequestShape DEF ClientOK
  <2>11. q \notin owed' \cup landed' \cup rejected' /\ req'[u] = q
    BY <1>1, <2>2, <2>3, <2>10
  <2> HIDE DEF Publishing
  <2> QED BY <1>1, <1>3, <2>4, <2>5, <2>6, <2>7, <2>8, <2>9, <2>10, <2>11 DEF ClientOK
<1> QED BY <1>2, <1>3

LEMMA OperatorElsewhere ==
    ASSUME TypeOK, NEW t \in Tasks, NEW T, Aside(t, T), NEW o \in Operators, o # t, OperatorOK(o),
           \A q \in Requests \cap T : subject[o] \notin Hashes(q)
    PROVE  OperatorOK(o)'
<1>1. /\ pc'[o] = pc[o] /\ op'[o] = op[o] /\ req'[o] = req[o] /\ idx'[o] = idx[o]
      /\ subject'[o] = subject[o] /\ copy'[o] = copy[o]
  BY DEF Aside, Frame, Tasks
<1>2. CASE pc[o] \in Reviewing
  <2>0. PICK q \in Requests : \E i \in DOMAIN q.digests : ReviewOK(o, q, i)
    BY <1>2 DEF OperatorOK
  <2>1. PICK i \in DOMAIN q.digests : ReviewOK(o, q, i)
    BY <2>0
  <2>2. q \notin T /\ subject[o] \in Hashes(q)
    BY <2>1, HashShape DEF ReviewOK
  <2>3. /\ (q \in owed' <=> q \in owed) /\ (q \in landed' <=> q \in landed)
        /\ record'[subject[o]] = record[subject[o]] /\ manifest'[subject[o]] = manifest[subject[o]]
        /\ \A d \in Hashes(q) : d \in held => d \in held'
    BY <2>2 DEF Aside
  <2>4. pc[o] = "read_bytes" => \A j \in 1 .. idx[o] - 1 : q.digests[j] \in held'
    <3>1. pc[o] = "read_bytes" => \A j \in 1 .. idx[o] - 1 : q.digests[j] \in held /\ j \in DOMAIN q.digests
      <4>1. ASSUME pc[o] = "read_bytes" PROVE req[o] = q /\ idx[o] \in 1 .. Len(q.digests)
        <5>1. req[o] = q /\ TaskOK(o)
          BY <2>1, <4>1, TypeParts DEF ReviewOK, Tasks
        <5> QED BY <4>1, <5>1, RequestShape DEF TaskOK, HasArtifact
      <4>2. Len(q.digests) \in Nat /\ DOMAIN q.digests = 1 .. Len(q.digests)
        BY RequestShape
      <4> QED BY <2>1, <4>1, <4>2 DEF ReviewOK
    <3> QED BY <2>3, <3>1, HashShape
  <2>5. ReviewOK(o, q, i)'
    <3>1. Hashes(q) \subseteq held => Hashes(q) \subseteq held'
      BY <2>3
    <3> QED BY <1>1, <2>1, <2>3, <2>4, <3>1 DEF ReviewOK
  <2> QED BY <1>1, <1>2, <2>5 DEF OperatorOK, Reviewing, Replaying, Purging
<1>3. CASE pc[o] \notin Reviewing
  BY <1>1, <1>3 DEF OperatorOK
<1> QED BY <1>2, <1>3

LEMMA ServerElsewhere ==
    ASSUME NEW t \in Tasks, Frame(t), NEW s \in Servers, s # t, ServerOK(s)
    PROVE  ServerOK(s)'
BY DEF Frame, ServerOK, Tasks

\* It is enough to look at the task that moves and at what it is about.
LEMMA HoldOfStep ==
    ASSUME Orderly, TypeOK, HoldInv, NEW t \in Tasks, NEW T \in SUBSET Requests, Aside(t, T),
           \A u \in Clients : u # t => req[u] \notin T,
           t \in Clients => req'[t] \in {req[t], Nothing} \cup T,
           \A o \in Operators : o # t => \A q \in T : subject[o] \notin Hashes(q),
           t \in Clients => ClientOK(t)', t \in Operators => OperatorOK(t)', t \in Servers => ServerOK(t)',
           \A q \in T : RequestOK(q)',
           \A d \in Digests : DigestOK(d)'
    PROVE  HoldInv'
<1>1. \A q \in Requests : RequestOK(q)'
  BY RequestElsewhere DEF HoldInv
<1>2. ASSUME NEW u \in Clients, u # t PROVE ClientOK(u)'
  <2>1. ClientOK(u) /\ req[u] \notin T
    BY <1>2 DEF HoldInv
  <2>2. t \in Clients => req'[t] = Nothing \/ req'[t] # req[u]
    <3>1. ASSUME t \in Clients, req'[t] = req[u], req[u] # Nothing PROVE FALSE
      <4>1. req[t] = req[u]
        BY <2>1, <3>1
      <4> QED BY <1>2, <2>1, <3>1, <4>1 DEF ClientOK
    <3> QED BY <3>1
  <2> QED BY <1>2, <2>1, <2>2, ClientElsewhere
<1>3. ASSUME NEW o \in Operators, o # t PROVE OperatorOK(o)'
  BY <1>3, OperatorElsewhere DEF HoldInv
<1>4. ASSUME NEW s \in Servers, s # t PROVE ServerOK(s)'
  BY <1>4, ServerElsewhere DEF HoldInv, Aside
<1> QED BY <1>1, <1>2, <1>3, <1>4 DEF HoldInv

-----------------------------------------------------------------------------
(* Steps of a client *)

\* Nobody reviews what is not decided.
LEMMA FreshUnreviewed ==
    ASSUME TypeOK, HoldInv, NEW q \in Requests, q \notin owed \cup landed \cup rejected
    PROVE  /\ \A d \in Hashes(q) : record[d] = Nothing
           /\ \A o \in Operators : subject[o] \notin Hashes(q)
<1>1. \A d \in Hashes(q) : record[d] = Nothing
  BY DEF HoldInv, RequestOK, DecidedOnce
<1>2. ASSUME NEW o \in Operators, subject[o] \in Hashes(q) PROVE FALSE
  <2>1. OperatorOK(o) /\ subject[o] # Nothing
    BY <1>2, HashShape, NothingAssumption DEF HoldInv
  <2>2. record[subject[o]] # Nothing
    BY <1>2, <2>1 DEF OperatorOK, ReviewOK
  <2> QED BY <1>1, <1>2, <2>2
<1> QED BY <1>1, <1>2

\* What a client that publishes has in hand.
LEMMA ClientShape ==
    ASSUME TypeOK, HoldInv, NEW t \in Clients, pc[t] # "idle"
    PROVE  /\ req[t] \in Requests /\ op[t] = "publish" /\ subject[t] = Nothing
           /\ req[t] \notin owed \cup landed \cup rejected
           /\ \A d \in Hashes(req[t]) : record[d] = Nothing
           /\ \A o \in Operators : subject[o] \notin Hashes(req[t])
           /\ \A u \in Clients : u # t => req[u] # req[t]
           /\ t \in Tasks /\ t \notin Operators /\ t \notin Servers /\ TasksOK /\ TaskOK(t)
<1>1. t \in Tasks /\ t \notin Operators /\ t \notin Servers /\ TasksOK /\ TaskOK(t) /\ ClientOK(t)
  BY TypeParts, RolesAssumption DEF HoldInv, Tasks
<1>2. req[t] \in Requests /\ req[t] \notin owed \cup landed \cup rejected
  BY <1>1 DEF ClientOK, TasksOK
<1> QED BY <1>1, <1>2, FreshUnreviewed DEF ClientOK

\* A client's step that decides nothing.
LEMMA ClientMoves ==
    ASSUME Orderly, TypeOK, HoldInv, NEW t \in Clients, Frame(t),
           UNCHANGED <<record, manifest, landed, owed, rejected, halfway>>, held \subseteq held',
           req'[t] \in {req[t], Nothing}, ClientOK(t)'
    PROVE  HoldInv'
<1>1. t \in Tasks /\ t \notin Operators /\ t \notin Servers
  BY RolesAssumption DEF Tasks
<1>2. Aside(t, {})
  BY <1>1 DEF Aside, HalfPromoted, HalfRejected
<1>3. \A d \in Digests : DigestOK(d)'
  BY DEF HoldInv, DigestOK
<1> QED BY <1>1, <1>2, <1>3, HoldOfStep

\* It has returned.
LEMMA ClientReturns ==
    ASSUME TypeOK, NEW t \in Clients, Return(t)
    PROVE  ClientOK(t)' /\ Frame(t) /\ req'[t] = Nothing
<1>1. t \in Tasks /\ TasksOK
  BY TypeParts DEF Tasks
<1>2. pc'[t] = "idle" /\ req'[t] = Nothing /\ subject'[t] = Nothing
  BY <1>1 DEF Return, Goto, TasksOK
<1>3. ClientOK(t)'
  BY <1>2 DEF ClientOK, Publishing
<1>4. Frame(t)
  BY <1>1 DEF Return, Goto, TasksOK, Frame
<1> QED BY <1>2, <1>3, <1>4

\* It goes on with its publish.
LEMMA ClientGoes ==
    ASSUME TypeOK, HoldInv, NEW t \in Clients, pc[t] # "idle", Frame(t),
           UNCHANGED <<op, req, subject, owed, landed, rejected>>,
           pc'[t] \in Publishing,
           pc'[t] = "gate" => \A i \in 1 .. idx'[t] - 1 : req[t].digests[i] \notin Blocked,
           pc'[t] = "land" => \A i \in DOMAIN req[t].digests : req[t].digests[i] \notin Blocked,
           pc'[t] \in {"park", "manifest", "record"} =>
             hold'[t] \in DOMAIN req[t].digests /\ req[t].digests[hold'[t]] \in Blocked,
           pc'[t] = "park" => \A i \in 1 .. idx'[t] - 1 : req[t].digests[i] \in held',
           pc'[t] \in {"manifest", "record"} => Hashes(req[t]) \subseteq held',
           pc'[t] = "record" => manifest'[req[t].digests[hold'[t]]] = req[t]
    PROVE  ClientOK(t)'
<1>1. PICK q \in Requests : q = req[t] /\ q # Nothing
  BY ClientShape, RequestShape
<1>2. op'[t] = "publish" /\ q \notin owed' \cup landed' \cup rejected' /\ subject'[t] = Nothing
  BY <1>1, ClientShape
<1>3. \A u \in Clients : req'[u] = q => u = t
  BY <1>1, ClientShape
<1>4. req'[t] = q /\ pc'[t] # "idle"
  BY <1>1 DEF Publishing
<1> QED BY <1>1, <1>2, <1>3, <1>4 DEF ClientOK

LEMMA HoldOfStartPublish ==
    ASSUME Orderly, TypeOK, HoldInv, NEW t \in Clients, NEW q \in Requests, StartPublish(t, q)
    PROVE  HoldInv'
<1>1. /\ t \in Tasks /\ TasksOK /\ t \notin Operators /\ t \notin Servers /\ ClientOK(t)
  BY TypeParts, RolesAssumption DEF Tasks, HoldInv
<1>2. /\ q \notin owed \cup landed \cup rejected /\ \A u \in Clients : req[u] # q
      /\ pc[t] = "idle" /\ UNCHANGED <<store, owed, halfway>> /\ rejected' = rejected
  BY DEF Orderly, StartPublish
<1>3. Frame(t)
  BY <1>1 DEF StartPublish, Goto, TasksOK, Frame
<1>4. pc'[t] = "lock" /\ req'[t] = q /\ op'[t] = "publish" /\ subject'[t] = subject[t]
  BY <1>1 DEF StartPublish, Goto, TasksOK
<1>5. Aside(t, {}) /\ Aside(t, {q})
  BY <1>1, <1>2, <1>3 DEF Aside, store, HalfPromoted, HalfRejected
<1>6. RequestOK(q)'
  BY <1>1, <1>5, RequestElsewhere DEF HoldInv
<1>7. ClientOK(t)'
  <2>1. \A u \in Clients : req'[u] = q => u = t
    BY <1>2, <1>3 DEF Frame, Tasks
  <2>2. q # Nothing /\ q \notin owed' \cup landed' \cup rejected'
    BY <1>2, RequestShape DEF store
  <2> QED BY <1>1, <1>4, <2>1, <2>2 DEF ClientOK
<1>8. \A d \in Digests : DigestOK(d)'
  BY <1>2 DEF HoldInv, DigestOK, store
<1>9. \A o \in Operators : \A r \in {q} : subject[o] \notin Hashes(r)
  BY <1>2, FreshUnreviewed
<1>10. /\ \A u \in Clients : u # t => req[u] \notin {q}
       /\ req'[t] \in {req[t], Nothing} \cup {q}
       /\ \A r \in {q} : RequestOK(r)'
  BY <1>2, <1>4, <1>6
<1> QED BY <1>1, <1>5, <1>7, <1>8, <1>9, <1>10, HoldOfStep

LEMMA HoldOfPublishEnd ==
    ASSUME Orderly, TypeOK, HoldInv, NEW t \in Clients, pc[t] # "idle", PublishErr(t),
           UNCHANGED <<store, history>>
    PROVE  HoldInv'
<1>1. Return(t)
  BY ClientShape DEF PublishErr
<1> QED BY <1>1, ClientReturns, ClientMoves DEF store, history

LEMMA HoldOfLockAndCheck ==
    ASSUME Orderly, TypeOK, HoldInv, NEW t \in Clients, LockAndCheck(t)
    PROVE  HoldInv'
<1>1. pc[t] = "lock" /\ t \in Tasks /\ TasksOK /\ TaskOK(t) /\ UNCHANGED <<store, history>>
  BY TypeParts DEF LockAndCheck, Tasks
<1>2. CASE PublishErr(t)
  BY <1>1, <1>2, HoldOfPublishEnd
<1>3. CASE Goto(t, "gate") /\ UNCHANGED <<op, req, idx, hold, subject, copy>>
  <2>1. pc'[t] = "gate" /\ idx'[t] = 1 /\ Frame(t)
    BY <1>1, <1>3 DEF Goto, TasksOK, TaskOK, AtStart, Frame
  <2>2. \A i \in 1 .. idx'[t] - 1 : FALSE
    BY <2>1
  <2>3. ClientOK(t)'
    BY <1>1, <1>3, <2>1, <2>2, ClientGoes DEF Publishing, store, history
  <2> QED BY <1>1, <1>3, <2>1, <2>3, ClientMoves DEF store, history
<1> QED BY <1>2, <1>3 DEF LockAndCheck

\* The place a task is at in its request.
LEMMA Place ==
    ASSUME TypeOK, NEW t \in Tasks, pc[t] \in HasArtifact, pc[t] \in HasRequest
    PROVE  /\ req[t] \in Requests /\ Len(req[t].digests) \in Nat \ {0}
           /\ DOMAIN req[t].digests = 1 .. Len(req[t].digests)
           /\ idx[t] \in 1 .. Len(req[t].digests)
           /\ Digest(t) = req[t].digests[idx[t]] /\ Digest(t) \in Hashes(req[t])
           /\ Last(t) <=> idx[t] = Len(req[t].digests)
<1>1. TasksOK /\ TaskOK(t) /\ req[t] \in Requests
  BY TypeParts DEF TasksOK, TaskOK
<1>2. idx[t] \in DOMAIN req[t].digests
  BY <1>1 DEF TaskOK
<1>3. Len(req[t].digests) \in Nat \ {0} /\ DOMAIN req[t].digests = 1 .. Len(req[t].digests)
  BY <1>1, RequestShape
<1> QED BY <1>1, <1>2, <1>3, HashShape DEF Digest, Last

\* On from one artifact to the next, or over the last one.
LEMMA Advances ==
    ASSUME TypeOK, NEW t \in Tasks, pc[t] \in HasArtifact, pc[t] \in HasRequest,
           NEW label, Advance(t, label), UNCHANGED <<op, req, subject, copy>>,
           hold' = hold \/ hold' = [hold EXCEPT ![t] = idx[t]]
    PROVE  /\ Frame(t)
           /\ \/ /\ pc'[t] = pc[t] /\ idx'[t] = idx[t] + 1
                 /\ 1 .. idx'[t] - 1 = (1 .. idx[t] - 1) \cup {idx[t]}
              \/ /\ pc'[t] = label
                 /\ DOMAIN req[t].digests = (1 .. idx[t] - 1) \cup {idx[t]}
<1>1. TasksOK
  BY TypeParts
<1>2. idx[t] \in 1 .. Len(req[t].digests) /\ Len(req[t].digests) \in Nat
      /\ DOMAIN req[t].digests = 1 .. Len(req[t].digests)
      /\ (Last(t) <=> idx[t] = Len(req[t].digests))
  BY Place
<1>3. Frame(t)
  BY <1>1 DEF Advance, Goto, TasksOK, Frame
<1>4. CASE ~Last(t) /\ idx' = [idx EXCEPT ![t] = @ + 1] /\ UNCHANGED pc
  <2>1. idx'[t] = idx[t] + 1 /\ pc'[t] = pc[t]
    BY <1>1, <1>4 DEF TasksOK
  <2> QED BY <1>2, <1>3, <2>1
<1>5. CASE Last(t) /\ idx' = [idx EXCEPT ![t] = 1] /\ Goto(t, label)
  <2>1. pc'[t] = label
    BY <1>1, <1>5 DEF TasksOK, Goto
  <2> QED BY <1>2, <1>3, <1>5, <2>1
<1> QED BY <1>4, <1>5 DEF Advance

LEMMA HoldOfScanGate ==
    ASSUME Orderly, TypeOK, HoldInv, NEW t \in Clients, ScanGate(t)
    PROVE  HoldInv'
<1>1. /\ pc[t] = "gate" /\ t \in Tasks /\ TasksOK /\ UNCHANGED <<store, history, op, req, subject, copy>>
      /\ pc[t] \in HasArtifact /\ pc[t] \in HasRequest
  BY TypeParts DEF ScanGate, Tasks, HasArtifact, HasRequest, Publishing
<1>2. /\ Digest(t) \in Hashes(req[t]) /\ record[Digest(t)] = Nothing /\ idx[t] \in DOMAIN req[t].digests
      /\ Digest(t) = req[t].digests[idx[t]]
  BY <1>1, Place, ClientShape
<1>3. Cleared(t) <=> Digest(t) \notin Blocked
  BY <1>2 DEF Cleared
<1>4. CASE Cleared(t) /\ Advance(t, "land") /\ UNCHANGED hold
  <2>1. \A i \in (1 .. idx[t] - 1) \cup {idx[t]} : req[t].digests[i] \notin Blocked
    BY <1>1, <1>2, <1>3, <1>4 DEF HoldInv, ClientOK
  <2>2. /\ Frame(t)
        /\ \/ pc'[t] = "gate" /\ \A i \in 1 .. idx'[t] - 1 : req[t].digests[i] \notin Blocked
           \/ pc'[t] = "land" /\ \A i \in DOMAIN req[t].digests : req[t].digests[i] \notin Blocked
    BY <1>1, <1>4, <2>1, Advances
  <2>3. ClientOK(t)'
    BY <1>1, <2>2, ClientGoes DEF Publishing, store, history
  <2> QED BY <1>1, <2>2, <2>3, ClientMoves DEF store, history
<1>5. CASE /\ ~Cleared(t)
           /\ hold' = [hold EXCEPT ![t] = idx[t]]
           /\ idx' = [idx EXCEPT ![t] = 1]
           /\ Goto(t, "park")
  <2>1. pc'[t] = "park" /\ hold'[t] = idx[t] /\ idx'[t] = 1 /\ Frame(t)
    BY <1>1, <1>5 DEF Goto, TasksOK, Frame
  <2>2. \A i \in 1 .. idx'[t] - 1 : FALSE
    BY <2>1
  <2>3. ClientOK(t)'
    BY <1>1, <1>2, <1>3, <1>5, <2>1, <2>2, ClientGoes DEF Publishing, store, history
  <2> QED BY <1>1, <2>1, <2>3, ClientMoves DEF store, history
<1> QED BY <1>4, <1>5 DEF ScanGate

LEMMA HoldOfParkBytes ==
    ASSUME Orderly, TypeOK, HoldInv, NEW t \in Clients, ParkBytes(t)
    PROVE  HoldInv'
<1>1. /\ pc[t] = "park" /\ t \in Tasks
      /\ UNCHANGED <<record, manifest, landed, history, op, req, subject, copy, hold>>
      /\ pc[t] \in HasArtifact /\ pc[t] \in HasRequest /\ held' = held \cup {Digest(t)}
      /\ Advance(t, "manifest")
  BY DEF ParkBytes, Tasks, HasArtifact, HasRequest, Publishing
<1>2. Digest(t) = req[t].digests[idx[t]]
  BY DEF Digest
<1>3. \A i \in (1 .. idx[t] - 1) \cup {idx[t]} : req[t].digests[i] \in held'
  BY <1>1, <1>2 DEF HoldInv, ClientOK
<1>4. /\ Frame(t)
      /\ \/ pc'[t] = "park" /\ \A i \in 1 .. idx'[t] - 1 : req[t].digests[i] \in held'
         \/ pc'[t] = "manifest" /\ \A i \in DOMAIN req[t].digests : req[t].digests[i] \in held'
  BY <1>1, <1>3, Advances
<1>5. pc'[t] = "manifest" => Hashes(req[t]) \subseteq held'
  BY <1>4 DEF Hashes
<1>6. hold'[t] \in DOMAIN req[t].digests /\ req[t].digests[hold'[t]] \in Blocked
  BY <1>1 DEF HoldInv, ClientOK
<1>7. pc'[t] \in {"park", "manifest"}
  BY <1>4
<1>8. ClientOK(t)'
  BY <1>1, <1>4, <1>5, <1>6, <1>7, ClientGoes DEF Publishing, history
<1> QED BY <1>1, <1>4, <1>8, ClientMoves DEF history

\* A client's step that changes what is known of its own publish.
LEMMA ClientDecides ==
    ASSUME Orderly, TypeOK, HoldInv, NEW t \in Clients, pc[t] # "idle", Frame(t),
           NEW q \in Requests, q = req[t],
           \A r \in Requests \ {q} :
             /\ (r \in owed' <=> r \in owed) /\ (r \in landed' <=> r \in landed)
             /\ (r \in rejected' <=> r \in rejected),
           \A d \in Digests \ Hashes(q) : record'[d] = record[d] /\ manifest'[d] = manifest[d],
           held' = held, halfway' = halfway, req'[t] \in {q, Nothing},
           ClientOK(t)', RequestOK(q)', \A d \in Hashes(q) : DigestOK(d)'
    PROVE  HoldInv'
<1>2. /\ t \in Tasks /\ t \notin Operators /\ t \notin Servers
      /\ \A u \in Clients : u # t => req[u] # q
      /\ \A o \in Operators : subject[o] \notin Hashes(q)
  BY ClientShape
<1>3. Aside(t, {q})
  <2>1. ASSUME NEW r \in Requests \ {q}, NEW d \in Hashes(r)
        PROVE  record'[d] = record[d] /\ manifest'[d] = manifest[d]
    <3>1. d \in Digests /\ d \notin Hashes(q)
      BY <2>1, HashShape, OneHome
    <3> QED BY <3>1
  <2> QED BY <1>2, <2>1 DEF Aside, HalfPromoted, HalfRejected
<1>4. ASSUME NEW d \in Digests PROVE DigestOK(d)'
  <2>1. CASE d \in Hashes(q)
    BY <2>1
  <2>2. CASE d \notin Hashes(q)
    BY <2>2 DEF HoldInv, DigestOK
  <2> QED BY <2>1, <2>2
<1>5. \A r \in {q} : RequestOK(r)'
  OBVIOUS
<1>6. req'[t] \in {req[t], Nothing} \cup {q}
  OBVIOUS
<1> QED BY <1>2, <1>3, <1>4, <1>5, <1>6, HoldOfStep

LEMMA HoldOfParkManifest ==
    ASSUME Orderly, TypeOK, HoldInv, NEW t \in Clients, ParkManifest(t)
    PROVE  HoldInv'
<1>1. /\ pc[t] = "manifest" /\ t \in Tasks /\ TasksOK /\ StoreOK /\ ClientOK(t)
      /\ UNCHANGED <<record, held, landed, op, req, idx, hold, subject, copy, history>>
      /\ Goto(t, "record")
  BY TypeParts DEF ParkManifest, Tasks, HoldInv
<1>2. PICK q \in Requests : q = req[t]
  BY <1>1, ClientShape
<1>3. PICK d \in Digests : d = q.digests[hold[t]] /\ d \in Hashes(q) /\ d \in Blocked
  BY <1>1, <1>2, HashShape DEF ClientOK
<1>4. manifest' = [manifest EXCEPT ![d] = q]
  BY <1>2, <1>3 DEF ParkManifest
<1>5. pc'[t] = "record" /\ Frame(t)
  BY <1>1 DEF Goto, TasksOK, Frame
<1>6. ClientOK(t)'
  <2>1. manifest'[req[t].digests[hold'[t]]] = req[t]
    BY <1>1, <1>2, <1>3, <1>4 DEF StoreOK
  <2>2. Hashes(req[t]) \subseteq held' /\ hold'[t] \in DOMAIN req[t].digests
        /\ req[t].digests[hold'[t]] \in Blocked
    BY <1>1 DEF ClientOK
  <2> QED BY <1>1, <1>5, <2>1, <2>2, ClientGoes DEF Publishing, history
<1>7. q \notin owed' \cup landed' \cup rejected' /\ \A e \in Hashes(q) : record'[e] = Nothing
  BY <1>1, <1>2, ClientShape DEF history
<1>8. RequestOK(q)'
  BY <1>7, HashShape DEF RequestOK, DecidedOnce, Parked
<1>9. ASSUME NEW e \in Hashes(q) PROVE DigestOK(e)'
  <2>1. e \in Digests /\ DigestOK(e)
    BY HashShape DEF HoldInv
  <2>2. manifest'[e] = IF e = d THEN q ELSE manifest[e]
    BY <1>1, <1>4, <2>1 DEF StoreOK
  <2> QED BY <1>1, <1>3, <2>1, <2>2 DEF DigestOK
<1>10. \A e \in Digests \ Hashes(q) : record'[e] = record[e] /\ manifest'[e] = manifest[e]
  BY <1>1, <1>3, <1>4 DEF StoreOK
<1> QED BY <1>1, <1>2, <1>5, <1>6, <1>8, <1>9, <1>10, ClientDecides DEF history

LEMMA HoldOfParkRecord ==
    ASSUME Orderly, TypeOK, HoldInv, NEW t \in Clients, ParkRecord(t)
    PROVE  HoldInv'
<1>1. /\ pc[t] = "record" /\ t \in Tasks /\ TasksOK /\ StoreOK /\ ClientOK(t)
      /\ UNCHANGED <<manifest, held, landed, rejected, halfway>>
  BY TypeParts DEF ParkRecord, Tasks, HoldInv
<1>2. PICK q \in Requests : q = req[t]
  BY <1>1, ClientShape
<1>3. PICK k \in DOMAIN q.digests : k = hold[t] /\ q.digests[k] \in Blocked
  BY <1>1, <1>2 DEF ClientOK
<1>4. PICK d \in Digests : d = q.digests[k] /\ d \in Hashes(q) /\ d \in Blocked
  BY <1>3, HashShape
<1>5. PICK r \in Record : /\ r = [artifact |-> <<q.coord, k>>, origin |-> "ingest", state |-> "quarantined"]
                          /\ r # Nothing /\ r.artifact = <<q.coord, k>> /\ r.origin = "ingest"
                          /\ r.state = "quarantined"
  <2>1. <<q.coord, k>> \in ArtifactId
    BY RequestShape DEF ArtifactId
  <2>2. [artifact |-> <<q.coord, k>>, origin |-> "ingest", state |-> "quarantined"] \in Record
    BY <2>1 DEF Record
  <2>3. [artifact |-> <<q.coord, k>>, origin |-> "ingest", state |-> "quarantined"] # Nothing
    BY <2>2, NothingAssumption
  <2> QED BY <2>2, <2>3
<1>6. record' = [record EXCEPT ![d] = r] /\ owed' = owed \cup {q}
  BY <1>2, <1>3, <1>4, <1>5 DEF ParkRecord
<1>7. Return(t)
  BY <1>1, ClientShape DEF ParkRecord, PublishOk
<1>8. ClientOK(t)' /\ Frame(t) /\ req'[t] = Nothing
  BY <1>7, ClientReturns
<1>9. /\ q \notin landed \cup rejected /\ \A e \in Hashes(q) : record[e] = Nothing
      /\ \A o \in Operators : subject[o] \notin Hashes(q)
      /\ t \notin Operators
  BY <1>1, <1>2, ClientShape
<1>10. \A o \in Operators : subject'[o] \notin Hashes(q)
  BY <1>8, <1>9 DEF Frame, Tasks
<1>11. \A e \in Digests : record'[e] = IF e = d THEN r ELSE record[e]
  BY <1>1, <1>6 DEF StoreOK
<1>12. RequestOK(q)'
  <2>1. ASSUME NEW i \in DOMAIN q.digests, record'[q.digests[i]] # Nothing
        PROVE  /\ q.digests[i] \in Blocked /\ record'[q.digests[i]].artifact = <<q.coord, i>>
               /\ record'[q.digests[i]].origin = "ingest"
    <3>1. q.digests[i] \in Hashes(q) /\ q.digests[i] \in Digests
      BY HashShape
    <3>2. q.digests[i] = d
      BY <1>9, <1>11, <2>1, <3>1
    <3>3. i = k
      BY <1>4, <3>2 DEF Orderly
    <3> QED BY <1>4, <1>5, <1>11, <3>2, <3>3
  <2>2. \A e \in Hashes(q) \cap Blocked : e = d
    BY <1>4, OneBlocked
  <2>3. manifest'[d] = q /\ Hashes(q) \subseteq held'
    BY <1>1, <1>2, <1>3, <1>4 DEF ClientOK
  <2>4. Parked(q)'
    BY <1>4, <1>5, <1>10, <1>11, <2>2, <2>3 DEF Parked
  <2>5. DecidedOnce(q)'
    BY <1>1, <1>6, <1>9 DEF DecidedOnce
  <2> QED BY <2>1, <2>4, <2>5 DEF RequestOK
<1>13. ASSUME NEW e \in Hashes(q) PROVE DigestOK(e)'
  BY <1>1, HashShape DEF HoldInv, DigestOK
<1>14. \A e \in Digests \ Hashes(q) : record'[e] = record[e] /\ manifest'[e] = manifest[e]
  BY <1>1, <1>4, <1>11
<1> QED BY <1>1, <1>2, <1>6, <1>8, <1>12, <1>13, <1>14, ClientDecides

LEMMA HoldOfLand ==
    ASSUME Orderly, TypeOK, HoldInv, NEW t \in Clients, Land(t)
    PROVE  HoldInv'
<1>1. /\ pc[t] = "land" /\ ClientOK(t) /\ UNCHANGED <<record, manifest, held, approved, rejected, halfway>>
  BY DEF Land, HoldInv
<1>2. PICK q \in Requests : q = req[t]
  BY <1>1, ClientShape
<1>3. /\ q \notin owed \cup rejected /\ \A e \in Hashes(q) : record[e] = Nothing
  BY <1>1, <1>2, ClientShape
<1>4. Return(t)
  BY <1>1, ClientShape DEF Land, PublishOk, PublishErr
<1>5. ClientOK(t)' /\ Frame(t) /\ req'[t] = Nothing
  BY <1>4, ClientReturns
<1>6. CASE landed' = landed \cup {q} /\ owed' = owed \ {q}
  <2>1. \A e \in Hashes(q) : e \notin Blocked
    BY <1>1, <1>2 DEF ClientOK, Hashes
  <2>2. \A e \in Hashes(q) : manifest[e] = Nothing
    BY <2>1, HashShape DEF HoldInv, DigestOK
  <2>3. RequestOK(q)'
    BY <1>1, <1>3, <1>6, <2>1, <2>2, HashShape DEF RequestOK, DecidedOnce, Parked
  <2>4. \A e \in Hashes(q) : DigestOK(e)'
    BY <1>1, HashShape DEF HoldInv, DigestOK
  <2> QED BY <1>1, <1>2, <1>5, <1>6, <2>3, <2>4, ClientDecides
<1>7. CASE UNCHANGED <<landed, owed>>
  BY <1>1, <1>5, <1>7, ClientMoves
<1> QED BY <1>2, <1>6, <1>7 DEF Land

LEMMA HoldOfPublish ==
    ASSUME Orderly, TypeOK, HoldInv, NEW t \in Clients, Publish(t)
    PROVE  HoldInv'
<1>1. FailToPublish(t) => HoldInv'
  BY HoldOfPublishEnd DEF FailToPublish
<1> QED BY <1>1, HoldOfLockAndCheck, HoldOfScanGate, HoldOfLand, HoldOfParkBytes, HoldOfParkManifest,
           HoldOfParkRecord DEF Publish

-----------------------------------------------------------------------------
(* Steps of the operator *)

\* A decision is of the same artifact and the same kind of hold.
LEMMA DecidedOrigin ==
    ASSUME NEW r \in Record, NEW state \in {"quarantined", "promoted", "rejected"}
    PROVE  Decided(r, state).origin = r.origin
BY DEF Decided, Record

\* RequestOK of the publish q, once its blocked artifact i has a record.
Settled(t, q, i) ==
    LET d == q.digests[i] IN
    /\ record[d] # Nothing /\ record[d].artifact = <<q.coord, i>> /\ record[d].origin = "ingest"
    /\ \A e \in Hashes(q) \ {d} : record[e] = Nothing /\ manifest[e] = Nothing
    /\ q \in owed \cup landed \cup rejected
    /\ q \in owed => q \notin landed \cup rejected
    /\ q \in landed => q \notin rejected
    /\ q \in rejected => manifest[d] = Nothing
    /\ q \in owed =>
         /\ \/ subject[t] = d /\ pc[t] \in Replaying
            \/ HalfPromoted(d) \/ HalfRejected(d)
            \/ record[d].state = "quarantined"
         /\ \/ subject[t] = d /\ pc[t] \in Purging
            \/ HalfRejected(d)
            \/ manifest[d] = q /\ Hashes(q) \subseteq held

LEMMA IsSettled ==
    ASSUME Orderly, HoldInv, NEW t \in Operators, NEW q \in Requests, NEW i \in DOMAIN q.digests,
           record[q.digests[i]] # Nothing
    PROVE  Settled(t, q, i) /\ q.digests[i] \in Hashes(q) \cap Blocked
<1>1. PICK d \in Digests : d = q.digests[i] /\ d \in Hashes(q)
  BY HashShape
<1>2. RequestOK(q) /\ record[d] # Nothing
  BY <1>1 DEF HoldInv
<1>3. d \in Blocked /\ record[d].artifact = <<q.coord, i>> /\ record[d].origin = "ingest"
  BY <1>1, <1>2 DEF RequestOK
<1>4. ASSUME NEW e \in Hashes(q) \ {d} PROVE record[e] = Nothing /\ manifest[e] = Nothing
  <2>1. e \notin Blocked /\ e \in Digests
    BY <1>1, <1>3, HashShape, OneBlocked
  <2>2. record[e] = Nothing
    BY <1>2, <2>1 DEF RequestOK, Hashes
  <2> QED BY <2>1, <2>2 DEF HoldInv, DigestOK
<1>5. \A o \in Operators : o = t
  BY DEF Orderly
<1>6. /\ q \in owed \cup landed \cup rejected
      /\ q \in owed => q \notin landed \cup rejected
      /\ q \in landed => q \notin rejected
      /\ q \in rejected => manifest[d] = Nothing
  <2>1. /\ q \in owed => q \notin landed \cup rejected
        /\ q \in landed => q \notin rejected
        /\ q \notin owed \cup landed \cup rejected => record[d] = Nothing
        /\ q \in rejected => manifest[d] = Nothing
    <3>1. DecidedOnce(q)
      BY <1>2 DEF RequestOK
    <3> QED BY <1>1, <3>1 DEF DecidedOnce
  <2> QED BY <1>2, <2>1
<1>7. q \in owed =>
         /\ \/ subject[t] = d /\ pc[t] \in Replaying
            \/ HalfPromoted(d) \/ HalfRejected(d)
            \/ record[d].state = "quarantined"
         /\ \/ subject[t] = d /\ pc[t] \in Purging
            \/ HalfRejected(d)
            \/ manifest[d] = q /\ Hashes(q) \subseteq held
  BY <1>1, <1>2, <1>3, <1>5 DEF RequestOK, Parked
<1> QED BY <1>1, <1>2, <1>3, <1>4, <1>6, <1>7 DEF Settled

LEMMA SettledIsOK ==
    ASSUME Orderly, NEW t \in Operators, NEW q \in Requests, NEW i \in DOMAIN q.digests,
           q.digests[i] \in Blocked, Settled(t, q, i)'
    PROVE  RequestOK(q)'
<1>1. PICK d \in Digests : d = q.digests[i] /\ d \in Hashes(q) /\ d \in Blocked
  BY HashShape
<1>2. \A e \in Hashes(q) \cap Blocked : e = d
  BY <1>1, OneBlocked
<1>4. /\ record'[d] # Nothing /\ record'[d].artifact = <<q.coord, i>> /\ record'[d].origin = "ingest"
      /\ \A e \in Hashes(q) \ {d} : record'[e] = Nothing /\ manifest'[e] = Nothing
      /\ q \in owed' \cup landed' \cup rejected'
      /\ q \in owed' => q \notin landed' \cup rejected'
      /\ q \in landed' => q \notin rejected'
      /\ q \in rejected' => manifest'[d] = Nothing
  BY <1>1 DEF Settled
<1>5. q \in owed' =>
         /\ \/ subject'[t] = d /\ pc'[t] \in Replaying
            \/ HalfPromoted(d)' \/ HalfRejected(d)'
            \/ record'[d].state = "quarantined"
         /\ \/ subject'[t] = d /\ pc'[t] \in Purging
            \/ HalfRejected(d)'
            \/ manifest'[d] = q /\ Hashes(q) \subseteq held'
  BY <1>1 DEF Settled
<1>6. ASSUME NEW j \in DOMAIN q.digests, record'[q.digests[j]] # Nothing
      PROVE  /\ q.digests[j] \in Blocked
             /\ record'[q.digests[j]].artifact = <<q.coord, j>> /\ record'[q.digests[j]].origin = "ingest"
  <2>1. q.digests[j] = d
    BY <1>4, <1>6, HashShape
  <2>2. j = i
    BY <1>1, <2>1 DEF Orderly
  <2> QED BY <1>1, <1>4, <2>1, <2>2
<1>7. DecidedOnce(q)'
  BY <1>2, <1>4 DEF DecidedOnce
<1>8. Parked(q)'
  BY <1>1, <1>2, <1>4, <1>5 DEF Parked
<1> QED BY <1>6, <1>7, <1>8 DEF RequestOK

\* A step of the operator about one publish.
LEMMA OperatorDecides ==
    ASSUME Orderly, TypeOK, HoldInv, NEW t \in Operators, Frame(t),
           NEW q \in Requests, NEW i \in DOMAIN q.digests, NEW d, d = q.digests[i],
           record[d] # Nothing, subject[t] \in {d, Nothing}, subject'[t] \in {d, Nothing},
           \A r \in Requests \ {q} :
             /\ (r \in owed' <=> r \in owed) /\ (r \in landed' <=> r \in landed)
             /\ (r \in rejected' <=> r \in rejected),
           \A e \in Digests \ {d} :
             /\ record'[e] = record[e] /\ manifest'[e] = manifest[e]
             /\ (HalfPromoted(e)' <=> HalfPromoted(e)) /\ (HalfRejected(e)' <=> HalfRejected(e)),
           held \ Hashes(q) \subseteq held',
           manifest'[d] \in {manifest[d], Nothing},
           OperatorOK(t)', Settled(t, q, i)'
    PROVE  HoldInv'
<1>1. /\ t \in Tasks /\ t \notin Clients /\ t \notin Servers /\ \A o \in Operators : o = t
      /\ d \in Hashes(q) /\ d \in Blocked /\ d \in Digests
  BY RolesAssumption, IsSettled, HashShape DEF Tasks, Orderly
<1>2. Aside(t, {q})
  <2>1. ASSUME NEW r \in Requests \ {q}, NEW e \in Hashes(r)
        PROVE  /\ record'[e] = record[e] /\ manifest'[e] = manifest[e] /\ (e \in held => e \in held')
               /\ (HalfPromoted(e)' <=> HalfPromoted(e)) /\ (HalfRejected(e)' <=> HalfRejected(e))
               /\ subject[t] # e /\ subject'[t] # e
    <3>1. e \in Digests /\ e \notin Hashes(q) /\ e # Nothing
      BY <2>1, HashShape, OneHome, NothingAssumption
    <3> QED BY <1>1, <3>1
  <2> QED BY <1>1, <2>1 DEF Aside
<1>3. ASSUME NEW e \in Digests PROVE DigestOK(e)'
  <2>1. CASE e = d
    BY <1>1, <2>1 DEF HoldInv, DigestOK
  <2>2. CASE e # d
    BY <2>2 DEF HoldInv, DigestOK
  <2> QED BY <2>1, <2>2
<1>4. \A u \in Clients : req[u] \notin {q}
  <2>1. ASSUME NEW u \in Clients, req[u] = q PROVE FALSE
    <3>1. pc[u] # "idle"
      BY <2>1, RequestShape DEF HoldInv, ClientOK
    <3> QED BY <1>1, <2>1, <3>1, ClientShape
  <2> QED BY <2>1
<1>5. \A r \in {q} : RequestOK(r)'
  BY <1>1, SettledIsOK
<1>6. /\ \A o \in Operators : o # t => \A r \in {q} : subject[o] \notin Hashes(r)
      /\ {q} \in SUBSET Requests
  BY <1>1
<1> QED BY <1>1, <1>2, <1>3, <1>4, <1>5, <1>6, HoldOfStep

\* One that changes no object and ends no replay and no purge.
LEMMA OperatorMoves ==
    ASSUME Orderly, TypeOK, HoldInv, NEW t \in Operators, Frame(t),
           NEW q \in Requests, NEW i \in DOMAIN q.digests, NEW d, d = q.digests[i],
           record[d] # Nothing, subject[t] \in {d, Nothing}, subject'[t] \in {d, Nothing},
           UNCHANGED <<store, history>>,
           subject[t] = d /\ pc[t] \in Replaying => subject'[t] = d /\ pc'[t] \in Replaying,
           subject[t] = d /\ pc[t] \in Purging => subject'[t] = d /\ pc'[t] \in Purging,
           OperatorOK(t)'
    PROVE  HoldInv'
<1>1. Settled(t, q, i)
  BY IsSettled
<1>2. /\ UNCHANGED <<record, manifest, held, landed, owed, rejected>>
      /\ \A e : (HalfPromoted(e)' <=> HalfPromoted(e)) /\ (HalfRejected(e)' <=> HalfRejected(e))
  BY DEF store, history, HalfPromoted, HalfRejected
<1>3. Settled(t, q, i)'
  BY <1>1, <1>2 DEF Settled
<1> QED BY <1>2, <1>3, OperatorDecides

\* The operator is done, ...
LEMMA OperatorReturns ==
    ASSUME TypeOK, NEW t \in Operators, Return(t)
    PROVE  /\ OperatorOK(t)' /\ Frame(t)
           /\ pc'[t] = "idle" /\ subject'[t] = Nothing
<1>1. t \in Tasks /\ TasksOK
  BY TypeParts DEF Tasks
<1>2. pc'[t] = "idle" /\ req'[t] = Nothing /\ subject'[t] = Nothing
  BY <1>1 DEF Return, Goto, TasksOK
<1>3. OperatorOK(t)'
  BY <1>2 DEF OperatorOK, Reviewing, Replaying, Purging
<1>4. Frame(t)
  BY <1>1 DEF Return, Goto, TasksOK, Frame
<1> QED BY <1>2, <1>3, <1>4

\* ... or goes on with the artifact i of q.
LEMMA OperatorGoes ==
    ASSUME NEW t \in Operators, NEW q \in Requests, NEW i \in DOMAIN q.digests,
           pc'[t] \in Reviewing, op'[t] \in {"promote", "reject"},
           pc'[t] \in {"load", "rebuild"} => req'[t] = Nothing,
           ReviewOK(t, q, i)'
    PROVE  OperatorOK(t)'
BY DEF OperatorOK, Reviewing, Replaying, Purging

\* What the operator has in hand.
LEMMA OperatorShape ==
    ASSUME Orderly, TypeOK, HoldInv, NEW t \in Operators, pc[t] \in Reviewing
    PROVE  /\ t \in Tasks /\ TasksOK /\ StoreOK /\ TaskOK(t) /\ op[t] \in {"promote", "reject"}
           /\ pc[t] \in {"load", "rebuild"} => req[t] = Nothing
           /\ \E q \in Requests : \E i \in DOMAIN q.digests :
                /\ ReviewOK(t, q, i) /\ Settled(t, q, i)
                /\ subject[t] = q.digests[i] /\ subject[t] \in Hashes(q) \cap Blocked
                /\ subject[t] \in Digests /\ record[subject[t]] # Nothing
<1>1. t \in Tasks /\ TasksOK /\ StoreOK /\ TaskOK(t) /\ OperatorOK(t)
  BY TypeParts DEF Tasks, HoldInv
<1>2. PICK q \in Requests : \E i \in DOMAIN q.digests : ReviewOK(t, q, i)
  BY <1>1 DEF OperatorOK
<1>3. PICK i \in DOMAIN q.digests : ReviewOK(t, q, i)
  BY <1>2
<1>4. subject[t] = q.digests[i] /\ record[subject[t]] # Nothing
  BY <1>3 DEF ReviewOK
<1>5. Settled(t, q, i) /\ subject[t] \in Hashes(q) \cap Blocked /\ subject[t] \in Digests
  BY <1>4, IsSettled, HashShape
<1>6. op[t] \in {"promote", "reject"} /\ (pc[t] \in {"load", "rebuild"} => req[t] = Nothing)
  BY <1>1 DEF OperatorOK, Reviewing, Replaying, Purging
<1> QED BY <1>1, <1>3, <1>4, <1>5, <1>6

\* A step of the operator that concerns no publish.
LEMMA OperatorAside ==
    ASSUME Orderly, TypeOK, HoldInv, NEW t \in Operators, Frame(t), NEW d \in Digests,
           \A q \in Requests : d \notin Hashes(q),
           subject[t] \in {d, Nothing}, subject'[t] \in {d, Nothing},
           UNCHANGED <<manifest, held, landed, owed, rejected, halfway>>,
           \A e \in Digests \ {d} : record'[e] = record[e],
           record'[d] # Nothing => record'[d].origin = "serve",
           OperatorOK(t)'
    PROVE  HoldInv'
<1>1. /\ t \in Tasks /\ t \notin Clients /\ t \notin Servers /\ \A o \in Operators : o = t
  BY RolesAssumption DEF Tasks, Orderly
<1>2. Aside(t, {})
  <2>1. ASSUME NEW q \in Requests, NEW e \in Hashes(q)
        PROVE  record'[e] = record[e] /\ subject[t] # e /\ subject'[t] # e
    <3>1. e \in Digests /\ e # d /\ e # Nothing
      BY <2>1, HashShape, NothingAssumption
    <3> QED BY <3>1
  <2> QED BY <2>1 DEF Aside, HalfPromoted, HalfRejected
<1>3. ASSUME NEW e \in Digests PROVE DigestOK(e)'
  <2>1. CASE e = d
    BY <2>1 DEF HoldInv, DigestOK
  <2>2. CASE e # d
    BY <2>2 DEF HoldInv, DigestOK
  <2> QED BY <2>1, <2>2
<1> QED BY <1>1, <1>2, <1>3, HoldOfStep

LEMMA HoldOfStartReview ==
    ASSUME Orderly, TypeOK, HoldInv, NEW t \in Operators, NEW d \in Digests,
           NEW decision \in {"promote", "reject"}, StartReview(t, d, decision)
    PROVE  HoldInv'
<1>1. /\ t \in Tasks /\ TasksOK /\ StoreOK /\ OperatorOK(t) /\ pc[t] = "idle" /\ record[d] # Nothing
      /\ UNCHANGED <<store, req, idx, hold, copy, history>>
  BY TypeParts DEF StartReview, Tasks, HoldInv
<1>2. req[t] = Nothing /\ subject[t] = Nothing
  BY <1>1 DEF OperatorOK
<1>3. /\ op'[t] = decision /\ subject'[t] = d /\ Frame(t)
      /\ pc'[t] = IF record[d].origin = "ingest" THEN "load" ELSE "review"
  BY <1>1 DEF StartReview, Goto, TasksOK, Frame
<1>4. CASE record[d].origin = "ingest"
  <2>1. PICK q \in Requests : d \in Hashes(q)
    BY <1>1, <1>4 DEF HoldInv, DigestOK
  <2>2. PICK i \in DOMAIN q.digests : d = q.digests[i]
    BY <2>1 DEF Hashes
  <2>3. d \in Blocked
    BY <1>1, <2>2, IsSettled
  <2>4. ReviewOK(t, q, i)'
    BY <1>1, <1>2, <1>3, <1>4, <2>2, <2>3, RequestShape DEF ReviewOK, store, Replaying
  <2>5. OperatorOK(t)'
    BY <1>1, <1>2, <1>3, <1>4, <2>4, OperatorGoes DEF Reviewing
  <2>6. pc[t] \notin Replaying \cup Purging /\ pc'[t] \notin Replaying \cup Purging
    BY <1>1, <1>3, <1>4 DEF Replaying, Purging
  <2> QED BY <1>1, <1>2, <1>3, <2>2, <2>5, <2>6, OperatorMoves
<1>5. CASE record[d].origin # "ingest"
  <2>1. \A q \in Requests : d \notin Hashes(q)
    <3>1. ASSUME NEW q \in Requests, d \in Hashes(q) PROVE FALSE
      <4>1. PICK i \in DOMAIN q.digests : d = q.digests[i]
        BY <3>1 DEF Hashes
      <4> QED BY <1>1, <1>5, <4>1, IsSettled DEF Settled
    <3> QED BY <3>1
  <2>2. OperatorOK(t)'
    BY <1>1, <1>2, <1>3, <1>5, <2>1 DEF OperatorOK, Reviewing, Replaying, Purging
  <2>3. record[d].origin = "serve"
    BY <1>1, <1>5 DEF StoreOK, Record
  <2> QED BY <1>1, <1>2, <1>3, <2>1, <2>2, <2>3, OperatorAside DEF store, history
<1> QED BY <1>4, <1>5

LEMMA HoldOfLoadRecord ==
    ASSUME Orderly, TypeOK, HoldInv, NEW t \in Operators, LoadRecord(t)
    PROVE  HoldInv'
<1>1. /\ t \in Tasks /\ TasksOK /\ StoreOK /\ TaskOK(t) /\ OperatorOK(t) /\ pc[t] = "review"
      /\ UNCHANGED <<store, op, req, idx, hold, subject, history>>
  BY TypeParts DEF LoadRecord, Tasks, HoldInv
<1>2. PICK d \in Digests : d = subject[t] /\ record[d] # Nothing
  BY <1>1 DEF TaskOK, TasksOK
<1>3. \A q \in Requests : d \notin Hashes(q)
  BY <1>1, <1>2 DEF OperatorOK
<1>4. record[d].origin = "serve"
  BY <1>1, <1>2, <1>3 DEF HoldInv, DigestOK, StoreOK, Record
<1>5. pc'[t] = "stamp" /\ copy'[t] = record[d] /\ Frame(t)
  BY <1>1, <1>2 DEF LoadRecord, Goto, TasksOK, Frame
<1>6. OperatorOK(t)'
  BY <1>1, <1>2, <1>3, <1>4, <1>5 DEF OperatorOK, Reviewing, Replaying, Purging
<1> QED BY <1>1, <1>2, <1>3, <1>4, <1>5, <1>6, OperatorAside DEF store, history

LEMMA HoldOfStampRecord ==
    ASSUME Orderly, TypeOK, HoldInv, NEW t \in Operators, StampRecord(t)
    PROVE  HoldInv'
<1>1. /\ t \in Tasks /\ TasksOK /\ StoreOK /\ TaskOK(t) /\ OperatorOK(t) /\ pc[t] = "stamp"
      /\ UNCHANGED <<manifest, held, landed, owed, rejected, halfway>> /\ Return(t)
  BY TypeParts DEF StampRecord, Tasks, HoldInv
<1>2. PICK d \in Digests : d = subject[t] /\ copy[t] \in Record
  BY <1>1 DEF TaskOK, TasksOK, HasRecord
<1>3. (\A q \in Requests : d \notin Hashes(q)) /\ copy[t].origin = "serve"
  BY <1>1, <1>2 DEF OperatorOK
<1>4. OperatorOK(t)' /\ Frame(t) /\ subject'[t] = Nothing
  BY <1>1, OperatorReturns
<1>5. PICK state \in {"promoted", "rejected"} : record' = [record EXCEPT ![d] = Decided(copy[t], state)]
  BY <1>2 DEF StampRecord
<1>6. record'[d].origin = "serve" /\ \A e \in Digests \ {d} : record'[e] = record[e]
  BY <1>1, <1>2, <1>3, <1>5, DecidedOrigin DEF StoreOK
<1> QED BY <1>1, <1>2, <1>3, <1>4, <1>6, OperatorAside

LEMMA HoldOfLoadIngestRecord ==
    ASSUME Orderly, TypeOK, HoldInv, NEW t \in Operators, LoadIngestRecord(t)
    PROVE  HoldInv'
<1>1. pc[t] = "load" /\ pc[t] \in Reviewing /\ UNCHANGED <<store, history>>
  BY DEF LoadIngestRecord, Reviewing
<1>2. PICK q \in Requests : \E i \in DOMAIN q.digests :
        /\ ReviewOK(t, q, i) /\ Settled(t, q, i)
        /\ subject[t] = q.digests[i] /\ subject[t] \in Hashes(q) \cap Blocked
        /\ subject[t] \in Digests /\ record[subject[t]] # Nothing
  BY <1>1, OperatorShape
<1>3. PICK i \in DOMAIN q.digests :
        /\ ReviewOK(t, q, i) /\ Settled(t, q, i)
        /\ subject[t] = q.digests[i] /\ subject[t] \in Hashes(q) \cap Blocked
        /\ subject[t] \in Digests /\ record[subject[t]] # Nothing
  BY <1>2
<1>4. PICK d \in Digests : d = subject[t]
  BY <1>3
<1>5. record[d].origin = "ingest" /\ record[d].artifact = <<q.coord, i>>
  BY <1>3, <1>4 DEF Settled
<1>6. TasksOK /\ t \in Tasks /\ req[t] = Nothing /\ op[t] \in {"promote", "reject"}
  BY <1>1, OperatorShape
<1>7. /\ copy' = [copy EXCEPT ![t] = record[d]] /\ Goto(t, "rebuild")
      /\ UNCHANGED <<op, req, idx, hold, subject>>
  BY <1>4, <1>5 DEF LoadIngestRecord
<1>8. pc'[t] = "rebuild" /\ copy'[t] = record[d] /\ Frame(t)
  BY <1>6, <1>7 DEF Goto, TasksOK, Frame
<1>9. ReviewOK(t, q, i)'
  BY <1>1, <1>3, <1>4, <1>5, <1>6, <1>7, <1>8, RequestShape DEF ReviewOK, store, Replaying
<1>10. OperatorOK(t)'
  BY <1>6, <1>7, <1>8, <1>9, OperatorGoes DEF Reviewing
<1>11. pc[t] \notin Replaying \cup Purging /\ pc'[t] \notin Replaying \cup Purging
  BY <1>1, <1>8 DEF Replaying, Purging
<1> QED BY <1>1, <1>3, <1>4, <1>7, <1>8, <1>10, <1>11, OperatorMoves

\* What could not be rebuilt is not promoted, and rejected as it is.
LEMMA HoldOfNotRebuilt ==
    ASSUME Orderly, TypeOK, HoldInv, NEW t \in Operators, pc[t] \in {"rebuild", "read_bytes"},
           NotRebuilt(t), UNCHANGED <<store, history>>
    PROVE  HoldInv'
<1>1. pc[t] \in Reviewing /\ pc[t] \notin Replaying \cup Purging /\ pc[t] # "load"
  BY DEF Reviewing, Replaying, Purging
<1>2. PICK q \in Requests : \E i \in DOMAIN q.digests :
        /\ ReviewOK(t, q, i) /\ Settled(t, q, i)
        /\ subject[t] = q.digests[i] /\ subject[t] \in Hashes(q) \cap Blocked
        /\ subject[t] \in Digests /\ record[subject[t]] # Nothing
  BY <1>1, OperatorShape
<1>3. PICK i \in DOMAIN q.digests :
        /\ ReviewOK(t, q, i) /\ Settled(t, q, i)
        /\ subject[t] = q.digests[i] /\ subject[t] \in Hashes(q) \cap Blocked
        /\ subject[t] \in Digests /\ record[subject[t]] # Nothing
  BY <1>2
<1>4. PICK d \in Digests : d = subject[t]
  BY <1>3
<1>5. TasksOK /\ t \in Tasks
  BY <1>1, OperatorShape
<1>6. /\ q.digests[i] \in Blocked /\ copy[t].artifact = <<q.coord, i>> /\ copy[t].origin = "ingest"
  BY <1>1, <1>3 DEF ReviewOK
<1>7. CASE Return(t)
  <2>1. OperatorOK(t)' /\ Frame(t) /\ pc'[t] = "idle" /\ subject'[t] = Nothing
    BY <1>7, OperatorReturns
  <2> QED BY <1>1, <1>3, <1>4, <2>1, OperatorMoves
<1>8. CASE /\ op[t] = "reject" /\ Goto(t, "reject")
           /\ req' = [req EXCEPT ![t] = Nothing]
           /\ idx' = [idx EXCEPT ![t] = 1]
           /\ UNCHANGED <<op, hold, subject, copy>>
  <2>1. pc'[t] = "reject" /\ req'[t] = Nothing /\ Frame(t)
    BY <1>5, <1>8 DEF Goto, TasksOK, Frame
  <2>2. ReviewOK(t, q, i)'
    BY <1>3, <1>6, <1>8, <2>1, RequestShape DEF ReviewOK, store, history, Replaying
  <2>3. OperatorOK(t)'
    BY <1>8, <2>1, <2>2, OperatorGoes DEF Reviewing, Purging
  <2> QED BY <1>1, <1>3, <1>4, <1>8, <2>1, <2>3, OperatorMoves
<1> QED BY <1>7, <1>8 DEF NotRebuilt

\* The manifest under the digest is of this publish, which is not rejected.
LEMMA HoldOfReadManifest ==
    ASSUME Orderly, TypeOK, HoldInv, NEW t \in Operators, ReadManifest(t)
    PROVE  HoldInv'
<1>1. pc[t] = "rebuild" /\ pc[t] \in Reviewing /\ UNCHANGED <<store, history>>
  BY DEF ReadManifest, Reviewing
<1>2. PICK q \in Requests : \E i \in DOMAIN q.digests :
        /\ ReviewOK(t, q, i) /\ Settled(t, q, i)
        /\ subject[t] = q.digests[i] /\ subject[t] \in Hashes(q) \cap Blocked
        /\ subject[t] \in Digests /\ record[subject[t]] # Nothing
  BY <1>1, OperatorShape
<1>3. PICK i \in DOMAIN q.digests :
        /\ ReviewOK(t, q, i) /\ Settled(t, q, i)
        /\ subject[t] = q.digests[i] /\ subject[t] \in Hashes(q) \cap Blocked
        /\ subject[t] \in Digests /\ record[subject[t]] # Nothing
  BY <1>2
<1>4. PICK d \in Digests : d = subject[t]
  BY <1>3
<1>5. TasksOK /\ StoreOK /\ TaskOK(t) /\ t \in Tasks /\ req[t] = Nothing /\ op[t] \in {"promote", "reject"}
  BY <1>1, OperatorShape
<1>6. pc[t] \notin Replaying \cup Purging
  BY <1>1 DEF Replaying, Purging
<1>7. /\ subject[t] = q.digests[i] /\ q.digests[i] \in Blocked /\ record[subject[t]] # Nothing
      /\ copy[t].artifact = <<q.coord, i>> /\ copy[t].origin = "ingest"
  BY <1>1, <1>3 DEF ReviewOK
<1>8. CASE manifest[d] # Nothing /\ req' = [req EXCEPT ![t] = manifest[d]] /\ Goto(t, "read_bytes")
           /\ UNCHANGED <<op, idx, hold, subject, copy>>
  <2>1. manifest[d] = q
    <3>1. manifest[d] \in Requests /\ d \in Hashes(manifest[d])
      BY <1>5, <1>8 DEF HoldInv, DigestOK, StoreOK
    <3> QED BY <1>3, <1>4, <3>1, OneHome
  <2>2. q \in owed \cup landed
    BY <1>3, <1>4, <1>8 DEF Settled
  <2>3. pc'[t] = "read_bytes" /\ req'[t] = q /\ Frame(t) /\ idx'[t] = 1
    BY <1>1, <1>5, <1>8, <2>1 DEF Goto, TasksOK, Frame, TaskOK, AtStart
  <2>4. \A j \in 1 .. idx'[t] - 1 : FALSE
    BY <2>3
  <2>5. ReviewOK(t, q, i)'
    BY <1>1, <1>4, <1>7, <1>8, <2>1, <2>2, <2>3, <2>4 DEF ReviewOK, store, history, Replaying
  <2>6. OperatorOK(t)'
    BY <1>5, <1>8, <2>3, <2>5, OperatorGoes DEF Reviewing
  <2> QED BY <1>1, <1>3, <1>4, <1>6, <1>8, <2>3, <2>6, OperatorMoves
<1>9. CASE NotRebuilt(t)
  BY <1>1, <1>9, HoldOfNotRebuilt
<1> QED BY <1>4, <1>8, <1>9 DEF ReadManifest

LEMMA HoldOfReadBytes ==
    ASSUME Orderly, TypeOK, HoldInv, NEW t \in Operators, ReadBytes(t)
    PROVE  HoldInv'
<1>1. /\ pc[t] = "read_bytes" /\ pc[t] \in Reviewing /\ UNCHANGED <<store, history>>
      /\ pc[t] \in HasArtifact /\ pc[t] \in HasRequest
  BY DEF ReadBytes, Reviewing, HasArtifact, HasRequest
<1>2. PICK q \in Requests : \E i \in DOMAIN q.digests :
        /\ ReviewOK(t, q, i) /\ Settled(t, q, i)
        /\ subject[t] = q.digests[i] /\ subject[t] \in Hashes(q) \cap Blocked
        /\ subject[t] \in Digests /\ record[subject[t]] # Nothing
  BY <1>1, OperatorShape
<1>3. PICK i \in DOMAIN q.digests :
        /\ ReviewOK(t, q, i) /\ Settled(t, q, i)
        /\ subject[t] = q.digests[i] /\ subject[t] \in Hashes(q) \cap Blocked
        /\ subject[t] \in Digests /\ record[subject[t]] # Nothing
  BY <1>2
<1>4. PICK d \in Digests : d = subject[t]
  BY <1>3
<1>5. TasksOK /\ StoreOK /\ t \in Tasks /\ op[t] \in {"promote", "reject"}
  BY <1>1, OperatorShape
<1>6. pc[t] \notin Replaying \cup Purging
  BY <1>1 DEF Replaying, Purging
<1>7. /\ subject[t] = q.digests[i] /\ q.digests[i] \in Blocked /\ record[subject[t]] # Nothing
      /\ copy[t].artifact = <<q.coord, i>> /\ copy[t].origin = "ingest" /\ req[t] = q
      /\ q \in owed \cup landed /\ manifest[d] = q
      /\ \A j \in 1 .. idx[t] - 1 : q.digests[j] \in held
  BY <1>1, <1>3, <1>4 DEF ReviewOK
<1>8. CASE /\ Digest(t) \in held
           /\ Advance(t, IF op[t] = "promote" THEN "promote" ELSE "purge")
           /\ UNCHANGED <<op, req, hold, subject, copy>>
  <2>1. \A j \in (1 .. idx[t] - 1) \cup {idx[t]} : q.digests[j] \in held
    BY <1>1, <1>5, <1>7, <1>8, Place
  <2>2. /\ Frame(t)
        /\ \/ pc'[t] = "read_bytes" /\ \A j \in 1 .. idx'[t] - 1 : q.digests[j] \in held
           \/ /\ pc'[t] = IF op[t] = "promote" THEN "promote" ELSE "purge"
              /\ \A j \in DOMAIN q.digests : q.digests[j] \in held
    <3> DEFINE label == IF op[t] = "promote" THEN "promote" ELSE "purge"
    <3>1. Advance(t, label)
      BY <1>8
    <3> HIDE DEF label
    <3>2. /\ Frame(t)
          /\ \/ /\ pc'[t] = pc[t] /\ idx'[t] = idx[t] + 1
                /\ 1 .. idx'[t] - 1 = (1 .. idx[t] - 1) \cup {idx[t]}
             \/ /\ pc'[t] = label
                /\ DOMAIN req[t].digests = (1 .. idx[t] - 1) \cup {idx[t]}
      BY <1>1, <1>5, <1>8, <3>1, Advances
    <3> QED BY <1>1, <1>7, <2>1, <3>2 DEF label
  <2>3. pc'[t] = "promote" => Hashes(q) \subseteq held
    BY <2>2 DEF Hashes
  <2>4. ReviewOK(t, q, i)'
    BY <1>1, <1>4, <1>5, <1>7, <1>8, <2>2, <2>3 DEF ReviewOK, store, history, Replaying
  <2>5. OperatorOK(t)'
    BY <1>5, <1>8, <2>2, <2>4, OperatorGoes DEF Reviewing, Purging
  <2> QED BY <1>1, <1>3, <1>4, <1>6, <1>8, <2>2, <2>5, OperatorMoves
<1>9. CASE NotRebuilt(t)
  BY <1>1, <1>9, HoldOfNotRebuilt
<1> QED BY <1>8, <1>9 DEF ReadBytes

\* The record of a review is written from its copy.
LEMMA OperatorDecided ==
    ASSUME Orderly, TypeOK, HoldInv, NEW t \in Operators, pc[t] \in Reviewing, pc[t] # "load",
           NEW q \in Requests, NEW i \in DOMAIN q.digests, ReviewOK(t, q, i),
           NEW state \in {"quarantined", "promoted", "rejected"},
           record' = [record EXCEPT ![subject[t]] = Decided(copy[t], state)]
    PROVE  /\ record'[subject[t]] # Nothing /\ record'[subject[t]].artifact = <<q.coord, i>>
           /\ record'[subject[t]].origin = "ingest" /\ record'[subject[t]].state = state
           /\ \A e \in Digests \ {subject[t]} : record'[e] = record[e]
<1>1. TasksOK /\ StoreOK /\ TaskOK(t) /\ t \in Tasks /\ op[t] \in {"promote", "reject"}
  BY OperatorShape
<1>2. copy[t].artifact = <<q.coord, i>> /\ copy[t].origin = "ingest"
  BY DEF ReviewOK
<1>3. HasRecord(t)
  BY <1>1 DEF HasRecord, Reviewing, Replaying, Purging, Publishing, ReviewOK
<1>4. copy[t] \in Record /\ subject[t] \in Digests
  BY <1>1, <1>3 DEF TaskOK, TasksOK
<1>5. record'[subject[t]] = Decided(copy[t], state)
  BY <1>1, <1>4 DEF StoreOK
<1> QED BY <1>1, <1>2, <1>4, <1>5, DecidedIsRecord, DecidedOrigin DEF StoreOK

LEMMA HoldOfMarkPromoted ==
    ASSUME Orderly, TypeOK, HoldInv, NEW t \in Operators, MarkPromoted(t)
    PROVE  HoldInv'
<1>1. /\ pc[t] = "promote" /\ pc[t] \in Reviewing /\ pc[t] # "load"
      /\ UNCHANGED <<manifest, held, landed, op, req, idx, hold, subject, copy, owed, rejected, halfway>>
      /\ Goto(t, "lock")
  BY DEF MarkPromoted, Reviewing
<1>2. PICK q \in Requests : \E i \in DOMAIN q.digests :
        /\ ReviewOK(t, q, i) /\ Settled(t, q, i)
        /\ subject[t] = q.digests[i] /\ subject[t] \in Hashes(q) \cap Blocked
        /\ subject[t] \in Digests /\ record[subject[t]] # Nothing
  BY <1>1, OperatorShape
<1>3. PICK i \in DOMAIN q.digests :
        /\ ReviewOK(t, q, i) /\ Settled(t, q, i)
        /\ subject[t] = q.digests[i] /\ subject[t] \in Hashes(q) \cap Blocked
        /\ subject[t] \in Digests /\ record[subject[t]] # Nothing
  BY <1>2
<1>4. PICK d \in Digests : d = subject[t]
  BY <1>3
<1>5. TasksOK /\ t \in Tasks /\ op[t] \in {"promote", "reject"}
  BY <1>1, OperatorShape
<1>6. /\ record'[d] # Nothing /\ record'[d].artifact = <<q.coord, i>>
      /\ record'[d].origin = "ingest" /\ record'[d].state = "promoted"
      /\ \A e \in Digests \ {d} : record'[e] = record[e]
  <2>1. record' = [record EXCEPT ![subject[t]] = Decided(copy[t], "promoted")]
    BY DEF MarkPromoted
  <2>2. /\ record'[subject[t]] # Nothing /\ record'[subject[t]].artifact = <<q.coord, i>>
        /\ record'[subject[t]].origin = "ingest" /\ record'[subject[t]].state = "promoted"
        /\ \A e \in Digests \ {subject[t]} : record'[e] = record[e]
    BY <1>1, <1>3, <2>1, OperatorDecided
  <2> QED BY <1>4, <2>2
<1>7. pc'[t] = "lock" /\ Frame(t)
  BY <1>1, <1>5 DEF Goto, TasksOK, Frame
<1>8. pc[t] \notin Replaying \cup Purging /\ pc'[t] \in Replaying /\ pc'[t] \notin Purging
  BY <1>1, <1>7 DEF Replaying, Purging
<1>9. /\ q.digests[i] \in Blocked /\ copy[t].artifact = <<q.coord, i>> /\ copy[t].origin = "ingest"
      /\ req[t] = q /\ q \in owed \cup landed /\ op[t] = "promote"
      /\ manifest[d] = q /\ Hashes(q) \subseteq held
  BY <1>1, <1>3, <1>4 DEF ReviewOK
<1>10. ReviewOK(t, q, i)'
  BY <1>1, <1>3, <1>4, <1>6, <1>7, <1>9 DEF ReviewOK
<1>11. OperatorOK(t)'
  BY <1>1, <1>5, <1>7, <1>10, OperatorGoes DEF Reviewing, Replaying
<1>12. Settled(t, q, i)'
  <2>1. /\ \A e \in Hashes(q) \ {d} : record[e] = Nothing /\ manifest[e] = Nothing
        /\ (q \in owed => q \notin landed \cup rejected) /\ (q \in landed => q \notin rejected)
    BY <1>3, <1>4 DEF Settled
  <2>2. \A e \in Hashes(q) \ {d} : record'[e] = Nothing
    BY <1>6, <2>1, HashShape
  <2> QED BY <1>1, <1>3, <1>4, <1>6, <1>8, <1>9, <2>1, <2>2 DEF Settled
<1> QED BY <1>1, <1>3, <1>4, <1>6, <1>7, <1>11, <1>12, OperatorDecides DEF HalfPromoted, HalfRejected

\* A replay that fails goes on to revert the record.
LEMMA HoldOfReplayEnd ==
    ASSUME Orderly, TypeOK, HoldInv, NEW t \in Operators,
           pc[t] \in {"lock", "gate", "land"}, PublishErr(t), UNCHANGED <<store, history>>
    PROVE  HoldInv'
<1>1. pc[t] \in Reviewing /\ pc[t] \in Replaying /\ pc[t] \notin Purging
  BY DEF Reviewing, Replaying, Purging
<1>2. PICK q \in Requests : \E i \in DOMAIN q.digests :
        /\ ReviewOK(t, q, i) /\ Settled(t, q, i)
        /\ subject[t] = q.digests[i] /\ subject[t] \in Hashes(q) \cap Blocked
        /\ subject[t] \in Digests /\ record[subject[t]] # Nothing
  BY <1>1, OperatorShape
<1>3. PICK i \in DOMAIN q.digests :
        /\ ReviewOK(t, q, i) /\ Settled(t, q, i)
        /\ subject[t] = q.digests[i] /\ subject[t] \in Hashes(q) \cap Blocked
        /\ subject[t] \in Digests /\ record[subject[t]] # Nothing
  BY <1>2
<1>4. PICK d \in Digests : d = subject[t]
  BY <1>3
<1>5. TasksOK /\ t \in Tasks
  BY <1>1, OperatorShape
<1>6. /\ q.digests[i] \in Blocked /\ copy[t].artifact = <<q.coord, i>> /\ copy[t].origin = "ingest"
      /\ req[t] = q /\ q \in owed \cup landed /\ op[t] = "promote"
      /\ subject[t] = q.digests[i] /\ record[subject[t]] # Nothing /\ manifest[subject[t]] = q
      /\ Hashes(q) \subseteq held /\ record[subject[t]].state = "promoted"
  BY <1>1, <1>3 DEF ReviewOK
<1>7. /\ Goto(t, "revert") /\ idx' = [idx EXCEPT ![t] = 1]
      /\ UNCHANGED <<op, req, hold, subject, copy>>
  BY <1>6 DEF PublishErr
<1>8. pc'[t] = "revert" /\ Frame(t)
  BY <1>5, <1>7 DEF Goto, TasksOK, Frame
<1>9. ReviewOK(t, q, i)'
  BY <1>6, <1>7, <1>8 DEF ReviewOK, store, history
<1>10. OperatorOK(t)'
  BY <1>6, <1>7, <1>8, <1>9, OperatorGoes DEF Reviewing, Replaying
<1>11. pc'[t] \in Replaying
  BY <1>8 DEF Replaying
<1> QED BY <1>1, <1>3, <1>4, <1>7, <1>8, <1>10, <1>11, OperatorMoves

\* It clears the gate, for the record of its blocked artifact says promoted.
LEMMA HoldOfReplay ==
    ASSUME Orderly, TypeOK, HoldInv, NEW t \in Operators, Publish(t)
    PROVE  HoldInv'
<1>0. OperatorOK(t) /\ pc[t] \in {"lock", "gate", "land"}
  BY DEF HoldInv, OperatorOK, Reviewing, Replaying, Purging, Publish, LockAndCheck, ScanGate, Land,
         ParkBytes, ParkManifest, ParkRecord, FailToPublish
<1>1. pc[t] \in Reviewing /\ pc[t] \in Replaying /\ pc[t] \notin Purging
  BY <1>0 DEF Reviewing, Replaying, Purging
<1>2. PICK q \in Requests : \E i \in DOMAIN q.digests :
        /\ ReviewOK(t, q, i) /\ Settled(t, q, i)
        /\ subject[t] = q.digests[i] /\ subject[t] \in Hashes(q) \cap Blocked
        /\ subject[t] \in Digests /\ record[subject[t]] # Nothing
  BY <1>1, OperatorShape
<1>3. PICK i \in DOMAIN q.digests :
        /\ ReviewOK(t, q, i) /\ Settled(t, q, i)
        /\ subject[t] = q.digests[i] /\ subject[t] \in Hashes(q) \cap Blocked
        /\ subject[t] \in Digests /\ record[subject[t]] # Nothing
  BY <1>2
<1>4. PICK d \in Digests : d = subject[t]
  BY <1>3
<1>5. TasksOK /\ t \in Tasks
  BY <1>1, OperatorShape
<1>6. /\ q.digests[i] \in Blocked /\ copy[t].artifact = <<q.coord, i>> /\ copy[t].origin = "ingest"
      /\ req[t] = q /\ q \in owed \cup landed /\ op[t] = "promote"
      /\ subject[t] = q.digests[i] /\ record[subject[t]] # Nothing /\ manifest[subject[t]] = q
      /\ Hashes(q) \subseteq held /\ record[subject[t]].state = "promoted"
  BY <1>0, <1>1, <1>3 DEF ReviewOK
<1>7. ASSUME UNCHANGED <<store, history, op, req, subject, copy>>, Frame(t), pc'[t] \in {"gate", "land"}
      PROVE  HoldInv'
  <2>1. ReviewOK(t, q, i)'
    BY <1>6, <1>7 DEF ReviewOK, store, history
  <2>2. OperatorOK(t)'
    BY <1>6, <1>7, <2>1, OperatorGoes DEF Reviewing, Replaying
  <2>3. pc'[t] \in Replaying
    BY <1>7 DEF Replaying
  <2> QED BY <1>1, <1>3, <1>4, <1>7, <2>2, <2>3, OperatorMoves
<1>8. CASE LockAndCheck(t)
  <2>1. CASE PublishErr(t)
    BY <1>0, <1>8, <2>1, HoldOfReplayEnd DEF LockAndCheck
  <2>2. CASE Goto(t, "gate") /\ UNCHANGED <<op, req, idx, hold, subject, copy>>
    <3>1. pc'[t] = "gate" /\ Frame(t)
      BY <1>5, <2>2 DEF Goto, TasksOK, Frame
    <3> QED BY <1>7, <1>8, <2>2, <3>1 DEF LockAndCheck
  <2> QED BY <1>8, <2>1, <2>2 DEF LockAndCheck
<1>9. CASE ScanGate(t)
  <2>1. pc[t] = "gate" /\ pc[t] \in HasArtifact /\ pc[t] \in HasRequest
    BY <1>9 DEF ScanGate, HasArtifact, HasRequest, Publishing
  <2>2. /\ Digest(t) = q.digests[idx[t]] /\ idx[t] \in DOMAIN q.digests /\ Artifact(t) = <<q.coord, idx[t]>>
    BY <1>5, <1>6, <2>1, Place DEF Artifact
  <2>3. Cleared(t)
    <3>1. ASSUME Digest(t) \in Blocked PROVE Digest(t) = d /\ idx[t] = i
      BY <1>3, <1>4, <2>2, <3>1 DEF Orderly
    <3>2. record[d] # Nothing /\ record[d].artifact = <<q.coord, i>> /\ record[d].state = "promoted"
      BY <1>1, <1>3, <1>4 DEF Settled, ReviewOK
    <3> QED BY <2>2, <3>1, <3>2 DEF Cleared
  <2>4. Advance(t, "land") /\ UNCHANGED hold /\ UNCHANGED <<store, op, req, subject, copy, history>>
    BY <1>9, <2>3 DEF ScanGate
  <2>5. Frame(t) /\ pc'[t] \in {"gate", "land"}
    BY <1>5, <2>1, <2>4, Advances
  <2> QED BY <1>7, <2>4, <2>5
<1>10. CASE Land(t)
  <2>1. CASE /\ landed' = landed \cup {req[t]}
             /\ owed' = owed \ {req[t]}
             /\ PublishOk(t)
    <3>1. /\ Goto(t, "purge") /\ UNCHANGED <<op, req, idx, hold, subject, copy>>
          /\ UNCHANGED <<record, manifest, held, approved, rejected, halfway>>
      BY <1>6, <1>10, <2>1 DEF PublishOk, Land
    <3>2. pc'[t] = "purge" /\ Frame(t)
      BY <1>5, <3>1 DEF Goto, TasksOK, Frame
    <3>3. pc'[t] \in Purging /\ pc'[t] \notin Replaying
      BY <3>2 DEF Purging, Replaying
    <3>4. ReviewOK(t, q, i)'
      BY <1>3, <1>6, <2>1, <3>1, <3>2 DEF ReviewOK, Replaying
    <3>5. OperatorOK(t)'
      BY <1>6, <3>1, <3>2, <3>4, OperatorGoes DEF Reviewing, Purging
    <3>6. Settled(t, q, i)'
      <4>1. /\ record[d] # Nothing /\ record[d].artifact = <<q.coord, i>> /\ record[d].origin = "ingest"
            /\ \A e \in Hashes(q) \ {d} : record[e] = Nothing /\ manifest[e] = Nothing
            /\ q \notin rejected
        BY <1>3, <1>4, <1>6 DEF Settled
      <4>2. q \in landed' /\ q \notin owed'
        BY <1>6, <2>1
      <4> QED BY <1>3, <1>4, <3>1, <3>3, <4>1, <4>2 DEF Settled
    <3>7. \A r \in Requests \ {q} : (r \in owed' <=> r \in owed) /\ (r \in landed' <=> r \in landed)
      BY <1>6, <2>1
    <3> QED BY <1>3, <1>4, <3>1, <3>2, <3>5, <3>6, <3>7, OperatorDecides DEF HalfPromoted, HalfRejected
  <2>2. CASE PublishErr(t) /\ UNCHANGED <<landed, owed>>
    BY <1>0, <1>10, <2>2, HoldOfReplayEnd DEF Land, store, history
  <2> QED BY <1>10, <2>1, <2>2 DEF Land
<1>11. CASE FailToPublish(t)
  BY <1>0, <1>11, HoldOfReplayEnd DEF FailToPublish
<1> QED BY <1>0, <1>8, <1>9, <1>10, <1>11 DEF Publish, ParkBytes, ParkManifest, ParkRecord

LEMMA HoldOfRevert ==
    ASSUME Orderly, TypeOK, HoldInv, NEW t \in Operators, Revert(t)
    PROVE  HoldInv'
<1>1. /\ pc[t] = "revert" /\ pc[t] \in Reviewing /\ pc[t] # "load" /\ Return(t)
      /\ UNCHANGED <<manifest, held, landed, approved, owed, rejected>>
      /\ halfway' = {h \in halfway : h[1] # subject[t]}
      /\ pc[t] \in Replaying /\ pc[t] \notin Purging
  BY DEF Revert, Reviewing, Replaying, Purging
<1>2. PICK q \in Requests : \E i \in DOMAIN q.digests :
        /\ ReviewOK(t, q, i) /\ Settled(t, q, i)
        /\ subject[t] = q.digests[i] /\ subject[t] \in Hashes(q) \cap Blocked
        /\ subject[t] \in Digests /\ record[subject[t]] # Nothing
  BY <1>1, OperatorShape
<1>3. PICK i \in DOMAIN q.digests :
        /\ ReviewOK(t, q, i) /\ Settled(t, q, i)
        /\ subject[t] = q.digests[i] /\ subject[t] \in Hashes(q) \cap Blocked
        /\ subject[t] \in Digests /\ record[subject[t]] # Nothing
  BY <1>2
<1>4. PICK d \in Digests : d = subject[t]
  BY <1>3
<1>5. TasksOK /\ StoreOK /\ t \in Tasks /\ op[t] \in {"promote", "reject"}
  BY <1>1, OperatorShape
<1>6. /\ q.digests[i] \in Blocked /\ copy[t].artifact = <<q.coord, i>> /\ copy[t].origin = "ingest"
  BY <1>1, <1>3 DEF ReviewOK
<1>7. record' = [record EXCEPT ![subject[t]] = Decided(copy[t], "quarantined")]
  BY DEF Revert
<1>8. /\ record'[subject[t]] # Nothing /\ record'[subject[t]].artifact = <<q.coord, i>>
      /\ record'[subject[t]].origin = "ingest" /\ record'[subject[t]].state = "quarantined"
      /\ \A e \in Digests \ {subject[t]} : record'[e] = record[e]
  BY <1>1, <1>3, <1>7, OperatorDecided
<1>9. /\ OperatorOK(t)' /\ Frame(t) /\ subject'[t] = Nothing /\ d # Nothing
  BY <1>1, <1>4, OperatorReturns, NothingAssumption
<1>10. Settled(t, q, i)'
  <2>1. /\ \A e \in Hashes(q) \ {d} : record[e] = Nothing /\ manifest[e] = Nothing
        /\ q \in owed \cup landed /\ manifest[d] = q /\ Hashes(q) \subseteq held
        /\ (q \in owed => q \notin landed \cup rejected) /\ (q \in landed => q \notin rejected)
    BY <1>1, <1>3, <1>4, <1>6 DEF Settled, ReviewOK
  <2>2. \A e \in Hashes(q) \ {d} : record'[e] = Nothing
    BY <1>4, <1>8, <2>1, HashShape
  <2> QED BY <1>1, <1>3, <1>4, <1>8, <1>9, <2>1, <2>2 DEF Settled
<1>11. \A e \in Digests \ {d} :
         (HalfPromoted(e)' <=> HalfPromoted(e)) /\ (HalfRejected(e)' <=> HalfRejected(e))
  BY <1>1, <1>4 DEF HalfPromoted, HalfRejected
<1> QED BY <1>1, <1>3, <1>4, <1>8, <1>9, <1>10, <1>11, OperatorDecides

LEMMA HoldOfPurgeBytes ==
    ASSUME Orderly, TypeOK, HoldInv, NEW t \in Operators, PurgeBytes(t)
    PROVE  HoldInv'
<1>1. /\ pc[t] = "purge" /\ pc[t] \in Reviewing /\ pc[t] \in Purging
      /\ pc[t] \in HasArtifact /\ pc[t] \in HasRequest
      /\ held' = held \ {Digest(t)} /\ Advance(t, "purge_manifest")
      /\ UNCHANGED <<record, manifest, landed, op, req, hold, subject, copy, history>>
  BY DEF PurgeBytes, Reviewing, Purging, HasArtifact, HasRequest
<1>2. PICK q \in Requests : \E i \in DOMAIN q.digests :
        /\ ReviewOK(t, q, i) /\ Settled(t, q, i)
        /\ subject[t] = q.digests[i] /\ subject[t] \in Hashes(q) \cap Blocked
        /\ subject[t] \in Digests /\ record[subject[t]] # Nothing
  BY <1>1, OperatorShape
<1>3. PICK i \in DOMAIN q.digests :
        /\ ReviewOK(t, q, i) /\ Settled(t, q, i)
        /\ subject[t] = q.digests[i] /\ subject[t] \in Hashes(q) \cap Blocked
        /\ subject[t] \in Digests /\ record[subject[t]] # Nothing
  BY <1>2
<1>4. PICK d \in Digests : d = subject[t]
  BY <1>3
<1>5. TasksOK /\ StoreOK /\ t \in Tasks /\ op[t] \in {"promote", "reject"}
  BY <1>1, OperatorShape
<1>6. /\ q.digests[i] \in Blocked /\ copy[t].artifact = <<q.coord, i>> /\ copy[t].origin = "ingest"
  BY <1>1, <1>3 DEF ReviewOK
<1>7. req[t] = q /\ q \in owed \cup landed /\ (op[t] = "promote" => q \in landed)
  BY <1>1, <1>3 DEF ReviewOK
<1>8. Digest(t) \in Hashes(q)
  BY <1>1, <1>5, <1>7, Place
<1>9. Frame(t) /\ pc'[t] \in {"purge", "purge_manifest"}
  BY <1>1, <1>5, Advances
<1>10. pc'[t] \in Purging /\ pc'[t] \notin Replaying
  BY <1>9 DEF Purging, Replaying
<1>11. ReviewOK(t, q, i)'
  BY <1>1, <1>3, <1>6, <1>7, <1>9 DEF ReviewOK, history, Replaying
<1>12. OperatorOK(t)'
  BY <1>1, <1>5, <1>9, <1>11, OperatorGoes DEF Reviewing, Purging
<1>13. Settled(t, q, i)'
  <2>1. pc[t] \notin Replaying
    BY <1>1 DEF Replaying
  <2>2. /\ record[d] # Nothing /\ record[d].artifact = <<q.coord, i>> /\ record[d].origin = "ingest"
        /\ \A e \in Hashes(q) \ {d} : record[e] = Nothing /\ manifest[e] = Nothing
        /\ q \in owed \cup landed \cup rejected
        /\ q \in owed => q \notin landed \cup rejected
        /\ q \in landed => q \notin rejected
        /\ q \in rejected => manifest[d] = Nothing
        /\ q \in owed => HalfPromoted(d) \/ HalfRejected(d) \/ record[d].state = "quarantined"
    BY <1>3, <1>4, <2>1 DEF Settled
  <2> QED BY <1>1, <1>3, <1>4, <1>10, <2>2 DEF Settled, history, HalfPromoted, HalfRejected
<1> QED BY <1>1, <1>3, <1>4, <1>8, <1>9, <1>12, <1>13, OperatorDecides DEF history, HalfPromoted, HalfRejected

LEMMA HoldOfPurgeManifest ==
    ASSUME Orderly, TypeOK, HoldInv, NEW t \in Operators, PurgeManifest(t)
    PROVE  HoldInv'
<1>1. /\ pc[t] = "purge_manifest" /\ pc[t] \in Reviewing /\ pc[t] \in Purging /\ pc[t] \notin Replaying
      /\ manifest' = [manifest EXCEPT ![subject[t]] = Nothing]
      /\ UNCHANGED <<record, held, landed, history>>
  BY DEF PurgeManifest, Reviewing, Purging, Replaying
<1>2. PICK q \in Requests : \E i \in DOMAIN q.digests :
        /\ ReviewOK(t, q, i) /\ Settled(t, q, i)
        /\ subject[t] = q.digests[i] /\ subject[t] \in Hashes(q) \cap Blocked
        /\ subject[t] \in Digests /\ record[subject[t]] # Nothing
  BY <1>1, OperatorShape
<1>3. PICK i \in DOMAIN q.digests :
        /\ ReviewOK(t, q, i) /\ Settled(t, q, i)
        /\ subject[t] = q.digests[i] /\ subject[t] \in Hashes(q) \cap Blocked
        /\ subject[t] \in Digests /\ record[subject[t]] # Nothing
  BY <1>2
<1>4. PICK d \in Digests : d = subject[t]
  BY <1>3
<1>5. TasksOK /\ StoreOK /\ t \in Tasks /\ op[t] \in {"promote", "reject"}
  BY <1>1, OperatorShape
<1>6. /\ q.digests[i] \in Blocked /\ copy[t].artifact = <<q.coord, i>> /\ copy[t].origin = "ingest"
  BY <1>1, <1>3 DEF ReviewOK
<1>7. req[t] = q /\ q \in owed \cup landed /\ (op[t] = "promote" => q \in landed)
  BY <1>1, <1>3 DEF ReviewOK
<1>8. manifest'[d] = Nothing /\ \A e \in Digests \ {d} : manifest'[e] = manifest[e]
  BY <1>1, <1>4, <1>5 DEF StoreOK
<1>9. /\ record[d] # Nothing /\ record[d].artifact = <<q.coord, i>> /\ record[d].origin = "ingest"
      /\ \A e \in Hashes(q) \ {d} : record[e] = Nothing /\ manifest'[e] = Nothing
      /\ q \in owed \cup landed \cup rejected
      /\ q \in owed => q \notin landed \cup rejected
      /\ q \in landed => q \notin rejected
      /\ q \in owed => HalfPromoted(d) \/ HalfRejected(d) \/ record[d].state = "quarantined"
  BY <1>1, <1>3, <1>4, <1>8, HashShape DEF Settled
<1>10. CASE op[t] = "promote" /\ Return(t)
  <2>1. /\ OperatorOK(t)' /\ Frame(t) /\ subject'[t] = Nothing /\ q \notin owed
    BY <1>7, <1>9, <1>10, OperatorReturns
  <2>2. Settled(t, q, i)'
    BY <1>1, <1>3, <1>4, <1>8, <1>9, <2>1 DEF Settled, history, HalfPromoted, HalfRejected
  <2> QED BY <1>1, <1>3, <1>4, <1>8, <2>1, <2>2, OperatorDecides DEF history, HalfPromoted, HalfRejected
<1>11. CASE op[t] = "reject" /\ Goto(t, "reject") /\ UNCHANGED <<op, req, idx, hold, subject, copy>>
  <2>1. pc'[t] = "reject" /\ Frame(t)
    BY <1>5, <1>11 DEF Goto, TasksOK, Frame
  <2>2. pc'[t] \in Purging /\ pc'[t] \notin Replaying
    BY <2>1 DEF Purging, Replaying
  <2>3. ReviewOK(t, q, i)'
    BY <1>1, <1>3, <1>4, <1>6, <1>7, <1>8, <1>11, <2>1 DEF ReviewOK, history, Replaying
  <2>4. OperatorOK(t)'
    BY <1>11, <2>1, <2>3, OperatorGoes DEF Reviewing, Purging
  <2>5. Settled(t, q, i)'
    BY <1>1, <1>3, <1>4, <1>8, <1>9, <1>11, <2>1, <2>2 DEF Settled, history, HalfPromoted, HalfRejected
  <2> QED BY <1>1, <1>3, <1>4, <1>8, <1>11, <2>1, <2>4, <2>5, OperatorDecides DEF history, HalfPromoted, HalfRejected
<1> QED BY <1>10, <1>11 DEF PurgeManifest

LEMMA HoldOfMarkRejected ==
    ASSUME Orderly, TypeOK, HoldInv, NEW t \in Operators, MarkRejected(t)
    PROVE  HoldInv'
<1>1. /\ pc[t] = "reject" /\ pc[t] \in Reviewing /\ pc[t] # "load" /\ Return(t)
      /\ UNCHANGED <<manifest, held, landed>>
  BY DEF MarkRejected, Reviewing, Purging
<1>2. PICK q \in Requests : \E i \in DOMAIN q.digests :
        /\ ReviewOK(t, q, i) /\ Settled(t, q, i)
        /\ subject[t] = q.digests[i] /\ subject[t] \in Hashes(q) \cap Blocked
        /\ subject[t] \in Digests /\ record[subject[t]] # Nothing
  BY <1>1, OperatorShape
<1>3. PICK i \in DOMAIN q.digests :
        /\ ReviewOK(t, q, i) /\ Settled(t, q, i)
        /\ subject[t] = q.digests[i] /\ subject[t] \in Hashes(q) \cap Blocked
        /\ subject[t] \in Digests /\ record[subject[t]] # Nothing
  BY <1>2
<1>4. PICK d \in Digests : d = subject[t]
  BY <1>3
<1>5. TasksOK /\ StoreOK /\ t \in Tasks /\ op[t] \in {"promote", "reject"}
  BY <1>1, OperatorShape
<1>6. /\ q.digests[i] \in Blocked /\ copy[t].artifact = <<q.coord, i>> /\ copy[t].origin = "ingest"
  BY <1>1, <1>3 DEF ReviewOK
<1>7. record' = [record EXCEPT ![subject[t]] = Decided(copy[t], "rejected")]
  BY DEF MarkRejected
<1>8. /\ record'[subject[t]] # Nothing /\ record'[subject[t]].artifact = <<q.coord, i>>
      /\ record'[subject[t]].origin = "ingest" /\ record'[subject[t]].state = "rejected"
      /\ \A e \in Digests \ {subject[t]} : record'[e] = record[e]
  BY <1>1, <1>3, <1>7, OperatorDecided
<1>9. OperatorOK(t)' /\ Frame(t) /\ subject'[t] = Nothing
  BY <1>1, OperatorReturns
<1>10. /\ (req[t] = q => q \in owed \cup landed /\ manifest[d] = Nothing)
       /\ req[t] \in {q, Nothing} /\ q # Nothing
  BY <1>1, <1>3, <1>4, RequestShape DEF ReviewOK
<1>11. /\ \A e \in Hashes(q) \ {d} : record[e] = Nothing /\ manifest[e] = Nothing
       /\ q \in owed \cup landed \cup rejected
       /\ q \in owed => q \notin landed \cup rejected
       /\ q \in landed => q \notin rejected
       /\ q \in rejected => manifest[d] = Nothing
  BY <1>3, <1>4 DEF Settled
<1>12. /\ q \in owed' \cup landed \cup rejected'
       /\ q \in owed' => q \notin landed \cup rejected' /\ HalfRejected(d)'
       /\ q \in landed => q \notin rejected'
       /\ q \in rejected' => manifest[d] = Nothing
       /\ \A r \in Requests \ {q} : (r \in owed' <=> r \in owed) /\ (r \in rejected' <=> r \in rejected)
  <2>1. CASE req[t] = q
    <3>1. {req[t]} \ (landed \cup {Nothing}) = IF q \in landed THEN {} ELSE {q}
      BY <1>10, <2>1
    <3>2. /\ rejected' = rejected \cup (IF q \in landed THEN {} ELSE {q})
          /\ owed' = owed \ (IF q \in landed THEN {} ELSE {q})
      BY <3>1 DEF MarkRejected
    <3> QED BY <1>10, <1>11, <2>1, <3>2
  <2>2. CASE req[t] = Nothing
    <3>1. rejected' = rejected /\ owed' = owed /\ halfway' = halfway \cup {<<d, "reject">>}
      BY <1>4, <2>2 DEF MarkRejected
    <3> QED BY <1>11, <3>1 DEF HalfRejected
  <2> QED BY <1>10, <2>1, <2>2
<1>13. \A e \in Hashes(q) \ {d} : record'[e] = Nothing
  BY <1>4, <1>8, <1>11, HashShape
<1>14. Settled(t, q, i)'
  BY <1>1, <1>3, <1>4, <1>8, <1>11, <1>12, <1>13 DEF Settled
<1>15. \A e \in Digests \ {d} :
         (HalfPromoted(e)' <=> HalfPromoted(e)) /\ (HalfRejected(e)' <=> HalfRejected(e))
  <2>1. halfway \subseteq halfway' /\ \A h \in halfway' \ halfway : h = <<d, "reject">>
    BY <1>4 DEF MarkRejected
  <2> QED BY <2>1 DEF HalfPromoted, HalfRejected
<1> QED BY <1>1, <1>3, <1>4, <1>8, <1>9, <1>12, <1>14, <1>15, OperatorDecides

\* A review that stops leaves a mark where it has begun to write.
LEMMA HoldOfStop ==
    ASSUME Orderly, TypeOK, HoldInv, NEW t \in Operators, pc[t] # "idle", Stop(t)
    PROVE  HoldInv'
<1>1. /\ OperatorOK(t)' /\ Frame(t) /\ pc'[t] = "idle" /\ subject'[t] = Nothing
      /\ UNCHANGED <<record, manifest, held, landed, owed, rejected>>
      /\ halfway' = IF IsHalfway(t) THEN halfway \cup {<<subject[t], op[t]>>} ELSE halfway
  BY OperatorReturns DEF Stop, store
<1>2. OperatorOK(t) /\ TaskOK(t) /\ TasksOK /\ StoreOK /\ t \in Tasks
  BY TypeParts DEF HoldInv, Tasks
<1>3. CASE pc[t] \in {"review", "stamp"}
  <2>1. halfway' = halfway
    BY <1>1, <1>3 DEF IsHalfway, Publishing
  <2>2. subject[t] \in Digests /\ \A q \in Requests : subject[t] \notin Hashes(q)
    BY <1>2, <1>3 DEF OperatorOK, TaskOK, TasksOK, HasRecord
  <2>3. record[subject[t]] # Nothing => record[subject[t]].origin = "serve"
    BY <1>2, <2>2 DEF HoldInv, DigestOK, StoreOK, Record
  <2> QED BY <1>1, <2>1, <2>2, <2>3, OperatorAside
<1>4. CASE pc[t] \in Reviewing
  <2>2. PICK q \in Requests : \E i \in DOMAIN q.digests :
          /\ ReviewOK(t, q, i) /\ Settled(t, q, i)
          /\ subject[t] = q.digests[i] /\ subject[t] \in Hashes(q) \cap Blocked
          /\ subject[t] \in Digests /\ record[subject[t]] # Nothing
    BY <1>4, OperatorShape
  <2>3. PICK i \in DOMAIN q.digests :
          /\ ReviewOK(t, q, i) /\ Settled(t, q, i)
          /\ subject[t] = q.digests[i] /\ subject[t] \in Hashes(q) \cap Blocked
          /\ subject[t] \in Digests /\ record[subject[t]] # Nothing
    BY <2>2
  <2>4. PICK d \in Digests : d = subject[t]
    BY <2>3
  <2>5. /\ halfway \subseteq halfway'
        /\ \A e \in Digests \ {d} :
             (HalfPromoted(e)' <=> HalfPromoted(e)) /\ (HalfRejected(e)' <=> HalfRejected(e))
    BY <1>1, <2>4 DEF HalfPromoted, HalfRejected
  <2>6. pc[t] \in Replaying => HalfPromoted(d)'
    <3>1. ASSUME pc[t] \in Replaying PROVE IsHalfway(t) /\ op[t] = "promote"
      BY <2>3, <3>1 DEF ReviewOK, IsHalfway, Replaying, Publishing
    <3> QED BY <1>1, <2>4, <3>1 DEF HalfPromoted
  <2>7. pc[t] \in Purging /\ q \in owed => HalfRejected(d)'
    <3>1. ASSUME pc[t] \in Purging, q \in owed PROVE IsHalfway(t) /\ op[t] = "reject"
      <4>1. q \notin landed
        BY <2>3, <3>1 DEF Settled
      <4>2. op[t] = "reject"
        BY <1>2, <1>4, <2>3, <3>1, <4>1 DEF ReviewOK, OperatorOK, Purging
      <4> QED BY <3>1, <4>2 DEF IsHalfway, Purging
    <3> QED BY <1>1, <2>4, <3>1 DEF HalfRejected
  <2>8. (HalfPromoted(d) => HalfPromoted(d)') /\ (HalfRejected(d) => HalfRejected(d)')
    BY <2>5 DEF HalfPromoted, HalfRejected
  <2>9. Settled(t, q, i)'
    BY <1>1, <2>3, <2>4, <2>6, <2>7, <2>8 DEF Settled
  <2> QED BY <1>1, <2>3, <2>4, <2>5, <2>9, OperatorDecides
<1> QED BY <1>2, <1>3, <1>4 DEF OperatorOK

LEMMA HoldOfFailReview ==
    ASSUME Orderly, TypeOK, HoldInv, NEW t \in Operators, FailReview(t)
    PROVE  HoldInv'
BY HoldOfStop DEF FailReview

LEMMA HoldOfReview ==
    ASSUME Orderly, TypeOK, HoldInv, NEW t \in Operators, Review(t)
    PROVE  HoldInv'
BY HoldOfLoadRecord, HoldOfStampRecord, HoldOfLoadIngestRecord, HoldOfReadManifest, HoldOfReadBytes,
   HoldOfMarkPromoted, HoldOfRevert, HoldOfPurgeBytes, HoldOfPurgeManifest, HoldOfMarkRejected,
   HoldOfFailReview DEF Review

-----------------------------------------------------------------------------
(* Steps of a serve *)

LEMMA ServerAside ==
    ASSUME Orderly, TypeOK, HoldInv, NEW t \in Servers, Frame(t), NEW d \in Digests,
           \A q \in Requests : d \notin Hashes(q),
           UNCHANGED <<manifest, held, landed, owed, rejected, halfway>>,
           \A e \in Digests \ {d} : record'[e] = record[e],
           record'[d] # Nothing => record'[d].origin = "serve" \/ record'[d] = record[d],
           ServerOK(t)'
    PROVE  HoldInv'
<1>1. t \in Tasks /\ t \notin Clients /\ t \notin Operators
  BY RolesAssumption DEF Tasks
<1>2. Aside(t, {})
  <2>1. ASSUME NEW q \in Requests, NEW e \in Hashes(q) PROVE record'[e] = record[e]
    BY <2>1, HashShape
  <2> QED BY <1>1, <2>1 DEF Aside, HalfPromoted, HalfRejected
<1>3. ASSUME NEW e \in Digests PROVE DigestOK(e)'
  <2>1. CASE e = d
    BY <2>1 DEF HoldInv, DigestOK
  <2>2. CASE e # d
    BY <2>2 DEF HoldInv, DigestOK
  <2> QED BY <2>1, <2>2
<1> QED BY <1>1, <1>2, <1>3, HoldOfStep

\* A blocked artifact of a published package has its record: it is not held again.
LEMMA HoldOfCheckServe ==
    ASSUME Orderly, TypeOK, HoldInv, NEW t \in Servers, NEW s \in Servable, CheckServe(t, s[1], s[2])
    PROVE  HoldInv'
<1>1. /\ t \in Tasks /\ TasksOK /\ ServerOK(t) /\ UNCHANGED <<store, op, req, idx, hold, history>>
      /\ s[2] \in Blocked /\ s[2] \in Digests
      /\ record[s[2]] # Nothing => record[s[2]].artifact # s[1]
  BY TypeParts, BlockedAssumption DEF CheckServe, Tasks, HoldInv
<1>2. ASSUME NEW q \in Requests PROVE s[2] \notin Hashes(q)
  <2>1. CASE s \in Proxied
    BY <2>1 DEF Orderly
  <2>2. CASE s \in UNION {Files(p) : p \in landed}
    <3>1. PICK p \in landed : s \in Files(p)
      BY <2>2
    <3>2. PICK i \in DOMAIN p.digests : s = <<<<p.coord, i>>, p.digests[i]>>
      BY <3>1 DEF Files
    <3>3. p \in Requests /\ RequestOK(p) /\ p.digests[i] \in Hashes(p)
      BY TypeParts, <3>1, HashShape DEF StoreOK, HoldInv
    <3>4. record[p.digests[i]] # Nothing
      BY <1>1, <3>1, <3>2, <3>3 DEF RequestOK, DecidedOnce
    <3>5. record[p.digests[i]].artifact = <<p.coord, i>>
      BY <3>3, <3>4 DEF RequestOK
    <3> QED BY <1>1, <3>2, <3>4, <3>5
  <2> QED BY <2>1, <2>2 DEF Servable
<1>3. /\ pc'[t] = "hold" /\ subject'[t] = s[2] /\ Frame(t) /\ req'[t] = req[t]
      /\ copy'[t] = [artifact |-> s[1], origin |-> "serve", state |-> "quarantined"]
  BY <1>1 DEF CheckServe, Goto, TasksOK, Frame
<1>4. ServerOK(t)'
  BY <1>1, <1>2, <1>3 DEF ServerOK
<1> QED BY <1>1, <1>2, <1>3, <1>4, ServerAside DEF store, history

LEMMA HoldOfHoldServe ==
    ASSUME Orderly, TypeOK, HoldInv, NEW t \in Servers, HoldServe(t)
    PROVE  HoldInv'
<1>1. /\ t \in Tasks /\ TasksOK /\ StoreOK /\ TaskOK(t) /\ ServerOK(t) /\ pc[t] = "hold"
      /\ UNCHANGED <<manifest, held, landed, history>> /\ Return(t)
  BY TypeParts DEF HoldServe, Tasks, HoldInv
<1>2. PICK d \in Digests : d = subject[t]
  BY <1>1 DEF TaskOK, TasksOK, HasRecord
<1>3. (\A q \in Requests : d \notin Hashes(q)) /\ copy[t].origin = "serve"
  BY <1>1, <1>2 DEF ServerOK
<1>4. record'[d].origin = "serve" /\ \A e \in Digests \ {d} : record'[e] = record[e]
  BY <1>1, <1>2, <1>3 DEF HoldServe, StoreOK
<1>5. pc'[t] = "idle" /\ req'[t] = Nothing /\ subject'[t] = Nothing /\ Frame(t)
  BY <1>1 DEF Return, Goto, TasksOK, Frame
<1>6. ServerOK(t)'
  BY <1>5, HashShape, NothingAssumption DEF ServerOK
<1> QED BY <1>1, <1>2, <1>3, <1>4, <1>5, <1>6, ServerAside DEF history

-----------------------------------------------------------------------------
(* Held packages stay recoverable *)

LEMMA HoldStutter ==
    ASSUME HoldInv, UNCHANGED vars
    PROVE  HoldInv'
<1>1. UNCHANGED <<record, manifest, held, landed, pc, op, req, idx, hold, subject, copy, owed, rejected, halfway>>
  BY DEF vars, store, taskVars, history
<1>2. \A q \in Requests : RequestOK(q)'
  BY <1>1 DEF HoldInv, RequestOK, DecidedOnce, Parked, HalfPromoted, HalfRejected
<1>3. \A d \in Digests : DigestOK(d)'
  BY <1>1 DEF HoldInv, DigestOK
<1>4. \A t \in Clients : ClientOK(t)'
  BY <1>1 DEF HoldInv, ClientOK
<1>5. \A o \in Operators : OperatorOK(o)'
  BY <1>1 DEF HoldInv, OperatorOK, ReviewOK
<1>6. \A s \in Servers : ServerOK(s)'
  BY <1>1 DEF HoldInv, ServerOK
<1> QED BY <1>2, <1>3, <1>4, <1>5, <1>6 DEF HoldInv

LEMMA HoldStep == Orderly /\ TypeOK /\ HoldInv /\ [Next]_vars => HoldInv'
<1> SUFFICES ASSUME Orderly, TypeOK, HoldInv, [Next]_vars PROVE HoldInv'
  OBVIOUS
<1>1. CASE UNCHANGED vars
  BY <1>1, HoldStutter
<1>2. CASE Next
  <2>1. ASSUME NEW t \in Operators, CancelReview(t) PROVE HoldInv'
    BY <2>1, HoldOfStop DEF CancelReview
  <2>2. ASSUME NEW t \in Clients \cup Operators, Publish(t) PROVE HoldInv'
    BY <2>2, HoldOfPublish, HoldOfReplay
  <2> QED BY <1>2, <2>1, <2>2, HoldOfStartPublish, HoldOfStartReview, HoldOfReview, HoldOfCheckServe,
             HoldOfHoldServe DEF Next
<1> QED BY <1>1, <1>2

LEMMA HoldOfInit == Init => HoldInv
<1> SUFFICES ASSUME Init PROVE HoldInv
  OBVIOUS
<1>1. /\ \A d \in Digests : record[d] = Nothing /\ manifest[d] = Nothing
      /\ \A t \in Tasks : pc[t] = "idle" /\ req[t] = Nothing /\ subject[t] = Nothing
      /\ owed = {} /\ landed = {} /\ rejected = {}
  BY DEF Init
<1>2. \A q \in Requests : RequestOK(q)
  BY <1>1, HashShape DEF RequestOK, DecidedOnce, Parked
<1>3. \A d \in Digests : DigestOK(d)
  BY <1>1 DEF DigestOK
<1>4. \A t \in Clients : ClientOK(t)
  BY <1>1 DEF ClientOK, Tasks, Publishing
<1>5. \A o \in Operators : OperatorOK(o)
  BY <1>1 DEF OperatorOK, Tasks, Reviewing, Replaying, Purging
<1>6. \A s \in Servers : ServerOK(s)
  BY <1>1, HashShape, NothingAssumption DEF ServerOK, Tasks
<1> QED BY <1>2, <1>3, <1>4, <1>5, <1>6 DEF HoldInv

LEMMA HoldImplies ==
    ASSUME Orderly, TypeOK, HoldInv
    PROVE  HeldIsRecoverable /\ RejectedNeverLands
<1>1. ASSUME NEW q \in owed, Quiet(q)
      PROVE  /\ Reviewable(q)
             /\ ~Halfway(q, "reject") => Promotable(q)
             /\ ~Halfway(q, "reject") /\ ~Halfway(q, "promote") => AsParked(q)
  <2>1. q \in Requests /\ RequestOK(q) /\ StoreOK
    BY TypeParts DEF StoreOK, HoldInv
  <2>2. PICK d \in Hashes(q) \cap Blocked : TRUE
    BY <2>1 DEF RequestOK, Parked
  <2>3. PICK i \in DOMAIN q.digests : d = q.digests[i]
    BY DEF Hashes
  <2>4. \A o \in Operators : subject[o] # d
    BY <1>1, <2>3 DEF Quiet, Tasks
  <2>5. /\ record[d] # Nothing
        /\ HalfPromoted(d) \/ HalfRejected(d) \/ record[d].state = "quarantined"
        /\ HalfRejected(d) \/ (manifest[d] = q /\ Hashes(q) \subseteq held)
    BY <2>1, <2>4 DEF RequestOK, Parked
  <2>6. record[d].artifact = <<q.coord, i>> /\ record[d].origin = "ingest"
    BY <2>1, <2>3, <2>5 DEF RequestOK
  <2>7. Reviewable(q)
    BY <2>3, <2>5, <2>6 DEF Reviewable
  <2>8. ASSUME ~Halfway(q, "reject") PROVE manifest[d] = q /\ \A j \in DOMAIN q.digests : q.digests[j] \in held
    BY <2>1, <2>3, <2>5, <2>8, HashShape DEF Halfway, HalfRejected
  <2>9. ~Halfway(q, "reject") => Promotable(q)
    BY <2>3, <2>5, <2>6, <2>8 DEF Promotable
  <2>10. ASSUME ~Halfway(q, "reject"), ~Halfway(q, "promote") PROVE AsParked(q)
    <3>1. record[d].state = "quarantined"
      BY <2>3, <2>5, <2>10 DEF Halfway, HalfPromoted, HalfRejected
    <3>2. d \in Digests /\ record[d] \in Record
      BY <2>1, <2>5, HashShape DEF StoreOK
    <3>3. record[d] = [artifact |-> <<q.coord, i>>, origin |-> "ingest", state |-> "quarantined"]
      BY <2>6, <3>1, <3>2 DEF Record
    <3> QED BY <2>3, <2>8, <2>10, <3>3 DEF AsParked
  <2> QED BY <2>7, <2>9, <2>10
<1>2. ASSUME NEW q \in rejected, q \in landed PROVE FALSE
  BY <1>2, TypeParts DEF StoreOK, HoldInv, RequestOK, DecidedOnce
<1> QED BY <1>1, <1>2 DEF HeldIsRecoverable, RejectedNeverLands

\* promote_ingest and reject_ingest, where nobody decides a package twice at once
\* and one artifact of it is blocked: a publish whose client was told Ok, and
\* which is not published or rejected, can be reviewed again whatever failed and
\* wherever its reviews were cut off; it has its bytes and its manifest unless a
\* rejection got half-way, and is back to quarantined unless a promotion did.
THEOREM StaysRecoverable ==
    ASSUME Orderly
    PROVE  Spec => []HeldIsRecoverable
<1>1. Init => HoldInv
  BY HoldOfInit
<1>2. TypeOK /\ HoldInv /\ [Next]_vars => HoldInv'
  BY HoldStep
<1>3. TypeOK /\ HoldInv => HeldIsRecoverable
  BY HoldImplies
<1> QED BY <1>1, <1>2, <1>3, TypeCorrect, PTL DEF Spec

\* reject_ingest, under the same conditions: what an operator has rejected does
\* not become published.
THEOREM NeverLands ==
    ASSUME Orderly
    PROVE  Spec => []RejectedNeverLands
<1>1. Init => HoldInv
  BY HoldOfInit
<1>2. TypeOK /\ HoldInv /\ [Next]_vars => HoldInv'
  BY HoldStep
<1>3. TypeOK /\ HoldInv => RejectedNeverLands
  BY HoldImplies
<1> QED BY <1>1, <1>2, <1>3, TypeCorrect, PTL DEF Spec

=============================================================================
