-------------------------- MODULE PublishAdmission --------------------------
(***************************************************************************)
(* How publish_package admits concurrent publishes: the lock of a          *)
(* coordinate, kept in a map of reference-counted mutexes whose entries    *)
(* are pruned when nobody uses them, and the in-memory quota ledger of     *)
(* ADR-0021, reserved before the staged writes and reconciled after them.  *)
(* The staged writes themselves appear as the one key that decides whether *)
(* a version exists, _metadata.json.  Two others write that key and take   *)
(* no lock: the fill from upstream of get_version_metadata, and the yank   *)
(* of set_yanked.                                                          *)
(*                                                                         *)
(* A publish is a future: besides returning early with an error it may be  *)
(* dropped at any await (the client disconnects), which runs the guards'   *)
(* Drop and nothing else.                                                  *)
(***************************************************************************)
EXTENDS Integers, FiniteSets, Functions

CONSTANTS
    Tasks,           \* concurrent publish requests
    Writers,         \* concurrent fills and yanks
    Coordinates,     \* ecosystem/name/version
    Upstream,        \* those that upstream has
    Asked,           \* those that clients fill and yank
    Namespaces,      \* quota keys
    NamespaceOf,     \* the quota key of each coordinate
    Requests,        \* [coord, bytes, overwrite]
    Locks,           \* identities of the mutexes ever allocated
    MaxVersions,     \* the ceilings of each namespace, or Unlimited
    MaxBytes,
    Unlimited,
    MayCancel,       \* may a publish be dropped while it holds the lock?
    MayFailRollback, \* may undoing a staged write fail (it is only logged)?
    MayRestart,      \* may the process be restarted?
    NoLock,
    NoGuard,
    NoRequest

Request == [coord : Coordinates, bytes : Nat, overwrite : BOOLEAN]

\* A write without the lock: its next step, its coordinate, and whether it found
\* the metadata there when it was about to write it.
Write == [pc : {"idle", "track", "put", "undo"},
          coord : Coordinates \cup {NoRequest}, found : BOOLEAN]
NoWrite == [pc |-> "idle", coord |-> NoRequest, found |-> FALSE]

UsageType == [versions : Nat, bytes : Nat]

ASSUME AskedAssumption == Asked \subseteq Coordinates
ASSUME NamespaceAssumption == NamespaceOf \in [Coordinates -> Namespaces]
ASSUME RequestsAssumption == Requests \subseteq Request
ASSUME LimitsAssumption == {MaxVersions, MaxBytes} \subseteq [Namespaces -> Nat \cup {Unlimited}]
ASSUME NoLockAssumption == NoLock \notin Locks
ASSUME NoGuardAssumption == NoGuard \notin UsageType
ASSUME NoRequestAssumption == NoRequest \notin Request \cup Coordinates
ASSUME SwitchAssumption == {MayCancel, MayFailRollback, MayRestart} \subseteq BOOLEAN

VARIABLES
    lockMap,    \* publish_locks: the mutex of each coordinate
    arc,        \* the mutex a task has cloned out of the map
    pc,         \* next step of each publish
    req,        \* its request
    existed,    \* version_already_exists, as the publish observed it
    replaced,   \* did its staged metadata write replace an earlier one?
    guard,      \* its quota reservation
    committed,  \* ledger: committed usage of each namespace
    reserved,   \* ledger: usage reserved by publishes in flight
    published,  \* coordinates whose _metadata.json exists
    writer,     \* what each fill or yank is doing
    overtaken,  \* publishes whose coordinate came or went, by a write without
                \* the lock, since they looked (history)
    abandoned   \* coordinates some publish gave up waiting for (history)

lockVars == <<lockMap, arc>>
ledgerVars == <<guard, committed, reserved>>
writerVars == <<writer, overtaken>>
vars == <<lockVars, pc, req, existed, replaced, ledgerVars, published, writerVars, abandoned>>

-----------------------------------------------------------------------------
Usage(versions, bytes) == [versions |-> versions, bytes |-> bytes]
Nothing == Usage(0, 0)

\* saturating_add (far below 2^64) and saturating_sub.
Plus(a, b) == Usage(a.versions + b.versions, a.bytes + b.bytes)
Minus(a, b) ==
    Usage(IF a.versions >= b.versions THEN a.versions - b.versions ELSE 0,
          IF a.bytes >= b.bytes THEN a.bytes - b.bytes ELSE 0)

Within(amount, limit) == limit # Unlimited => amount <= limit

WithinQuota(n, usage) ==
    Within(usage.versions, MaxVersions[n]) /\ Within(usage.bytes, MaxBytes[n])

Coord(t) == req[t].coord
QuotaKey(t) == NamespaceOf[Coord(t)]

\* What this publish asks of the quota: an overwrite adds no version, bytes are
\* charged in full.
Delta(t) == Usage(IF existed[t] THEN 0 ELSE 1, req[t].bytes)

\* Variant: the projection leaves out what publishes in flight have reserved.
AdmittedByCommitted(t) ==
    WithinQuota(QuotaKey(t), Plus(committed[QuotaKey(t)], Delta(t)))

Admitted(t) ==
    LET n == QuotaKey(t) IN WithinQuota(n, Plus(Plus(committed[n], reserved[n]), Delta(t)))

Unbounded(n) == MaxVersions[n] = Unlimited /\ MaxBytes[n] = Unlimited

\* The program points at which a task owns the mutex it cloned.
Critical == {"exists", "gates", "write", "put", "staged", "rollback", "drop", "release"}

Users(l) == {t \in Tasks : arc[t] = l}

Init ==
    /\ lockMap = [c \in Coordinates |-> NoLock]
    /\ arc = [t \in Tasks |-> NoLock]
    /\ pc = [t \in Tasks |-> "idle"]
    /\ req = [t \in Tasks |-> NoRequest]
    /\ existed = [t \in Tasks |-> FALSE]
    /\ replaced = [t \in Tasks |-> FALSE]
    /\ guard = [t \in Tasks |-> NoGuard]
    /\ committed = [n \in Namespaces |-> Nothing]
    /\ reserved = [n \in Namespaces |-> Nothing]
    /\ published = {}
    /\ writer = [w \in Writers |-> NoWrite]
    /\ overtaken = {}
    /\ abandoned = {}

Goto(t, label) == pc' = [pc EXCEPT ![t] = label]

-----------------------------------------------------------------------------
(* The lock *)

\* Under the map's own mutex: find or insert the entry and clone its Arc.
CloneLock(t, q) ==
    /\ pc[t] = "idle"
    /\ \/ /\ lockMap[q.coord] # NoLock
          /\ arc' = [arc EXCEPT ![t] = lockMap[q.coord]]
          /\ UNCHANGED lockMap
       \/ /\ lockMap[q.coord] = NoLock
          /\ \E l \in Locks :
               /\ Users(l) = {}
               /\ \A c \in Coordinates : lockMap[c] # l
               /\ lockMap' = [lockMap EXCEPT ![q.coord] = l]
               /\ arc' = [arc EXCEPT ![t] = l]
    /\ req' = [req EXCEPT ![t] = q]
    /\ Goto(t, "waiting")
    /\ UNCHANGED <<existed, replaced, ledgerVars, published, writerVars, abandoned>>

\* Variant: the task goes on without the mutex.
LockNothing(t) ==
    /\ pc[t] = "waiting"
    /\ Goto(t, "exists")
    /\ UNCHANGED <<lockVars, req, existed, replaced, ledgerVars, published, writerVars, abandoned>>

Lock(t) ==
    /\ pc[t] = "waiting"
    /\ \A u \in Users(arc[t]) : pc[u] \notin Critical
    /\ Goto(t, "exists")
    /\ UNCHANGED <<lockVars, req, existed, replaced, ledgerVars, published, writerVars, abandoned>>

\* Dropped in lock_owned().await: the Arc goes, but there is no guard yet
\* whose Drop would prune the entry.
AbandonWait(t) ==
    /\ pc[t] = "waiting"
    /\ arc' = [arc EXCEPT ![t] = NoLock]
    /\ abandoned' = abandoned \cup {Coord(t)}
    /\ req' = [req EXCEPT ![t] = NoRequest]
    /\ Goto(t, "idle")
    /\ UNCHANGED <<lockMap, existed, replaced, ledgerVars, published, writerVars>>

\* PublishLockGuard::drop, first half: the mutex and the guard's Arc go.
ReleaseLock(t) ==
    /\ pc[t] = "release"
    /\ arc' = [arc EXCEPT ![t] = NoLock]
    /\ Goto(t, "prune")
    /\ UNCHANGED <<lockMap, req, existed, replaced, ledgerVars, published, writerVars, abandoned>>

\* Variant: the entry is removed without asking for the strong count.
PruneLockUnchecked(t) ==
    /\ pc[t] = "prune"
    /\ lockMap' = [lockMap EXCEPT ![Coord(t)] = NoLock]
    /\ abandoned' = abandoned \ {Coord(t)}
    /\ req' = [req EXCEPT ![t] = NoRequest]
    /\ existed' = [existed EXCEPT ![t] = FALSE]
    /\ replaced' = [replaced EXCEPT ![t] = FALSE]
    /\ overtaken' = overtaken \ {t}
    /\ Goto(t, "idle")
    /\ UNCHANGED <<arc, ledgerVars, published, writer>>

\* Second half: remove the entry if the map is its only holder.
PruneLock(t) ==
    LET c == Coord(t) IN
    /\ pc[t] = "prune"
    /\ \/ /\ lockMap[c] # NoLock /\ Users(lockMap[c]) = {}
          /\ lockMap' = [lockMap EXCEPT ![c] = NoLock]
          /\ abandoned' = abandoned \ {c}
       \/ /\ lockMap[c] = NoLock \/ Users(lockMap[c]) # {}
          /\ UNCHANGED <<lockMap, abandoned>>
    /\ req' = [req EXCEPT ![t] = NoRequest]
    /\ existed' = [existed EXCEPT ![t] = FALSE]
    /\ replaced' = [replaced EXCEPT ![t] = FALSE]
    /\ overtaken' = overtaken \ {t}
    /\ Goto(t, "idle")
    /\ UNCHANGED <<arc, ledgerVars, published, writer>>

-----------------------------------------------------------------------------
(* The guarded part of publish_package *)

CheckExists(t) ==
    /\ pc[t] = "exists"
    /\ existed' = [existed EXCEPT ![t] = Coord(t) \in published]
    /\ \/ Coord(t) \in published /\ ~req[t].overwrite /\ Goto(t, "release")
       \/ (Coord(t) \notin published \/ req[t].overwrite) /\ Goto(t, "gates")
    /\ UNCHANGED <<lockVars, req, replaced, ledgerVars, published, writerVars, abandoned>>

\* Shadowing, a bad filename, policy or the scan gate refuse the publish, or it
\* is parked in ingest quarantine.
Refuse(t) ==
    /\ pc[t] = "gates"
    /\ Goto(t, "release")
    /\ UNCHANGED <<lockVars, req, existed, replaced, ledgerVars, published, writerVars, abandoned>>

\* reserve_quota: check and increment in one critical section.
ReserveQuota(t) ==
    /\ pc[t] = "gates"
    /\ \/ /\ Unbounded(QuotaKey(t))
          /\ Goto(t, "write")
          /\ UNCHANGED <<guard, reserved>>
       \/ /\ ~Unbounded(QuotaKey(t))
          /\ Admitted(t)
          /\ guard' = [guard EXCEPT ![t] = Delta(t)]
          /\ reserved' = [reserved EXCEPT ![QuotaKey(t)] = Plus(@, Delta(t))]
          /\ Goto(t, "write")
       \/ /\ ~Admitted(t)
          /\ Goto(t, "release")
          /\ UNCHANGED <<guard, reserved>>
    /\ UNCHANGED <<lockVars, req, existed, replaced, committed, published, writerVars, abandoned>>

\* put_and_track of the metadata key, among the other staged writes: read what is
\* there, remember it, put.
TrackMetadata(t) ==
    /\ pc[t] = "write"
    /\ replaced' = [replaced EXCEPT ![t] = Coord(t) \in published]
    /\ Goto(t, "put")
    /\ UNCHANGED <<lockVars, req, existed, ledgerVars, published, writerVars, abandoned>>

StageMetadata(t) ==
    /\ pc[t] = "put"
    /\ published' = published \cup {Coord(t)}
    /\ overtaken' = overtaken \ {t}
    /\ Goto(t, "staged")
    /\ UNCHANGED <<lockVars, req, existed, replaced, ledgerVars, writer, abandoned>>

\* The block committed: QuotaReservationGuard::reconcile.
Reconcile(t) ==
    /\ pc[t] = "staged"
    /\ \/ /\ guard[t] # NoGuard
          /\ reserved' = [reserved EXCEPT ![QuotaKey(t)] = Minus(@, guard[t])]
          /\ committed' = [committed EXCEPT ![QuotaKey(t)] = Plus(@, guard[t])]
          /\ guard' = [guard EXCEPT ![t] = NoGuard]
       \/ guard[t] = NoGuard /\ UNCHANGED ledgerVars
    /\ Goto(t, "release")
    /\ UNCHANGED <<lockVars, req, existed, replaced, published, writerVars, abandoned>>

\* A write, a signature, a verification or the content store failed: roll back
\* what was staged, if anything.  A put that failed may have been applied.
FailTransaction(t) ==
    /\ \/ pc[t] = "write" /\ Goto(t, "drop")
       \/ pc[t] \in {"put", "staged"} /\ Goto(t, "rollback")
    /\ overtaken' = overtaken \ {t}
    /\ UNCHANGED <<lockVars, req, existed, replaced, ledgerVars, published, writer, abandoned>>

\* What the metadata's presence becomes when the previous value is put back.
PutBack(c, found) == IF found THEN published \cup {c} ELSE published \ {c}

Rollback(t) ==
    /\ pc[t] = "rollback"
    /\ \/ published' = PutBack(Coord(t), replaced[t])
       \/ MayFailRollback /\ UNCHANGED published
    /\ Goto(t, "drop")
    /\ UNCHANGED <<lockVars, req, existed, replaced, ledgerVars, writerVars, abandoned>>

\* Variant: drop forgets the ledger.
DropGuardOnly(t) ==
    /\ pc[t] = "drop"
    /\ guard' = [guard EXCEPT ![t] = NoGuard]
    /\ Goto(t, "release")
    /\ UNCHANGED <<lockVars, req, existed, replaced, reserved, committed, published, writerVars, abandoned>>

\* Variant: drop waits for a reservation that a publish dropped early never made.
DropReservationOnly(t) ==
    /\ pc[t] = "drop"
    /\ guard[t] # NoGuard
    /\ reserved' = [reserved EXCEPT ![QuotaKey(t)] = Minus(@, guard[t])]
    /\ guard' = [guard EXCEPT ![t] = NoGuard]
    /\ Goto(t, "release")
    /\ UNCHANGED <<lockVars, req, existed, replaced, committed, published, writerVars, abandoned>>

\* QuotaReservationGuard::drop on every exit but success; locals drop in
\* reverse order, so the lock is still held.
DropReservation(t) ==
    /\ pc[t] = "drop"
    /\ \/ /\ guard[t] # NoGuard
          /\ reserved' = [reserved EXCEPT ![QuotaKey(t)] = Minus(@, guard[t])]
          /\ guard' = [guard EXCEPT ![t] = NoGuard]
       \/ guard[t] = NoGuard /\ UNCHANGED <<reserved, guard>>
    /\ Goto(t, "release")
    /\ UNCHANGED <<lockVars, req, existed, replaced, committed, published, writerVars, abandoned>>

\* The handler's future is dropped at an await; no rollback runs.
Cancel(t) ==
    /\ MayCancel
    /\ pc[t] \in {"exists", "gates", "write", "put", "staged", "rollback"}
    /\ Goto(t, "drop")
    /\ UNCHANGED <<lockVars, req, existed, replaced, ledgerVars, published, writerVars, abandoned>>

\* A crash or a deployment: locks and ledger are process-local, storage is not.
Restart ==
    /\ MayRestart
    /\ lockMap' = [c \in Coordinates |-> NoLock]
    /\ arc' = [t \in Tasks |-> NoLock]
    /\ pc' = [t \in Tasks |-> "idle"]
    /\ req' = [t \in Tasks |-> NoRequest]
    /\ existed' = [t \in Tasks |-> FALSE]
    /\ replaced' = [t \in Tasks |-> FALSE]
    /\ guard' = [t \in Tasks |-> NoGuard]
    /\ committed' = [n \in Namespaces |-> Nothing]
    /\ reserved' = [n \in Namespaces |-> Nothing]
    /\ abandoned' = {}
    /\ writer' = [w \in Writers |-> NoWrite]
    /\ overtaken' = {}
    /\ UNCHANGED published

-----------------------------------------------------------------------------
(* What writes the metadata without the lock *)

publishVars == <<lockVars, pc, req, existed, replaced, ledgerVars, abandoned>>

\* get_version_metadata found nothing and upstream answered, or set_yanked found
\* what it is to rewrite.
StartWrite(w, c) ==
    /\ writer[w].pc = "idle"
    /\ c \in published \/ c \in Upstream
    /\ writer' = [writer EXCEPT ![w] = [NoWrite EXCEPT !.pc = "track", !.coord = c]]
    /\ UNCHANGED <<publishVars, published, overtaken>>

\* put_and_track, first half.
TrackWrite(w) ==
    /\ writer[w].pc = "track"
    /\ writer' = [writer EXCEPT ![w].pc = "put", ![w].found = writer[w].coord \in published]
    /\ UNCHANGED <<publishVars, published, overtaken>>

\* A publish that has looked and not yet written does not see it.
Overtake(c) ==
    overtaken' = IF (c \in published') = (c \in published) THEN overtaken
                 ELSE overtaken \cup {t \in Tasks : pc[t] \in {"gates", "write", "put"} /\ Coord(t) = c}

\* A fill is done, and a yank goes on to other keys; the put, or one of those,
\* may fail, and this one be applied all the same.
PutWrite(w) ==
    /\ writer[w].pc = "put"
    /\ published' = published \cup {writer[w].coord}
    /\ Overtake(writer[w].coord)
    /\ \/ writer' = [writer EXCEPT ![w] = NoWrite]
       \/ writer' = [writer EXCEPT ![w].pc = "undo"]
    /\ UNCHANGED publishVars

FailPut(w) ==
    /\ writer[w].pc = "put"
    /\ writer' = [writer EXCEPT ![w].pc = "undo"]
    /\ UNCHANGED <<publishVars, published, overtaken>>

UndoWrite(w) ==
    /\ writer[w].pc = "undo"
    /\ \/ published' = PutBack(writer[w].coord, writer[w].found)
       \/ MayFailRollback /\ UNCHANGED published
    /\ Overtake(writer[w].coord)
    /\ writer' = [writer EXCEPT ![w] = NoWrite]
    /\ UNCHANGED publishVars

\* It returns with an error before it wrote, or its future is dropped: there is no
\* guard, and no rollback.
EndWrite(w) ==
    /\ writer[w].pc = "track" \/ (MayCancel /\ writer[w].pc \in {"put", "undo"})
    /\ writer' = [writer EXCEPT ![w] = NoWrite]
    /\ UNCHANGED <<publishVars, published, overtaken>>

-----------------------------------------------------------------------------
Proceed(t) ==
    \/ CheckExists(t) \/ Refuse(t) \/ ReserveQuota(t)
    \/ TrackMetadata(t) \/ StageMetadata(t) \/ Reconcile(t) \/ FailTransaction(t) \/ Rollback(t)
    \/ DropReservation(t) \/ ReleaseLock(t) \/ PruneLock(t)

WriteUnlocked(w) ==
    \/ \E c \in Asked : StartWrite(w, c)
    \/ TrackWrite(w) \/ PutWrite(w) \/ FailPut(w) \/ UndoWrite(w) \/ EndWrite(w)

Next ==
    \/ \E t \in Tasks :
         \/ \E q \in Requests : CloneLock(t, q)
         \/ Lock(t) \/ AbandonWait(t) \/ Proceed(t) \/ Cancel(t)
    \/ \E w \in Writers : WriteUnlocked(w)
    \/ Restart

Spec == Init /\ [][Next]_vars

\* Every future is polled to its end, and the mutex is first come, first served.
Fairness == \A t \in Tasks : WF_vars(Proceed(t)) /\ SF_vars(Lock(t))

FairSpec == Spec /\ Fairness

-----------------------------------------------------------------------------
\* The types of the lock map, the ledger and the publishes: usage never goes
\* below zero, and a publish that is under way knows its request.
TypeOK ==
    /\ lockMap \in [Coordinates -> Locks \cup {NoLock}]
    /\ arc \in [Tasks -> Locks \cup {NoLock}]
    /\ pc \in [Tasks -> Critical \cup {"idle", "waiting", "prune"}]
    /\ req \in [Tasks -> Requests \cup {NoRequest}]
    /\ existed \in [Tasks -> BOOLEAN]
    /\ replaced \in [Tasks -> BOOLEAN]
    /\ guard \in [Tasks -> UsageType \cup {NoGuard}]
    /\ committed \in [Namespaces -> UsageType]
    /\ reserved \in [Namespaces -> UsageType]
    /\ published \subseteq Coordinates
    /\ writer \in [Writers -> Write]
    /\ \A w \in Writers : writer[w].pc # "idle" => writer[w].coord \in Coordinates
    /\ overtaken \subseteq Tasks
    /\ abandoned \subseteq Coordinates
    /\ \A t \in Tasks : pc[t] # "idle" => req[t] \in Requests

-----------------------------------------------------------------------------
\* acquire_publish_lock "serializes concurrent publishes that target the same
\* version", although prune_publish_lock replaces a coordinate's mutex over time.
MutualExclusion ==
    \A t, u \in Tasks :
        pc[t] \in Critical /\ pc[u] \in Critical /\ Coord(t) = Coord(u) => t = u

\* What a publish observed under its lock is what is stored until it writes.
ObservedIsStored(t) ==
    pc[t] \in {"gates", "write", "put"} => existed[t] = (Coord(t) \in published)

\* "Held under this coordinate's publish lock, so this observation stays
\* consistent with the overwrite-merge and quota-version-delta decisions": until
\* the metadata is written, version_already_exists is still what is stored,
\* whatever publishes do, fail, or roll back; only a fill from upstream or a
\* yank, which take no lock, can make the version come or go meanwhile.
ObservationHolds == \A t \in Tasks \ overtaken : ObservedIsStored(t)

\* The same without the exception.
ObservationAlwaysHolds == \A t \in Tasks : ObservedIsStored(t)

\* An entry nobody uses is about to be pruned, or was left by a publish that was
\* dropped while it waited.
EntriesPruned ==
    \A c \in Coordinates :
        lockMap[c] # NoLock /\ Users(lockMap[c]) = {} =>
            c \in abandoned \/ \E t \in Tasks : pc[t] = "prune" /\ Coord(t) = c

\* The ledger's reservations are those of the publishes in flight.
LedgerBalances ==
    \A n \in Namespaces :
        LET holders == {t \in Tasks : guard[t] # NoGuard /\ QuotaKey(t) = n} IN
        /\ reserved[n].versions = SumFunction([t \in holders |-> guard[t].versions])
        /\ reserved[n].bytes = SumFunction([t \in holders |-> guard[t].bytes])

\* "Cleaned up on every exit path", by the two guards: no publish that returned,
\* failed or was dropped leaves its lock in the map or its reservation in the
\* ledger, and none gives either back twice.
GivenBack == EntriesPruned /\ LedgerBalances

\* Racing publishes never push committed and reserved usage past a ceiling.
CeilingRespected ==
    \A n \in Namespaces : WithinQuota(n, Plus(committed[n], reserved[n]))

\* "A ceiling on published version count": the versions that exist in a namespace
\* are within its quota.
PublishedWithinQuota ==
    \A n \in Namespaces :
        Within(Cardinality({c \in published : NamespaceOf[c] = n}), MaxVersions[n])

\* A publish waiting for its coordinate gets its turn, whatever becomes of the
\* publishes before it.
EveryWaiterIsServed ==
    \A t \in Tasks : pc[t] = "waiting" ~> pc[t] # "waiting"
=============================================================================
