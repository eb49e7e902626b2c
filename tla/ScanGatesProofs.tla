--------------------------- MODULE ScanGatesProofs ---------------------------
(***************************************************************************)
(* Proofs about ScanGates, for any number of tasks, operators, artifacts,  *)
(* digests and deployments, whatever fails and however often the server is *)
(* restarted: every variable keeps its type; what a blocking report was    *)
(* found for is served only where an operator promoted that artifact, and  *)
(* not while it stands; a summary names what began to block; and, of       *)
(* artifacts that upstream does not change, what is cached is signed as it *)
(* is.                                                                     *)
(***************************************************************************)
EXTENDS ScanGates, TLAPS

-----------------------------------------------------------------------------
(* The invariant, in parts *)

Objects == Digests \cup Report \cup Signed \cup {Nothing}

\* What may be stored under a key of that kind.
Fits(kind) ==
    IF kind = "report" THEN Report \cup {Nothing}
    ELSE IF kind = "bytes" THEN Digests \cup {Nothing}
    ELSE Signed \cup {Nothing}

StagedWrites == {w \in Keys \X Objects : w[2] \in Fits(w[1][1])}

\* The deployment and the configuration in force.
SettingsOK ==
    /\ site \in Site /\ policy \in site.policies
    /\ advisory \in [Coordinates -> Verdicts]
    /\ sent \subseteq site.hosted

ObjectsOK ==
    /\ store \in [Keys -> Objects]
    /\ \A k \in Keys : store[k] \in Fits(k[1])
    /\ record \in [Digests -> Record \cup {Nothing}]

ActorsOK ==
    /\ pc \in [Actors -> Labels]
    /\ op \in [Actors -> {"none", "serve", "publish", "review"}]
    /\ artifact \in [Actors -> Coordinates \cup {Nothing}]
    /\ digest \in [Actors -> Digests \cup {Nothing}]
    /\ found \in [Actors -> Report \cup Record \cup {Nothing}]
    /\ plan \in [Tasks -> Seq({"report"} \cup Kinds)]
    /\ staged \in [Tasks -> Seq(StagedWrites)]

SweepOK ==
    /\ sweepPc \in [Digests -> SweepLabels]
    /\ stored \in [Digests -> Report \cup {Nothing}]
    /\ fresh \in [Digests -> Report \cup {Nothing}]
    /\ \A d \in Digests : sweepPc[d] \in {"scan", "put"} => stored[d] \in Report /\ fresh[d] \in Report
    /\ newly \subseteq Digests /\ broken \in BOOLEAN

HistoryOK == approved \subseteq Coordinates \X Digests /\ shield \subseteq Tasks /\ untold \subseteq Digests

\* What a task has in hand at its next step, and why it may go on: past the scan
\* gate the report does not block, or an operator promoted its artifact.
TaskOK(t) ==
    /\ pc[t] # "idle" => artifact[t] \in Coordinates /\ op[t] \in {"serve", "publish"}
    /\ pc[t] \notin {"idle", "fetch"} => digest[t] \in Digests
    /\ pc[t] = "keep report" => found[t] \in Report
    /\ pc[t] \in {"write", "admit"} /\ op[t] = "publish" => found[t] \in Report
    /\ pc[t] = "write" => plan[t] # <<>>
    /\ pc[t] = "write" /\ op[t] # "publish" => \A i \in DOMAIN plan[t] : plan[t][i] # "report"
    /\ pc[t] = "record" => policy.quarantine
    /\ pc[t] \in {"verify on read", "fetch", "report", "keep report", "record", "hold", "served"}
         => op[t] = "serve"
    /\ pc[t] \in {"admit", "commit"} => op[t] = "publish"
    /\ pc[t] \in {"signature", "provenance", "served"} /\ op[t] = "serve"
         /\ policy.onServe /\ Blocks(found[t]) =>
           policy.quarantine /\ <<artifact[t], digest[t]>> \in approved

\* What an operator is about to write.
OperatorOK(o) ==
    /\ pc[o] \in {"idle", "promoted", "rejected"}
    /\ pc[o] # "idle" => digest[o] \in Digests /\ found[o] \in Record /\ found[o].state = pc[o]

\* A promoted record was promoted by an operator.
PromotedIsApproved ==
    \A d \in Digests :
        record[d] # Nothing /\ record[d].state = "promoted" => <<record[d].artifact, d>> \in approved

IInv ==
    /\ SettingsOK /\ ObjectsOK /\ ActorsOK /\ SweepOK /\ HistoryOK
    /\ \A t \in Tasks : TaskOK(t)
    /\ \A o \in Operators : OperatorOK(o)
    /\ PromotedIsApproved

-----------------------------------------------------------------------------
(* Typing *)

LEMMA NothingIsNothing ==
    /\ Nothing \notin Coordinates /\ Nothing \notin Digests /\ Nothing \notin Signers
    /\ Nothing \notin Report /\ Nothing \notin Record /\ Nothing \notin Signed
  BY NothingAssumption

\* The settings in force are settings.
LEMMA PolicyShape == ASSUME SettingsOK PROVE policy \in Policy
  BY DEF SettingsOK, Site

LEMMA BudgetShape ==
    ASSUME SettingsOK, NEW kind \in {"advisories", "evictions", "faults", "restarts"}, Spend(kind)
    PROVE  /\ site' \in Site
           /\ site'.policies = site.policies /\ site'.hosted = site.hosted
<1>1. site \in Site /\ site.used \in Budget
  BY DEF SettingsOK, Site
<1>2. [site.used EXCEPT ![kind] = @ + 1] \in Budget
  BY <1>1 DEF Budget
<1>3. site' = [site EXCEPT !.used = [site.used EXCEPT ![kind] = @ + 1]]
  BY DEF Spend
<1> QED
  BY <1>1, <1>2, <1>3 DEF Site

\* A key that is written, with the object that is written under it.
LEMMA KeyShape ==
    ASSUME NEW t \in Tasks, NEW kind \in {"report"} \cup Kinds,
           artifact[t] \in Coordinates, digest[t] \in Digests
    PROVE  Key(t, kind) \in Keys /\ Key(t, kind)[1] = kind
  BY DEF Key, Keys, Kinds

LEMMA ObjectShape ==
    ASSUME IInv, NEW t \in Tasks, NEW kind \in {"report"} \cup Kinds, CanMake(kind),
           artifact[t] \in Coordinates, digest[t] \in Digests,
           kind = "report" => found[t] \in Report
    PROVE  Object(t, kind) \in Objects /\ Object(t, kind) \in Fits(kind)
<1>1. policy.signer \in Signers \cup {Nothing}
  BY PolicyShape DEF IInv, Policy
<1>2. CASE kind = "report"
  BY <1>2 DEF Object, Objects, Fits
<1>3. CASE kind = "bytes"
  BY <1>3 DEF Object, Objects, Fits
<1>4. CASE kind \in {"signature", "attestation"}
  <2>1. [key |-> policy.signer, artifact |-> artifact[t], digest |-> digest[t]] \in Signed
    BY <1>1, <1>4 DEF CanMake, Signed
  <2> QED
    BY <1>4, <2>1 DEF Object, Objects, Fits
<1> QED
  BY <1>2, <1>3, <1>4 DEF Kinds

\* A staged write leaves fitting objects, and can be taken back.
LEMMA PutShape ==
    ASSUME IInv, NEW t \in Tasks, NEW key \in Keys, NEW object \in Objects, object \in Fits(key[1]),
           Put(t, key, object)
    PROVE  /\ store' \in [Keys -> Objects]
           /\ \A k \in Keys : store'[k] \in Fits(k[1])
           /\ staged' \in [Tasks -> Seq(StagedWrites)]
<1>1. <<key, store[key]>> \in StagedWrites
  BY DEF IInv, ObjectsOK, StagedWrites
<1>2. staged[t] \in Seq(StagedWrites)
  BY DEF IInv, ActorsOK
<1>3. Append(staged[t], <<key, store[key]>>) \in Seq(StagedWrites)
  BY <1>1, <1>2
<1>4. staged' \in [Tasks -> Seq(StagedWrites)]
  BY <1>3 DEF Put, IInv, ActorsOK
<1> QED
  BY <1>4 DEF Put, IInv, ObjectsOK

-----------------------------------------------------------------------------
(* Steps of one actor *)

\* The others are where they were.
Frame(a) ==
    \A b \in Actors \ {a} :
        /\ pc'[b] = pc[b] /\ op'[b] = op[b] /\ artifact'[b] = artifact[b] /\ digest'[b] = digest[b]
        /\ found'[b] = found[b]
        /\ b \in Tasks => plan'[b] = plan[b] /\ staged'[b] = staged[b]

\* It is enough to look at the task that moves.
LEMMA TaskMoves ==
    ASSUME IInv, NEW t \in Tasks, UNCHANGED <<policy, sweepPc, stored, fresh, newly, broken>>,
           approved \subseteq approved', HistoryOK', SettingsOK', ObjectsOK', ActorsOK', Frame(t),
           TaskOK(t)', PromotedIsApproved'
    PROVE  IInv'
<1>1. ASSUME NEW u \in Tasks, u # t PROVE TaskOK(u)'
  <2>1. TaskOK(u)
    BY DEF IInv
  <2>2. /\ pc'[u] = pc[u] /\ op'[u] = op[u] /\ artifact'[u] = artifact[u] /\ digest'[u] = digest[u]
        /\ found'[u] = found[u] /\ plan'[u] = plan[u]
    BY <1>1 DEF Frame, Actors
  <2>3. Blocks(found[u])' = Blocks(found[u])
    BY <2>2 DEF Blocks
  <2> QED
    BY <2>1, <2>2, <2>3 DEF TaskOK
<1>2. ASSUME NEW o \in Operators PROVE OperatorOK(o)'
  <2>1. OperatorOK(o) /\ o # t
    BY RolesAssumption DEF IInv
  <2>2. pc'[o] = pc[o] /\ digest'[o] = digest[o] /\ found'[o] = found[o]
    BY <2>1 DEF Frame, Actors
  <2> QED
    BY <2>1, <2>2 DEF OperatorOK
<1>3. SweepOK'
  BY DEF IInv, SweepOK
<1> QED
  BY <1>1, <1>2, <1>3 DEF IInv

\* An actor that returns is idle, and the others are where they were.
LEMMA Returns ==
    ASSUME IInv, NEW a \in Actors, Return(a)
    PROVE  ActorsOK' /\ Frame(a) /\ pc'[a] = "idle"
<1>1. ActorsOK
  BY DEF IInv
<1>2. pc'[a] = "idle" /\ ActorsOK'
  <2>1. <<>> \in Seq({"report"} \cup Kinds) /\ <<>> \in Seq(StagedWrites)
    OBVIOUS
  <2> QED
    BY <1>1, <2>1 DEF ActorsOK, Return, Goto, Labels
<1>3. Frame(a)
  BY <1>1 DEF ActorsOK, Return, Goto, Frame
<1> QED
  BY <1>2, <1>3

LEMMA IdleIsOK == ASSUME NEW t \in Tasks, pc'[t] = "idle" PROVE TaskOK(t)'
  BY DEF TaskOK

LEMMA Goes ==
    ASSUME IInv, NEW a \in Actors, NEW label \in Labels, Goto(a, label),
           UNCHANGED <<op, artifact, digest, found, plan, staged>>
    PROVE  ActorsOK' /\ Frame(a) /\ pc'[a] = label
  BY DEF IInv, ActorsOK, Goto, Frame

\* A step that writes no object, changes no setting and approves nothing.
LEMMA QuietMove ==
    ASSUME IInv, NEW t \in Tasks,
           UNCHANGED <<policy, advisory, objects, sent, sweep, site, approved, untold>>, Observe,
           ActorsOK', Frame(t), TaskOK(t)'
    PROVE  IInv'
<1>1. SettingsOK' /\ ObjectsOK'
  BY DEF IInv, SettingsOK, ObjectsOK, objects
<1>2. HistoryOK'
  BY DEF IInv, HistoryOK, Observe
<1>3. PromotedIsApproved'
  BY DEF IInv, PromotedIsApproved, objects
<1> QED
  BY <1>1, <1>2, <1>3, TaskMoves DEF sweep

\* What is still to be written: a download writes no report.
LEMMA PlanShape ==
    ASSUME NEW t \in Tasks
    PROVE  /\ Plan(t) \in Seq({"report"} \cup Kinds) /\ Plan(t) # <<>>
           /\ op[t] # "publish" => \A i \in DOMAIN Plan(t) : Plan(t)[i] # "report"
<1> DEFINE publish == op[t] = "publish"
           first == IF (publish /\ policy.mode # "off") \/ SignsCached THEN <<"signature">> ELSE <<>>
           second == IF policy.requireProvenance /\ (publish \/ SignsCached)
                     THEN <<"attestation">> ELSE <<>>
<1>1. first \in Seq(Kinds) /\ second \in Seq(Kinds)
  <2>1. first \in {<<>>, <<"signature">>} /\ second \in {<<>>, <<"attestation">>}
    OBVIOUS
  <2>2. <<>> \in Seq(Kinds) /\ <<"signature">> \in Seq(Kinds) /\ <<"attestation">> \in Seq(Kinds)
    BY DEF Kinds
  <2> HIDE DEF first, second
  <2> QED
    BY <2>1, <2>2
<1>2. first \o second \in Seq(Kinds)
  <2> HIDE DEF first, second
  <2> QED
    BY <1>1
<1>3. <<"bytes">> \in Seq(Kinds) /\ <<"report", "bytes">> \in Seq({"report"} \cup Kinds)
  BY DEF Kinds
<1>4. Plan(t) = IF publish THEN <<"report", "bytes">> \o (first \o second)
                ELSE (first \o second) \o <<"bytes">>
  BY DEF Plan
<1> DEFINE both == first \o second
<1>5. both \in Seq(Kinds) /\ both \in Seq({"report"} \cup Kinds)
  <2>1. both \in Seq(Kinds)
    BY <1>2
  <2> HIDE DEF both
  <2> QED
    BY <2>1
<1>6. CASE publish
  <2>1. Plan(t) = <<"report", "bytes">> \o both
    BY <1>4, <1>6
  <2> HIDE DEF both
  <2> QED
    BY <2>1, <1>3, <1>5, <1>6
<1>7. CASE ~publish
  <2>1. Plan(t) = both \o <<"bytes">>
    BY <1>4, <1>7
  <2> HIDE DEF both, publish
  <2>2. both \o <<"bytes">> \in Seq(Kinds)
    BY <1>3, <1>5
  <2>3. \A i \in DOMAIN Plan(t) : Plan(t)[i] \in Kinds
    BY <2>1, <2>2
  <2>4. Plan(t) \in Seq({"report"} \cup Kinds)
    BY <2>1, <2>2
  <2>5. Len(both \o <<"bytes">>) # 0
    BY <1>3, <1>5
  <2>6. Plan(t) # <<>>
    BY <2>1, <2>5
  <2> QED
    BY <2>3, <2>4, <2>6, <1>7 DEF Kinds, publish
<1> QED
  BY <1>6, <1>7

-----------------------------------------------------------------------------
(* Where a task goes *)

LEMMA VerificationShape ==
    ASSUME NEW t \in Tasks
    PROVE  /\ Admitted(t) \in {"commit", "served"}
           /\ Attested(t) \in {"provenance", "commit", "served"}
           /\ Verification(t) \in {"signature", "provenance", "commit", "served"}
           /\ op[t] # "publish" => /\ Attested(t) \in {"provenance", "served"}
                                   /\ Verification(t) \in {"signature", "provenance", "served"}
           /\ Admitted(t) = "served" => op[t] # "publish"
           /\ Attested(t) = "served" => op[t] # "publish"
           /\ Verification(t) = "served" => op[t] # "publish"
  BY DEF Admitted, Attested, Verification

\* The steps that write nothing.
LEMMA OfVerifyCached ==
    ASSUME IInv, NEW t \in Tasks, VerifyCached(t), Observe PROVE IInv'
<1>1. t \in Actors /\ TaskOK(t) /\ ActorsOK
  BY DEF IInv, Actors
<1>2. CASE Return(t)
  BY <1>1, <1>2, Returns, IdleIsOK, QuietMove DEF VerifyCached
<1>3. CASE Goto(t, "report") /\ UNCHANGED <<op, artifact, digest, found, plan, staged>>
  <2>1. ActorsOK' /\ Frame(t) /\ pc'[t] = "report"
    BY <1>1, <1>3, Goes DEF Labels
  <2>2. TaskOK(t)'
    BY <1>1, <1>3, <2>1 DEF TaskOK, VerifyCached
  <2> QED
    BY <2>1, <2>2, QuietMove DEF VerifyCached
<1> QED
  BY <1>2, <1>3 DEF VerifyCached, Refuse

LEMMA OfFetch ==
    ASSUME IInv, NEW t \in Tasks, Fetch(t), Observe PROVE IInv'
<1>1. t \in Actors /\ TaskOK(t) /\ ActorsOK
  BY DEF IInv, Actors
<1>2. CASE Return(t)
  BY <1>1, <1>2, Returns, IdleIsOK, QuietMove DEF Fetch
<1>3. ASSUME NEW d \in Digests, digest' = [digest EXCEPT ![t] = d],
             plan' = [plan EXCEPT ![t] = Plan(t)], Goto(t, "write"),
             UNCHANGED <<op, artifact, found, staged>>
      PROVE  IInv'
  <2>1. ActorsOK' /\ Frame(t)
    BY <1>1, <1>3, PlanShape DEF ActorsOK, Goto, Frame, Labels
  <2>2. /\ pc'[t] = "write" /\ digest'[t] = d /\ plan'[t] = Plan(t)
        /\ op'[t] = op[t] /\ artifact'[t] = artifact[t] /\ found'[t] = found[t]
    BY <1>1, <1>3 DEF ActorsOK, Goto
  <2>3. TaskOK(t)'
    BY <1>1, <2>2, PlanShape DEF Fetch, TaskOK
  <2> QED
    BY <2>1, <2>3, QuietMove DEF Fetch
<1> QED
  BY <1>2, <1>3 DEF Fetch, Refuse

LEMMA OfScanPublish ==
    ASSUME IInv, NEW t \in Tasks, ScanPublish(t), Observe PROVE IInv'
<1> DEFINE report == Scanned(artifact[t], digest[t])
<1>1. t \in Actors /\ TaskOK(t) /\ ActorsOK
  BY DEF IInv, Actors
<1>2. report \in Report
  BY <1>1 DEF ScanPublish, TaskOK, Scanned, Report, IInv, SettingsOK
<1>3. \/ Goto(t, "write") /\ plan' = [plan EXCEPT ![t] = Plan(t)]
      \/ Goto(t, "admit") /\ UNCHANGED plan
  BY DEF ScanPublish
<1>4. ActorsOK' /\ Frame(t)
  <2>1. CASE Goto(t, "write") /\ plan' = [plan EXCEPT ![t] = Plan(t)]
    BY <1>1, <1>2, <2>1, PlanShape DEF ActorsOK, Goto, Frame, Labels, ScanPublish
  <2>2. CASE Goto(t, "admit") /\ UNCHANGED plan
    BY <1>1, <1>2, <2>2 DEF ActorsOK, Goto, Frame, Labels, ScanPublish
  <2> QED
    BY <1>3, <2>1, <2>2
<1>5. /\ pc'[t] \in {"write", "admit"} /\ found'[t] = report
      /\ pc'[t] = "write" => plan'[t] = Plan(t)
      /\ op'[t] = op[t] /\ artifact'[t] = artifact[t] /\ digest'[t] = digest[t] /\ op[t] = "publish"
  BY <1>1, <1>3 DEF ActorsOK, Goto, ScanPublish
<1>6. TaskOK(t)'
  <2> HIDE DEF report
  <2> QED
    BY <1>1, <1>2, <1>5, PlanShape DEF TaskOK, ScanPublish
<1> QED
  BY <1>4, <1>6, QuietMove DEF ScanPublish

LEMMA OfAdmitPublish ==
    ASSUME IInv, NEW t \in Tasks, AdmitPublish(t), Observe PROVE IInv'
<1>1. t \in Actors /\ TaskOK(t) /\ ActorsOK
  BY DEF IInv, Actors
<1>2. CASE Return(t)
  BY <1>1, <1>2, Returns, IdleIsOK, QuietMove DEF AdmitPublish
<1>3. CASE /\ Goto(t, "write") /\ plan' = [plan EXCEPT ![t] = Plan(t)]
           /\ UNCHANGED <<op, artifact, digest, found, staged>>
  <2>1. ActorsOK' /\ Frame(t)
    BY <1>1, <1>3, PlanShape DEF ActorsOK, Goto, Frame, Labels
  <2>2. pc'[t] = "write" /\ plan'[t] = Plan(t)
    BY <1>1, <1>3 DEF ActorsOK, Goto
  <2>3. TaskOK(t)'
    BY <1>1, <1>3, <2>2, PlanShape DEF TaskOK, AdmitPublish
  <2> QED
    BY <2>1, <2>3, QuietMove DEF AdmitPublish
<1> QED
  BY <1>2, <1>3 DEF AdmitPublish, Refuse

\* What a download decides with a report: to refuse, to ask for the record, or to
\* go on with a report that does not block.
LEMMA Decides ==
    ASSUME IInv, NEW t \in Tasks, NEW report \in Report, Decide(t, report),
           policy' = policy, approved' = approved,
           pc[t] \in {"report", "keep report"}
    PROVE  ActorsOK' /\ Frame(t) /\ TaskOK(t)'
<1>1. t \in Actors /\ TaskOK(t) /\ ActorsOK
  BY DEF IInv, Actors
<1>2. CASE Return(t)
  BY <1>1, <1>2, Returns, IdleIsOK
<1>3. ASSUME policy.quarantine \/ ~Blocks(report), found' = [found EXCEPT ![t] = report],
             Goto(t, IF Blocks(report) THEN "record" ELSE Verification(t)),
             UNCHANGED <<op, artifact, digest, plan, staged>>
      PROVE  ActorsOK' /\ Frame(t) /\ TaskOK(t)'
  <2>1. /\ Verification(t) \in Labels /\ "record" \in Labels
        /\ op[t] = "serve" /\ artifact[t] \in Coordinates /\ digest[t] \in Digests
    BY <1>1, VerificationShape DEF Labels, TaskOK
  <2>2. ActorsOK' /\ Frame(t)
    BY <1>1, <1>3, <2>1 DEF ActorsOK, Goto, Frame
  <2>3. /\ pc'[t] = IF Blocks(report) THEN "record" ELSE Verification(t)
        /\ found'[t] = report /\ op'[t] = op[t] /\ artifact'[t] = artifact[t] /\ digest'[t] = digest[t]
    BY <1>1, <1>3 DEF ActorsOK, Goto
  <2>4. Blocks(found[t])' <=> Blocks(report)
    BY <2>3 DEF Blocks
  <2>5. CASE Blocks(report)
    <3>1. pc'[t] = "record" /\ policy'.quarantine
      BY <1>3, <2>3, <2>5
    <3> QED
      BY <2>1, <2>2, <2>3, <3>1 DEF TaskOK
  <2>6. CASE ~Blocks(report)
    <3>1. pc'[t] \in {"signature", "provenance", "served"} /\ ~Blocks(found[t])'
      BY <2>1, <2>3, <2>4, <2>6, VerificationShape
    <3> QED
      BY <2>1, <2>2, <2>3, <3>1 DEF TaskOK
  <2> QED
    BY <2>5, <2>6
<1> QED
  BY <1>2, <1>3 DEF Decide, Refuse

LEMMA OfReadReport ==
    ASSUME IInv, NEW t \in Tasks, ReadReport(t), Observe PROVE IInv'
<1> DEFINE report == store[<<"report", digest[t]>>]
<1>1. /\ t \in Actors /\ TaskOK(t) /\ ActorsOK
      /\ op[t] = "serve" /\ artifact[t] \in Coordinates /\ digest[t] \in Digests
  BY DEF IInv, Actors, ReadReport, TaskOK
<1>2. report \in Report \cup {Nothing}
  <2>1. <<"report", digest[t]>> \in Keys
    BY <1>1 DEF Keys
  <2> QED
    BY <2>1 DEF IInv, ObjectsOK, Fits
<1>3. CASE ~policy.onServe
  <2>1. Goto(t, Verification(t)) /\ UNCHANGED <<op, artifact, digest, found, plan, staged>>
    BY <1>3 DEF ReadReport
  <2>2. /\ ActorsOK' /\ Frame(t)
        /\ pc'[t] \in {"signature", "provenance", "served"} /\ ~policy'.onServe
    BY <1>1, <1>3, <2>1, Goes, VerificationShape DEF Labels, ReadReport
  <2>3. TaskOK(t)'
    BY <1>1, <2>1, <2>2 DEF TaskOK
  <2> QED
    BY <2>2, <2>3, QuietMove DEF ReadReport
<1>4. CASE policy.onServe /\ report = Nothing
  <2>1. Goto(t, "scan") /\ UNCHANGED <<op, artifact, digest, found, plan, staged>>
    BY <1>4 DEF ReadReport
  <2>2. ActorsOK' /\ Frame(t) /\ pc'[t] = "scan"
    BY <1>1, <2>1, Goes DEF Labels
  <2>3. TaskOK(t)'
    BY <1>1, <2>1, <2>2 DEF TaskOK
  <2> QED
    BY <2>2, <2>3, QuietMove DEF ReadReport
<1>5. CASE policy.onServe /\ report # Nothing
  <2>1. Decide(t, report) /\ report \in Report
    BY <1>2, <1>5 DEF ReadReport
  <2> HIDE DEF report
  <2>2. ActorsOK' /\ Frame(t) /\ TaskOK(t)'
    BY <2>1, Decides DEF ReadReport
  <2> QED
    BY <2>2, QuietMove DEF ReadReport
<1> QED
  BY <1>3, <1>4, <1>5

LEMMA OfScanServed ==
    ASSUME IInv, NEW t \in Tasks, ScanServed(t), Observe PROVE IInv'
<1>1. t \in Actors /\ TaskOK(t) /\ ActorsOK
  BY DEF IInv, Actors
<1>2. Scanned(artifact[t], digest[t]) \in Report
  BY <1>1 DEF ScanServed, TaskOK, Scanned, Report, IInv, SettingsOK
<1>3. ActorsOK' /\ Frame(t)
  BY <1>1, <1>2 DEF ActorsOK, Goto, Frame, Labels, ScanServed
<1>4. pc'[t] = "keep report" /\ found'[t] = Scanned(artifact[t], digest[t])
  BY <1>1 DEF ActorsOK, Goto, ScanServed
<1>5. TaskOK(t)'
  BY <1>1, <1>2, <1>4 DEF TaskOK, ScanServed
<1> QED
  BY <1>3, <1>5, QuietMove DEF ScanServed

\* Only a promoted record of this artifact lets a blocked download through.
LEMMA OfEnforceQuarantine ==
    ASSUME IInv, NEW t \in Tasks, EnforceQuarantine(t), Observe PROVE IInv'
<1> DEFINE r == record[digest[t]]
<1>1. /\ t \in Actors /\ TaskOK(t) /\ ActorsOK
      /\ op[t] = "serve" /\ artifact[t] \in Coordinates /\ digest[t] \in Digests /\ policy.quarantine
  BY DEF IInv, Actors, EnforceQuarantine, TaskOK
<1>2. CASE Return(t)
  BY <1>1, <1>2, Returns, IdleIsOK, QuietMove DEF EnforceQuarantine
<1>3. CASE Released(artifact[t], r) /\ Goto(t, Verification(t))
             /\ UNCHANGED <<op, artifact, digest, found, plan, staged>>
  <2>1. <<artifact[t], digest[t]>> \in approved
    BY <1>1, <1>3 DEF Released, IInv, PromotedIsApproved
  <2>2. /\ ActorsOK' /\ Frame(t)
        /\ pc'[t] \in {"signature", "provenance", "served"}
    BY <1>1, <1>3, Goes, VerificationShape DEF Labels
  <2>3. TaskOK(t)'
    BY <1>1, <1>3, <2>1, <2>2 DEF TaskOK, EnforceQuarantine
  <2> QED
    BY <2>2, <2>3, QuietMove DEF EnforceQuarantine
<1>4. CASE Goto(t, "hold") /\ UNCHANGED <<op, artifact, digest, found, plan, staged>>
  <2>1. ActorsOK' /\ Frame(t) /\ pc'[t] = "hold"
    BY <1>1, <1>4, Goes DEF Labels
  <2>2. TaskOK(t)'
    BY <1>1, <1>4, <2>1 DEF TaskOK
  <2> QED
    BY <2>1, <2>2, QuietMove DEF EnforceQuarantine
<1> QED
  BY <1>2, <1>3, <1>4 DEF EnforceQuarantine, Refuse

LEMMA OfCheckSignature ==
    ASSUME IInv, NEW t \in Tasks, CheckSignature(t), Observe PROVE IInv'
<1>1. t \in Actors /\ TaskOK(t) /\ ActorsOK
  BY DEF IInv, Actors
<1>2. PICK label \in {Attested(t), "rollback"} :
          Goto(t, label) /\ UNCHANGED <<op, artifact, digest, found, plan, staged>>
  BY DEF CheckSignature, Check
<1>3. pc[t] = "signature" /\ label \in {"provenance", "commit", "served", "rollback"}
      /\ (label = "served" => op[t] # "publish") /\ (label = "commit" => op[t] = "publish")
  BY VerificationShape DEF CheckSignature, Check
<1>4. ActorsOK' /\ Frame(t) /\ pc'[t] = label
  BY <1>1, <1>2, <1>3, Goes DEF Labels
<1>5. policy' = policy /\ approved' = approved
  BY DEF CheckSignature, Check
<1>6. Blocks(found[t])' = Blocks(found[t])
  BY <1>2, <1>5 DEF Blocks
<1>7. TaskOK(t)'
  BY <1>1, <1>2, <1>3, <1>4, <1>5, <1>6 DEF TaskOK
<1> QED
  BY <1>4, <1>7, QuietMove DEF CheckSignature, Check

LEMMA OfCheckProvenance ==
    ASSUME IInv, NEW t \in Tasks, CheckProvenance(t), Observe PROVE IInv'
<1>1. t \in Actors /\ TaskOK(t) /\ ActorsOK
  BY DEF IInv, Actors
<1>2. PICK label \in {Admitted(t), "rollback"} :
          Goto(t, label) /\ UNCHANGED <<op, artifact, digest, found, plan, staged>>
  BY DEF CheckProvenance, Check
<1>3. pc[t] = "provenance" /\ label \in {"commit", "served", "rollback"}
      /\ (label = "served" => op[t] # "publish") /\ (label = "commit" => op[t] = "publish")
  BY DEF CheckProvenance, Check, Admitted
<1>4. ActorsOK' /\ Frame(t) /\ pc'[t] = label
  BY <1>1, <1>2, <1>3, Goes DEF Labels
<1>5. policy' = policy /\ approved' = approved
  BY DEF CheckProvenance, Check
<1>6. Blocks(found[t])' = Blocks(found[t])
  BY <1>2, <1>5 DEF Blocks
<1>7. TaskOK(t)'
  BY <1>1, <1>2, <1>3, <1>4, <1>5, <1>6 DEF TaskOK
<1> QED
  BY <1>4, <1>7, QuietMove DEF CheckProvenance, Check

LEMMA OfFinish ==
    ASSUME IInv, NEW t \in Tasks, Finish(t), Observe PROVE IInv'
  BY Returns, IdleIsOK, QuietMove DEF Finish, Actors

-----------------------------------------------------------------------------
(* The steps that write *)

LEMMA OfKeepReport ==
    ASSUME IInv, NEW t \in Tasks, KeepReport(t), Observe PROVE IInv'
<1>1. TaskOK(t) /\ SettingsOK /\ ObjectsOK /\ HistoryOK /\ PromotedIsApproved
  BY DEF IInv
<1>2. found[t] \in Report /\ digest[t] \in Digests
  BY <1>1 DEF KeepReport, TaskOK
<1>3. ActorsOK' /\ Frame(t) /\ TaskOK(t)'
  BY <1>2, Decides DEF KeepReport
<1>4. ObjectsOK'
  <2> DEFINE key == <<"report", digest[t]>>
  <2>1. key \in Keys /\ key[1] = "report" /\ found[t] \in Objects /\ found[t] \in Fits("report")
    BY <1>2 DEF Keys, Objects, Fits
  <2>2. store' = [store EXCEPT ![key] = found[t]] /\ record' = record
    BY DEF KeepReport
  <2> HIDE DEF key
  <2> QED
    BY <1>1, <2>1, <2>2 DEF ObjectsOK
<1>5. SettingsOK' /\ HistoryOK' /\ PromotedIsApproved'
  BY <1>1 DEF SettingsOK, HistoryOK, PromotedIsApproved, KeepReport, Observe
<1> QED
  BY <1>3, <1>4, <1>5, TaskMoves DEF KeepReport, sweep

\* A hold promotes nothing.
LEMMA OfHold ==
    ASSUME IInv, NEW t \in Tasks, Hold(t), Observe PROVE IInv'
<1> DEFINE held == [artifact |-> artifact[t], state |-> "quarantined"]
<1>1. TaskOK(t) /\ SettingsOK /\ ObjectsOK /\ HistoryOK /\ PromotedIsApproved /\ t \in Actors
  BY DEF IInv, Actors
<1>2. artifact[t] \in Coordinates /\ digest[t] \in Digests
  BY <1>1 DEF Hold, TaskOK
<1>3. held \in Record /\ held.state = "quarantined"
  BY <1>2 DEF Record
<1>4. ActorsOK' /\ Frame(t) /\ TaskOK(t)'
  BY <1>1, Returns, IdleIsOK DEF Hold, Refuse
<1>5. record' = [record EXCEPT ![digest[t]] = held]
  BY DEF Hold
<1> HIDE DEF held
<1>6. ObjectsOK'
  BY <1>1, <1>3, <1>5 DEF ObjectsOK, Hold
<1>7. PromotedIsApproved'
  BY <1>1, <1>3, <1>5 DEF PromotedIsApproved, ObjectsOK, Hold
<1>8. SettingsOK' /\ HistoryOK'
  BY <1>1 DEF SettingsOK, HistoryOK, Hold, Observe
<1> QED
  BY <1>4, <1>6, <1>7, <1>8, TaskMoves DEF Hold, sweep

\* put_and_track, as far as the objects go.
LEMMA Puts ==
    ASSUME IInv, NEW t \in Tasks, pc[t] = "write", plan[t] # <<>>, CanMake(Head(plan[t])),
           Put(t, Key(t, Head(plan[t])), Object(t, Head(plan[t]))), record' = record
    PROVE  ObjectsOK' /\ staged' \in [Tasks -> Seq(StagedWrites)]
<1> DEFINE kind == Head(plan[t])
<1>1. TaskOK(t) /\ plan[t] \in Seq({"report"} \cup Kinds)
  BY DEF IInv, ActorsOK
<1>2. kind \in {"report"} \cup Kinds /\ kind = plan[t][1] /\ 1 \in DOMAIN plan[t]
  BY <1>1
<1>3. artifact[t] \in Coordinates /\ digest[t] \in Digests /\ (kind = "report" => found[t] \in Report)
  BY <1>1, <1>2 DEF TaskOK
<1> HIDE DEF kind
<1>4. CanMake(kind) /\ Put(t, Key(t, kind), Object(t, kind))
  BY DEF kind
<1>5. Key(t, kind) \in Keys /\ Key(t, kind)[1] = kind
  BY <1>2, <1>3, KeyShape
<1>6. Object(t, kind) \in Objects /\ Object(t, kind) \in Fits(kind)
  BY <1>2, <1>3, <1>4, ObjectShape
<1>7. /\ store' \in [Keys -> Objects] /\ \A k \in Keys : store'[k] \in Fits(k[1])
      /\ staged' \in [Tasks -> Seq(StagedWrites)]
  BY <1>4, <1>5, <1>6, PutShape
<1> QED
  BY <1>7 DEF ObjectsOK, IInv

\* A sequence of several objects has more to come after the first.
LEMMA TailShape ==
    ASSUME NEW S, NEW s \in Seq(S), Len(s) > 1
    PROVE  Tail(s) # <<>>
<1>1. Tail(s) = <<>> => DOMAIN Tail(s) = {}
  OBVIOUS
<1>2. 1 \in DOMAIN Tail(s)
  OBVIOUS
<1> QED
  BY <1>1, <1>2

LEMMA OfWrite ==
    ASSUME IInv, NEW t \in Tasks, Write(t), Observe PROVE IInv'
<1>1. /\ TaskOK(t) /\ ActorsOK /\ SettingsOK /\ ObjectsOK /\ HistoryOK /\ PromotedIsApproved
      /\ t \in Actors
  BY DEF IInv, Actors
<1>2. SettingsOK' /\ HistoryOK' /\ PromotedIsApproved'
  BY <1>1 DEF SettingsOK, HistoryOK, PromotedIsApproved, Write, Observe
<1>3. CASE Goto(t, "rollback") /\ UNCHANGED <<store, staged, plan>>
  <2>1. ActorsOK' /\ Frame(t) /\ pc'[t] = "rollback"
    BY <1>1, <1>3, Goes DEF Labels, Write
  <2>2. TaskOK(t)' /\ ObjectsOK'
    BY <1>1, <1>3, <2>1 DEF TaskOK, ObjectsOK, Write
  <2> QED
    BY <1>2, <2>1, <2>2, TaskMoves DEF Write, sweep
<1>4. CASE /\ CanMake(Head(plan[t]))
           /\ Put(t, Key(t, Head(plan[t])), Object(t, Head(plan[t])))
           /\ plan' = [plan EXCEPT ![t] = Tail(@)]
           /\ IF Len(plan[t]) > 1 THEN UNCHANGED pc
              ELSE Goto(t, IF op[t] = "publish" THEN Verification(t) ELSE "report")
  <2>1. ObjectsOK' /\ staged' \in [Tasks -> Seq(StagedWrites)]
    BY <1>4, Puts DEF Write
  <2>2. /\ plan[t] \in Seq({"report"} \cup Kinds) /\ plan[t] # <<>>
        /\ Tail(plan[t]) \in Seq({"report"} \cup Kinds)
        /\ \A i \in DOMAIN Tail(plan[t]) : i + 1 \in DOMAIN plan[t] /\ Tail(plan[t])[i] = plan[t][i + 1]
    BY <1>1 DEF ActorsOK, Write
  <2>3. PICK label \in Labels :
          /\ label \in {"write", "report"} \/ (op[t] = "publish" /\ label = Verification(t))
          /\ label = "report" => op[t] # "publish"
          /\ label = "write" => Len(plan[t]) > 1
          /\ pc' = [pc EXCEPT ![t] = label]
    <3>1. CASE Len(plan[t]) > 1
      <4>1. pc[t] = "write" /\ pc' = pc /\ pc \in [Actors -> Labels]
        BY <1>1, <1>4, <3>1 DEF Write, ActorsOK
      <4>2. pc = [pc EXCEPT ![t] = "write"] /\ "write" \in Labels
        BY <4>1 DEF Labels
      <4> QED
        BY <1>1, <3>1, <4>1, <4>2
    <3>2. CASE ~(Len(plan[t]) > 1)
      BY <1>1, <1>4, <3>2, VerificationShape DEF Goto, Labels
    <3> QED
      BY <3>1, <3>2
  <2>4. ActorsOK'
    BY <1>1, <1>4, <2>1, <2>2, <2>3 DEF ActorsOK, Write
  <2>5. Frame(t)
    BY <1>1, <1>4, <2>3 DEF ActorsOK, Frame, Write, Put
  <2>6. /\ pc'[t] = label /\ plan'[t] = Tail(plan[t]) /\ pc[t] = "write"
        /\ op'[t] = op[t] /\ artifact'[t] = artifact[t] /\ digest'[t] = digest[t] /\ found'[t] = found[t]
    BY <1>1, <1>4, <2>3 DEF ActorsOK, Write
  <2>7. pc'[t] = "write" => plan'[t] # <<>>
    <3>1. pc'[t] = "write" => Len(plan[t]) > 1
      BY <2>3, <2>6
    <3> QED
      BY <2>2, <2>6, <3>1, TailShape
  <2>8. TaskOK(t)'
    BY <1>1, <2>2, <2>3, <2>6, <2>7, VerificationShape DEF TaskOK
  <2> QED
    BY <1>2, <2>1, <2>4, <2>5, <2>8, TaskMoves DEF Write, sweep
<1> QED
  BY <1>3, <1>4 DEF Write

LEMMA OfRollback ==
    ASSUME IInv, NEW t \in Tasks, Rollback(t), Observe PROVE IInv'
<1>1. /\ TaskOK(t) /\ ActorsOK /\ SettingsOK /\ ObjectsOK /\ HistoryOK /\ PromotedIsApproved
      /\ t \in Actors
  BY DEF IInv, Actors
<1>2. SettingsOK' /\ HistoryOK' /\ PromotedIsApproved'
  BY <1>1 DEF SettingsOK, HistoryOK, PromotedIsApproved, Rollback, Observe
<1>3. CASE Return(t) /\ UNCHANGED store
  BY <1>1, <1>2, <1>3, Returns, IdleIsOK, TaskMoves DEF Rollback, sweep, ObjectsOK
<1>4. CASE /\ staged[t] # <<>>
           /\ LET write == staged[t][Len(staged[t])] IN store' = [store EXCEPT ![write[1]] = write[2]]
           /\ staged' = [staged EXCEPT ![t] = SubSeq(@, 1, Len(@) - 1)]
           /\ UNCHANGED <<pc, op, artifact, digest, found, plan>>
  <2> DEFINE write == staged[t][Len(staged[t])]
  <2>1. staged[t] \in Seq(StagedWrites) /\ Len(staged[t]) \in Nat \ {0}
    BY <1>1, <1>4 DEF ActorsOK
  <2>2. write \in StagedWrites /\ SubSeq(staged[t], 1, Len(staged[t]) - 1) \in Seq(StagedWrites)
    BY <2>1
  <2>3. write[1] \in Keys /\ write[2] \in Objects /\ write[2] \in Fits(write[1][1])
    BY <2>2 DEF StagedWrites
  <2>4. store' = [store EXCEPT ![write[1]] = write[2]]
    BY <1>4
  <2> HIDE DEF write
  <2>5. ObjectsOK'
    BY <1>1, <2>3, <2>4 DEF ObjectsOK, Rollback
  <2>6. ActorsOK' /\ Frame(t)
    BY <1>1, <1>4, <2>2 DEF ActorsOK, Frame
  <2>7. TaskOK(t)'
    BY <1>1, <1>4 DEF TaskOK, Rollback
  <2> QED
    BY <1>2, <2>5, <2>6, <2>7, TaskMoves DEF Rollback, sweep
<1> QED
  BY <1>3, <1>4 DEF Rollback

\* A call that fails sends the task back, with or without its last write.
LEMMA OfFail ==
    ASSUME IInv, NEW t \in Tasks, Fail(t), Observe PROVE IInv'
<1>1. /\ TaskOK(t) /\ ActorsOK /\ SettingsOK /\ ObjectsOK /\ HistoryOK /\ PromotedIsApproved
      /\ t \in Actors
  BY DEF IInv, Actors
<1>2. HistoryOK' /\ PromotedIsApproved'
  BY <1>1 DEF HistoryOK, PromotedIsApproved, Fail, Observe
<1>3. SettingsOK'
  BY <1>1, BudgetShape DEF SettingsOK, Fail
<1>4. CASE Return(t) /\ UNCHANGED store
  BY <1>1, <1>2, <1>3, <1>4, Returns, IdleIsOK, TaskMoves DEF Fail, sweep, ObjectsOK
<1>5. CASE /\ pc[t] # "fetch"
           /\ Goto(t, "rollback") /\ UNCHANGED <<op, artifact, digest, found, plan>>
           /\ \/ UNCHANGED <<store, staged>>
              \/ /\ pc[t] = "write" /\ CanMake(Head(plan[t])) /\ plan[t] # <<>>
                 /\ Put(t, Key(t, Head(plan[t])), Object(t, Head(plan[t])))
  <2>1. ObjectsOK' /\ staged' \in [Tasks -> Seq(StagedWrites)] /\ (\A u \in Tasks \ {t} : staged'[u] = staged[u])
    <3>1. CASE UNCHANGED <<store, staged>>
      BY <1>1, <3>1 DEF ObjectsOK, ActorsOK, Fail
    <3>2. CASE /\ pc[t] = "write" /\ CanMake(Head(plan[t])) /\ plan[t] # <<>>
               /\ Put(t, Key(t, Head(plan[t])), Object(t, Head(plan[t])))
      <4>1. \A u \in Tasks \ {t} : staged'[u] = staged[u]
        BY <1>1, <3>2 DEF ActorsOK, Put
      <4> QED
        BY <3>2, <4>1, Puts DEF Fail
    <3> QED
      BY <1>5, <3>1, <3>2
  <2>2. ActorsOK' /\ Frame(t) /\ pc'[t] = "rollback"
    BY <1>1, <1>5, <2>1 DEF ActorsOK, Goto, Frame, Labels
  <2>3. TaskOK(t)'
    BY <1>1, <1>5, <2>2 DEF TaskOK, Fail
  <2> QED
    BY <1>2, <1>3, <2>1, <2>2, <2>3, TaskMoves DEF Fail, sweep
<1>6. pc[t] = "write" => plan[t] # <<>>
  BY <1>1 DEF TaskOK
<1> QED
  BY <1>4, <1>5, <1>6 DEF Fail, Refuse

-----------------------------------------------------------------------------
(* Calls that begin *)

LEMMA Begins ==
    ASSUME IInv, NEW t \in Tasks, NEW what \in {"serve", "publish"}, NEW c \in Coordinates,
           NEW d \in Digests \cup {Nothing}, NEW label \in {"verify on read", "report", "fetch", "scan"},
           Begin(t, what, c, d, label), sent' \subseteq site.hosted, Observe,
           what = "serve" <=> label # "scan", label # "fetch" => d \in Digests
    PROVE  IInv'
<1>1. /\ ActorsOK /\ SettingsOK /\ ObjectsOK /\ HistoryOK /\ PromotedIsApproved
      /\ t \in Actors
  BY DEF IInv, Actors
<1>2. SettingsOK' /\ ObjectsOK' /\ HistoryOK' /\ PromotedIsApproved'
  BY <1>1 DEF SettingsOK, ObjectsOK, HistoryOK, PromotedIsApproved, Begin, Observe, objects
<1>3. ActorsOK' /\ Frame(t)
  BY <1>1 DEF ActorsOK, Begin, Goto, Frame, Labels
<1>4. pc'[t] = label /\ op'[t] = what /\ artifact'[t] = c /\ digest'[t] = d
  BY <1>1 DEF ActorsOK, Begin, Goto
<1>5. TaskOK(t)'
  BY <1>4 DEF TaskOK
<1> QED
  BY <1>2, <1>3, <1>5, TaskMoves DEF Begin, sweep

LEMMA OfRequest ==
    ASSUME IInv, NEW t \in Tasks, NEW c \in Coordinates, Request(t, c), Observe PROVE IInv'
<1>1. store[<<"bytes", c>>] \in Digests \cup {Nothing} /\ sent' \subseteq site.hosted
  <2>1. <<"bytes", c>> \in Keys
    BY DEF Keys, Kinds
  <2> QED
    BY <2>1 DEF IInv, ObjectsOK, Fits, SettingsOK, Request
<1> DEFINE bytes == store[<<"bytes", c>>]
<1>2. CASE bytes # Nothing /\ Begin(t, "serve", c, bytes, IF VerifyOnRead THEN "verify on read" ELSE "report")
  <2>1. PICK label \in {"verify on read", "report"} : Begin(t, "serve", c, bytes, label)
    BY <1>2
  <2> HIDE DEF bytes
  <2> QED
    BY <1>1, <1>2, <2>1, Begins DEF bytes
<1>3. CASE Begin(t, "serve", c, Nothing, "fetch")
  BY <1>1, <1>3, Begins
<1> QED
  BY <1>2, <1>3 DEF Request

LEMMA OfPublish ==
    ASSUME IInv, NEW t \in Tasks, NEW p \in site.hosted, Publish(t, p[1], p[2]), Observe PROVE IInv'
<1>1. p \in Coordinates \X Digests /\ sent \subseteq site.hosted
  BY DEF IInv, SettingsOK, Site
<1>2. p[1] \in Coordinates /\ p[2] \in Digests /\ p = <<p[1], p[2]>>
  BY <1>1
<1>3. sent' \subseteq site.hosted
  BY <1>1, <1>2 DEF Publish
<1> QED
  BY <1>2, <1>3, Begins DEF Publish

-----------------------------------------------------------------------------
(* The sweep *)

\* The sweep moves no task and no operator, and reviews nothing.
LEMMA SweepMoves ==
    ASSUME IInv, UNCHANGED sweepRest, Observe, SettingsOK', ObjectsOK', SweepOK',
           untold' \subseteq Digests
    PROVE  IInv'
<1>1. \A t \in Tasks : TaskOK(t)'
  BY DEF IInv, TaskOK, Blocks, sweepRest, task
<1>2. \A o \in Operators : OperatorOK(o)'
  BY DEF IInv, OperatorOK, sweepRest, task
<1>3. ActorsOK' /\ HistoryOK' /\ PromotedIsApproved'
  BY DEF IInv, ActorsOK, HistoryOK, PromotedIsApproved, sweepRest, task, Observe
<1> QED
  BY <1>1, <1>2, <1>3 DEF IInv

LEMMA OfStartSweep == ASSUME IInv, StartSweep, Observe PROVE IInv'
<1>1. SettingsOK /\ ObjectsOK /\ SweepOK /\ HistoryOK
  BY DEF IInv
<1>2. SettingsOK' /\ ObjectsOK' /\ untold' \subseteq Digests /\ UNCHANGED sweepRest
  BY <1>1 DEF SettingsOK, ObjectsOK, HistoryOK, StartSweep, sweepRest
<1>3. SweepOK'
  BY <1>1 DEF SweepOK, StartSweep, SweepLabels
<1> QED
  BY <1>2, <1>3, SweepMoves

LEMMA OfEndSweep == ASSUME IInv, EndSweep, Observe PROVE IInv'
<1>1. SettingsOK /\ ObjectsOK /\ SweepOK /\ HistoryOK
  BY DEF IInv
<1>2. SettingsOK' /\ ObjectsOK' /\ untold' \subseteq Digests /\ UNCHANGED sweepRest
  BY <1>1 DEF SettingsOK, ObjectsOK, HistoryOK, EndSweep, sweepRest
<1>3. SweepOK'
  BY <1>1 DEF SweepOK, EndSweep, SweepLabels
<1> QED
  BY <1>2, <1>3, SweepMoves

LEMMA OfSweepRead == ASSUME IInv, NEW d \in Digests, SweepRead(d), Observe PROVE IInv'
<1> DEFINE report == store[<<"report", d>>]
           bytes == IF report = Nothing THEN Nothing ELSE store[<<"bytes", report.artifact>>]
<1>1. SettingsOK /\ ObjectsOK /\ SweepOK /\ HistoryOK
  BY DEF IInv
<1>2. SettingsOK' /\ ObjectsOK' /\ untold' \subseteq Digests /\ UNCHANGED sweepRest
  BY <1>1 DEF SettingsOK, ObjectsOK, HistoryOK, SweepRead, sweepRest
<1>3. report \in Report \cup {Nothing}
  <2>1. <<"report", d>> \in Keys
    BY DEF Keys
  <2> QED
    BY <1>1, <2>1 DEF ObjectsOK, Fits
<1>4. CASE SweepGoto(d, "over") /\ UNCHANGED <<stored, fresh>>
  <2>1. SweepOK'
    BY <1>1, <1>4 DEF SweepOK, SweepGoto, SweepRead, SweepLabels
  <2> QED
    BY <1>2, <2>1, SweepMoves
<1>5. CASE /\ bytes # Nothing
           /\ stored' = [stored EXCEPT ![d] = report]
           /\ fresh' = [fresh EXCEPT ![d] = [report EXCEPT !.subject = bytes]]
           /\ SweepGoto(d, "scan")
  <2>1. report \in Report
    BY <1>3, <1>5
  <2>2. bytes \in Digests
    <3>1. <<"bytes", report.artifact>> \in Keys
      BY <2>1 DEF Report, Keys, Kinds
    <3>2. store[<<"bytes", report.artifact>>] \in Digests \cup {Nothing}
      BY <1>1, <3>1 DEF ObjectsOK, Fits
    <3> QED
      BY <1>5, <3>2
  <2>3. [report EXCEPT !.subject = bytes] \in Report
    <3> HIDE DEF report, bytes
    <3> QED
      BY <2>1, <2>2 DEF Report
  <2> DEFINE new == [report EXCEPT !.subject = bytes]
  <2>4. new \in Report /\ fresh' = [fresh EXCEPT ![d] = new]
    BY <1>5, <2>3
  <2> HIDE DEF report, bytes, new
  <2>5. SweepOK'
    BY <1>1, <1>5, <2>1, <2>4 DEF SweepOK, SweepGoto, SweepRead, SweepLabels
  <2> QED
    BY <1>2, <2>5, SweepMoves
<1> QED
  BY <1>4, <1>5 DEF SweepRead

LEMMA OfSweepScan == ASSUME IInv, NEW d \in Digests, SweepScan(d), Observe PROVE IInv'
<1> DEFINE report == Scanned(stored[d].artifact, fresh[d].subject)
<1>1. SettingsOK /\ ObjectsOK /\ SweepOK /\ HistoryOK
  BY DEF IInv
<1>2. SettingsOK' /\ ObjectsOK' /\ untold' \subseteq Digests /\ UNCHANGED sweepRest
  BY <1>1 DEF SettingsOK, ObjectsOK, HistoryOK, SweepScan, sweepRest
<1>3. stored[d] \in Report /\ fresh[d] \in Report
  BY <1>1 DEF SweepOK, SweepScan
<1>4. report \in Report
  BY <1>1, <1>3 DEF Scanned, Report, SettingsOK
<1>5. /\ fresh' = [fresh EXCEPT ![d] = report] /\ stored' = stored
      /\ \/ sweepPc' = [sweepPc EXCEPT ![d] = "over"]
         \/ sweepPc' = [sweepPc EXCEPT ![d] = "put"]
  BY DEF SweepScan, SweepGoto
<1> HIDE DEF report
<1>6. SweepOK'
  BY <1>1, <1>3, <1>4, <1>5 DEF SweepOK, SweepScan, SweepLabels
<1> QED
  BY <1>2, <1>6, SweepMoves

LEMMA OfSweepPut == ASSUME IInv, NEW d \in Digests, SweepPut(d), Observe PROVE IInv'
<1>1. SettingsOK /\ ObjectsOK /\ SweepOK /\ HistoryOK
  BY DEF IInv
<1>2. SettingsOK' /\ untold' \subseteq Digests /\ UNCHANGED sweepRest
  BY <1>1 DEF SettingsOK, HistoryOK, SweepPut, sweepRest
<1>3. fresh[d] \in Report
  BY <1>1 DEF SweepOK, SweepPut
<1>4. ObjectsOK'
  <2> DEFINE key == <<"report", d>>
  <2>1. key \in Keys /\ key[1] = "report" /\ fresh[d] \in Objects /\ fresh[d] \in Fits("report")
    BY <1>3 DEF Keys, Objects, Fits
  <2>2. store' = [store EXCEPT ![key] = fresh[d]] /\ record' = record
    BY DEF SweepPut, sweepRest
  <2> HIDE DEF key
  <2> QED
    BY <1>1, <2>1, <2>2 DEF ObjectsOK
<1>5. SweepOK'
  BY <1>1 DEF SweepOK, SweepPut, SweepGoto, SweepLabels
<1> QED
  BY <1>2, <1>4, <1>5, SweepMoves

LEMMA OfSweepFail == ASSUME IInv, NEW d \in Digests, SweepFail(d), Observe PROVE IInv'
<1>1. SettingsOK /\ ObjectsOK /\ SweepOK /\ HistoryOK
  BY DEF IInv
<1>2. SettingsOK'
  BY <1>1, BudgetShape DEF SettingsOK, SweepFail, sweepRest
<1>3. ObjectsOK' /\ untold' \subseteq Digests /\ UNCHANGED sweepRest
  BY <1>1 DEF ObjectsOK, HistoryOK, SweepFail, sweepRest
<1>4. SweepOK'
  BY <1>1 DEF SweepOK, SweepFail, SweepGoto, SweepLabels
<1> QED
  BY <1>2, <1>3, <1>4, SweepMoves

-----------------------------------------------------------------------------
(* People, and the process itself *)

\* It is enough to look at the operator that moves.
LEMMA OperatorMoves ==
    ASSUME IInv, NEW o \in Operators, UNCHANGED <<policy, sweep>>, approved \subseteq approved',
           HistoryOK', SettingsOK', ObjectsOK', ActorsOK', Frame(o), OperatorOK(o)', PromotedIsApproved'
    PROVE  IInv'
<1>1. ASSUME NEW t \in Tasks PROVE TaskOK(t)'
  <2>1. TaskOK(t) /\ t \in Actors \ {o}
    BY RolesAssumption DEF IInv, Actors
  <2>2. /\ pc'[t] = pc[t] /\ op'[t] = op[t] /\ artifact'[t] = artifact[t] /\ digest'[t] = digest[t]
        /\ found'[t] = found[t] /\ plan'[t] = plan[t]
    BY <2>1 DEF Frame
  <2>3. Blocks(found[t])' = Blocks(found[t])
    BY <2>2 DEF Blocks
  <2> QED
    BY <2>1, <2>2, <2>3 DEF TaskOK
<1>2. ASSUME NEW x \in Operators, x # o PROVE OperatorOK(x)'
  <2>1. OperatorOK(x) /\ x \in Actors \ {o}
    BY <1>2 DEF IInv, Actors
  <2>2. pc'[x] = pc[x] /\ digest'[x] = digest[x] /\ found'[x] = found[x]
    BY <2>1 DEF Frame
  <2> QED
    BY <2>1, <2>2 DEF OperatorOK
<1>3. SweepOK'
  BY DEF IInv, SweepOK, sweep
<1> QED
  BY <1>1, <1>2, <1>3 DEF IInv

LEMMA OfReviewRecord ==
    ASSUME IInv, NEW o \in Operators, NEW d \in Digests, NEW state \in {"promoted", "rejected"},
           ReviewRecord(o, d, state), Observe
    PROVE  IInv'
<1> DEFINE next == [record[d] EXCEPT !.state = state]
<1>1. /\ ActorsOK /\ SettingsOK /\ ObjectsOK /\ HistoryOK /\ PromotedIsApproved /\ o \in Actors
      /\ o \notin Tasks
  BY RolesAssumption DEF IInv, Actors
<1>2. record[d] \in Record
  BY <1>1 DEF ObjectsOK, ReviewRecord
<1>3. next \in Record /\ next.state = state
  BY <1>2 DEF Record
<1>4. found' = [found EXCEPT ![o] = next]
  BY DEF ReviewRecord
<1> HIDE DEF next
<1>5. ActorsOK' /\ Frame(o)
  BY <1>1, <1>3, <1>4 DEF ActorsOK, ReviewRecord, Goto, Frame, Labels
<1>6. OperatorOK(o)'
  BY <1>1, <1>3, <1>4 DEF ActorsOK, OperatorOK, ReviewRecord, Goto
<1>7. SettingsOK' /\ ObjectsOK' /\ HistoryOK' /\ PromotedIsApproved'
  BY <1>1 DEF SettingsOK, ObjectsOK, HistoryOK, PromotedIsApproved, ReviewRecord, Observe, objects
<1> QED
  BY <1>5, <1>6, <1>7, OperatorMoves DEF ReviewRecord

\* A promotion is written and remembered at once.
LEMMA OfDecideRecord ==
    ASSUME IInv, NEW o \in Operators, DecideRecord(o), Observe PROVE IInv'
<1>1. /\ ActorsOK /\ SettingsOK /\ ObjectsOK /\ HistoryOK /\ PromotedIsApproved /\ OperatorOK(o)
      /\ o \in Actors
  BY DEF IInv, Actors
<1>2. digest[o] \in Digests /\ found[o] \in Record /\ found[o].state = pc[o]
  BY <1>1 DEF DecideRecord, OperatorOK
<1>3. found[o].artifact \in Coordinates
  BY <1>2 DEF Record
<1>4. ActorsOK' /\ Frame(o) /\ pc'[o] = "idle"
  BY <1>1, Returns DEF DecideRecord
<1>5. ObjectsOK'
  BY <1>1, <1>2 DEF ObjectsOK, DecideRecord
<1>6. HistoryOK' /\ approved \subseteq approved'
  BY <1>1, <1>2, <1>3 DEF HistoryOK, DecideRecord, Observe
<1>7. PromotedIsApproved'
  <2> SUFFICES ASSUME NEW d \in Digests, record'[d] # Nothing, record'[d].state = "promoted"
               PROVE  <<record'[d].artifact, d>> \in approved'
    BY DEF PromotedIsApproved
  <2>1. CASE d = digest[o]
    <3>1. record'[d] = found[o]
      BY <1>1, <2>1 DEF ObjectsOK, DecideRecord
    <3> QED
      BY <1>2, <2>1, <3>1 DEF DecideRecord
  <2>2. CASE d # digest[o]
    <3>1. record'[d] = record[d]
      BY <1>1, <2>2 DEF ObjectsOK, DecideRecord
    <3> QED
      BY <1>1, <1>6, <3>1 DEF PromotedIsApproved
  <2> QED
    BY <2>1, <2>2
<1>8. SettingsOK' /\ OperatorOK(o)'
  BY <1>1, <1>4 DEF SettingsOK, OperatorOK, DecideRecord
<1> QED
  BY <1>4, <1>5, <1>6, <1>7, <1>8, OperatorMoves DEF DecideRecord

\* The feed and the cache move no actor.
LEMMA Elsewhere ==
    ASSUME IInv, UNCHANGED <<policy, record, task, sweep, approved, untold>>, Observe,
           SettingsOK', ObjectsOK'
    PROVE  IInv'
<1>1. \A t \in Tasks : TaskOK(t)'
  BY DEF IInv, TaskOK, Blocks, task
<1>2. \A o \in Operators : OperatorOK(o)'
  BY DEF IInv, OperatorOK, task
<1>3. ActorsOK' /\ SweepOK' /\ HistoryOK' /\ PromotedIsApproved'
  BY DEF IInv, ActorsOK, SweepOK, HistoryOK, PromotedIsApproved, task, sweep, Observe
<1> QED
  BY <1>1, <1>2, <1>3 DEF IInv

LEMMA OfAdvise ==
    ASSUME IInv, NEW c \in Coordinates, NEW v \in Verdicts, Advise(c, v), Observe PROVE IInv'
<1>1. SettingsOK /\ ObjectsOK
  BY DEF IInv
<1>2. SettingsOK'
  BY <1>1, BudgetShape DEF SettingsOK, Advise
<1>3. ObjectsOK'
  BY <1>1 DEF ObjectsOK, Advise, objects
<1> QED
  BY <1>2, <1>3, Elsewhere DEF Advise, objects

LEMMA OfEvict ==
    ASSUME IInv, NEW c \in Coordinates, Evict(c), Observe PROVE IInv'
<1> DEFINE key == <<"bytes", c>>
<1>1. SettingsOK /\ ObjectsOK
  BY DEF IInv
<1>2. SettingsOK'
  BY <1>1, BudgetShape DEF SettingsOK, Evict
<1>3. key \in Keys /\ key[1] = "bytes" /\ Nothing \in Objects /\ Nothing \in Fits("bytes")
  BY DEF Keys, Kinds, Objects, Fits
<1>4. store' = [store EXCEPT ![key] = Nothing] /\ record' = record
  BY DEF Evict
<1> HIDE DEF key
<1>5. ObjectsOK'
  BY <1>1, <1>3, <1>4 DEF ObjectsOK
<1> QED
  BY <1>2, <1>5, Elsewhere DEF Evict

LEMMA OfRestart ==
    ASSUME IInv, NEW p \in site.policies, Restart(p), Observe PROVE IInv'
<1>1. SettingsOK /\ ObjectsOK /\ HistoryOK /\ PromotedIsApproved
  BY DEF IInv
<1>2. SettingsOK'
  BY <1>1, BudgetShape DEF SettingsOK, Restart
<1>3. ObjectsOK' /\ HistoryOK' /\ PromotedIsApproved'
  BY <1>1 DEF ObjectsOK, HistoryOK, PromotedIsApproved, Restart, objects, Observe
<1>4. SweepOK'
  BY DEF SweepOK, Restart, SweepLabels
<1>5. ActorsOK'
  <2>1. <<>> \in Seq({"report"} \cup Kinds) /\ <<>> \in Seq(StagedWrites)
    OBVIOUS
  <2> QED
    BY <2>1 DEF ActorsOK, Restart, Labels
<1>6. \A a \in Actors : pc'[a] = "idle"
  BY DEF Restart
<1>7. (\A t \in Tasks : TaskOK(t)') /\ (\A o \in Operators : OperatorOK(o)')
  BY <1>6 DEF TaskOK, OperatorOK, Actors
<1> QED
  BY <1>2, <1>3, <1>4, <1>5, <1>7 DEF IInv

-----------------------------------------------------------------------------
(* The theorems *)

\* What earlier publishes and downloads left behind fits its place.
LEMMA InitialShape ==
    ASSUME site \in Site, policy \in site.policies, NEW k \in Keys
    PROVE  InitialObject(k[1], k[2]) \in Fits(k[1]) /\ InitialObject(k[1], k[2]) \in Objects
<1>1. policy.signer \in Signers \cup {Nothing}
  BY DEF Site, Policy
<1>2. CASE k[1] = "report"
  <2>1. k[2] \in Digests
    BY <1>2 DEF Keys, Kinds
  <2>2. ASSUME \E c \in Coordinates : <<c, k[2]>> \in site.preloaded
        PROVE  InitialObject(k[1], k[2]) \in Report
    <3> DEFINE c == CHOOSE c \in Coordinates : <<c, k[2]>> \in site.preloaded
    <3>1. c \in Coordinates
      BY <2>2
    <3>2. InitialObject(k[1], k[2]) = [artifact |-> c, subject |-> k[2], verdict |-> "clean"]
      BY <1>2, <2>2 DEF InitialObject
    <3> HIDE DEF c
    <3> QED
      BY <2>1, <3>1, <3>2 DEF Report, Verdicts
  <2> QED
    BY <1>2, <2>2 DEF InitialObject, Fits, Objects
<1>3. CASE k[1] # "report"
  <2>1. k[2] \in Coordinates /\ k[1] \in Kinds
    BY <1>3 DEF Keys
  <2>2. ASSUME \E d \in Digests : <<k[2], d>> \in site.preloaded
        PROVE  InitialObject(k[1], k[2]) \in Fits(k[1]) /\ InitialObject(k[1], k[2]) \in Objects
    <3> DEFINE d == CHOOSE d \in Digests : <<k[2], d>> \in site.preloaded
    <3>1. d \in Digests
      BY <2>2
    <3>2. InitialObject(k[1], k[2]) =
            IF k[1] = "bytes" THEN d
            ELSE IF policy.signer = Nothing THEN Nothing
            ELSE [key |-> policy.signer, artifact |-> k[2], digest |-> d]
      BY <1>3, <2>2 DEF InitialObject
    <3> HIDE DEF d
    <3> QED
      BY <1>1, <1>3, <2>1, <3>1, <3>2 DEF Fits, Objects, Signed
  <2> QED
    BY <1>3, <2>2 DEF InitialObject, Fits, Objects
<1> QED
  BY <1>2, <1>3

LEMMA InitInv == Init => IInv
<1> SUFFICES ASSUME Init PROVE IInv
  OBVIOUS
<1>1. site \in Site /\ policy \in site.policies
  BY SitesAssumption DEF Init
<1>2. SettingsOK
  BY <1>1 DEF SettingsOK, Init, Verdicts
<1>3. ObjectsOK
  <2>1. \A k \in Keys : store[k] = InitialObject(k[1], k[2])
    BY DEF Init
  <2>2. \A k \in Keys : store[k] \in Fits(k[1]) /\ store[k] \in Objects
    BY <1>1, <2>1, InitialShape
  <2>3. store = [k \in Keys |-> store[k]]
    BY DEF Init
  <2> QED
    BY <2>2, <2>3 DEF ObjectsOK, Init
<1>4. ActorsOK
  <2>1. <<>> \in Seq({"report"} \cup Kinds) /\ <<>> \in Seq(StagedWrites)
    OBVIOUS
  <2> QED
    BY <2>1 DEF ActorsOK, Init, Labels
<1>5. SweepOK /\ HistoryOK /\ PromotedIsApproved
  BY DEF SweepOK, HistoryOK, PromotedIsApproved, Init, SweepLabels
<1>6. (\A t \in Tasks : TaskOK(t)) /\ (\A o \in Operators : OperatorOK(o))
  BY DEF TaskOK, OperatorOK, Actors, Init
<1> QED
  BY <1>2, <1>3, <1>4, <1>5, <1>6 DEF IInv

LEMMA StutterInv == ASSUME IInv, UNCHANGED vars PROVE IInv'
<1>1. UNCHANGED <<policy, advisory, record, store, sent, task, sweep, site, approved, shield, untold>>
  BY DEF vars, objects
<1>2. \A t \in Tasks : TaskOK(t)'
  BY <1>1 DEF IInv, TaskOK, Blocks, task
<1>3. \A o \in Operators : OperatorOK(o)'
  BY <1>1 DEF IInv, OperatorOK, task
<1>4. ActorsOK' /\ SweepOK' /\ HistoryOK' /\ PromotedIsApproved'
  BY <1>1 DEF IInv, ActorsOK, SweepOK, HistoryOK, PromotedIsApproved, task, sweep
<1>5. SettingsOK' /\ ObjectsOK'
  BY <1>1 DEF IInv, SettingsOK, ObjectsOK
<1> QED
  BY <1>2, <1>3, <1>4, <1>5 DEF IInv

\* IInv is inductive: every step of every actor keeps it.
LEMMA NextInv == IInv /\ [Next]_vars => IInv'
<1> SUFFICES ASSUME IInv, [Next]_vars PROVE IInv'
  OBVIOUS
<1>1. ASSUME NEW t \in Tasks, TaskStep(t), Observe PROVE IInv'
  BY <1>1, OfVerifyCached, OfFetch, OfWrite, OfRollback, OfScanPublish, OfAdmitPublish, OfReadReport,
     OfScanServed, OfKeepReport, OfEnforceQuarantine, OfHold, OfCheckSignature, OfCheckProvenance,
     OfFinish
     DEF TaskStep
<1>2. CASE SweepStep /\ Observe
  BY <1>2, OfStartSweep, OfEndSweep, OfSweepRead, OfSweepScan, OfSweepPut DEF SweepStep
<1>3. CASE Environment /\ Observe
  BY <1>3, OfRequest, OfPublish, OfFail, OfSweepFail, OfReviewRecord, OfDecideRecord, OfEvict,
     OfAdvise, OfRestart
     DEF Environment
<1> QED
  BY <1>1, <1>2, <1>3, StutterInv DEF Next

LEMMA TypeFollows == IInv => TypeOK
<1> SUFFICES ASSUME IInv PROVE TypeOK
  OBVIOUS
<1>1. ASSUME NEW d \in Digests PROVE store[<<"report", d>>] \in Report \cup {Nothing}
  <2>1. <<"report", d>> \in Keys
    BY DEF Keys
  <2> QED
    BY <2>1 DEF IInv, ObjectsOK, Fits
<1>2. ASSUME NEW c \in Coordinates
      PROVE  /\ store[<<"bytes", c>>] \in Digests \cup {Nothing}
             /\ store[<<"signature", c>>] \in Signed \cup {Nothing}
             /\ store[<<"attestation", c>>] \in Signed \cup {Nothing}
  <2>1. <<"bytes", c>> \in Keys /\ <<"signature", c>> \in Keys /\ <<"attestation", c>> \in Keys
    BY DEF Keys, Kinds
  <2> QED
    BY <2>1 DEF IInv, ObjectsOK, Fits
<1>3. ASSUME NEW t \in Tasks, NEW i \in DOMAIN staged[t] PROVE staged[t][i][1] \in Keys
  <2>1. staged[t] \in Seq(StagedWrites)
    BY DEF IInv, ActorsOK
  <2>2. staged[t][i] \in StagedWrites
    BY <1>3, <2>1
  <2> QED
    BY <2>2 DEF StagedWrites
<1>4. /\ site \in Site /\ policy \in site.policies /\ advisory \in [Coordinates -> Verdicts]
      /\ store \in [Keys -> Digests \cup Report \cup Signed \cup {Nothing}]
      /\ record \in [Digests -> Record \cup {Nothing}] /\ sent \subseteq site.hosted
  BY DEF IInv, SettingsOK, ObjectsOK, Objects
<1> QED
  BY <1>1, <1>2, <1>3, <1>4 DEF TypeOK, IInv, ActorsOK, SweepOK, HistoryOK

\* Every variable keeps its type in every execution.
THEOREM TypeCorrect == Spec => []TypeOK
<1>1. Spec => []IInv
  BY InitInv, NextInv, PTL DEF Spec
<1> QED
  BY <1>1, TypeFollows, PTL

\* Of what the scan gate blocks (enforce_serve_scan), only what an operator
\* promoted for this very artifact is served, for any policy in force.
THEOREM OnlyReviewed == Spec => []OnlyReviewReleases
<1>1. Spec => []IInv
  BY InitInv, NextInv, PTL DEF Spec
<1>2. IInv => OnlyReviewReleases
  BY DEF IInv, TaskOK, OnlyReviewReleases
<1> QED
  BY <1>1, <1>2, PTL

-----------------------------------------------------------------------------
(* What a sweep tells *)

\* Until a fault or a restart, what began to block and is in no summary yet is
\* what the summary of the sweep under way will name.
FlipsInv ==
    /\ SweepIdle => newly = {}
    /\ site.used.faults = 0 /\ site.used.restarts = 0 => ~broken /\ untold = newly

\* What the environment spends is never given back.
LEMMA Spent ==
    ASSUME SettingsOK, NEW kind \in {"advisories", "evictions", "faults", "restarts"}, Spend(kind)
    PROVE  /\ site'.used[kind] # 0
           /\ site'.used.faults = 0 => site.used.faults = 0
           /\ site'.used.restarts = 0 => site.used.restarts = 0
<1>1. site \in Site /\ site.used \in Budget
  BY DEF SettingsOK, Site
<1> DEFINE after == [site.used EXCEPT ![kind] = @ + 1]
<1>2. site' = [site EXCEPT !.used = after]
  BY DEF Spend
<1>3. /\ after[kind] # 0 /\ (after.faults = 0 => site.used.faults = 0)
      /\ (after.restarts = 0 => site.used.restarts = 0)
  BY <1>1 DEF Budget
<1> HIDE DEF after
<1>4. site'.used = after
  BY <1>1, <1>2 DEF Site
<1> QED BY <1>3, <1>4

\* A step outside the sweep changes nothing of what the sweep has found.
LEMMA FlipsKept ==
    ASSUME FlipsInv, UNCHANGED <<sweep, untold>>,
           site'.used.faults = 0 => site.used.faults = 0,
           site'.used.restarts = 0 => site.used.restarts = 0
    PROVE  FlipsInv'
BY DEF FlipsInv, SweepIdle, sweep

\* FlipsInv is inductive.
LEMMA FlipsStep == IInv /\ FlipsInv /\ [Next]_vars => FlipsInv'
<1> SUFFICES ASSUME IInv, FlipsInv, [Next]_vars PROVE FlipsInv'
    OBVIOUS
<1>1. SettingsOK /\ SweepOK
  BY DEF IInv
<1>2. ASSUME NEW t \in Tasks, TaskStep(t) PROVE FlipsInv'
  <2>1. UNCHANGED <<sweep, untold, site>>
    BY <1>2
    DEF TaskStep, VerifyCached, Fetch, Write, Rollback, ScanPublish, AdmitPublish, ReadReport,
        ScanServed, KeepReport, EnforceQuarantine, Hold, CheckSignature, CheckProvenance, Check, Finish
  <2> QED BY <2>1, FlipsKept
<1>3. CASE StartSweep
  <2>1. SweepIdle /\ newly' = {} /\ broken' = FALSE /\ UNCHANGED <<site, untold>>
    BY <1>3 DEF StartSweep
  <2> QED BY <2>1 DEF FlipsInv
<1>4. CASE EndSweep
  BY <1>4 DEF EndSweep, FlipsInv
<1>5. ASSUME NEW d \in Digests, SweepRead(d) \/ SweepScan(d) PROVE FlipsInv'
  <2>1. UNCHANGED <<newly, broken, site, untold>> /\ ~SweepIdle
    BY <1>5 DEF SweepRead, SweepScan, SweepIdle
  <2>2. ~SweepIdle'
    BY <1>1, <1>5 DEF SweepRead, SweepScan, SweepIdle, SweepGoto, SweepOK
  <2> QED BY <2>1, <2>2 DEF FlipsInv
<1>6. ASSUME NEW d \in Digests, SweepPut(d) PROVE FlipsInv'
  <2>1. ~SweepIdle'
    BY <1>1, <1>6 DEF SweepPut, SweepIdle, SweepGoto, SweepOK
  <2>2. UNCHANGED <<broken, site>> /\ (untold = newly => untold' = newly')
    BY <1>6 DEF SweepPut, NewlyBlocks
  <2> QED BY <2>1, <2>2 DEF FlipsInv
<1>7. ASSUME NEW d \in Digests, SweepFail(d) PROVE FlipsInv'
  <2>1. ~SweepIdle'
    BY <1>1, <1>7 DEF SweepFail, SweepIdle, SweepGoto, SweepOK
  <2>2. site'.used["faults"] # 0
    BY <1>1, <1>7, Spent DEF SweepFail
  <2> QED BY <2>1, <2>2 DEF FlipsInv
<1>8. ASSUME NEW p \in site.policies, Restart(p) PROVE FlipsInv'
  <2>1. site'.used["restarts"] # 0
    BY <1>1, <1>8, Spent DEF Restart
  <2>2. newly' = {}
    BY <1>8 DEF Restart
  <2> QED BY <2>1, <2>2 DEF FlipsInv
<1>9. ASSUME \/ \E t \in Tasks : Fail(t)
             \/ \E c \in Coordinates : Evict(c) \/ \E v \in Verdicts : Advise(c, v)
      PROVE  FlipsInv'
  <2>1. UNCHANGED <<sweep, untold>>
    BY <1>9 DEF Fail, Evict, Advise
  <2>2. \E kind \in {"advisories", "evictions", "faults"} : Spend(kind)
    BY <1>9 DEF Fail, Evict, Advise
  <2> QED BY <1>1, <2>1, <2>2, Spent, FlipsKept
<1>10. ASSUME \/ \E t \in Tasks : (\E c \in Coordinates : Request(t, c))
                                    \/ \E p \in site.hosted : Publish(t, p[1], p[2])
              \/ \E o \in Operators : DecideRecord(o) \/
                   \E d \in Digests, state \in {"promoted", "rejected"} : ReviewRecord(o, d, state)
       PROVE  FlipsInv'
  <2>1. UNCHANGED <<sweep, untold, site>>
    BY <1>10 DEF Request, Publish, Begin, DecideRecord, ReviewRecord
  <2> QED BY <2>1, FlipsKept
<1>11. CASE UNCHANGED vars
  BY <1>11, FlipsKept DEF vars
<1> QED
  BY <1>2, <1>3, <1>4, <1>5, <1>6, <1>7, <1>8, <1>9, <1>10, <1>11
  DEF Next, SweepStep, Environment

-----------------------------------------------------------------------------
(* What the scan gate lets through *)

\* A download that ought to be refused has not passed the gate.
ShieldInv ==
    \A t \in Tasks : t \in shield =>
      /\ StandsBlocked(t)
      /\ pc[t] \in {"verify on read", "write", "rollback", "report", "record", "hold"}

\* A task that moves keeps it if it may go there or is not to be refused.
LEMMA ShieldMoves ==
    ASSUME IInv, ShieldInv, NEW t \in Tasks, Frame(t), Observe,
           t \in shield' => pc'[t] \in {"verify on read", "write", "rollback", "report", "record", "hold"}
    PROVE  ShieldInv'
<1> SUFFICES ASSUME NEW u \in Tasks, u \in shield', u # t
             PROVE  pc'[u] \in {"verify on read", "write", "rollback", "report", "record", "hold"}
    BY DEF ShieldInv, Observe
<1>1. pc'[u] = pc[u] /\ digest'[u] = digest[u]
  BY DEF Frame, Actors
<1>2. digest[u] # Nothing
  BY <1>1 DEF Observe, StandsBlocked
<1>3. u \in shield
  BY <1>2 DEF Observe
<1> QED BY <1>1, <1>3 DEF ShieldInv

\* As does a step that leaves the tasks where they are.
LEMMA ShieldStays ==
    ASSUME ShieldInv, UNCHANGED <<pc, digest>>, Observe
    PROVE  ShieldInv'
BY DEF ShieldInv, Observe, StandsBlocked


\* A step of a task leaves the other actors where they are.
LEMMA TaskFrame ==
    ASSUME IInv, NEW t \in Tasks,
           TaskStep(t) \/ Fail(t) \/ (\E c \in Coordinates : Request(t, c))
             \/ \E p \in site.hosted : Publish(t, p[1], p[2])
    PROVE  Frame(t)
<1>1. ActorsOK /\ t \in Actors
  BY DEF IInv, Actors
<1>2. Return(t) => Frame(t)
  BY <1>1 DEF Return, Goto, Frame, ActorsOK
<1>3. UNCHANGED <<op, artifact, digest, found, plan, staged>> /\ (\E l : Goto(t, l)) => Frame(t)
  BY <1>1 DEF Goto, Frame, ActorsOK
<1>4. VerifyCached(t) => Frame(t)
  BY <1>2, <1>3 DEF VerifyCached, Refuse
<1>5. Fetch(t) => Frame(t)
  BY <1>1, <1>2 DEF Fetch, Refuse, Goto, Frame, ActorsOK
<1>6. Write(t) => Frame(t)
  BY <1>1 DEF Write, Put, Goto, Frame, ActorsOK
<1>7. Rollback(t) => Frame(t)
  BY <1>1, <1>2 DEF Rollback, Frame, ActorsOK
<1>8. ScanPublish(t) => Frame(t)
  BY <1>1 DEF ScanPublish, Goto, Frame, ActorsOK
<1>9. AdmitPublish(t) => Frame(t)
  BY <1>1, <1>2 DEF AdmitPublish, Refuse, Goto, Frame, ActorsOK
<1>10. ASSUME NEW report, Decide(t, report) PROVE Frame(t)
  BY <1>1, <1>2, <1>10 DEF Decide, Refuse, Goto, Frame, ActorsOK
<1>11. ReadReport(t) => Frame(t)
  BY <1>3, <1>10 DEF ReadReport
<1>12. ScanServed(t) => Frame(t)
  BY <1>1 DEF ScanServed, Goto, Frame, ActorsOK
<1>13. KeepReport(t) => Frame(t)
  BY <1>10 DEF KeepReport
<1>14. EnforceQuarantine(t) \/ Hold(t) => Frame(t)
  BY <1>2, <1>3 DEF EnforceQuarantine, Hold, Refuse
<1>15. CheckSignature(t) \/ CheckProvenance(t) \/ Finish(t) => Frame(t)
  BY <1>2, <1>3 DEF CheckSignature, CheckProvenance, Check, Finish
<1>16. Fail(t) => Frame(t)
  BY <1>1, <1>2 DEF Fail, Refuse, Put, Goto, Frame, ActorsOK
<1>17. ASSUME NEW what, NEW c, NEW d, NEW label, Begin(t, what, c, d, label) PROVE Frame(t)
  BY <1>1, <1>17 DEF Begin, Goto, Frame, ActorsOK
<1>18. (\E c \in Coordinates : Request(t, c)) \/ (\E p \in site.hosted : Publish(t, p[1], p[2])) => Frame(t)
  BY <1>17 DEF Request, Publish
<1> QED
  BY <1>4, <1>5, <1>6, <1>7, <1>8, <1>9, <1>11, <1>12, <1>13, <1>14, <1>15, <1>16, <1>18 DEF TaskStep

\* A task that has returned is not to be refused.
LEMMA ReturnedIsOver ==
    ASSUME IInv, NEW t \in Tasks, Return(t), Observe
    PROVE  t \notin shield'
<1>1. op'[t] = "none"
  BY DEF Return, IInv, ActorsOK, Actors
<1> QED BY <1>1 DEF Observe, StandsBlocked

\* Where a download that ought to be refused goes next.
LEMMA ShieldOfTask ==
    ASSUME IInv, ShieldInv, NEW t \in Tasks, TaskStep(t), Observe
    PROVE  t \in shield' => pc'[t] \in {"verify on read", "write", "rollback", "report", "record", "hold"}
<1> SUFFICES ASSUME t \in shield', ~Return(t)
             PROVE  pc'[t] \in {"verify on read", "write", "rollback", "report", "record", "hold"}
    BY ReturnedIsOver
<1>1. ActorsOK /\ t \in Actors /\ TaskOK(t)
  BY DEF IInv, Actors
<1>2. op'[t] = "serve" /\ digest'[t] # Nothing
  BY DEF Observe, StandsBlocked
<1>3. \A label : Goto(t, label) => pc'[t] = label
  BY <1>1 DEF Goto, ActorsOK
<1>4. digest[t] # Nothing => /\ StandsBlocked(t)
                             /\ pc[t] \in {"verify on read", "write", "rollback", "report", "record", "hold"}
  BY DEF Observe, ShieldInv
<1>5. pc[t] \notin {"idle", "fetch"} => digest[t] # Nothing
  BY <1>1, NothingIsNothing DEF TaskOK
<1>6. CASE VerifyCached(t)
  BY <1>3, <1>6 DEF VerifyCached, Refuse
<1>7. CASE Fetch(t)
  BY <1>3, <1>7 DEF Fetch, Refuse
<1>8. CASE Write(t)
  <2>1. op[t] = "serve"
    BY <1>2, <1>8 DEF Write
  <2> QED BY <1>3, <1>8, <2>1 DEF Write
<1>9. CASE Rollback(t)
  BY <1>9 DEF Rollback
<1>10. CASE ScanPublish(t) \/ AdmitPublish(t)
  BY <1>1, <1>4, <1>5, <1>10 DEF ScanPublish, AdmitPublish
<1>11. CASE ReadReport(t)
  <2>1. pc[t] = "report" /\ StandsBlocked(t)
    BY <1>4, <1>5, <1>11 DEF ReadReport
  <2>2. Decide(t, store[<<"report", digest[t]>>]) /\ Blocks(store[<<"report", digest[t]>>])
    BY <1>11, <2>1 DEF ReadReport, StandsBlocked
  <2> QED BY <1>3, <2>2 DEF Decide, Refuse
<1>12. CASE ScanServed(t) \/ KeepReport(t) \/ CheckSignature(t) \/ CheckProvenance(t)
  BY <1>4, <1>5, <1>12 DEF ScanServed, KeepReport, CheckSignature, CheckProvenance, Check
<1>13. CASE EnforceQuarantine(t)
  <2>1. pc[t] = "record" /\ StandsBlocked(t)
    BY <1>4, <1>5, <1>13 DEF EnforceQuarantine
  <2> QED BY <1>3, <1>13, <2>1 DEF EnforceQuarantine, StandsBlocked, Refuse
<1>14. CASE Hold(t) \/ Finish(t)
  BY <1>14 DEF Hold, Finish, Refuse
<1> QED
  BY <1>6, <1>7, <1>8, <1>9, <1>10, <1>11, <1>12, <1>13, <1>14 DEF TaskStep

\* ShieldInv is inductive.
LEMMA ShieldStep == IInv /\ ShieldInv /\ [Next]_vars => ShieldInv'
<1> SUFFICES ASSUME IInv, ShieldInv, [Next]_vars PROVE ShieldInv'
    OBVIOUS
<1> DEFINE Before == {"verify on read", "write", "rollback", "report", "record", "hold"}
<1>1. ASSUME NEW t \in Tasks, TaskStep(t), Observe PROVE ShieldInv'
  BY <1>1, TaskFrame, ShieldOfTask, ShieldMoves
<1>2. ASSUME NEW t \in Tasks, NEW c \in Coordinates, Request(t, c), Observe PROVE ShieldInv'
  <2>1. pc'[t] \in {"verify on read", "report", "fetch"} /\ (pc'[t] = "fetch" => digest'[t] = Nothing)
    BY <1>2 DEF Request, Begin, Goto, IInv, ActorsOK, Actors
  <2>2. t \in shield' => pc'[t] # "fetch"
    BY <1>2, <2>1 DEF Observe, StandsBlocked
  <2> QED BY <1>2, <2>1, <2>2, TaskFrame, ShieldMoves
<1>3. ASSUME NEW t \in Tasks, NEW p \in site.hosted, Publish(t, p[1], p[2]), Observe PROVE ShieldInv'
  <2>1. op'[t] = "publish"
    BY <1>3 DEF Publish, Begin, IInv, ActorsOK, Actors
  <2>2. t \notin shield'
    BY <1>3, <2>1 DEF Observe, StandsBlocked
  <2> QED BY <1>3, <2>2, TaskFrame, ShieldMoves
<1>4. ASSUME NEW t \in Tasks, Fail(t), Observe PROVE ShieldInv'
  <2>1. Return(t) \/ pc'[t] = "rollback"
    BY <1>4 DEF Fail, Goto, Refuse, IInv, ActorsOK, Actors
  <2> QED BY <1>4, <2>1, ReturnedIsOver, TaskFrame, ShieldMoves
<1>5. ASSUME NEW o \in Operators, Observe,
             DecideRecord(o) \/ \E d \in Digests, state \in {"promoted", "rejected"} : ReviewRecord(o, d, state)
      PROVE  ShieldInv'
  <2>1. \A t \in Tasks : pc'[t] = pc[t] /\ digest'[t] = digest[t]
    BY <1>5, RolesAssumption DEF DecideRecord, ReviewRecord, Return, Goto, IInv, ActorsOK, Actors
  <2> QED BY <1>5, <2>1 DEF ShieldInv, Observe, StandsBlocked
<1>6. ASSUME SweepStep \/ (\E d \in Digests : SweepFail(d))
               \/ (\E c \in Coordinates : Evict(c) \/ \E v \in Verdicts : Advise(c, v)),
             Observe
      PROVE  ShieldInv'
  <2>1. UNCHANGED <<pc, digest>>
    BY <1>6
    DEF SweepStep, StartSweep, EndSweep, SweepRead, SweepScan, SweepPut, SweepFail, Evict, Advise,
        sweepRest, task
  <2> QED BY <1>6, <2>1, ShieldStays
<1>7. ASSUME NEW p \in site.policies, Restart(p), Observe PROVE ShieldInv'
  BY <1>7 DEF Restart, ShieldInv, Observe, StandsBlocked, Actors
<1>8. CASE UNCHANGED vars
  BY <1>8 DEF vars, objects, task, ShieldInv, StandsBlocked, Blocks, Released
<1> QED
  BY <1>1, <1>2, <1>3, <1>4, <1>5, <1>6, <1>7, <1>8 DEF Next, Environment

-----------------------------------------------------------------------------
\* The artifacts that a sweep finds to exceed the gate are in its summary, however
\* many subjects it has and whatever publishes and downloads do meanwhile.
THEOREM Told == Spec => []FlipsAreTold
<1>1. Init => FlipsInv
  BY DEF Init, FlipsInv
<1>2. Spec => []FlipsInv
  BY <1>1, InitInv, NextInv, FlipsStep, PTL DEF Spec
<1>3. FlipsInv => FlipsAreTold
  BY DEF FlipsInv, FlipsAreTold
<1> QED BY <1>2, <1>3, PTL

\* A download under a report that blocks its bytes, as long as it does and nobody
\* releases them, does not get past the scan gate.
THEOREM BlockedNotServed == Spec => []BlockedIsNotServed
<1>1. Init => ShieldInv
  BY DEF Init, ShieldInv
<1>2. Spec => []ShieldInv
  BY <1>1, InitInv, NextInv, ShieldStep, PTL DEF Spec
<1>3. ShieldInv => BlockedIsNotServed
  BY DEF ShieldInv, BlockedIsNotServed
<1> QED BY <1>2, <1>3, PTL

-----------------------------------------------------------------------------
(* What is signed *)

\* An upstream artifact does not change: "bytes" of a coordinate are one digest.
StableUpstreams ==
    \A s \in Sites, c \in Coordinates, d, e \in Digests :
        <<c, d>> \in s.upstream /\ <<c, e>> \in s.upstream => d = e

\* What CachedIsSigned asks of a deployment and of what has happened to it.
Undisturbed ==
    /\ \A p \in site.policies :
         p.signCached /\ p.signer # Nothing /\ p.mode \in {"sign_only", "sign_and_verify"}
    /\ site.used.faults = 0

Proxied(c) == \A x \in Digests : <<c, x>> \notin site.hosted

\* The settings that stay what they were when the deployment was chosen.
SiteOK ==
    /\ \A c \in Coordinates, d, e \in Digests :
         <<c, d>> \in site.upstream /\ <<c, e>> \in site.upstream => d = e
    /\ \A p \in site.policies : p.signer \in p.known \cup {Nothing}

\* The bytes of an artifact, if any, are the ones its signature is of.
Matches(c) ==
    store[<<"bytes", c>>] # Nothing =>
        /\ store[<<"signature", c>>] # Nothing
        /\ store[<<"signature", c>>].artifact = c
        /\ store[<<"signature", c>>].digest = store[<<"bytes", c>>]

Sidecars == {"signature"} \cup IF policy.requireProvenance THEN {"attestation"} ELSE {}
Todo ==
    IF policy.requireProvenance
    THEN {<<"signature", "attestation", "bytes">>, <<"attestation", "bytes">>, <<"bytes">>}
    ELSE {<<"signature", "bytes">>, <<"bytes">>}

MadeFor(t) == [key |-> policy.signer, artifact |-> artifact[t], digest |-> digest[t]]

\* A task writes to the artifact it is about, and a publish is of a hosted one.
OwnKeys(t) ==
    /\ \A i \in DOMAIN staged[t] :
         staged[t][i][1][1] = "report" \/ staged[t][i][1][2] = artifact[t]
    /\ op[t] = "publish" => ~Proxied(artifact[t])
    /\ op[t] = "serve" => artifact[t] \in Coordinates
    /\ pc[t] = "provenance" => policy.requireProvenance
    /\ pc[t] \in {"idle", "verify on read", "fetch"} => staged[t] = <<>>

\* A download that missed: while it writes nobody has stored other bytes, the
\* sidecars it wrote are in place, by the key in force, and it takes none back.
Filling(t) ==
    op[t] = "serve" /\ Proxied(artifact[t]) =>
        LET c == artifact[t] IN
        /\ pc[t] \in {"fetch", "write"} =>
             store[<<"bytes", c>>] = Nothing \/ <<c, store[<<"bytes", c>>]>> \in site.upstream
        /\ pc[t] = "write" => plan[t] \in Todo
        /\ pc[t] = "write" \/ staged[t] # <<>> => <<c, digest[t]>> \in site.upstream
        /\ pc[t] = "rollback" => staged[t] = <<>>
        /\ \A kind \in Sidecars :
             (IF pc[t] = "write" THEN \A i \in DOMAIN plan[t] : plan[t][i] # kind ELSE staged[t] # <<>>)
               => store[<<kind, c>>] = MadeFor(t)

SignedInv ==
    /\ SiteOK
    /\ \A t \in Tasks : OwnKeys(t)
    /\ Undisturbed => /\ \A c \in Coordinates : Proxied(c) => Matches(c)
                      /\ \A t \in Tasks : Filling(t)


\* A deployment does not change but for what its environment has spent.
LEMMA SiteKept ==
    ASSUME IInv, [Next]_vars
    PROVE  /\ site'.policies = site.policies /\ site'.hosted = site.hosted
           /\ site'.upstream = site.upstream
           /\ site'.used.faults = 0 => site.used.faults = 0
<1>1. SettingsOK
  BY DEF IInv
<1>2. ASSUME NEW kind \in {"advisories", "evictions", "faults", "restarts"}, Spend(kind)
      PROVE  /\ site'.policies = site.policies /\ site'.hosted = site.hosted
             /\ site'.upstream = site.upstream
             /\ site'.used.faults = 0 => site.used.faults = 0
  <2>1. site'.upstream = site.upstream
    BY <1>1, <1>2 DEF Spend, SettingsOK, Site
  <2> QED BY <1>1, <1>2, <2>1, BudgetShape, Spent
<1>3. UNCHANGED site \/ \E kind \in {"advisories", "evictions", "faults", "restarts"} : Spend(kind)
  <2>1. ASSUME NEW t \in Tasks, TaskStep(t) PROVE UNCHANGED site
    BY <2>1
    DEF TaskStep, VerifyCached, Fetch, Write, Rollback, ScanPublish, AdmitPublish, ReadReport,
        ScanServed, KeepReport, EnforceQuarantine, Hold, CheckSignature, CheckProvenance, Check, Finish
  <2>2. SweepStep => UNCHANGED site
    BY DEF SweepStep, StartSweep, EndSweep, SweepRead, SweepScan, SweepPut
  <2>3. Environment => \/ UNCHANGED site
                       \/ \E kind \in {"advisories", "evictions", "faults", "restarts"} : Spend(kind)
    BY DEF Environment, Request, Publish, Begin, Fail, SweepFail, ReviewRecord, DecideRecord, Evict,
           Advise, Restart
  <2> QED BY <2>1, <2>2, <2>3 DEF Next, vars
<1> QED BY <1>2, <1>3

\* What a step leaves as it is for SignedInv: the settings, the objects of c, the
\* task u.
SameSettings == UNCHANGED policy /\ SiteOK' /\ (Undisturbed' => Undisturbed)
                /\ site'.hosted = site.hosted /\ site'.upstream = site.upstream
SameObjects(c) == \A kind \in Kinds : store'[<<kind, c>>] = store[<<kind, c>>]
SameTask(u) ==
    /\ pc'[u] = pc[u] /\ op'[u] = op[u] /\ artifact'[u] = artifact[u] /\ digest'[u] = digest[u]
    /\ plan'[u] = plan[u] /\ staged'[u] = staged[u]

\* The settings stay the same but at a restart.
LEMMA SettingsKept ==
    ASSUME IInv, SiteOK, [Next]_vars, UNCHANGED policy PROVE SameSettings
<1>1. SiteOK' /\ (Undisturbed' => Undisturbed)
  BY SiteKept DEF SiteOK, Undisturbed
<1> QED BY <1>1, SiteKept DEF SameSettings

\* A task that is left alone keeps its part, if its artifact is.
LEMMA OthersFill ==
    ASSUME SameSettings, NEW u \in Tasks, SameTask(u), OwnKeys(u), Undisturbed => Filling(u)
    PROVE  /\ OwnKeys(u)'
           /\ SameObjects(artifact[u]) => (Undisturbed' => Filling(u)')
<1>1. OwnKeys(u)'
  BY DEF SameSettings, SameTask, OwnKeys, Proxied
<1>2. ASSUME SameObjects(artifact[u]), Undisturbed' PROVE Filling(u)'
  <2> DEFINE c == artifact[u]
  <2>1. Filling(u) /\ artifact'[u] = c
    BY <1>2 DEF SameSettings, SameTask
  <2>2. Sidecars' = Sidecars /\ Todo' = Todo /\ MadeFor(u)' = MadeFor(u) /\ Proxied(c)' = Proxied(c)
    BY DEF SameSettings, SameTask, Sidecars, Todo, MadeFor, Proxied
  <2>3. /\ store'[<<"bytes", c>>] = store[<<"bytes", c>>]
        /\ \A kind \in Sidecars : store'[<<kind, c>>] = store[<<kind, c>>]
    BY <1>2 DEF SameObjects, Sidecars, Kinds
  <2>4. /\ pc'[u] = pc[u] /\ op'[u] = op[u] /\ digest'[u] = digest[u] /\ plan'[u] = plan[u]
        /\ staged'[u] = staged[u] /\ site'.upstream = site.upstream /\ Proxied(artifact[u])' = Proxied(artifact[u])
    BY <2>2 DEF SameSettings, SameTask
  <2> HIDE DEF c
  <2> QED BY <2>1, <2>2, <2>3, <2>4 DEF Filling, c
<1> QED BY <1>1, <1>2

LEMMA MatchesKept ==
    ASSUME NEW c, SameObjects(c), Matches(c) PROVE Matches(c)'
BY DEF SameObjects, Matches, Kinds

\* A step of one task that writes no bytes and no sidecars.
LEMMA SignedByTask ==
    ASSUME SignedInv, SameSettings, NEW t \in Tasks, Frame(t),
           \A c \in Coordinates : SameObjects(c),
           OwnKeys(t)', Undisturbed' => Filling(t)'
    PROVE  SignedInv'
<1>1. ASSUME NEW u \in Tasks, u # t PROVE OwnKeys(u)' /\ (Undisturbed' => Filling(u)')
  <2>1. SameTask(u)
    BY <1>1 DEF Frame, SameTask, Actors
  <2>2. CASE op[u] = "serve"
    BY <2>1, <2>2, OthersFill DEF SignedInv, OwnKeys
  <2>3. CASE op[u] # "serve"
    BY <2>1, <2>3, OthersFill DEF SignedInv, Filling, SameTask
  <2> QED BY <2>2, <2>3
<1>2. ASSUME NEW c \in Coordinates, Undisturbed', Proxied(c)' PROVE Matches(c)'
  BY <1>2, MatchesKept DEF SignedInv, SameSettings, Proxied
<1> QED BY <1>1, <1>2 DEF SignedInv, SameSettings

\* A step that leaves the tasks alone and writes no bytes and no sidecars.
LEMMA SignedByOthers ==
    ASSUME SignedInv, SameSettings, \A u \in Tasks : SameTask(u),
           \A c \in Coordinates : SameObjects(c)
    PROVE  SignedInv'
<1>1. ASSUME NEW u \in Tasks PROVE OwnKeys(u)' /\ (Undisturbed' => Filling(u)')
  <2>1. CASE op[u] = "serve"
    BY <2>1, OthersFill DEF SignedInv, OwnKeys
  <2>2. CASE op[u] # "serve"
    BY <2>2, OthersFill DEF SignedInv, Filling, SameTask
  <2> QED BY <2>1, <2>2
<1>2. ASSUME NEW c \in Coordinates, Undisturbed', Proxied(c)' PROVE Matches(c)'
  BY <1>2, MatchesKept DEF SignedInv, SameSettings, Proxied
<1> QED BY <1>1, <1>2 DEF SignedInv, SameSettings

\* A task that has returned has nothing staged and nothing to do.
LEMMA ReturnedFills ==
    ASSUME IInv, NEW t \in Tasks, Return(t) PROVE OwnKeys(t)' /\ Filling(t)'
<1>1. op'[t] = "none" /\ staged'[t] = <<>> /\ pc'[t] = "idle"
  BY DEF Return, Goto, IInv, ActorsOK, Actors
<1> QED BY <1>1 DEF OwnKeys, Filling

\* A download on its way from the gates to the answer.
LEMMA PassingFills ==
    ASSUME SameSettings, NEW t \in Tasks, OwnKeys(t), Undisturbed => Filling(t),
           \A c \in Coordinates : SameObjects(c),
           op'[t] = op[t], artifact'[t] = artifact[t], digest'[t] = digest[t], staged'[t] = staged[t],
           pc[t] # "write" \/ op[t] = "publish",
           pc'[t] \notin {"idle", "verify on read", "fetch"},
           op[t] # "publish" => pc'[t] # "write", pc'[t] = "provenance" => policy.requireProvenance,
           pc'[t] = "rollback" /\ op[t] = "serve" /\ Proxied(artifact[t]) /\ Undisturbed => staged[t] = <<>>
    PROVE  OwnKeys(t)' /\ (Undisturbed' => Filling(t)')
<1>1. OwnKeys(t)'
  BY DEF SameSettings, OwnKeys, Proxied
<1>2. ASSUME Undisturbed' PROVE Filling(t)'
  <2>1. Filling(t) /\ Undisturbed
    BY <1>2 DEF SameSettings
  <2>2. CASE op[t] # "serve"
    BY <2>2 DEF Filling
  <2>3. CASE op[t] = "serve" /\ Proxied(artifact[t])
    <3> DEFINE c == artifact[t]
    <3>1. c \in Coordinates /\ pc[t] # "write" /\ pc'[t] \notin {"fetch", "write"}
      BY <2>3 DEF OwnKeys
    <3>2. Sidecars' = Sidecars /\ MadeFor(t)' = MadeFor(t) /\ Sidecars \subseteq Kinds
      BY DEF SameSettings, Sidecars, MadeFor, Kinds
    <3>3. \A kind \in Sidecars : store'[<<kind, c>>] = store[<<kind, c>>]
      BY <3>1, <3>2 DEF SameObjects
    <3>4. staged[t] # <<>> => /\ <<c, digest[t]>> \in site.upstream
                              /\ \A kind \in Sidecars : store[<<kind, c>>] = MadeFor(t)
      BY <2>1, <2>3, <3>1 DEF Filling
    <3>5. pc'[t] = "rollback" => staged[t] = <<>>
      BY <2>1, <2>3
    <3>6. site'.upstream = site.upstream
      BY DEF SameSettings
    <3> QED BY <3>1, <3>2, <3>3, <3>4, <3>5, <3>6 DEF Filling
  <2>4. CASE ~Proxied(artifact[t])
    BY <2>4 DEF Filling, SameSettings, Proxied
  <2> QED BY <2>2, <2>3, <2>4
<1> QED BY <1>1, <1>2

\* The steps of a task but its writes, their rollback and what begins a download.
LEMMA SignedOfPassing ==
    ASSUME IInv, SignedInv, SameSettings, NEW t \in Tasks,
           \/ VerifyCached(t) \/ ScanPublish(t) \/ AdmitPublish(t) \/ ReadReport(t) \/ ScanServed(t)
           \/ KeepReport(t) \/ EnforceQuarantine(t) \/ Hold(t) \/ Finish(t)
    PROVE  SignedInv'
<1>1. TaskStep(t) /\ Frame(t)
  BY TaskFrame DEF TaskStep
<1>2. OwnKeys(t) /\ (Undisturbed => Filling(t)) /\ ActorsOK /\ t \in Actors /\ TaskOK(t)
  BY DEF SignedInv, IInv, Actors
<1>3. \A c \in Coordinates : SameObjects(c)
  <2>1. CASE KeepReport(t)
    <3>1. <<"report", digest[t]>> \in Keys /\ store' = [store EXCEPT ![<<"report", digest[t]>>] = found[t]]
      BY <1>2, <2>1 DEF KeepReport, TaskOK, Keys
    <3>2. \A c \in Coordinates, kind \in Kinds :
            <<kind, c>> \in Keys /\ <<kind, c>> # <<"report", digest[t]>>
      BY DEF Keys, Kinds
    <3> QED BY <3>1, <3>2 DEF SameObjects, IInv, ObjectsOK
  <2>2. CASE ~KeepReport(t)
    BY <2>2
    DEF VerifyCached, ScanPublish, AdmitPublish, ReadReport, ScanServed, EnforceQuarantine, Hold, Finish,
        SameObjects, objects
  <2> QED BY <2>1, <2>2
<1>4. CASE Return(t)
  BY <1>1, <1>3, <1>4, ReturnedFills, SignedByTask
<1>5. CASE ~Return(t)
  <2>1. \A label : Goto(t, label) => pc'[t] = label
    BY <1>2 DEF Goto, ActorsOK
  <2>2. /\ op'[t] = op[t] /\ artifact'[t] = artifact[t] /\ digest'[t] = digest[t] /\ staged'[t] = staged[t]
        /\ pc[t] # "write" /\ pc'[t] \notin {"idle", "verify on read", "fetch", "rollback"}
        /\ op[t] # "publish" => pc'[t] # "write"
        /\ pc'[t] = "provenance" => policy.requireProvenance
    <3>1. /\ Verification(t) \in {"signature", "provenance", "commit", "served"}
          /\ Verification(t) = "provenance" => policy.requireProvenance
      BY DEF Verification, Attested, Admitted
    <3>2. ASSUME NEW report, Decide(t, report)
          PROVE  UNCHANGED <<op, artifact, digest, staged>> /\ pc'[t] \in {"record", Verification(t)}
      BY <1>5, <2>1, <3>2 DEF Decide, Refuse
    <3>3. CASE VerifyCached(t)
      BY <1>5, <2>1, <3>3 DEF VerifyCached, Refuse
    <3>4. CASE ScanPublish(t)
      BY <2>1, <3>4 DEF ScanPublish
    <3>5. CASE AdmitPublish(t)
      BY <1>2, <1>5, <2>1, <3>5 DEF AdmitPublish, Refuse, TaskOK
    <3>6. CASE ReadReport(t)
      BY <2>1, <3>1, <3>2, <3>6 DEF ReadReport
    <3>7. CASE ScanServed(t) \/ KeepReport(t)
      BY <2>1, <3>1, <3>2, <3>7 DEF ScanServed, KeepReport
    <3>8. CASE EnforceQuarantine(t) \/ Hold(t) \/ Finish(t)
      BY <1>5, <2>1, <3>1, <3>8 DEF EnforceQuarantine, Hold, Finish, Refuse
    <3> QED BY <3>3, <3>4, <3>5, <3>6, <3>7, <3>8
  <2>3. OwnKeys(t)' /\ (Undisturbed' => Filling(t)')
    BY <1>2, <1>3, <2>2, PassingFills
  <2> QED BY <1>1, <1>3, <2>3, SignedByTask
<1> QED BY <1>4, <1>5

\* The checks find the sidecars a download has just written.
LEMMA SignedOfChecks ==
    ASSUME IInv, SignedInv, SameSettings, NEW t \in Tasks, CheckSignature(t) \/ CheckProvenance(t)
    PROVE  SignedInv'
<1>1. Frame(t)
  BY TaskFrame DEF TaskStep
<1>2. OwnKeys(t) /\ (Undisturbed => Filling(t)) /\ ActorsOK /\ t \in Actors /\ SettingsOK
  BY DEF SignedInv, IInv, Actors
<1>3. \A c \in Coordinates : SameObjects(c)
  BY DEF CheckSignature, CheckProvenance, Check, SameObjects, objects
<1>4. /\ op'[t] = op[t] /\ artifact'[t] = artifact[t] /\ digest'[t] = digest[t] /\ staged'[t] = staged[t]
      /\ pc[t] # "write" /\ pc'[t] \in {"provenance", "commit", "served", "rollback"}
      /\ pc'[t] = "provenance" => policy.requireProvenance
  BY <1>2 DEF CheckSignature, CheckProvenance, Check, Goto, ActorsOK, Attested, Admitted
<1>5. ASSUME pc'[t] = "rollback", op[t] = "serve", Proxied(artifact[t]), Undisturbed, staged[t] # <<>>
      PROVE  FALSE
  <2>1. policy \in site.policies /\ policy.signer # Nothing /\ policy.signer \in policy.known
        /\ policy.mode # "off"
    BY <1>2, <1>5 DEF SettingsOK, Undisturbed, SignedInv, SiteOK
  <2>2. \A kind \in Sidecars : store[<<kind, artifact[t]>>] = MadeFor(t)
    BY <1>2, <1>4, <1>5 DEF Filling
  <2>3. \A kind \in Sidecars : Verified(kind, artifact[t], digest[t])
    <3>1. MadeFor(t) # Nothing
      <4>1. MadeFor(t) \in Signed
        <5>1. artifact[t] \in Coordinates /\ digest[t] \in Digests /\ policy.signer \in Signers
          BY <1>2, <1>4, <1>5, <2>1, PolicyShape
          DEF IInv, TaskOK, CheckSignature, CheckProvenance, Check, Policy
        <5> QED BY <5>1 DEF MadeFor, Signed
      <4> QED BY <4>1, NothingIsNothing
    <3> QED BY <2>1, <2>2, <3>1 DEF Verified, MadeFor
  <2>4. CASE CheckSignature(t)
    <3>1. "signature" \in Sidecars
      BY DEF Sidecars
    <3>2. SignatureHolds(artifact[t], digest[t])
      BY <2>3, <3>1 DEF SignatureHolds
    <3> QED BY <1>2, <1>5, <2>4, <3>2 DEF CheckSignature, Check, Goto, ActorsOK, Attested, Admitted
  <2>5. CASE CheckProvenance(t)
    <3>1. policy.requireProvenance
      BY <1>2, <2>5 DEF CheckProvenance, Check, OwnKeys
    <3>2. Verified("attestation", artifact[t], digest[t])
      BY <2>3, <3>1 DEF Sidecars
    <3> QED BY <1>2, <1>5, <2>5, <3>2 DEF CheckProvenance, Check, Goto, ActorsOK, Admitted
  <2> QED BY <2>4, <2>5
<1>6. OwnKeys(t)' /\ (Undisturbed' => Filling(t)')
  BY <1>2, <1>3, <1>4, <1>5, PassingFills
<1> QED BY <1>1, <1>3, <1>6, SignedByTask


\* The steps with which a download or a publish begins.
LEMMA SignedOfBeginning ==
    ASSUME IInv, SignedInv, SameSettings, NEW t \in Tasks,
           (\E c \in Coordinates : Request(t, c)) \/ \E p \in site.hosted : Publish(t, p[1], p[2])
    PROVE  SignedInv'
<1>1. Frame(t)
  BY TaskFrame
<1>2. OwnKeys(t) /\ ActorsOK /\ t \in Actors
  BY DEF SignedInv, IInv, Actors
<1>3. \A c \in Coordinates : SameObjects(c)
  BY DEF Request, Publish, Begin, SameObjects, objects
<1>4. pc[t] = "idle" /\ staged[t] = <<>> /\ staged'[t] = <<>>
  BY <1>2 DEF Request, Publish, Begin, OwnKeys
<1>5. CASE \E c \in Coordinates : Request(t, c)
  <2>1. PICK c \in Coordinates : Request(t, c)
    BY <1>5
  <2>2. /\ op'[t] = "serve" /\ artifact'[t] = c /\ pc'[t] \in {"verify on read", "report", "fetch"}
        /\ pc'[t] = "fetch" => store[<<"bytes", c>>] = Nothing
    BY <1>2, <2>1 DEF Request, Begin, Goto, ActorsOK
  <2>3. store'[<<"bytes", c>>] = store[<<"bytes", c>>]
    BY <2>1 DEF Request, Begin, objects
  <2>4. OwnKeys(t)'
    <3>1. artifact'[t] \in Coordinates /\ op'[t] # "publish" /\ pc'[t] # "provenance"
      BY <2>2
    <3>2. \A i \in DOMAIN staged'[t] : FALSE
      BY <1>4
    <3> QED BY <1>4, <3>1, <3>2 DEF OwnKeys
  <2>5. store'[<<"bytes", artifact'[t]>>] = Nothing \/ pc'[t] # "fetch"
    BY <2>2, <2>3
  <2>6. Filling(t)'
    BY <1>4, <2>2, <2>5 DEF Filling
  <2> QED BY <1>1, <1>3, <2>4, <2>6, SignedByTask
<1>6. CASE \E p \in site.hosted : Publish(t, p[1], p[2])
  <2>1. PICK p \in site.hosted : Publish(t, p[1], p[2])
    BY <1>6
  <2>2. op'[t] = "publish" /\ artifact'[t] = p[1] /\ pc'[t] = "scan"
    BY <1>2, <2>1 DEF Publish, Begin, Goto, ActorsOK
  <2>3. p[2] \in Digests /\ <<p[1], p[2]>> \in site'.hosted
    BY <2>1 DEF SameSettings, IInv, SettingsOK, Site
  <2>4. OwnKeys(t)' /\ Filling(t)'
    BY <1>4, <2>2, <2>3 DEF OwnKeys, Filling, Proxied
  <2> QED BY <1>1, <1>3, <2>4, SignedByTask
<1> QED BY <1>5, <1>6

\* What upstream answers is what a miss will write, after its sidecars.
LEMMA SignedOfFetch ==
    ASSUME IInv, SignedInv, SameSettings, NEW t \in Tasks, Fetch(t)
    PROVE  SignedInv'
<1>1. Frame(t)
  BY TaskFrame DEF TaskStep
<1>2. OwnKeys(t) /\ (Undisturbed => Filling(t)) /\ ActorsOK /\ t \in Actors /\ TaskOK(t) /\ SettingsOK
  BY DEF SignedInv, IInv, Actors
<1>3. \A c \in Coordinates : SameObjects(c)
  BY DEF Fetch, SameObjects, objects
<1>4. CASE Return(t)
  BY <1>1, <1>3, <1>4, ReturnedFills, SignedByTask
<1>5. CASE ~Return(t)
  <2>1. PICK d \in Digests : /\ <<artifact[t], d>> \in site.upstream
                             /\ digest' = [digest EXCEPT ![t] = d]
                             /\ plan' = [plan EXCEPT ![t] = Plan(t)]
                             /\ Goto(t, "write")
                             /\ UNCHANGED <<op, artifact, found, staged>>
    BY <1>5 DEF Fetch, Refuse
  <2>2. /\ pc'[t] = "write" /\ digest'[t] = d /\ plan'[t] = Plan(t) /\ op'[t] = "serve"
        /\ artifact'[t] = artifact[t] /\ staged'[t] = <<>> /\ pc[t] = "fetch" /\ op[t] = "serve"
    BY <1>2, <2>1 DEF Goto, ActorsOK, OwnKeys, Fetch, TaskOK
  <2>3. OwnKeys(t)'
    BY <1>2, <2>2 DEF OwnKeys
  <2>4. ASSUME Undisturbed', Proxied(artifact[t]) PROVE Filling(t)'
    <3>1. Undisturbed /\ policy \in site.policies
      BY <1>2, <2>4 DEF SameSettings, SettingsOK
    <3>2. SignsCached
      BY <3>1 DEF Undisturbed, SignsCached, Signing
    <3>3. Plan(t) = IF policy.requireProvenance THEN <<"signature", "attestation", "bytes">>
                    ELSE <<"signature", "bytes">>
      BY <2>2, <3>2 DEF Plan
    <3>4. policy' = policy /\ site'.upstream = site.upstream
      BY DEF SameSettings
    <3>5. Plan(t) \in Todo' /\ \A kind \in Sidecars' : \E i \in DOMAIN Plan(t) : Plan(t)[i] = kind
      <4>1. CASE policy.requireProvenance
        <5>1. Plan(t)[1] = "signature" /\ Plan(t)[2] = "attestation" /\ 1 \in DOMAIN Plan(t) /\ 2 \in DOMAIN Plan(t)
          BY <3>3, <4>1
        <5> QED BY <3>3, <3>4, <4>1, <5>1 DEF Todo, Sidecars
      <4>2. CASE ~policy.requireProvenance
        <5>1. Plan(t)[1] = "signature" /\ 1 \in DOMAIN Plan(t)
          BY <3>3, <4>2
        <5> QED BY <3>3, <3>4, <4>2, <5>1 DEF Todo, Sidecars
      <4> QED BY <4>1, <4>2
    <3>6. \/ store[<<"bytes", artifact[t]>>] = Nothing
          \/ <<artifact[t], store[<<"bytes", artifact[t]>>]>> \in site.upstream
      BY <1>2, <2>2, <2>4, <3>1 DEF Filling
    <3>7. store' = store
      BY DEF Fetch, objects
    <3> QED BY <2>1, <2>2, <3>4, <3>5, <3>6, <3>7 DEF Filling
  <2>5. Undisturbed' => Filling(t)'
    <3>1. ~Proxied(artifact[t]) => Filling(t)'
      BY <2>2 DEF Filling, SameSettings, Proxied
    <3> QED BY <2>4, <3>1
  <2> QED BY <1>1, <1>3, <2>3, <2>5, SignedByTask
<1> QED BY <1>4, <1>5


\* The first of what is left to write, and what is left after it.
LEMMA TodoShape ==
    ASSUME NEW p \in Todo
    PROVE  /\ p # <<>> /\ Head(p) \in Kinds
           /\ Len(p) > 1 => /\ Tail(p) \in Todo /\ Head(p) # "bytes"
                            /\ \A kind \in Sidecars :
                                 (\A i \in DOMAIN Tail(p) : Tail(p)[i] # kind) =>
                                   Head(p) = kind \/ \A i \in DOMAIN p : p[i] # kind
           /\ Len(p) <= 1 => p = <<"bytes">>
<1>1. CASE p = <<"signature", "attestation", "bytes">>
  <2>1. Head(p) = "signature" /\ Tail(p) = <<"attestation", "bytes">> /\ Len(p) = 3
    BY <1>1
  <2>2. 1 \in DOMAIN Tail(p) /\ Tail(p)[1] = "attestation" /\ policy.requireProvenance
    BY <1>1, <2>1 DEF Todo
  <2> QED BY <2>1, <2>2 DEF Todo, Sidecars, Kinds
<1>2. CASE p = <<"attestation", "bytes">>
  <2>1. Head(p) = "attestation" /\ Tail(p) = <<"bytes">> /\ Len(p) = 2 /\ policy.requireProvenance
    BY <1>2 DEF Todo
  <2>2. \A i \in DOMAIN p : p[i] # "signature"
    BY <1>2
  <2> QED BY <2>1, <2>2 DEF Todo, Sidecars, Kinds
<1>3. CASE p = <<"signature", "bytes">>
  <2>1. Head(p) = "signature" /\ Tail(p) = <<"bytes">> /\ Len(p) = 2 /\ ~policy.requireProvenance
    BY <1>3 DEF Todo
  <2> QED BY <2>1 DEF Todo, Sidecars, Kinds
<1>4. CASE p = <<"bytes">>
  BY <1>4 DEF Kinds
<1> QED BY <1>1, <1>2, <1>3, <1>4 DEF Todo

\* What a step does to the objects of a proxied artifact that others rely on:
\* bytes are taken away or are upstream's, a sidecar is made for such bytes.
FitsUpstream(c) ==
    /\ \/ store'[<<"bytes", c>>] \in {Nothing, store[<<"bytes", c>>]}
       \/ <<c, store'[<<"bytes", c>>]>> \in site.upstream /\ store'[<<"bytes", c>>] \in Digests
    /\ \A kind \in Sidecars :
         \/ store'[<<kind, c>>] = store[<<kind, c>>]
         \/ \E d \in Digests : /\ <<c, d>> \in site.upstream
                               /\ store'[<<kind, c>>] = [key |-> policy.signer, artifact |-> c, digest |-> d]

LEMMA OthersFillUpstream ==
    ASSUME IInv, SignedInv, SameSettings, NEW u \in Tasks, SameTask(u), Undisturbed,
           FitsUpstream(artifact[u])
    PROVE  Filling(u)'
<1> DEFINE c == artifact[u]
<1>1. Filling(u) /\ OwnKeys(u) /\ SiteOK /\ TaskOK(u) /\ ActorsOK /\ u \in Actors
  BY DEF SignedInv, IInv, Actors
<1>2. Sidecars' = Sidecars /\ Todo' = Todo /\ MadeFor(u)' = MadeFor(u) /\ site'.upstream = site.upstream
  BY DEF SameSettings, SameTask, Sidecars, Todo, MadeFor
<1>3. CASE op[u] = "serve" /\ Proxied(c)
  <2>1. c \in Coordinates
    BY <1>1, <1>3 DEF OwnKeys
  <2>2. pc[u] \in {"fetch", "write"} =>
          store'[<<"bytes", c>>] = Nothing \/ <<c, store'[<<"bytes", c>>]>> \in site.upstream
    BY <1>1, <1>3 DEF FitsUpstream, Filling
  <2>3. ASSUME NEW kind \in Sidecars, store[<<kind, c>>] = MadeFor(u), <<c, digest[u]>> \in site.upstream,
               digest[u] \in Digests
        PROVE  store'[<<kind, c>>] = MadeFor(u)
    <3> SUFFICES ASSUME NEW d \in Digests, <<c, d>> \in site.upstream,
                        store'[<<kind, c>>] = [key |-> policy.signer, artifact |-> c, digest |-> d]
                 PROVE  store'[<<kind, c>>] = MadeFor(u)
      BY <2>3 DEF FitsUpstream
    <3>1. d = digest[u]
      BY <1>1, <2>1, <2>3 DEF SiteOK
    <3> QED BY <3>1 DEF MadeFor
  <2>4. pc[u] = "write" \/ staged[u] # <<>> => <<c, digest[u]>> \in site.upstream /\ digest[u] \in Digests
    BY <1>1, <1>3 DEF Filling, OwnKeys, TaskOK
  <2>5. \A kind \in Sidecars :
          (IF pc[u] = "write" THEN \A i \in DOMAIN plan[u] : plan[u][i] # kind ELSE staged[u] # <<>>) =>
            store'[<<kind, c>>] = MadeFor(u)
    <3> SUFFICES ASSUME NEW kind \in Sidecars,
                        IF pc[u] = "write" THEN \A i \in DOMAIN plan[u] : plan[u][i] # kind ELSE staged[u] # <<>>
                 PROVE  store'[<<kind, c>>] = MadeFor(u)
      OBVIOUS
    <3>1. store[<<kind, c>>] = MadeFor(u)
      BY <1>1, <1>3 DEF Filling
    <3>2. pc[u] = "write" \/ staged[u] # <<>>
      OBVIOUS
    <3> QED BY <2>3, <2>4, <3>1, <3>2
  <2>6. pc[u] = "write" => plan[u] \in Todo
    BY <1>1, <1>3 DEF Filling
  <2>7. pc[u] = "rollback" => staged[u] = <<>>
    BY <1>1, <1>3 DEF Filling
  <2> QED BY <1>2, <2>2, <2>4, <2>5, <2>6, <2>7 DEF Filling, SameTask
<1>4. CASE ~(op[u] = "serve" /\ Proxied(c))
  BY <1>4 DEF Filling, SameTask, SameSettings, Proxied
<1> QED BY <1>3, <1>4


\* A step of t that writes to one key of its artifact, or a report.
LEMMA SignedByWriter ==
    ASSUME IInv, SignedInv, SameSettings, NEW t \in Tasks, Frame(t), OwnKeys(t)',
           Undisturbed' => Filling(t)',
           \A c \in Coordinates : Proxied(c) /\ Undisturbed => FitsUpstream(c) /\ Matches(c)'
    PROVE  SignedInv'
<1>1. ASSUME NEW u \in Tasks, u # t PROVE OwnKeys(u)' /\ (Undisturbed' => Filling(u)')
  <2>1. SameTask(u)
    BY <1>1 DEF Frame, SameTask, Actors
  <2>2. OwnKeys(u)'
    BY <2>1, OthersFill DEF SignedInv
  <2>3. ASSUME Undisturbed' PROVE Filling(u)'
    <3>1. Undisturbed
      BY <2>3 DEF SameSettings
    <3>2. CASE op[u] = "serve" /\ Proxied(artifact[u])
      BY <2>1, <3>1, <3>2, OthersFillUpstream DEF SignedInv, OwnKeys
    <3>3. CASE ~(op[u] = "serve" /\ Proxied(artifact[u]))
      BY <2>1, <3>3 DEF Filling, SameTask, SameSettings, Proxied
    <3> QED BY <3>2, <3>3
  <2> QED BY <2>2, <2>3
<1>2. ASSUME NEW c \in Coordinates, Undisturbed', Proxied(c)' PROVE Matches(c)'
  BY <1>2 DEF SameSettings, Proxied
<1> QED BY <1>1, <1>2 DEF SignedInv, SameSettings

\* A write of a task that is about a hosted artifact, or of a report.
LEMMA ElsewhereFits ==
    ASSUME NEW c, Matches(c), SameObjects(c)
    PROVE  FitsUpstream(c) /\ Matches(c)'
BY MatchesKept DEF FitsUpstream, SameObjects, Kinds, Sidecars

\* A miss writes its sidecars before its bytes.
LEMMA SignedOfWrite ==
    ASSUME IInv, SignedInv, SameSettings, NEW t \in Tasks, Write(t)
    PROVE  SignedInv'
<1> DEFINE c == artifact[t]
           kind == Head(plan[t])
           key == Key(t, kind)
           object == Object(t, kind)
<1>1. Frame(t)
  BY TaskFrame DEF TaskStep
<1>2. /\ OwnKeys(t) /\ (Undisturbed => Filling(t)) /\ ActorsOK /\ t \in Actors /\ TaskOK(t)
      /\ SettingsOK /\ ObjectsOK /\ SiteOK
  BY DEF SignedInv, IInv, Actors
<1>3. /\ pc[t] = "write" /\ plan[t] # <<>> /\ op[t] \in {"serve", "publish"}
      /\ c \in Coordinates /\ digest[t] \in Digests /\ UNCHANGED <<op, artifact, digest>>
  BY <1>2 DEF Write, TaskOK
<1>4. kind \in {"report"} \cup Kinds /\ key \in Keys
  <2>1. plan[t] \in Seq({"report"} \cup Kinds)
    BY <1>2 DEF ActorsOK
  <2>2. kind \in {"report"} \cup Kinds
    BY <1>3, <2>1
  <2> HIDE DEF kind
  <2> QED BY <1>3, <2>2, KeyShape
<1>5. CASE ~CanMake(kind)
  <2>1. pc'[t] = "rollback" /\ UNCHANGED <<store, staged, plan>>
    BY <1>2, <1>5 DEF Write, Goto, ActorsOK
  <2>2. \A e \in Coordinates : SameObjects(e)
    BY <2>1 DEF SameObjects
  <2>3. OwnKeys(t)'
    BY <1>2, <1>3, <2>1 DEF OwnKeys, SameSettings, Proxied
  <2>4. ASSUME Undisturbed' PROVE Filling(t)'
    <3>1. policy \in site.policies /\ Undisturbed
      BY <1>2, <2>4 DEF SettingsOK, SameSettings
    <3>2. CanMake(kind)
      BY <3>1 DEF CanMake, Undisturbed, Signing
    <3> QED BY <1>5, <3>2
  <2> QED BY <1>1, <2>2, <2>3, <2>4, SignedByTask
<1>6. CASE CanMake(kind)
  <2>1. /\ store' = [store EXCEPT ![key] = object]
        /\ staged'[t] = Append(staged[t], <<key, store[key]>>)
        /\ plan'[t] = Tail(plan[t])
        /\ IF Len(plan[t]) > 1 THEN pc'[t] = "write"
           ELSE pc'[t] = IF op[t] = "publish" THEN Verification(t) ELSE "report"
    BY <1>2, <1>6 DEF Write, Put, Goto, ActorsOK
  <2>2. key[1] = "report" \/ key[2] = c
    BY DEF Key
  <2>3. OwnKeys(t)'
    <3>1. \A i \in DOMAIN staged'[t] : staged'[t][i][1][1] = "report" \/ staged'[t][i][1][2] = c
      <4>1. staged[t] \in Seq(StagedWrites)
        BY <1>2 DEF ActorsOK
      <4>2. \A i \in DOMAIN staged[t] : staged[t][i][1][1] = "report" \/ staged[t][i][1][2] = c
        BY <1>2 DEF OwnKeys
      <4>3. DOMAIN staged'[t] = 1..(Len(staged[t]) + 1) /\ DOMAIN staged[t] = 1..Len(staged[t])
        BY <2>1, <4>1
      <4>4. \A i \in DOMAIN staged'[t] :
              staged'[t][i] = IF i <= Len(staged[t]) THEN staged[t][i] ELSE <<key, store[key]>>
        BY <2>1, <4>1, <4>3
      <4> HIDE DEF key
      <4> QED BY <2>2, <4>2, <4>3, <4>4, <4>1
    <3>2. pc'[t] \notin {"idle", "verify on read", "fetch"} /\ (pc'[t] = "provenance" => policy.requireProvenance)
      BY <2>1 DEF Verification, Attested, Admitted
    <3> QED BY <1>2, <1>3, <3>1, <3>2 DEF OwnKeys, SameSettings, Proxied
  <2>4. ASSUME NEW e \in Coordinates, Proxied(e), Undisturbed, e # c \/ op[t] = "publish"
        PROVE  FitsUpstream(e) /\ Matches(e)'
    <3>1. e # c
      BY <1>2, <2>4 DEF OwnKeys
    <3>2. \A k \in Kinds : <<k, e>> \in Keys /\ <<k, e>> # key
      <4>1. (key = <<kind, digest[t]>> /\ kind = "report") \/ key = <<kind, c>>
        BY DEF Key
      <4> HIDE DEF key, kind
      <4> QED BY <3>1, <4>1 DEF Keys, Kinds
    <3>3. SameObjects(e)
      <4> HIDE DEF key, object
      <4> QED BY <1>2, <2>1, <3>2 DEF SameObjects, ObjectsOK
    <3>4. Matches(e)
      BY <2>4 DEF SignedInv
    <3> QED BY <3>3, <3>4, ElsewhereFits
  <2>5. ASSUME Undisturbed, op[t] = "serve", Proxied(c)
        PROVE  FitsUpstream(c) /\ Matches(c)' /\ (Undisturbed' => Filling(t)')
    <3>1. /\ plan[t] \in Todo /\ <<c, digest[t]>> \in site.upstream /\ Filling(t)
          /\ \/ store[<<"bytes", c>>] = Nothing
             \/ <<c, store[<<"bytes", c>>]>> \in site.upstream
      BY <1>2, <1>3, <2>5 DEF Filling
    <3>2. /\ kind \in Kinds /\ key = <<kind, c>>
          /\ Len(plan[t]) > 1 => /\ Tail(plan[t]) \in Todo /\ kind # "bytes"
                                 /\ \A k \in Sidecars :
                                      (\A i \in DOMAIN Tail(plan[t]) : Tail(plan[t])[i] # k) =>
                                        kind = k \/ \A i \in DOMAIN plan[t] : plan[t][i] # k
          /\ Len(plan[t]) <= 1 => plan[t] = <<"bytes">>
      BY <3>1, TodoShape DEF Key, Kinds
    <3>3. object = IF kind = "bytes" THEN digest[t] ELSE MadeFor(t)
      BY <3>2 DEF Object, MadeFor, Kinds
    <3>4. \A k \in Kinds : store'[<<k, c>>] = IF k = kind THEN object ELSE store[<<k, c>>]
      <4>1. \A k \in Kinds : <<k, c>> \in Keys
        BY <1>3 DEF Keys
      <4> HIDE DEF object, kind, c
      <4> QED BY <1>2, <2>1, <3>2, <4>1 DEF ObjectsOK
    <3>5. ASSUME NEW k \in Sidecars,
                 kind = k \/ \A i \in DOMAIN plan[t] : plan[t][i] # k
          PROVE  store'[<<k, c>>] = MadeFor(t)
      <4>1. k \in Kinds /\ k # "bytes"
        BY DEF Sidecars, Kinds
      <4>2. CASE k = kind
        BY <3>3, <3>4, <4>1, <4>2
      <4>3. CASE k # kind
        <5>1. store[<<k, c>>] = MadeFor(t)
          BY <1>3, <2>5, <3>1, <3>5, <4>3 DEF Filling
        <5> QED BY <3>4, <4>1, <4>3, <5>1
      <4> QED BY <4>2, <4>3
    <3>6. MadeFor(t)' = MadeFor(t) /\ Sidecars' = Sidecars /\ Todo' = Todo /\ site'.upstream = site.upstream
      BY <1>3 DEF SameSettings, MadeFor, Sidecars, Todo
    <3>7. FitsUpstream(c)
      <4>1. \A k \in Sidecars : store'[<<k, c>>] \in {store[<<k, c>>], MadeFor(t)}
        BY <3>3, <3>4 DEF Sidecars, Kinds
      <4>2. store'[<<"bytes", c>>] \in {store[<<"bytes", c>>], digest[t]}
        BY <3>3, <3>4 DEF Kinds
      <4> HIDE DEF c
      <4> QED BY <1>3, <3>1, <4>1, <4>2 DEF FitsUpstream, MadeFor, c
    <3>8. Matches(c)'
      <4>1. CASE kind = "bytes"
        <5>1. Len(plan[t]) <= 1
          BY <1>2, <1>3, <3>2, <4>1 DEF ActorsOK
        <5>2. \A i \in DOMAIN plan[t] : plan[t][i] # "signature"
          BY <3>2, <5>1
        <5>3. "signature" \in Sidecars /\ store'[<<"signature", c>>] = MadeFor(t)
          BY <3>5, <5>2 DEF Sidecars
        <5>4. store'[<<"bytes", c>>] = digest[t]
          BY <3>3, <3>4, <4>1 DEF Kinds
        <5>5. MadeFor(t) \in Signed
          <6>1. policy \in site.policies
            BY <1>2 DEF SettingsOK
          <6>2. policy.signer \in Signers
            BY <1>2, <2>5, <6>1, PolicyShape DEF Policy, Undisturbed
          <6> QED BY <1>3, <6>2 DEF MadeFor, Signed
        <5>6. MadeFor(t).artifact = c /\ MadeFor(t).digest = digest[t] /\ MadeFor(t) # Nothing
          BY <5>5, NothingIsNothing DEF MadeFor
        <5>7. c' = c
          BY <1>3
        <5> HIDE DEF c
        <5> QED BY <5>3, <5>4, <5>6, <5>7 DEF Matches
      <4>2. CASE kind = "signature"
        <5>1. store'[<<"signature", c>>] = MadeFor(t) /\ store'[<<"bytes", c>>] = store[<<"bytes", c>>]
          BY <3>3, <3>4, <4>2 DEF Kinds
        <5>2. store[<<"bytes", c>>] # Nothing => store[<<"bytes", c>>] = digest[t]
          <6>1. store[<<"bytes", c>>] # Nothing => store[<<"bytes", c>>] \in Digests
            <7>1. <<"bytes", c>> \in Keys
              BY <1>3 DEF Keys, Kinds
            <7>2. store[<<"bytes", c>>] \in Fits("bytes")
              BY <1>2, <7>1 DEF ObjectsOK
            <7> QED BY <7>2 DEF Fits
          <6> QED BY <1>2, <1>3, <3>1, <6>1 DEF SiteOK
        <5>3. MadeFor(t) \in Signed
          <6>1. policy \in site.policies
            BY <1>2 DEF SettingsOK
          <6>2. policy.signer \in Signers
            BY <1>2, <2>5, <6>1, PolicyShape DEF Policy, Undisturbed
          <6> QED BY <1>3, <6>2 DEF MadeFor, Signed
        <5>4. MadeFor(t).artifact = c /\ MadeFor(t).digest = digest[t] /\ MadeFor(t) # Nothing
          BY <5>3, NothingIsNothing DEF MadeFor
        <5>5. c' = c
          BY <1>3
        <5> HIDE DEF c
        <5> QED BY <5>1, <5>2, <5>4, <5>5 DEF Matches
      <4>3. CASE kind = "attestation"
        <5>1. Matches(c)
          BY <1>3, <2>5 DEF SignedInv
        <5>2. /\ store'[<<"signature", c>>] = store[<<"signature", c>>]
              /\ store'[<<"bytes", c>>] = store[<<"bytes", c>>]
          BY <3>4, <4>3 DEF Kinds
        <5>3. c' = c
          BY <1>3
        <5> HIDE DEF c
        <5> QED BY <5>1, <5>2, <5>3 DEF Matches
      <4> QED BY <3>2, <4>1, <4>2, <4>3 DEF Kinds
    <3>9. Filling(t)'
      <4>1. CASE Len(plan[t]) > 1
        <5>1. pc'[t] = "write" /\ plan'[t] = Tail(plan[t]) /\ plan'[t] \in Todo /\ kind # "bytes"
          BY <2>1, <3>2, <4>1
        <5>2. store'[<<"bytes", c>>] = store[<<"bytes", c>>]
          BY <3>4, <5>1 DEF Kinds
        <5>3. \A k \in Sidecars : (\A i \in DOMAIN plan'[t] : plan'[t][i] # k) => store'[<<k, c>>] = MadeFor(t)
          BY <3>2, <3>5, <4>1, <5>1
        <5> HIDE DEF kind
        <5> QED BY <1>3, <3>1, <3>6, <5>1, <5>2, <5>3 DEF Filling
      <4>2. CASE ~(Len(plan[t]) > 1)
        <5>1. pc'[t] = "report" /\ plan[t] = <<"bytes">>
          BY <1>2, <1>3, <2>1, <2>5, <3>2, <4>2 DEF ActorsOK
        <5>2. \A k \in Sidecars : \A i \in DOMAIN plan[t] : plan[t][i] # k
          BY <5>1 DEF Sidecars
        <5>3. \A k \in Sidecars : store'[<<k, c>>] = MadeFor(t)
          BY <3>5, <5>2
        <5> HIDE DEF kind
        <5> QED BY <1>3, <3>1, <3>6, <5>1, <5>3 DEF Filling
      <4> QED BY <4>1, <4>2
    <3> QED BY <3>7, <3>8, <3>9
  <2>6. ASSUME NEW e \in Coordinates, Proxied(e), Undisturbed PROVE FitsUpstream(e) /\ Matches(e)'
    BY <1>3, <2>4, <2>5, <2>6
  <2>7. Undisturbed' => Filling(t)'
    <3>1. ~(op[t] = "serve" /\ Proxied(c)) => Filling(t)'
      BY <1>3 DEF Filling, SameSettings, Proxied
    <3> QED BY <2>5, <3>1 DEF SameSettings
  <2> QED BY <1>1, <2>3, <2>6, <2>7, SignedByWriter
<1> QED BY <1>5, <1>6

\* A step that leaves the tasks alone and takes stored bytes away.
LEMMA SignedByRemoval ==
    ASSUME IInv, SignedInv, SameSettings, \A u \in Tasks : SameTask(u),
           \A c \in Coordinates : FitsUpstream(c) /\ (Matches(c) => Matches(c)')
    PROVE  SignedInv'
<1>1. ASSUME NEW u \in Tasks PROVE OwnKeys(u)' /\ (Undisturbed' => Filling(u)')
  <2>1. SameTask(u)
    OBVIOUS
  <2>2. OwnKeys(u)'
    BY <2>1, OthersFill DEF SignedInv
  <2>3. ASSUME Undisturbed' PROVE Filling(u)'
    <3>1. Undisturbed
      BY <2>3 DEF SameSettings
    <3>2. CASE op[u] = "serve"
      BY <2>1, <3>1, <3>2, OthersFillUpstream DEF SignedInv, OwnKeys
    <3>3. CASE op[u] # "serve"
      BY <2>1, <3>3 DEF Filling, SameTask
    <3> QED BY <3>2, <3>3
  <2> QED BY <2>2, <2>3
<1>2. ASSUME NEW c \in Coordinates, Undisturbed', Proxied(c)' PROVE Matches(c)'
  BY <1>2 DEF SignedInv, SameSettings, Proxied
<1> QED BY <1>1, <1>2 DEF SignedInv, SameSettings

\* Only a publish takes writes back, of its own artifact.
LEMMA SignedOfRollback ==
    ASSUME IInv, SignedInv, SameSettings, NEW t \in Tasks, Rollback(t)
    PROVE  SignedInv'
<1>1. Frame(t)
  BY TaskFrame DEF TaskStep
<1>2. /\ OwnKeys(t) /\ (Undisturbed => Filling(t)) /\ ActorsOK /\ t \in Actors /\ TaskOK(t) /\ ObjectsOK
  BY DEF SignedInv, IInv, Actors
<1>3. CASE staged[t] = <<>>
  <2>1. Return(t) /\ UNCHANGED store
    BY <1>3 DEF Rollback
  <2>2. \A c \in Coordinates : SameObjects(c)
    BY <2>1 DEF SameObjects
  <2> QED BY <1>1, <2>1, <2>2, ReturnedFills, SignedByTask
<1>4. CASE staged[t] # <<>>
  <2> DEFINE write == staged[t][Len(staged[t])]
  <2>1. /\ store' = [store EXCEPT ![write[1]] = write[2]]
        /\ staged'[t] = SubSeq(staged[t], 1, Len(staged[t]) - 1)
        /\ UNCHANGED <<pc, op, artifact, digest, plan>> /\ pc[t] = "rollback"
    BY <1>2, <1>4 DEF Rollback, ActorsOK
  <2>2. staged[t] \in Seq(StagedWrites) /\ Len(staged[t]) \in DOMAIN staged[t]
    BY <1>2, <1>4 DEF ActorsOK
  <2>3. write[1][1] = "report" \/ write[1][2] = artifact[t]
    BY <1>2, <2>2 DEF OwnKeys
  <2>4. OwnKeys(t)'
    <3>1. \A i \in DOMAIN staged'[t] : i \in DOMAIN staged[t] /\ staged'[t][i] = staged[t][i]
      BY <2>1, <2>2
    <3>2. \A i \in DOMAIN staged'[t] :
            staged'[t][i][1][1] = "report" \/ staged'[t][i][1][2] = artifact'[t]
      BY <1>2, <2>1, <3>1 DEF OwnKeys
    <3> QED BY <1>2, <2>1, <3>2 DEF OwnKeys, SameSettings, Proxied
  <2>5. Undisturbed => ~Proxied(artifact[t])
    <3>1. op[t] \in {"serve", "publish"}
      BY <1>2, <2>1 DEF TaskOK
    <3>2. Undisturbed /\ Proxied(artifact[t]) /\ op[t] = "serve" => staged[t] = <<>>
      BY <1>2, <2>1 DEF Filling
    <3> QED BY <1>2, <1>4, <3>1, <3>2 DEF OwnKeys
  <2>6. ASSUME NEW c \in Coordinates, Proxied(c), Undisturbed PROVE FitsUpstream(c) /\ Matches(c)'
    <3>1. c # artifact[t]
      BY <2>5, <2>6
    <3>2. \A kind \in Kinds : <<kind, c>> \in Keys /\ <<kind, c>> # write[1]
      <4> HIDE DEF write
      <4> QED BY <2>3, <3>1 DEF Keys, Kinds
    <3>3. SameObjects(c)
      <4> HIDE DEF write
      <4> QED BY <1>2, <2>1, <3>2 DEF SameObjects, ObjectsOK
    <3>4. Matches(c)
      BY <2>6 DEF SignedInv
    <3> QED BY <3>3, <3>4, ElsewhereFits
  <2>7. Undisturbed' => Filling(t)'
    BY <2>1, <2>5 DEF Filling, SameSettings, Proxied
  <2> QED BY <1>1, <2>4, <2>6, <2>7, SignedByWriter
<1> QED BY <1>3, <1>4

\* After a fault nothing more is asked but that a task knows its own keys.
LEMMA SignedOfFail ==
    ASSUME IInv, SignedInv, SameSettings, NEW t \in Tasks, Fail(t)
    PROVE  SignedInv'
<1>1. Frame(t)
  BY TaskFrame
<1>2. OwnKeys(t) /\ ActorsOK /\ t \in Actors /\ TaskOK(t) /\ SettingsOK
  BY DEF SignedInv, IInv, Actors
<1>3. ~Undisturbed'
  <2>1. site'.used["faults"] # 0
    BY <1>2, Spent DEF Fail
  <2> QED BY <2>1 DEF Undisturbed
<1>4. ASSUME NEW u \in Tasks, u # t PROVE OwnKeys(u)'
  <2>1. SameTask(u)
    BY <1>1, <1>4 DEF Frame, SameTask, Actors
  <2> QED BY <2>1, OthersFill DEF SignedInv
<1>5. OwnKeys(t)'
  <2>1. CASE Return(t)
    BY <2>1, ReturnedFills
  <2>2. CASE ~Return(t)
    <3>1. /\ pc'[t] = "rollback" /\ UNCHANGED <<op, artifact>>
          /\ \/ staged' = staged
             \/ \E key, old : /\ key[1] = "report" \/ key[2] = artifact[t]
                              /\ staged'[t] = Append(staged[t], <<key, old>>)
      <4>1. pc'[t] = "rollback" /\ UNCHANGED <<op, artifact>>
        BY <1>2, <2>2 DEF Fail, Refuse, Goto, ActorsOK
      <4>2. \/ staged' = staged
            \/ Put(t, Key(t, Head(plan[t])), Object(t, Head(plan[t])))
        BY <2>2 DEF Fail, Refuse
      <4>3. ASSUME NEW kind, NEW object, Put(t, Key(t, kind), object)
            PROVE  \E key, old : /\ key[1] = "report" \/ key[2] = artifact[t]
                                 /\ staged'[t] = Append(staged[t], <<key, old>>)
        <5>1. Key(t, kind)[1] = "report" \/ Key(t, kind)[2] = artifact[t]
          BY DEF Key
        <5>2. staged'[t] = Append(staged[t], <<Key(t, kind), store[Key(t, kind)]>>)
          BY <1>2, <4>3 DEF Put, ActorsOK
        <5> QED BY <5>1, <5>2
      <4> QED BY <4>1, <4>2, <4>3
    <3>2. staged[t] \in Seq(StagedWrites)
      BY <1>2 DEF ActorsOK
    <3>3. \A i \in DOMAIN staged[t] : staged[t][i][1][1] = "report" \/ staged[t][i][1][2] = artifact[t]
      BY <1>2 DEF OwnKeys
    <3>4. \A i \in DOMAIN staged'[t] : staged'[t][i][1][1] = "report" \/ staged'[t][i][1][2] = artifact[t]
      <4>1. CASE staged' = staged
        BY <3>3, <4>1
      <4>2. ASSUME NEW key, NEW old, key[1] = "report" \/ key[2] = artifact[t],
                   staged'[t] = Append(staged[t], <<key, old>>)
            PROVE  \A i \in DOMAIN staged'[t] :
                     staged'[t][i][1][1] = "report" \/ staged'[t][i][1][2] = artifact[t]
        <5>1. \A i \in DOMAIN staged'[t] :
                IF i <= Len(staged[t]) THEN i \in DOMAIN staged[t] /\ staged'[t][i] = staged[t][i]
                ELSE staged'[t][i] = <<key, old>>
          BY <3>2, <4>2
        <5> QED BY <3>3, <4>2, <5>1
      <4> QED BY <3>1, <4>1, <4>2
    <3> QED BY <1>2, <3>1, <3>4 DEF OwnKeys, SameSettings, Proxied
  <2> QED BY <2>1, <2>2
<1> QED BY <1>3, <1>4, <1>5 DEF SignedInv, SameSettings

\* Bytes that are taken away need no signature.
LEMMA SignedOfEvict ==
    ASSUME IInv, SignedInv, SameSettings, NEW c \in Coordinates, Evict(c)
    PROVE  SignedInv'
<1>1. store \in [Keys -> Objects] /\ <<"bytes", c>> \in Keys
  BY DEF IInv, ObjectsOK, Keys, Kinds
<1>2. \A u \in Tasks : SameTask(u)
  BY DEF Evict, task, SameTask
<1>3. ASSUME NEW e \in Coordinates
      PROVE  /\ store'[<<"bytes", e>>] \in {Nothing, store[<<"bytes", e>>]}
             /\ store'[<<"signature", e>>] = store[<<"signature", e>>]
             /\ store'[<<"attestation", e>>] = store[<<"attestation", e>>]
  <2>1. \A kind \in Kinds : <<kind, e>> \in Keys
    BY DEF Keys
  <2> QED BY <1>1, <2>1 DEF Evict, Kinds
<1>4. \A e \in Coordinates : FitsUpstream(e) /\ (Matches(e) => Matches(e)')
  BY <1>3 DEF FitsUpstream, Matches, Sidecars
<1> QED BY <1>2, <1>4, SignedByRemoval

\* The sweep writes reports only, and operators no objects at all.
LEMMA SignedOfTheRest ==
    ASSUME IInv, SignedInv, SameSettings,
           \/ SweepStep \/ \E d \in Digests : SweepFail(d)
           \/ \E o \in Operators : DecideRecord(o) \/
                \E d \in Digests, state \in {"promoted", "rejected"} : ReviewRecord(o, d, state)
           \/ \E c \in Coordinates, v \in Verdicts : Advise(c, v)
           \/ UNCHANGED vars
    PROVE  SignedInv'
<1>1. \A u \in Tasks : SameTask(u)
  <2>1. ASSUME NEW o \in Operators, NEW u \in Tasks,
               DecideRecord(o) \/ \E d \in Digests, state \in {"promoted", "rejected"} : ReviewRecord(o, d, state)
        PROVE  SameTask(u)
    <3>1. o # u /\ o \notin Tasks /\ o \in Actors /\ u \in Actors
      BY RolesAssumption DEF Actors
    <3> QED BY <2>1, <3>1 DEF DecideRecord, ReviewRecord, Return, Goto, SameTask, IInv, ActorsOK
  <2>2. CASE UNCHANGED task
    BY <2>2 DEF task, SameTask
  <2> QED BY <2>1, <2>2
          DEF SweepStep, StartSweep, EndSweep, SweepRead, SweepScan, SweepPut, SweepFail, sweepRest, Advise, vars
<1>2. \A c \in Coordinates : SameObjects(c)
  <2>1. ASSUME NEW d \in Digests, SweepPut(d), NEW c \in Coordinates PROVE SameObjects(c)
    <3>1. store' = [store EXCEPT ![<<"report", d>>] = fresh[d]]
      BY <2>1 DEF SweepPut
    <3>2. \A kind \in Kinds : <<kind, c>> \in Keys /\ <<kind, c>> # <<"report", d>>
      BY DEF Keys, Kinds
    <3> QED BY <3>1, <3>2 DEF SameObjects, IInv, ObjectsOK
  <2>2. CASE UNCHANGED store
    BY <2>2 DEF SameObjects
  <2>3. UNCHANGED store \/ \E d \in Digests : SweepPut(d)
    BY DEF SweepStep, StartSweep, EndSweep, SweepRead, SweepScan, SweepFail, DecideRecord, ReviewRecord,
           Advise, objects, vars
  <2> QED BY <2>1, <2>2, <2>3
<1> QED BY <1>1, <1>2, SignedByOthers

\* A restart loses what was under way, and the writes of a miss are in order.
LEMMA SignedOfRestart ==
    ASSUME IInv, SignedInv, [Next]_vars, NEW p \in site.policies, Restart(p)
    PROVE  SignedInv'
<1>1. \A t \in Tasks : op'[t] = "none" /\ pc'[t] = "idle" /\ staged'[t] = <<>>
  BY DEF Restart, Actors
<1>2. \A t \in Tasks : OwnKeys(t)' /\ Filling(t)'
  <2> TAKE t \in Tasks
  <2>1. op'[t] = "none" /\ pc'[t] = "idle" /\ staged'[t] = <<>> /\ \A i \in DOMAIN staged'[t] : FALSE
    BY <1>1
  <2> QED BY <2>1 DEF OwnKeys, Filling
<1>3. SiteOK' /\ (Undisturbed' => Undisturbed) /\ site'.hosted = site.hosted
  BY SiteKept DEF SiteOK, Undisturbed, SignedInv
<1>4. ASSUME NEW c \in Coordinates, Undisturbed', Proxied(c)' PROVE Matches(c)'
  <2>1. Matches(c)
    BY <1>3, <1>4 DEF SignedInv, Proxied
  <2> QED BY <2>1 DEF Matches, Restart, objects
<1> QED BY <1>2, <1>3, <1>4 DEF SignedInv

\* SignedInv is inductive.
LEMMA SignedStep == IInv /\ SignedInv /\ [Next]_vars => SignedInv'
<1> SUFFICES ASSUME IInv, SignedInv, [Next]_vars PROVE SignedInv'
    OBVIOUS
<1>1. CASE \E p \in site.policies : Restart(p)
  BY <1>1, SignedOfRestart
<1>2. CASE ~\E p \in site.policies : Restart(p)
  <2>1. UNCHANGED policy
    <3>1. ASSUME NEW t \in Tasks, TaskStep(t) PROVE UNCHANGED policy
      BY <3>1
      DEF TaskStep, VerifyCached, Fetch, Write, Rollback, ScanPublish, AdmitPublish, ReadReport,
          ScanServed, KeepReport, EnforceQuarantine, Hold, CheckSignature, CheckProvenance, Check, Finish
    <3>2. SweepStep => UNCHANGED policy
      BY DEF SweepStep, StartSweep, EndSweep, SweepRead, SweepScan, SweepPut, sweepRest
    <3>3. Environment => UNCHANGED policy
      BY <1>2
      DEF Environment, Request, Publish, Begin, Fail, SweepFail, ReviewRecord, DecideRecord, Evict,
          Advise, sweepRest
    <3> QED BY <3>1, <3>2, <3>3 DEF Next, vars
  <2>2. SameSettings
    BY <2>1, SettingsKept DEF SignedInv
  <2>3. ASSUME NEW t \in Tasks, TaskStep(t) PROVE SignedInv'
    BY <2>2, <2>3, SignedOfPassing, SignedOfChecks, SignedOfFetch, SignedOfWrite, SignedOfRollback
    DEF TaskStep
  <2>4. ASSUME NEW t \in Tasks,
               \/ \E c \in Coordinates : Request(t, c)
               \/ \E p \in site.hosted : Publish(t, p[1], p[2])
               \/ Fail(t)
        PROVE  SignedInv'
    BY <2>2, <2>4, SignedOfBeginning, SignedOfFail
  <2>5. ASSUME NEW c \in Coordinates, Evict(c) PROVE SignedInv'
    BY <2>2, <2>5, SignedOfEvict
  <2>6. CASE \/ SweepStep \/ \E d \in Digests : SweepFail(d)
             \/ \E o \in Operators : DecideRecord(o) \/
                  \E d \in Digests, state \in {"promoted", "rejected"} : ReviewRecord(o, d, state)
             \/ \E c \in Coordinates, v \in Verdicts : Advise(c, v)
             \/ UNCHANGED vars
    BY <2>2, <2>6, SignedOfTheRest
  <2> QED BY <1>2, <2>3, <2>4, <2>5, <2>6 DEF Next, Environment
<1> QED BY <1>1, <1>2

\* What is stored and signed before is signed as it is stored.
LEMMA SignedAtFirst == StableUpstreams /\ Init => SignedInv
<1> SUFFICES ASSUME StableUpstreams, Init PROVE SignedInv
    OBVIOUS
<1>1. SiteOK
  <2>1. site \in Sites
    BY DEF Init
  <2> QED BY <2>1, SitesAssumption DEF SiteOK, StableUpstreams
<1>2. \A t \in Tasks : op[t] = "none" /\ pc[t] = "idle" /\ staged[t] = <<>>
  BY DEF Init, Actors
<1>3. \A t \in Tasks : OwnKeys(t) /\ Filling(t)
  <2> TAKE t \in Tasks
  <2>1. op[t] = "none" /\ pc[t] = "idle" /\ staged[t] = <<>> /\ \A i \in DOMAIN staged[t] : FALSE
    BY <1>2
  <2> QED BY <2>1 DEF OwnKeys, Filling
<1>4. ASSUME NEW c \in Coordinates, Undisturbed PROVE Matches(c)
  <2>1. policy \in Policy /\ policy.signer # Nothing
    BY <1>4, InitInv, PolicyShape DEF IInv, SettingsOK, Undisturbed
  <2>2. policy.signer \in Signers
    BY <2>1 DEF Policy
  <2>3. \A kind \in Kinds : store[<<kind, c>>] = InitialObject(kind, c)
    <3>1. \A kind \in Kinds : <<kind, c>> \in Keys
      BY DEF Keys
    <3> QED BY <3>1 DEF Init
  <2>4. CASE \E d \in Digests : <<c, d>> \in site.preloaded
    <3>1. PICK d \in Digests : d = CHOOSE x \in Digests : <<c, x>> \in site.preloaded
      BY <2>4
    <3>2. store[<<"bytes", c>>] = d
      BY <2>3, <2>4, <3>1 DEF InitialObject, Kinds
    <3>3. store[<<"signature", c>>] = [key |-> policy.signer, artifact |-> c, digest |-> d]
      BY <2>1, <2>3, <2>4, <3>1 DEF InitialObject, Kinds
    <3>4. [key |-> policy.signer, artifact |-> c, digest |-> d] \in Signed
      BY <2>2 DEF Signed
    <3> QED BY <3>2, <3>3, <3>4, NothingIsNothing DEF Matches
  <2>5. CASE ~\E d \in Digests : <<c, d>> \in site.preloaded
    BY <2>3, <2>5 DEF InitialObject, Kinds, Matches
  <2> QED BY <2>4, <2>5
<1> QED BY <1>1, <1>3, <1>4 DEF SignedInv

\* Matches is what CachedIsSigned says of one artifact.
LEMMA SignedFollows == SignedInv => CachedIsSigned
<1> SUFFICES ASSUME SignedInv, Undisturbed,
                    NEW c \in Coordinates, NEW d \in Digests, Proxied(c), store[<<"bytes", c>>] = d
             PROVE  /\ store[<<"signature", c>>] # Nothing
                    /\ store[<<"signature", c>>].artifact = c /\ store[<<"signature", c>>].digest = d
    BY DEF CachedIsSigned, Undisturbed, Proxied
<1>1. d # Nothing
  BY NothingIsNothing
<1> QED BY <1>1 DEF SignedInv, Matches

\* Of an artifact that upstream does not change, what is cached is signed as it
\* is, whatever downloads of it race each other, are interrupted by restarts or
\* evicted under: sidecars first, bytes last (fetch_and_cache_artifact), and a
\* rollback that never runs over a finished download.
THEOREM SignedWhenCached ==
    ASSUME StableUpstreams PROVE Spec => []CachedIsSigned
<1>1. Init => IInv /\ SignedInv
  BY InitInv, SignedAtFirst
<1>2. IInv /\ SignedInv /\ [Next]_vars => (IInv /\ SignedInv)'
  BY NextInv, SignedStep
<1> QED BY <1>1, <1>2, SignedFollows, PTL DEF Spec
=============================================================================
