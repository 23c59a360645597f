---------------------------- MODULE CutoverProofs ----------------------------
(***************************************************************************)
(* Proofs about Cutover for any set of mailboxes and any validity window.  *)
(* Readiness and completion rest on one argument: what readiness says can  *)
(* only be undone by a run, every admission of a run withdraws it first,   *)
(* and a run that counts as final was admitted under an attestation made   *)
(* after Verification was entered.                                         *)
(***************************************************************************)
EXTENDS Cutover, TLAPS

Late == {"verification", "completed"}

(* The plan, its approval and the project's phase move together. *)
StageOK ==
    /\ flow.approved => flow.stage # "none" /\ phase = PhaseOf(flow.stage)
    /\ ~flow.approved => phase = "pilot" /\ flow.stage \in {"none", "seed"}

(* Nothing counts as final before Verification: no run, no evidence, no     *)
(* readiness event, no attestation.                                         *)
NotBeforeVerification ==
    flow.stage \notin Late =>
        /\ ~flow.covered /\ ~ready.seen
        /\ \A m \in Mailboxes :
              ~active[m].final /\ evidence[m].grade \notin {"unobserved", "final"}

(* In Verification an attestation in force was made there, and whatever     *)
(* started there started under one.                                         *)
CoveredOK ==
    /\ flow.stage = "verification" /\ Quiet(flow) => flow.covered
    /\ \A m \in Mailboxes :
          /\ active[m].final => active[m].covered
          /\ evidence[m].grade = "final" => evidence[m].covered

CutoverInv ==
    /\ TypeOK
    /\ StageOK
    /\ NotBeforeVerification
    /\ CoveredOK
    /\ ReadyMeansProven
    /\ CompletedIsProven

-----------------------------------------------------------------------------
(* Types. *)

Run == [kind : {"none", "single", "child", "audit"}, status : {"none", "queued", "running"},
        final : BOOLEAN, covered : BOOLEAN]
Proof == [grade : Grades, superseded : BOOLEAN, covered : BOOLEAN]
Flow == [stage : Stages \cup {"none"}, approved : BOOLEAN, age : 0..Never, covered : BOOLEAN]
Readiness == [seen : BOOLEAN, age : 0..Window, withdrawnBy : SUBSET Mailboxes]
States == {"open", "running", "difference", "verified", "accepted"}
Sources == {"none", "evidence", "exact_audit", "other_audit"}

(* The window is a positive number of ticks. *)
LEMMA Bounds == Window \in Nat /\ Window > 0 /\ Never \in Nat /\ Never = Window + 1
BY CutoverConstants DEF Never

(* The typed state, component by component. *)
LEMMA Typed ==
    TypeOK <=>
    /\ phase \in ManagedPhases /\ flow \in Flow /\ mailbox \in [Mailboxes -> States]
    /\ active \in [Mailboxes -> Run] /\ evidence \in [Mailboxes -> Proof]
    /\ newest \in [Mailboxes -> Sources] /\ accepted \in SUBSET Mailboxes /\ ready \in Readiness
BY DEF TypeOK, Run, Proof, Flow, Readiness, States, Sources

(* The stages in their order. *)
LEMMA StageOrder ==
    /\ DOMAIN NextStage = {"seed", "catch_up", "final_delta", "verification"}
    /\ NextStage["seed"] = "catch_up" /\ NextStage["catch_up"] = "final_delta"
    /\ NextStage["final_delta"] = "verification" /\ NextStage["verification"] = "completed"
BY DEF NextStage

(* The idle run, the absent evidence and a started run have their types. *)
LEMMA Rows ==
    /\ NoRun \in Run /\ ~NoRun.final /\ NoRun.kind = "none" /\ NoRun.status = "none"
    /\ NoEvidence \in Proof /\ NoEvidence.grade = "none"
BY DEF NoRun, NoEvidence, Run, Proof, Grades

(* A run records the stage and the attestation it starts under. *)
LEMMA StartedRun ==
    ASSUME TypeOK, NEW kind \in {"single", "child", "audit"}, NEW status \in {"queued", "running"}
    PROVE  /\ StartOf(kind, status) \in Run /\ StartOf(kind, status) # NoRun
           /\ StartOf(kind, status).final = (phase = "verification")
           /\ StartOf(kind, status).covered = flow.covered
<1>1. flow.covered \in BOOLEAN
  BY Typed DEF Flow
<1>2. (phase = "verification") \in BOOLEAN
  OBVIOUS
<1> QED BY <1>1, <1>2 DEF StartOf, Run, NoRun

(* An attestation restarts the age and says where it was made. *)
LEMMA AttestedFlow ==
    ASSUME NEW f \in Flow, NEW there \in BOOLEAN
    PROVE  LET g == [f EXCEPT !.age = 0, !.covered = there]
           IN  /\ g \in Flow /\ g.stage = f.stage /\ g.approved = f.approved /\ g.covered = there
               /\ g.age = 0
<1>1. 0 \in 0..Never
  BY Bounds
<1>2. CASE there = TRUE
  BY <1>1, <1>2 DEF Flow
<1>3. CASE there = FALSE
  BY <1>1, <1>3 DEF Flow
<1> QED BY <1>2, <1>3

(* A readiness event is published on what it says, or nothing changes. *)
LEMMA Publication ==
    ASSUME NEW f \in Flow, NEW states, NEW acceptances, NEW runs, NEW ev, NEW new, TypeOK
    PROVE  LET r == MaybeReady(f, states, acceptances, runs, ev, new)
           IN  /\ r \in Readiness
               /\ \/ r = ready
                  \/ /\ f.stage = "verification" /\ r.seen
                     /\ AllSettled(states, acceptances)
                     /\ \A m \in Mailboxes : FinalEvidence(m, runs, ev, new)
<1>1. ready \in Readiness
  BY Typed
<1>2. Quiet(f) => f.age \in 0..Window
  BY Bounds DEF Quiet, Flow
<1> QED BY <1>1, <1>2 DEF MaybeReady, Readiness

(* Admissions mark readiness and evidence, and type-correctly so. *)
LEMMA Withdrawal ==
    ASSUME TypeOK, NEW jobs \in SUBSET Mailboxes, WithdrawReadiness(jobs)
    PROVE  /\ ready' \in Readiness /\ evidence' \in [Mailboxes -> Proof]
           /\ ready'.seen = ready.seen
           /\ flow.stage = "verification" /\ ready.seen /\ jobs # {} => ready'.withdrawnBy # {}
           /\ \A m \in Mailboxes : /\ evidence'[m].grade = evidence[m].grade
                                   /\ evidence'[m].covered = evidence[m].covered
<1>1. ready \in Readiness /\ evidence \in [Mailboxes -> Proof]
  BY Typed
<1>2. Invalidated(jobs) \in SUBSET Mailboxes
  BY DEF Invalidated
<1>3. /\ ready' = [ready EXCEPT !.withdrawnBy = ready.withdrawnBy \cup Invalidated(jobs)]
      /\ evidence' = [m \in Mailboxes |->
            [evidence[m] EXCEPT !.superseded = evidence[m].superseded \/ m \in Invalidated(jobs)]]
  BY DEF WithdrawReadiness
<1>4. /\ ready' \in Readiness /\ ready'.seen = ready.seen
      /\ ready'.withdrawnBy = ready.withdrawnBy \cup Invalidated(jobs)
  BY <1>1, <1>2, <1>3 DEF Readiness
<1>5. flow.stage = "verification" /\ ready.seen => jobs \subseteq ready.withdrawnBy \cup Invalidated(jobs)
  BY DEF Invalidated
<1>6. ASSUME NEW m \in Mailboxes
      PROVE  /\ evidence'[m] \in Proof /\ evidence'[m].grade = evidence[m].grade
             /\ evidence'[m].covered = evidence[m].covered
  <2> DEFINE mark == evidence[m].superseded \/ m \in Invalidated(jobs)
  <2>1. evidence'[m] = [evidence[m] EXCEPT !.superseded = mark] /\ mark \in BOOLEAN
    BY <1>1, <1>3
  <2> HIDE DEF mark
  <2> QED BY <1>1, <2>1 DEF Proof
<1>7. evidence' \in [Mailboxes -> Proof]
  BY <1>3, <1>6
<1> QED BY <1>4, <1>5, <1>6, <1>7

(* Every step keeps every part of the state in its domain. *)
LEMMA TypeStep == CutoverInv /\ [Next]_vars => TypeOK'
<1> SUFFICES ASSUME CutoverInv, [Next]_vars PROVE TypeOK'
  OBVIOUS
<1> DEFINE T ==
        /\ phase \in ManagedPhases /\ flow \in Flow /\ mailbox \in [Mailboxes -> States]
        /\ active \in [Mailboxes -> Run] /\ evidence \in [Mailboxes -> Proof]
        /\ newest \in [Mailboxes -> Sources] /\ accepted \in SUBSET Mailboxes /\ ready \in Readiness
<1>a. T /\ TypeOK
  BY Typed DEF CutoverInv
<1>b. SUFFICES T'
  BY DEF TypeOK, Run, Proof, Flow, Readiness, States, Sources
<1>c. \A m \in Mailboxes, s \in States : [mailbox EXCEPT ![m] = s] \in [Mailboxes -> States]
  BY <1>a
<1>d. \A m \in Mailboxes, r \in Run : [active EXCEPT ![m] = r] \in [Mailboxes -> Run]
  BY <1>a
<1>e. {"open", "running", "difference", "verified", "accepted"} = States
  BY DEF States
<1>1. ASSUME NEW m \in Mailboxes, BeginRun(m) PROVE T'
  <2>1. ready' \in Readiness /\ evidence' \in [Mailboxes -> Proof]
    BY <1>a, <1>1, Withdrawal DEF BeginRun
  <2>2. active' \in [Mailboxes -> Run] /\ mailbox' \in [Mailboxes -> States]
    BY <1>a, <1>c, <1>d, <1>e, <1>1, StartedRun DEF BeginRun
  <2> QED BY <1>a, <1>1, <2>1, <2>2 DEF BeginRun
<1>2. ASSUME NEW jobs \in SUBSET Mailboxes, BeginBatch(jobs) PROVE T'
  <2>1. ready' \in Readiness /\ evidence' \in [Mailboxes -> Proof]
    BY <1>a, <1>2, Withdrawal DEF BeginBatch
  <2>2. active' \in [Mailboxes -> Run]
    BY <1>a, <1>2, StartedRun DEF BeginBatch
  <2> QED BY <1>a, <1>2, <2>1, <2>2 DEF BeginBatch
<1>3. ASSUME NEW m \in Mailboxes, ClaimChild(m) PROVE T'
  <2> DEFINE row == [active[m] EXCEPT !.status = "running", !.covered = flow.covered]
  <2>1. flow.covered \in BOOLEAN /\ active[m] \in Run
    BY <1>a DEF Flow
  <2>2. row \in Run
    BY <2>1 DEF Run
  <2>3. active' = [active EXCEPT ![m] = row]
    BY <1>a, <1>3 DEF ClaimChild
  <2> HIDE DEF row
  <2>4. active' \in [Mailboxes -> Run] /\ mailbox' \in [Mailboxes -> States]
    BY <1>c, <1>d, <1>e, <1>3, <2>2, <2>3 DEF ClaimChild
  <2> QED BY <1>a, <1>3, <2>4 DEF ClaimChild
<1>4. ASSUME NEW m \in Mailboxes, BeginAudit(m) PROVE T'
  <2>1. ready' \in Readiness /\ evidence' \in [Mailboxes -> Proof]
    BY <1>a, <1>4, Withdrawal DEF BeginAudit
  <2>2. active' \in [Mailboxes -> Run]
    BY <1>a, <1>d, <1>4, StartedRun DEF BeginAudit
  <2> QED BY <1>a, <1>4, <2>1, <2>2 DEF BeginAudit
<1>5. ASSUME NEW m \in Mailboxes, EndWithoutEvidence(m) \/ EndUnclaimed(m) PROVE T'
  BY <1>a, <1>c, <1>d, <1>e, <1>5, Rows DEF EndWithoutEvidence, EndUnclaimed
<1>6. ASSUME NEW m \in Mailboxes, NEW state \in {"verified", "difference", "open"}, NEW grade \in Grades,
             EndWithEvidence(m, state, grade)
      PROVE  T'
  <2>1. active' \in [Mailboxes -> Run] /\ mailbox' \in [Mailboxes -> States]
    BY <1>c, <1>d, <1>e, <1>6, Rows DEF EndWithEvidence
  <2>2. active[m].covered \in BOOLEAN
    BY <1>a DEF Run
  <2>3. evidence' \in [Mailboxes -> Proof]
    BY <1>a, <1>6, <2>2 DEF EndWithEvidence, Proof
  <2>4. newest' \in [Mailboxes -> Sources] /\ accepted' \in SUBSET Mailboxes
    BY <1>a, <1>6 DEF EndWithEvidence, Sources
  <2>5. ready' \in Readiness
    BY <1>a, <1>6, Publication DEF EndWithEvidence
  <2> QED BY <1>a, <1>6, <2>1, <2>3, <2>4, <2>5 DEF EndWithEvidence
<1>7. ASSUME NEW m \in Mailboxes, NEW result \in Sources, EndAudit(m, result) PROVE T'
  <2>1. active' \in [Mailboxes -> Run]
    BY <1>d, <1>7, Rows DEF EndAudit
  <2>2. newest' \in [Mailboxes -> Sources]
    BY <1>a, <1>7 DEF EndAudit
  <2> QED BY <1>a, <1>7, <2>1, <2>2 DEF EndAudit
<1>8. CASE Recover
  <2>1. active' \in [Mailboxes -> Run] /\ mailbox' \in [Mailboxes -> States]
    BY <1>a, <1>e, <1>8, Rows DEF Recover
  <2> QED BY <1>a, <1>8, <2>1 DEF Recover
<1>9. CASE CreateWorkflow \/ ApproveCutover
  <2>1. flow' \in Flow
    BY <1>a, <1>9 DEF CreateWorkflow, ApproveCutover, Flow, Stages
  <2>2. phase' \in ManagedPhases
    BY <1>a, <1>9 DEF CreateWorkflow, ApproveCutover, ManagedPhases, Stages
  <2> QED BY <1>a, <1>9, <2>1, <2>2 DEF CreateWorkflow, ApproveCutover
<1>10. CASE AttestQuiescence
  <2> DEFINE there == flow.stage = "verification"
             flow2 == [flow EXCEPT !.age = 0, !.covered = there]
  <2>0. there \in BOOLEAN
    OBVIOUS
  <2> HIDE DEF there
  <2>1. flow2 \in Flow
    BY <1>a, <2>0, AttestedFlow
  <2>2. flow' = flow2 /\ ready' = MaybeReady(flow2, mailbox, accepted, active, evidence, newest)
    BY <1>10 DEF AttestQuiescence, there
  <2> HIDE DEF flow2
  <2>3. ready' \in Readiness
    BY <1>a, <2>1, <2>2, Publication
  <2> QED BY <1>a, <1>10, <2>1, <2>2, <2>3 DEF AttestQuiescence
<1>11. ASSUME NEW m \in Mailboxes, AcceptDifference(m) PROVE T'
  <2>1. ready' \in Readiness
    BY <1>a, <1>11, Publication DEF AcceptDifference
  <2>2. mailbox' \in [Mailboxes -> States] /\ accepted' \in SUBSET Mailboxes
    BY <1>a, <1>c, <1>e, <1>11 DEF AcceptDifference
  <2> QED BY <1>a, <1>11, <2>1, <2>2 DEF AcceptDifference
<1>12. CASE Advance
  <2> DEFINE next == NextStage[flow.stage]
             age == IF next = "verification" THEN Never ELSE flow.age
  <2>1. next \in Stages /\ PhaseOf(next) \in ManagedPhases
    BY <1>12, StageOrder DEF Advance, MayAdvance, Stages, PhaseOf, ManagedPhases
  <2>2. age \in 0..Never
    BY <1>a, Bounds DEF Flow
  <2>3. flow' = [flow EXCEPT !.stage = next, !.age = age] /\ phase' = PhaseOf(next)
    BY <1>12 DEF Advance
  <2>4. mailbox' \in [Mailboxes -> States]
    BY <1>a, <1>e, <1>12 DEF Advance
  <2> HIDE DEF next, age
  <2>5. flow' \in Flow
    BY <1>a, <2>1, <2>2, <2>3 DEF Flow
  <2> QED BY <1>a, <1>12, <2>1, <2>3, <2>4, <2>5 DEF Advance
<1>13. CASE Tick
  <2> DEFINE age == IF flow.age < Never THEN flow.age + 1 ELSE flow.age
             old == IF ready.age < Window THEN ready.age + 1 ELSE ready.age
  <2>1. age \in 0..Never /\ old \in 0..Window
    BY <1>a, Bounds DEF Flow, Readiness
  <2>2. flow' = [flow EXCEPT !.age = age] /\ ready' = [ready EXCEPT !.age = old]
    BY <1>13 DEF Tick
  <2> HIDE DEF age, old
  <2>3. flow' \in Flow /\ ready' \in Readiness
    BY <1>a, <2>1, <2>2 DEF Flow, Readiness
  <2> QED BY <1>a, <1>13, <2>3 DEF Tick
<1>14. CASE UNCHANGED vars
  BY <1>a, <1>14 DEF vars
<1> QED
  BY <1>1, <1>2, <1>3, <1>4, <1>5, <1>6, <1>7, <1>8, <1>9, <1>10, <1>11, <1>12, <1>13, <1>14
     DEF Next, Sources

-----------------------------------------------------------------------------
(* What the steps do to the evidence. *)

(* The parts of the invariant that are not about types. *)
Proven ==
    /\ StageOK
    /\ NotBeforeVerification
    /\ CoveredOK
    /\ ReadyMeansProven
    /\ CompletedIsProven

(* A project in its verification phase is in the verification stage, and a  *)
(* run admitted there starts under an attestation made there.               *)
LEMMA AdmittedUnderAttestation ==
    ASSUME CutoverInv, MayAdmit
    PROVE  /\ flow.stage # "completed"
           /\ phase = "verification" => flow.stage = "verification" /\ flow.covered
<1>1. ASSUME phase = "verification" PROVE flow.stage = "verification"
  BY <1>1 DEF CutoverInv, StageOK, PhaseOf
<1>2. flow.stage = "verification" => flow.covered
  BY DEF MayAdmit, CutoverInv, CoveredOK
<1> QED BY <1>1, <1>2 DEF MayAdmit

(* While readiness is in force, or the cutover is complete, nothing runs,   *)
(* and every mailbox is settled.                                            *)
LEMMA NothingRuns ==
    ASSUME CutoverInv, NEW m \in Mailboxes,
           \/ flow.stage = "verification" /\ ReadyIsCurrent
           \/ flow.stage = "completed"
    PROVE  active[m] = NoRun /\ mailbox[m] \in {"verified", "accepted"}
BY DEF CutoverInv, ReadyMeansProven, CompletedIsProven, FinalEvidence, AllSettled

(* A step outside readiness that publishes none has only the early parts to *)
(* keep.                                                                    *)
LEMMA NoNewReadiness ==
    ASSUME CutoverInv, ~(flow.stage = "verification" /\ ReadyIsCurrent), flow.stage # "completed",
           ready' = ready, flow' = flow
    PROVE  ReadyMeansProven' /\ CompletedIsProven'
BY DEF ReadyMeansProven, CompletedIsProven, ReadyIsCurrent

(* Admissions of runs, batches and audits. *)
LEMMA AdmissionStep ==
    ASSUME CutoverInv, MayAdmit, NEW jobs \in SUBSET Mailboxes, jobs # {}, WithdrawReadiness(jobs),
           NEW kind \in {"single", "child", "audit"}, NEW status \in {"queued", "running"},
           \A m \in Mailboxes : active'[m] = IF m \in jobs THEN StartOf(kind, status) ELSE active[m],
           UNCHANGED <<phase, flow, newest, accepted>>
    PROVE  Proven'
<1>a. TypeOK /\ StageOK /\ NotBeforeVerification /\ CoveredOK
  BY DEF CutoverInv
<1>b. /\ flow.stage # "completed"
      /\ phase = "verification" => flow.stage = "verification" /\ flow.covered
  BY AdmittedUnderAttestation
<1>c. /\ StartOf(kind, status).final = (phase = "verification")
      /\ StartOf(kind, status).covered = flow.covered
  BY <1>a, StartedRun
<1>d. /\ ready'.seen = ready.seen
      /\ flow.stage = "verification" /\ ready.seen => ready'.withdrawnBy # {}
      /\ \A m \in Mailboxes : /\ evidence'[m].grade = evidence[m].grade
                              /\ evidence'[m].covered = evidence[m].covered
  BY <1>a, Withdrawal
<1>1. StageOK'
  BY <1>a DEF StageOK
<1>2. NotBeforeVerification'
  BY <1>a, <1>b, <1>c, <1>d DEF NotBeforeVerification, Late
<1>3. CoveredOK'
  BY <1>a, <1>b, <1>c, <1>d DEF CoveredOK
<1>4. ReadyMeansProven'
  BY <1>d DEF ReadyMeansProven, ReadyIsCurrent
<1>5. CompletedIsProven'
  BY <1>b DEF CompletedIsProven
<1> QED BY <1>1, <1>2, <1>3, <1>4, <1>5 DEF Proven

(* A queued child is claimed under the stage and attestation of now. *)
LEMMA ClaimStep ==
    ASSUME CutoverInv, NEW m \in Mailboxes, ClaimChild(m)
    PROVE  Proven'
<1>a. /\ TypeOK /\ StageOK /\ NotBeforeVerification /\ CoveredOK /\ active \in [Mailboxes -> Run]
      /\ active[m] \in Run
  BY Typed DEF CutoverInv
<1>b. /\ flow.stage # "completed"
      /\ phase = "verification" => flow.stage = "verification" /\ flow.covered
  BY AdmittedUnderAttestation DEF ClaimChild
<1>c. flow.stage = "verification" => flow.covered
  BY <1>a DEF ClaimChild, MayAdmit, CoveredOK
<1> DEFINE row == [active[m] EXCEPT !.status = "running", !.covered = flow.covered]
<1>d. row.final = active[m].final /\ row.covered = flow.covered
  BY <1>a DEF Run
<1>e. active' = [active EXCEPT ![m] = row]
  BY <1>a DEF ClaimChild
<1> HIDE DEF row
<1>f. /\ \A n \in Mailboxes : n # m => active'[n] = active[n]
      /\ active'[m].final = active[m].final /\ active'[m].covered = flow.covered
      /\ UNCHANGED <<phase, flow, evidence, newest, accepted, ready>>
  BY <1>a, <1>d, <1>e DEF ClaimChild
<1>g. active[m].final => flow.stage = "verification"
  BY <1>a, <1>b DEF NotBeforeVerification, Late
<1>1. StageOK' /\ NotBeforeVerification'
  BY <1>a, <1>f DEF StageOK, NotBeforeVerification
<1>2. CoveredOK'
  BY <1>a, <1>c, <1>f, <1>g DEF CoveredOK
<1>3. ~(flow.stage = "verification" /\ ReadyIsCurrent)
  BY NothingRuns, Rows DEF ClaimChild
<1>4. ReadyMeansProven' /\ CompletedIsProven'
  BY <1>3, <1>b, <1>f, NoNewReadiness
<1> QED BY <1>1, <1>2, <1>4 DEF Proven

(* A run ends and writes no evidence: a transfer that failed, a child never *)
(* claimed, an audit.                                                       *)
LEMMA QuietEndStep ==
    ASSUME CutoverInv, NEW m \in Mailboxes, active[m] # NoRun,
           active' = [active EXCEPT ![m] = NoRun],
           UNCHANGED <<phase, flow, evidence, accepted, ready>>
    PROVE  Proven'
<1>a. TypeOK /\ StageOK /\ NotBeforeVerification /\ CoveredOK /\ active \in [Mailboxes -> Run]
  BY Typed DEF CutoverInv
<1>b. \A n \in Mailboxes : active'[n] = active[n] \/ ~active'[n].final
  BY <1>a, Rows
<1>1. StageOK' /\ NotBeforeVerification'
  BY <1>a, <1>b DEF StageOK, NotBeforeVerification
<1>2. CoveredOK'
  BY <1>a, <1>b DEF CoveredOK
<1>3. ReadyMeansProven' /\ CompletedIsProven'
  BY NothingRuns, NoNewReadiness
<1> QED BY <1>1, <1>2, <1>3 DEF Proven

(* A transfer ends with evidence, which is final only if the run started in *)
(* Verification.                                                            *)
LEMMA EvidenceStep ==
    ASSUME CutoverInv, NEW m \in Mailboxes, NEW state, NEW grade \in Grades,
           EndWithEvidence(m, state, grade)
    PROVE  Proven'
<1>a. /\ TypeOK /\ StageOK /\ NotBeforeVerification /\ CoveredOK /\ active \in [Mailboxes -> Run]
      /\ evidence \in [Mailboxes -> Proof] /\ flow \in Flow
  BY Typed DEF CutoverInv
<1>b. active[m] # NoRun
  BY Rows DEF EndWithEvidence
<1>c. UNCHANGED <<phase, flow>>
  BY DEF EndWithEvidence
<1>d. \A n \in Mailboxes : active'[n] = active[n] \/ ~active'[n].final
  BY <1>a, Rows DEF EndWithEvidence
<1>e. \A n \in Mailboxes : \/ evidence'[n] = evidence[n]
                           \/ /\ n = m /\ evidence'[n].grade = grade
                              /\ evidence'[n].covered = active[m].covered
  BY <1>a DEF EndWithEvidence
<1>f. grade \in {"unobserved", "final"} => active[m].final
  BY DEF EndWithEvidence
<1>g. \/ ready' = ready
      \/ /\ flow.stage = "verification" /\ AllSettled(mailbox', accepted')
         /\ \A n \in Mailboxes : FinalEvidence(n, active', evidence', newest')
  <2>1. CASE ready' = MaybeReady(flow, mailbox', accepted', active', evidence', newest')
    BY <1>a, <2>1, Publication
  <2> QED BY <2>1 DEF EndWithEvidence
<1>h. flow.stage \notin Late => ready' = ready
  BY <1>g DEF Late
<1>1. StageOK' /\ NotBeforeVerification'
  BY <1>a, <1>c, <1>d, <1>e, <1>f, <1>h DEF StageOK, NotBeforeVerification
<1>2. CoveredOK'
  BY <1>a, <1>c, <1>d, <1>e, <1>f DEF CoveredOK
<1>3. ReadyMeansProven' /\ CompletedIsProven'
  <2>1. CASE ready' = ready
    BY <1>b, <1>c, <2>1, NothingRuns, NoNewReadiness
  <2>2. CASE /\ flow.stage = "verification" /\ AllSettled(mailbox', accepted')
             /\ \A n \in Mailboxes : FinalEvidence(n, active', evidence', newest')
    BY <1>c, <2>2 DEF ReadyMeansProven, CompletedIsProven
  <2> QED BY <1>g, <2>1, <2>2
<1> QED BY <1>1, <1>2, <1>3 DEF Proven

(* The operator's commands: an attestation, an acceptance, the next stage. *)
LEMMA AttestStep ==
    ASSUME CutoverInv, AttestQuiescence
    PROVE  Proven'
<1>a. /\ TypeOK /\ StageOK /\ NotBeforeVerification /\ CoveredOK /\ flow \in Flow
      /\ ReadyMeansProven
  BY Typed DEF CutoverInv
<1> DEFINE there == flow.stage = "verification"
           flow2 == [flow EXCEPT !.age = 0, !.covered = there]
<1>b. there \in BOOLEAN
  OBVIOUS
<1> HIDE DEF there
<1>c. /\ flow2 \in Flow /\ flow2.stage = flow.stage /\ flow2.approved = flow.approved
      /\ flow2.covered = there
  BY <1>a, <1>b, AttestedFlow
<1>d. /\ flow' = flow2 /\ ready' = MaybeReady(flow2, mailbox, accepted, active, evidence, newest)
      /\ flow.stage \in {"catch_up", "final_delta", "verification"}
      /\ UNCHANGED <<phase, mailbox, active, evidence, newest, accepted>>
  BY DEF AttestQuiescence, there
<1> HIDE DEF flow2
<1>e. \/ ready' = ready
      \/ /\ flow.stage = "verification" /\ AllSettled(mailbox, accepted)
         /\ \A n \in Mailboxes : FinalEvidence(n, active, evidence, newest)
  BY <1>a, <1>c, <1>d, Publication
<1>f. flow'.stage = flow.stage /\ flow'.approved = flow.approved /\ flow'.covered = there
  BY <1>c, <1>d
<1>1. StageOK'
  BY <1>a, <1>d, <1>f DEF StageOK
<1>2. NotBeforeVerification'
  BY <1>a, <1>d, <1>e, <1>f DEF NotBeforeVerification, Late, there
<1>3. CoveredOK'
  BY <1>a, <1>d, <1>f DEF CoveredOK, there
<1>4. ReadyMeansProven'
  BY <1>a, <1>d, <1>e, <1>f DEF ReadyMeansProven, ReadyIsCurrent
<1>5. CompletedIsProven'
  BY <1>d, <1>f DEF CompletedIsProven
<1> QED BY <1>1, <1>2, <1>3, <1>4, <1>5 DEF Proven

(* An accepted difference may publish readiness, but only on final evidence. *)
LEMMA AcceptStep ==
    ASSUME CutoverInv, NEW m \in Mailboxes, AcceptDifference(m)
    PROVE  Proven'
<1>a. TypeOK /\ StageOK /\ NotBeforeVerification /\ CoveredOK /\ flow \in Flow
  BY Typed DEF CutoverInv
<1>b. UNCHANGED <<phase, flow, active, evidence, newest>> /\ mailbox[m] = "difference"
  BY DEF AcceptDifference
<1>c. \/ ready' = ready
      \/ /\ flow.stage = "verification" /\ AllSettled(mailbox', accepted')
         /\ \A n \in Mailboxes : FinalEvidence(n, active, evidence, newest)
  <2>1. ready' = MaybeReady(flow, mailbox', accepted', active, evidence, newest)
    BY DEF AcceptDifference
  <2> QED BY <1>a, <2>1, Publication
<1>1. StageOK' /\ NotBeforeVerification'
  BY <1>a, <1>b, <1>c DEF StageOK, NotBeforeVerification, Late
<1>2. CoveredOK'
  BY <1>a, <1>b DEF CoveredOK
<1>3. ReadyMeansProven' /\ CompletedIsProven'
  <2>1. CASE ready' = ready
    BY <1>b, <2>1, NothingRuns, NoNewReadiness
  <2>2. CASE /\ flow.stage = "verification" /\ AllSettled(mailbox', accepted')
             /\ \A n \in Mailboxes : FinalEvidence(n, active, evidence, newest)
    BY <1>b, <2>2 DEF ReadyMeansProven, CompletedIsProven
  <2> QED BY <1>c, <2>1, <2>2
<1> QED BY <1>1, <1>2, <1>3 DEF Proven

(* The workflow moves to its next stage; completion asks for the same proof. *)
LEMMA AdvanceStep ==
    ASSUME CutoverInv, Advance
    PROVE  Proven'
<1>a. TypeOK /\ StageOK /\ NotBeforeVerification /\ CoveredOK /\ flow \in Flow
  BY Typed DEF CutoverInv
<1> DEFINE next == NextStage[flow.stage]
           age == IF next = "verification" THEN Never ELSE flow.age
<1>b. /\ MayAdvance /\ flow.approved /\ flow' = [flow EXCEPT !.stage = next, !.age = age]
      /\ phase' = PhaseOf(next)
      /\ mailbox' = IF next = "completed" THEN mailbox ELSE [m \in Mailboxes |-> "open"]
      /\ UNCHANGED <<active, evidence, newest, accepted, ready>>
  BY DEF Advance, MayAdvance
<1>c. /\ flow.stage \in {"seed", "catch_up", "final_delta", "verification"}
      /\ flow.stage = "seed" => next = "catch_up"
      /\ flow.stage = "catch_up" => next = "final_delta"
      /\ flow.stage = "final_delta" => next = "verification"
      /\ flow.stage = "verification" => next = "completed"
  BY <1>b, StageOrder DEF MayAdvance
<1>d. next = "completed" => /\ AllSettled(mailbox, accepted)
                            /\ \A m \in Mailboxes : FinalEvidence(m, active, evidence, newest)
  BY <1>b DEF MayAdvance
<1>e. next = "verification" => age = Never
  OBVIOUS
<1> HIDE DEF next, age
<1>f. /\ flow'.stage = next /\ flow'.approved = flow.approved /\ flow'.covered = flow.covered
      /\ flow'.age = age
  BY <1>a, <1>b DEF Flow
<1>1. StageOK'
  BY <1>b, <1>c, <1>f DEF StageOK
<1>2. NotBeforeVerification'
  BY <1>a, <1>b, <1>c, <1>f DEF NotBeforeVerification, Late
<1>3. CoveredOK'
  <2>1. next = "verification" => ~Quiet(flow')
    BY <1>e, <1>f, Bounds DEF Quiet
  <2> QED BY <1>a, <1>b, <1>f, <2>1 DEF CoveredOK
<1>4. ReadyMeansProven'
  <2>1. next = "verification" => ~ready.seen
    BY <1>a, <1>c DEF NotBeforeVerification, Late
  <2> QED BY <1>b, <1>f, <2>1 DEF ReadyMeansProven, ReadyIsCurrent
<1>5. CompletedIsProven'
  <2>1. SUFFICES ASSUME next = "completed" PROVE CompletedIsProven'
    BY <1>f DEF CompletedIsProven
  <2>2. mailbox' = mailbox /\ phase' = "complete"
    BY <1>b, <2>1 DEF PhaseOf
  <2>3. \A m \in Mailboxes : evidence[m].covered
    BY <1>a, <1>d, <2>1 DEF CoveredOK, FinalEvidence
  <2> QED BY <1>b, <1>d, <2>1, <2>2, <2>3 DEF CompletedIsProven
<1> QED BY <1>1, <1>2, <1>3, <1>4, <1>5 DEF Proven

-----------------------------------------------------------------------------
(* Results. *)

(* Every step keeps what the workflow promises. *)
LEMMA ProvenStep == CutoverInv /\ [Next]_vars => Proven'
<1> SUFFICES ASSUME CutoverInv, [Next]_vars PROVE Proven'
  OBVIOUS
<1>a. /\ TypeOK /\ StageOK /\ NotBeforeVerification /\ CoveredOK /\ ReadyMeansProven
      /\ CompletedIsProven /\ active \in [Mailboxes -> Run] /\ flow \in Flow /\ ready \in Readiness
      /\ mailbox \in [Mailboxes -> States]
  BY Typed DEF CutoverInv
<1>1. ASSUME NEW m \in Mailboxes, BeginRun(m) PROVE Proven'
  <2>1. \A n \in Mailboxes : active'[n] = IF n \in {m} THEN StartOf("single", "running") ELSE active[n]
    BY <1>a, <1>1 DEF BeginRun
  <2> QED BY <1>1, <2>1, AdmissionStep DEF BeginRun
<1>2. ASSUME NEW jobs \in SUBSET Mailboxes, BeginBatch(jobs) PROVE Proven'
  <2>1. \A n \in Mailboxes : active'[n] = IF n \in jobs THEN StartOf("child", "queued") ELSE active[n]
    BY <1>2 DEF BeginBatch
  <2> QED BY <1>2, <2>1, AdmissionStep DEF BeginBatch
<1>3. ASSUME NEW m \in Mailboxes, BeginAudit(m) PROVE Proven'
  <2>1. \A n \in Mailboxes : active'[n] = IF n \in {m} THEN StartOf("audit", "running") ELSE active[n]
    BY <1>a, <1>3 DEF BeginAudit
  <2> QED BY <1>3, <2>1, AdmissionStep DEF BeginAudit
<1>4. ASSUME NEW m \in Mailboxes, EndWithoutEvidence(m) \/ EndUnclaimed(m) PROVE Proven'
  BY <1>4, QuietEndStep, Rows DEF EndWithoutEvidence, EndUnclaimed
<1>5. ASSUME NEW m \in Mailboxes, NEW result, EndAudit(m, result) PROVE Proven'
  BY <1>5, QuietEndStep, Rows DEF EndAudit
<1>6. CASE Recover
  <2>1. \A m \in Mailboxes : ~active'[m].final /\ active'[m] = NoRun
    BY <1>6, Rows DEF Recover
  <2>2. UNCHANGED <<phase, flow, evidence, newest, accepted, ready>>
    BY <1>6 DEF Recover
  <2>3. StageOK' /\ NotBeforeVerification'
    BY <1>a, <2>1, <2>2 DEF StageOK, NotBeforeVerification
  <2>4. CoveredOK'
    BY <1>a, <2>1, <2>2 DEF CoveredOK
  <2>5. \A m \in Mailboxes : mailbox[m] # "running" => mailbox'[m] = mailbox[m]
    BY <1>6 DEF Recover
  <2>6. ASSUME \/ flow.stage = "verification" /\ ReadyIsCurrent
               \/ flow.stage = "completed"
        PROVE  \A m \in Mailboxes : mailbox'[m] = mailbox[m]
    BY <2>5, <2>6, NothingRuns
  <2>7. ReadyMeansProven'
    BY <1>a, <2>1, <2>2, <2>6 DEF ReadyMeansProven, ReadyIsCurrent, AllSettled, FinalEvidence
  <2>8. CompletedIsProven'
    BY <1>a, <2>1, <2>2, <2>6 DEF CompletedIsProven, AllSettled, FinalEvidence
  <2> QED BY <2>3, <2>4, <2>7, <2>8 DEF Proven
<1>7. CASE CreateWorkflow \/ ApproveCutover
  <2>1. /\ flow'.stage \in {"seed", flow.stage} /\ flow'.covered = flow.covered
        /\ flow.stage \notin Late /\ flow'.stage \notin Late
    BY <1>a, <1>7 DEF CreateWorkflow, ApproveCutover, StageOK, Flow, Late
  <2>2. UNCHANGED <<mailbox, active, evidence, newest, accepted, ready>>
    BY <1>7 DEF CreateWorkflow, ApproveCutover
  <2>3. StageOK'
    <3>1. CASE CreateWorkflow
      BY <1>a, <3>1 DEF CreateWorkflow, StageOK, Flow
    <3>2. CASE ApproveCutover
      BY <1>a, <3>2 DEF ApproveCutover, StageOK, Flow, PhaseOf
    <3> QED BY <1>7, <3>1, <3>2
  <2>4. NotBeforeVerification' /\ CoveredOK'
    BY <1>a, <2>1, <2>2 DEF NotBeforeVerification, CoveredOK, Late
  <2>5. ReadyMeansProven' /\ CompletedIsProven'
    BY <2>1 DEF ReadyMeansProven, CompletedIsProven, Late
  <2> QED BY <2>3, <2>4, <2>5 DEF Proven
<1>8. CASE Tick
  <2> DEFINE age == IF flow.age < Never THEN flow.age + 1 ELSE flow.age
             old == IF ready.age < Window THEN ready.age + 1 ELSE ready.age
  <2>1. flow' = [flow EXCEPT !.age = age] /\ ready' = [ready EXCEPT !.age = old]
    BY <1>8 DEF Tick
  <2>2. (age <= Window => flow.age <= Window) /\ (old < Window => ready.age < Window)
    BY <1>a, Bounds DEF Flow, Readiness
  <2> HIDE DEF age, old
  <2>3. /\ flow'.stage = flow.stage /\ flow'.approved = flow.approved /\ flow'.covered = flow.covered
        /\ flow'.age = age
        /\ ready'.seen = ready.seen /\ ready'.withdrawnBy = ready.withdrawnBy /\ ready'.age = old
    BY <1>a, <2>1 DEF Flow, Readiness
  <2>4. UNCHANGED <<phase, mailbox, active, evidence, newest, accepted>>
    BY <1>8 DEF Tick
  <2>5. StageOK' /\ NotBeforeVerification'
    BY <1>a, <2>3, <2>4 DEF StageOK, NotBeforeVerification
  <2>6. CoveredOK'
    BY <1>a, <2>2, <2>3, <2>4 DEF CoveredOK, Quiet
  <2>7. ReadyMeansProven'
    BY <1>a, <2>2, <2>3, <2>4 DEF ReadyMeansProven, ReadyIsCurrent
  <2>8. CompletedIsProven'
    BY <1>a, <2>3, <2>4 DEF CompletedIsProven
  <2> QED BY <2>5, <2>6, <2>7, <2>8 DEF Proven
<1>9. CASE UNCHANGED vars
  <2>1. StageOK' /\ NotBeforeVerification' /\ CoveredOK'
    BY <1>a, <1>9 DEF vars, StageOK, NotBeforeVerification, CoveredOK
  <2>2. ReadyMeansProven' /\ CompletedIsProven'
    BY <1>a, <1>9 DEF vars, ReadyMeansProven, CompletedIsProven, ReadyIsCurrent
  <2> QED BY <2>1, <2>2 DEF Proven
<1> QED
  BY <1>1, <1>2, <1>3, <1>4, <1>5, <1>6, <1>7, <1>8, <1>9, ClaimStep, EvidenceStep, AttestStep,
     AcceptStep, AdvanceStep DEF Next

(* The inductive invariant of the cutover. *)
THEOREM CutoverInvariant == Spec => []CutoverInv
<1>1. Init => CutoverInv
  <2> SUFFICES ASSUME Init PROVE CutoverInv
    OBVIOUS
  <2>1. /\ flow.stage = "none" /\ ~flow.approved /\ ~flow.covered /\ phase = "pilot" /\ ~ready.seen
        /\ \A m \in Mailboxes : active[m] = NoRun /\ evidence[m] = NoEvidence
    BY DEF Init
  <2>2. flow \in Flow /\ ready \in Readiness
    BY Bounds DEF Init, Flow, Readiness
  <2>3. /\ phase \in ManagedPhases /\ mailbox \in [Mailboxes -> States] /\ accepted \in SUBSET Mailboxes
        /\ active \in [Mailboxes -> Run] /\ evidence \in [Mailboxes -> Proof]
        /\ newest \in [Mailboxes -> Sources]
    BY Rows DEF Init, ManagedPhases, States, Sources
  <2>4. TypeOK
    BY <2>2, <2>3, Typed
  <2>5. StageOK /\ NotBeforeVerification /\ CoveredOK
    BY <2>1, Rows DEF StageOK, NotBeforeVerification, CoveredOK
  <2>6. ReadyMeansProven /\ CompletedIsProven
    BY <2>1 DEF ReadyMeansProven, CompletedIsProven
  <2> QED BY <2>4, <2>5, <2>6 DEF CutoverInv
<1>2. CutoverInv /\ [Next]_vars => CutoverInv'
  BY TypeStep, ProvenStep DEF CutoverInv, Proven
<1> QED BY <1>1, <1>2, PTL DEF Spec

(* The workflow's rows keep their types. *)
THEOREM CutoverTypeOK == Spec => []TypeOK
<1>1. CutoverInv => TypeOK
  BY DEF CutoverInv
<1> QED BY <1>1, CutoverInvariant, PTL

(* A readiness event in force means that every mailbox is settled on final  *)
(* evidence and nothing runs.                                               *)
THEOREM ReadyMeansProvenAlways == Spec => []ReadyMeansProven
<1>1. CutoverInv => ReadyMeansProven
  BY DEF CutoverInv
<1> QED BY <1>1, CutoverInvariant, PTL

(* A completed cutover rests on runs that started in Verification under an  *)
(* attestation made there, and nothing can run any more.                    *)
THEOREM CompletedIsProvenAlways == Spec => []CompletedIsProven
<1>1. CutoverInv => CompletedIsProven
  BY DEF CutoverInv
<1> QED BY <1>1, CutoverInvariant, PTL
=============================================================================
