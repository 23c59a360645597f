------------------------------- MODULE Cutover -------------------------------
(***************************************************************************)
(* The managed cutover of one project (core/cutover.rs) with the ledger    *)
(* operations that admit and end its mailbox runs (core/runs.rs,           *)
(* evidence_ops.rs, recovery.rs).  Each action is one SQLite transaction.  *)
(* The set of mailboxes of a project is fixed when it is imported.         *)
(*                                                                         *)
(* Rows are abstracted to what the workflow reads.  A mailbox is "open" in *)
(* every state that admits a run and does not count as verified.  The      *)
(* order of event identifiers is kept as three facts: whether a readiness  *)
(* event exists, which mailboxes have an invalidation newer than it, and   *)
(* whether a mailbox's evidence run started before its own last            *)
(* invalidation.  Time is counted in ticks of the attestation's age.       *)
(***************************************************************************)
EXTENDS Naturals

CONSTANTS
    Mailboxes,   \* the project's mailboxes
    Window       \* validity of a source-quiescence attestation, in ticks

ASSUME CutoverConstants == Mailboxes # {} /\ Window \in Nat \ {0}

VARIABLES
    phase,     \* projects.phase
    flow,      \* the cutover_workflows row
    mailbox,   \* mailbox_jobs.state
    active,    \* the queued or running run of each mailbox
    evidence,  \* the evidence projection of each mailbox
    newest,    \* the newest evidence_history row, relative to the projection
    accepted,  \* mailboxes whose current evidence run has an acceptance row
    ready      \* the newest cutover_ready event and what came after it

vars == <<phase, flow, mailbox, active, evidence, newest, accepted, ready>>

Stages == {"seed", "catch_up", "final_delta", "verification", "completed"}

(* CutoverStage::next; completed is terminal. *)
NextStage == [seed |-> "catch_up", catch_up |-> "final_delta",
              final_delta |-> "verification", verification |-> "completed"]

PhaseOf(stage) == IF stage = "completed" THEN "complete" ELSE stage

(* The phases a managed project passes through; none is NULL.               *)
ManagedPhases == {"none", "pilot", "complete"} \cup (Stages \ {"completed"})

Never == Window + 1     \* no attestation, or one older than its window

(* phase_at_start matters only as being Verification or not ("final").      *)
(* "covered" is a history field: the attestation in force when the run      *)
(* started was itself made in Verification.                                 *)
NoRun == [kind |-> "none", status |-> "none", final |-> FALSE, covered |-> FALSE]

(* Grades of the evidence projection: written by a run of an earlier stage, *)
(* or by one of Verification with or without the folder observations that   *)
(* its verification method needs.                                           *)
Grades == {"none", "earlier", "unobserved", "final"}

NoEvidence == [grade |-> "none", superseded |-> FALSE, covered |-> FALSE]

TypeOK ==
    /\ phase \in ManagedPhases
    /\ flow \in [stage : Stages \cup {"none"}, approved : BOOLEAN, age : 0..Never,
                covered : BOOLEAN]
    /\ mailbox \in [Mailboxes -> {"open", "running", "difference", "verified", "accepted"}]
    /\ active \in [Mailboxes -> [kind : {"none", "single", "child", "audit"},
                                 status : {"none", "queued", "running"},
                                 final : BOOLEAN, covered : BOOLEAN]]
    /\ evidence \in [Mailboxes -> [grade : Grades, superseded : BOOLEAN, covered : BOOLEAN]]
    /\ newest \in [Mailboxes -> {"none", "evidence", "exact_audit", "other_audit"}]
    /\ accepted \subseteq Mailboxes
    /\ ready \in [seen : BOOLEAN, age : 0..Window, withdrawnBy : SUBSET Mailboxes]

Init ==
    /\ phase = "pilot"
    /\ flow = [stage |-> "none", approved |-> FALSE, age |-> Never, covered |-> FALSE]
    /\ mailbox = [m \in Mailboxes |-> "open"]
    /\ active = [m \in Mailboxes |-> NoRun]
    /\ evidence = [m \in Mailboxes |-> NoEvidence]
    /\ newest = [m \in Mailboxes |-> "none"]
    /\ accepted = {}
    /\ ready = [seen |-> FALSE, age |-> Window, withdrawnBy |-> {}]

-----------------------------------------------------------------------------
(* What the workflow reads *)

(* source_quiescence_error is None: an attestation exists and is at most    *)
(* 15 minutes old.                                                          *)
Quiet(f) == f.age <= Window

(* validate_managed_cutover_run_admission, called by every run admission    *)
(* and by the claim of a batch child.                                       *)
MayAdmit ==
    flow.stage # "none" =>
        /\ flow.approved
        /\ PhaseOf(flow.stage) = phase /\ flow.stage # "completed"
        /\ flow.stage \in {"final_delta", "verification"} => Quiet(flow)

(* Every mailbox is verified, or accepted against its current evidence.     *)
AllSettled(states, acceptances) ==
    \A m \in Mailboxes : states[m] = "verified" \/ (states[m] = "accepted" /\ m \in acceptances)

(* One row of final_verification_evidence_summary: the projection comes     *)
(* from a run started in Verification with the observations it needs, is    *)
(* the newest evidence on record, no run is active and no invalidation is   *)
(* newer than the run's start.                                              *)
FinalEvidence(m, runs, ev, new) ==
    /\ ev[m].grade = "final"
    /\ new[m] = "evidence"
    /\ runs[m] = NoRun
    /\ ~ev[m].superseded

(* current_cutover_ready_event: the newest readiness event has no later     *)
(* invalidation and its expiry is still ahead.                              *)
ReadyIsCurrent == ready.seen /\ ready.withdrawnBy = {} /\ ready.age < Window

(* Mutant: readiness is published under an attestation that has lapsed. *)
MaybeReadyUnattested(f, states, acceptances, runs, ev, new) ==
    IF /\ f.stage = "verification" /\ phase = "verification"
       /\ AllSettled(states, acceptances)
       /\ \A m \in Mailboxes : FinalEvidence(m, runs, ev, new)
       /\ ~ReadyIsCurrent
    THEN [seen |-> TRUE, age |-> f.age, withdrawnBy |-> {}]
    ELSE ready

(* maybe_emit_cutover_ready, on the rows its transaction has written.       *)
MaybeReady(f, states, acceptances, runs, ev, new) ==
    IF /\ f.stage = "verification" /\ phase = "verification"
       /\ Quiet(f)
       /\ AllSettled(states, acceptances)
       /\ \A m \in Mailboxes : FinalEvidence(m, runs, ev, new)
       /\ ~ReadyIsCurrent
    THEN [seen |-> TRUE, age |-> f.age, withdrawnBy |-> {}]
    ELSE ready

(* invalidate_cutover_readiness_for_new_run for each admitted mailbox that  *)
(* has no invalidation newer than the readiness event yet.                  *)
Invalidated(jobs) ==
    IF flow.stage = "verification" /\ ready.seen THEN jobs \ ready.withdrawnBy ELSE {}

WithdrawReadiness(jobs) ==
    /\ ready' = [ready EXCEPT !.withdrawnBy = @ \cup Invalidated(jobs)]
    /\ evidence' = [m \in Mailboxes |->
            [evidence[m] EXCEPT !.superseded = @ \/ m \in Invalidated(jobs)]]

-----------------------------------------------------------------------------
(* Runs of the project's mailboxes *)

StartOf(kind, status) ==
    [kind |-> kind, status |-> status, final |-> phase = "verification", covered |-> flow.covered]

BeginRun(m) ==
    /\ MayAdmit /\ phase # "complete"
    /\ active[m] = NoRun /\ mailbox[m] # "running"
    /\ active' = [active EXCEPT ![m] = StartOf("single", "running")]
    /\ mailbox' = [mailbox EXCEPT ![m] = "running"]
    /\ WithdrawReadiness({m})
    /\ UNCHANGED <<phase, flow, newest, accepted>>

(* The children of a batch are queued; their mailboxes keep their states.   *)
BeginBatch(jobs) ==
    /\ jobs # {}
    /\ MayAdmit /\ phase # "complete"
    /\ \A m \in jobs : active[m] = NoRun /\ mailbox[m] # "running"
    /\ active' = [m \in Mailboxes |-> IF m \in jobs THEN StartOf("child", "queued") ELSE active[m]]
    /\ WithdrawReadiness(jobs)
    /\ UNCHANGED <<phase, flow, mailbox, newest, accepted>>

(* The claim re-checks the admission under the stage and attestation of now.*)
ClaimChild(m) ==
    /\ active[m].kind = "child" /\ active[m].status = "queued"
    /\ MayAdmit /\ phase # "complete"
    /\ active' = [active EXCEPT ![m].status = "running", ![m].covered = flow.covered]
    /\ mailbox' = [mailbox EXCEPT ![m] = "running"]
    /\ UNCHANGED <<phase, flow, evidence, newest, accepted, ready>>

(* Mutant: audits do not withdraw readiness. *)
BeginAuditSilently(m) ==
    /\ MayAdmit
    /\ active[m] = NoRun
    /\ active' = [active EXCEPT ![m] = StartOf("audit", "running")]
    /\ UNCHANGED <<phase, flow, mailbox, evidence, newest, accepted, ready>>

(* begin_verification_run_with_baseline: an audit keeps the mailbox state.  *)
(* Its baseline is a completed transfer, with evidence or without; which    *)
(* transfers completed is not kept, so the model admits audits to a mailbox *)
(* that has none as well.                                                   *)
BeginAudit(m) ==
    /\ MayAdmit
    /\ active[m] = NoRun
    /\ active' = [active EXCEPT ![m] = StartOf("audit", "running")]
    /\ UNCHANGED mailbox
    /\ WithdrawReadiness({m})
    /\ UNCHANGED <<phase, flow, newest, accepted>>

(* A transfer that ends without evidence, or is refused, failed, cancelled. *)
EndWithoutEvidence(m) ==
    /\ active[m].kind \in {"single", "child"} /\ active[m].status = "running"
    /\ active' = [active EXCEPT ![m] = NoRun]
    /\ mailbox' = [mailbox EXCEPT ![m] = "open"]
    /\ UNCHANGED <<phase, flow, evidence, newest, accepted, ready>>

(* A child that was never claimed ends; its mailbox stays where it was or   *)
(* goes to an open state (failed, cancelled, attention).                    *)
EndUnclaimed(m) ==
    /\ active[m].status = "queued"
    /\ active' = [active EXCEPT ![m] = NoRun]
    /\ mailbox' \in {mailbox, [mailbox EXCEPT ![m] = "open"]}
    /\ UNCHANGED <<phase, flow, evidence, newest, accepted, ready>>

(* Mutant: new evidence does not clear the invalidation of the old one. *)
EndWithEvidenceStillMarked(m, state, grade) ==
    LET active2 == [active EXCEPT ![m] = NoRun]
        mailbox2 == [mailbox EXCEPT ![m] = state]
        evidence2 == [evidence EXCEPT ![m] =
                        [grade |-> grade, superseded |-> evidence[m].superseded, covered |-> active[m].covered]]
        newest2 == [newest EXCEPT ![m] = "evidence"]
        accepted2 == accepted \ {m}
    IN  /\ active[m].kind \in {"single", "child"} /\ active[m].status = "running"
        /\ grade \in IF active[m].final THEN {"unobserved", "final"} ELSE {"earlier"}
        /\ active' = active2
        /\ mailbox' = mailbox2
        /\ evidence' = evidence2
        /\ newest' = newest2
        /\ accepted' = accepted2
        /\ ready' = IF state = "verified"
                    THEN MaybeReady(flow, mailbox2, accepted2, active2, evidence2, newest2)
                    ELSE ready
        /\ UNCHANGED <<phase, flow>>

(* finish_run_for_mailbox_with_evidence...: evidence, run and mailbox end   *)
(* together; a verified result may publish readiness.                       *)
EndWithEvidence(m, state, grade) ==
    LET active2 == [active EXCEPT ![m] = NoRun]
        mailbox2 == [mailbox EXCEPT ![m] = state]
        evidence2 == [evidence EXCEPT ![m] =
                        [grade |-> grade, superseded |-> FALSE, covered |-> active[m].covered]]
        newest2 == [newest EXCEPT ![m] = "evidence"]
        accepted2 == accepted \ {m}
    IN  /\ active[m].kind \in {"single", "child"} /\ active[m].status = "running"
        /\ grade \in IF active[m].final THEN {"unobserved", "final"} ELSE {"earlier"}
        /\ active' = active2
        /\ mailbox' = mailbox2
        /\ evidence' = evidence2
        /\ newest' = newest2
        /\ accepted' = accepted2
        /\ ready' = IF state = "verified"
                    THEN MaybeReady(flow, mailbox2, accepted2, active2, evidence2, newest2)
                    ELSE ready
        /\ UNCHANGED <<phase, flow>>

(* An audit that completes writes history only; one that fails, nothing.    *)
EndAudit(m, result) ==
    /\ active[m].kind = "audit"
    /\ result \in {newest[m], "exact_audit", "other_audit"}
    /\ active' = [active EXCEPT ![m] = NoRun]
    /\ newest' = [newest EXCEPT ![m] = result]
    /\ UNCHANGED <<phase, flow, mailbox, evidence, accepted, ready>>

(* recover_abandoned_jobs_preserving after a restart. *)
Recover ==
    /\ active' = [m \in Mailboxes |-> NoRun]
    /\ mailbox' = [m \in Mailboxes |-> IF mailbox[m] = "running" THEN "open" ELSE mailbox[m]]
    /\ UNCHANGED <<phase, flow, evidence, newest, accepted, ready>>

-----------------------------------------------------------------------------
(* The operator's commands *)

CreateWorkflow ==
    /\ phase = "pilot" /\ flow.stage = "none"
    /\ flow' = [flow EXCEPT !.stage = "seed"]
    /\ UNCHANGED <<phase, mailbox, active, evidence, newest, accepted, ready>>

ApproveCutover ==
    /\ phase = "pilot" /\ flow.stage # "none" /\ ~flow.approved
    /\ flow' = [flow EXCEPT !.approved = TRUE]
    /\ phase' = "seed"
    /\ UNCHANGED <<mailbox, active, evidence, newest, accepted, ready>>

AttestQuiescence ==
    LET flow2 == [flow EXCEPT !.age = 0, !.covered = flow.stage = "verification"]
    IN  /\ flow.stage \in {"catch_up", "final_delta", "verification"} /\ flow.approved
        /\ flow' = flow2
        /\ ready' = MaybeReady(flow2, mailbox, accepted, active, evidence, newest)
        /\ UNCHANGED <<phase, mailbox, active, evidence, newest, accepted>>

(* accept_verification_difference: bound to the newest evidence run; during *)
(* final Verification that must be the run of the projection.  A managed    *)
(* project never completes here.                                            *)
AcceptDifference(m) ==
    LET mailbox2 == [mailbox EXCEPT ![m] = "accepted"]
        accepted2 == IF newest[m] = "evidence" THEN accepted \cup {m} ELSE accepted
    IN  /\ mailbox[m] = "difference" /\ phase # "complete"
        /\ newest[m] # "exact_audit"
        /\ flow.stage = "verification" => newest[m] = "evidence"
        /\ mailbox' = mailbox2
        /\ accepted' = accepted2
        /\ ready' = MaybeReady(flow, mailbox2, accepted2, active, evidence, newest)
        /\ UNCHANGED <<phase, flow, active, evidence, newest>>

(* The checks of advance_cutover. *)
MayAdvance ==
    /\ flow.approved /\ phase # "complete"
    /\ flow.stage \in DOMAIN NextStage
    /\ AllSettled(mailbox, accepted)
    /\ NextStage[flow.stage] = "completed" =>
          /\ \A m \in Mailboxes : FinalEvidence(m, active, evidence, newest)
          /\ ReadyIsCurrent
    /\ ("final_delta" \in {flow.stage, NextStage[flow.stage]}
          \/ NextStage[flow.stage] = "completed") => Quiet(flow)

(* Mutant: the attestation of Final Delta survives into Verification. *)
AdvanceKeepingAttestation ==
    LET next == NextStage[flow.stage]
    IN  /\ MayAdvance
        /\ mailbox' = IF next = "completed" THEN mailbox
                      ELSE [m \in Mailboxes |-> "open"]
        /\ flow' = [flow EXCEPT !.stage = next]
        /\ phase' = PhaseOf(next)
        /\ UNCHANGED <<active, evidence, newest, accepted, ready>>

(* advance_cutover: intermediate stages requeue every verified mailbox, and *)
(* entering Verification drops the attestation of the stage before.         *)
Advance ==
    LET next == NextStage[flow.stage]
    IN  /\ MayAdvance
        /\ mailbox' = IF next = "completed" THEN mailbox
                      ELSE [m \in Mailboxes |-> "open"]
        /\ flow' = [flow EXCEPT !.stage = next,
                                !.age = IF next = "verification" THEN Never ELSE @]
        /\ phase' = PhaseOf(next)
        /\ UNCHANGED <<active, evidence, newest, accepted, ready>>

(* Fifteen minutes are Window ticks. *)
Tick ==
    /\ \/ flow.age < Never \/ ready.age < Window
    /\ flow' = [flow EXCEPT !.age = IF @ < Never THEN @ + 1 ELSE @]
    /\ ready' = [ready EXCEPT !.age = IF @ < Window THEN @ + 1 ELSE @]
    /\ UNCHANGED <<phase, mailbox, active, evidence, newest, accepted>>

-----------------------------------------------------------------------------
Next ==
    \/ \E m \in Mailboxes : BeginRun(m)
    \/ \E jobs \in SUBSET Mailboxes : BeginBatch(jobs)
    \/ \E m \in Mailboxes : ClaimChild(m)
    \/ \E m \in Mailboxes : BeginAudit(m)
    \/ \E m \in Mailboxes : EndWithoutEvidence(m)
    \/ \E m \in Mailboxes : EndUnclaimed(m)
    \/ \E m \in Mailboxes, state \in {"verified", "difference", "open"}, grade \in Grades :
           EndWithEvidence(m, state, grade)
    \/ \E m \in Mailboxes, result \in {"none", "evidence", "exact_audit", "other_audit"} : EndAudit(m, result)
    \/ Recover
    \/ CreateWorkflow
    \/ ApproveCutover
    \/ AttestQuiescence
    \/ \E m \in Mailboxes : AcceptDifference(m)
    \/ Advance
    \/ Tick

Spec == Init /\ [][Next]_vars

(* A mailbox the operator still has to run in the current stage: it is not  *)
(* settled, or its evidence does not qualify for completion.                *)
NeedsRun(m) ==
    \/ ~(mailbox[m] = "verified" \/ (mailbox[m] = "accepted" /\ m \in accepted))
    \/ flow.stage = "verification" /\ ~FinalEvidence(m, active, evidence, newest)

(* The run of m ends with exact evidence and the observations it needs.     *)
Verify(m) == \E grade \in {"earlier", "final"} : EndWithEvidence(m, "verified", grade)

(* The operator keeps going (creates and approves the plan, attests, starts *)
(* what still needs a run, advances), engines report in the end, and from   *)
(* some point on nothing else interferes: no further audit, failure,        *)
(* restart or unneeded run.  Attestations may keep expiring.                *)
StartNeeded == \E m \in Mailboxes : NeedsRun(m) /\ BeginRun(m)
ClaimAny == \E m \in Mailboxes : ClaimChild(m)
Report == \E m \in Mailboxes : Verify(m) \/ EndAudit(m, "exact_audit")
Plan == CreateWorkflow \/ ApproveCutover

Progress ==
    StartNeeded \/ ClaimAny \/ Report \/ Plan \/ AttestQuiescence \/ Advance \/ Tick

Fairness ==
    /\ <>[][Progress]_vars
    /\ WF_vars(Plan) /\ WF_vars(AttestQuiescence) /\ WF_vars(Report)
    /\ SF_vars(StartNeeded) /\ SF_vars(ClaimAny) /\ SF_vars(Advance)

FairSpec == Spec /\ Fairness

-----------------------------------------------------------------------------
(* Properties *)

(* While the newest readiness event is current, every mailbox is settled on *)
(* final evidence and nothing runs: whatever runs, audits, restarts and     *)
(* acceptances happen after maybe_emit_cutover_ready published it, they     *)
(* either withdraw it or leave what it says true.                           *)
ReadyMeansProven ==
    flow.stage = "verification" /\ ReadyIsCurrent =>
        /\ AllSettled(mailbox, accepted)
        /\ \A m \in Mailboxes : FinalEvidence(m, active, evidence, newest)

(* A completed cutover rests on evidence of runs that started in            *)
(* Verification under an attestation made in Verification, is not           *)
(* contradicted by newer evidence, and no run is or can become active.      *)
CompletedIsProven ==
    flow.stage = "completed" =>
        /\ phase = "complete"
        /\ AllSettled(mailbox, accepted)
        /\ \A m \in Mailboxes :
              /\ FinalEvidence(m, active, evidence, newest)
              /\ evidence[m].covered

(* From every reachable state the workflow can still be driven to its end:  *)
(* no order of audits, lapsed attestations, failures and restarts leaves    *)
(* evidence that advance_cutover refuses for good.                          *)
CutoverCompletes == <>(flow.stage = "completed")
=============================================================================
