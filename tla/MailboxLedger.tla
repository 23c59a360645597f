---------------------------- MODULE MailboxLedger ----------------------------
(***************************************************************************)
(* The durable migration ledger (core/runs.rs, holds.rs, phases.rs,        *)
(* recovery.rs, evidence_ops.rs): projects, their mailboxes, and the runs  *)
(* that own them.  Each action is one SQLite transaction of StateStore.    *)
(* The store's callers (GUI controller, headless commands, fleet API,      *)
(* reverify, startup recovery) may commit in any order, so the actions     *)
(* interleave freely.  Refused operations change nothing and are not       *)
(* steps.  The projects modelled here have no managed cutover workflow, so *)
(* cutover admission passes and readiness bookkeeping touches no row.      *)
(***************************************************************************)
EXTENDS LedgerPolicy, FiniteSets

CONSTANTS
    Projects,
    Mailboxes,
    RunIds,          \* bound: how many runs the ledger can ever record
    ProjectOf,       \* the project each mailbox row belongs to
    Identity,        \* exact destination identity (spelling preserved)
    Account,         \* the destination account, case-folded
    SharedPlan,      \* rows whose plan lives in a shared batch plan
    NoRun, NoJob, NoProject   \* NULL references

ASSUME LedgerConstants ==
    /\ ProjectOf \in [Mailboxes -> Projects]
    /\ SharedPlan \subseteq Mailboxes
    /\ NoRun \notin RunIds
    /\ NoJob \notin Mailboxes
    /\ \A m, n \in Mailboxes : Identity[m] = Identity[n] => Account[m] = Account[n]

VARIABLES
    phase,      \* projects.phase
    held,       \* projects with a project_holds row
    mailbox,    \* mailbox_jobs.state
    runs,       \* the runs table; status "absent" is an unused identifier
    processes,  \* runs with an active_processes row
    evidence,   \* the evidence projection of each mailbox
    history,    \* the newest evidence_history row of each mailbox
    accepted    \* run named by the newest verification_acceptances row

vars == <<phase, held, mailbox, runs, processes, evidence, history, accepted>>

NoEvidence == [run |-> NoRun, exact |-> FALSE]

RunKinds == {"single", "parent", "child", "audit"}

RunRow ==
    [kind    : RunKinds \cup {"none"},
     project : Projects \cup {NoProject},
     job     : Mailboxes \cup {NoJob},
     parent  : RunIds \cup {NoRun},
     status  : ActiveStatuses \cup TerminalStatuses \cup {"absent"}]

AbsentRow == [kind |-> "none", project |-> NoProject, job |-> NoJob,
              parent |-> NoRun, status |-> "absent"]

EvidenceRow == [run : RunIds \cup {NoRun}, exact : BOOLEAN]

TypeOK ==
    /\ phase \in [Projects -> Phases]
    /\ held \subseteq Projects
    /\ mailbox \in [Mailboxes -> MailboxStates]
    /\ runs \in [RunIds -> RunRow]
    /\ processes \subseteq RunIds
    /\ evidence \in [Mailboxes -> EvidenceRow]
    /\ history \in [Mailboxes -> EvidenceRow]
    /\ accepted \in [Mailboxes -> RunIds \cup {NoRun}]

Init ==
    /\ phase = [p \in Projects |-> "discovery"]
    /\ held = {}
    /\ mailbox = [m \in Mailboxes |-> "queued"]
    /\ runs = [r \in RunIds |-> AbsentRow]
    /\ processes = {}
    /\ evidence = [m \in Mailboxes |-> NoEvidence]
    /\ history = [m \in Mailboxes |-> NoEvidence]
    /\ accepted = [m \in Mailboxes |-> NoRun]

-----------------------------------------------------------------------------
(* Reading the ledger *)

Absent(r) == runs[r].status = "absent"

Active(r) == runs[r].status \in ActiveStatuses

(* Run r is a row of mailbox m; parents have no mailbox. *)
RunOf(r, m) == ~Absent(r) /\ runs[r].job = m

HasActiveRun(m) == \E r \in RunIds : RunOf(r, m) /\ Active(r)

ChildrenOf(p) == {r \in RunIds : ~Absent(r) /\ runs[r].parent = p}

MailboxesOf(p) == {m \in Mailboxes : ProjectOf[m] = p}

(* The lock identity is computed from the row's own configuration; a row    *)
(* that shares a batch plan has none and falls back to its mailbox name.    *)
LockIdentity(m) ==
    IF m \in SharedPlan THEN <<"mailbox", Account[m]>>
                        ELSE <<"endpoint", Account[m]>>

(* Mutant: queued children are not counted as owners of their destination.  *)
LockConflictRunningOnly(admitted) ==
    \E n \in Mailboxes \ admitted :
        /\ \E r \in RunIds : RunOf(r, n) /\ runs[r].status = "running"
        /\ \E m \in admitted : LockIdentity(m) = LockIdentity(n)

(* Another active run, outside the runs being admitted for `admitted`,      *)
(* already targets one of these destinations.                               *)
LockConflict(admitted) ==
    \E n \in Mailboxes \ admitted :
        HasActiveRun(n) /\ \E m \in admitted : LockIdentity(m) = LockIdentity(n)

Verified(m) ==
    \/ mailbox[m] = "verified"
    \/ mailbox[m] = "verified_with_exceptions" /\ accepted[m] # NoRun

AllVerified(p) ==
    MailboxesOf(p) # {} /\ \A m \in MailboxesOf(p) : Verified(m)

(* Mutant: admission trusts the mailbox state and skips the run lookup. *)
AdmissibleByState(m) ==
    /\ phase[ProjectOf[m]] # "complete"
    /\ ProjectOf[m] \notin held
    /\ MayStart(mailbox[m])

(* Mutant: admission does not look at the project phase. *)
AdmissibleAnyPhase(m) ==
    /\ ProjectOf[m] \notin held
    /\ MayStart(mailbox[m])
    /\ ~HasActiveRun(m)

(* Conditions every new transfer run of mailbox m must meet. *)
Admissible(m) ==
    /\ phase[ProjectOf[m]] # "complete"
    /\ ProjectOf[m] \notin held
    /\ MayStart(mailbox[m])
    /\ ~HasActiveRun(m)

-----------------------------------------------------------------------------
(* Starting runs *)

BeginRun(m, r) ==
    /\ Absent(r)
    /\ Admissible(m)
    /\ ~LockConflict({m})
    /\ runs' = [runs EXCEPT ![r] =
            [kind |-> "single", project |-> ProjectOf[m], job |-> m,
             parent |-> NoRun, status |-> "running"]]
    /\ mailbox' = [mailbox EXCEPT ![m] = "running"]
    /\ UNCHANGED <<phase, held, processes, evidence, history, accepted>>

(* One parent run and one queued child per selected mailbox; the mailboxes  *)
(* keep their state until a worker claims the child.                        *)
BeginBatch(p, jobs, parent, child) ==
    /\ jobs # {} /\ jobs \subseteq MailboxesOf(p)
    /\ Absent(parent)
    /\ \A m \in jobs : Absent(child[m]) /\ child[m] # parent
    /\ \A m, n \in jobs : m # n => child[m] # child[n] /\ Identity[m] # Identity[n]
    /\ \A m \in jobs : Admissible(m)
    /\ ~LockConflict(jobs)
    /\ runs' = [r \in RunIds |->
            IF r = parent
            THEN [kind |-> "parent", project |-> p, job |-> NoJob,
                  parent |-> NoRun, status |-> "running"]
            ELSE IF \E m \in jobs : r = child[m]
            THEN [kind |-> "child", project |-> p,
                  job |-> CHOOSE m \in jobs : r = child[m],
                  parent |-> parent, status |-> "queued"]
            ELSE runs[r]]
    /\ UNCHANGED <<phase, held, mailbox, processes, evidence, history, accepted>>

(* claim_batch_mailbox_for_child: mailbox and child start together. *)
MayClaim(r) ==
    /\ ~Absent(r) /\ runs[r].kind = "child" /\ runs[r].status = "queued"
    /\ runs[runs[r].parent].status = "running"
    /\ phase[runs[r].project] # "complete"
    /\ runs[r].project \notin held
    /\ MayStart(mailbox[runs[r].job])

ClaimChild(r) ==
    /\ MayClaim(r)
    /\ runs' = [runs EXCEPT ![r].status = "running"]
    /\ mailbox' = [mailbox EXCEPT ![runs[r].job] = "running"]
    /\ UNCHANGED <<phase, held, processes, evidence, history, accepted>>

(* begin_verification_run_from_transfer: an audit of a completed transfer.  *)
(* It checks neither hold nor phase and leaves the mailbox state alone.     *)
BeginAudit(m, r, baseline) ==
    /\ Absent(r)
    /\ ~HasActiveRun(m)
    /\ RunOf(baseline, m) /\ runs[baseline].kind # "audit"
    /\ runs[baseline].status = "completed"
    /\ ~LockConflict({m})
    /\ runs' = [runs EXCEPT ![r] =
            [kind |-> "audit", project |-> ProjectOf[m], job |-> m,
             parent |-> baseline, status |-> "running"]]
    /\ UNCHANGED <<phase, held, mailbox, processes, evidence, history, accepted>>

-----------------------------------------------------------------------------
(* Ending runs *)

(* Mutant: unfinished children do not keep a parent open. *)
MayFinishRunEarly(r, status) ==
    /\ ~Absent(r) /\ runs[r].status = "running"
    /\ status = "completed" => \A c \in ChildrenOf(r) : runs[c].status = "completed"

(* finish_run: closes a run without touching a mailbox.  The controller     *)
(* uses it for batch parents, reverify for an audit that failed.            *)
MayFinishRun(r, status) ==
    /\ ~Absent(r) /\ runs[r].status = "running"
    /\ \A c \in ChildrenOf(r) : ~Active(c)
    /\ status = "completed" => \A c \in ChildrenOf(r) : runs[c].status = "completed"

FinishRun(r, status) ==
    /\ MayFinishRun(r, status)
    /\ \/ runs[r].kind = "parent"
       \/ runs[r].kind = "audit" /\ status = "verification_failed"
    /\ runs' = [runs EXCEPT ![r].status = status]
    /\ processes' = processes \ {r}
    /\ UNCHANGED <<phase, held, mailbox, evidence, history, accepted>>

(* Mutant: the ending is not conditional on the run still being active.     *)
MayFinishMailboxRunAgain(r, status, state) ==
    /\ ~Absent(r) /\ runs[r].kind \in {"single", "child"}
    /\ TerminalPair(status, state)
    /\ MaySettle(mailbox[runs[r].job], state)

(* finish_run_for_mailbox...: run and mailbox end together.  A queued child *)
(* may end too, but never as completed.                                     *)
MayFinishMailboxRun(r, status, state) ==
    /\ ~Absent(r) /\ runs[r].kind \in {"single", "child"}
    /\ TerminalPair(status, state)
    /\ MaySettle(mailbox[runs[r].job], state)
    /\ \/ runs[r].status = "running"
       \/ /\ runs[r].status = "queued"
          /\ status \in {"cancelled", "failed", "verification_failed"}

(* Mutant: the ending leaves the run's process rows behind. *)
FinishMailboxRunOnly(r, status, state) ==
    /\ MayFinishMailboxRun(r, status, state)
    /\ runs' = [runs EXCEPT ![r].status = status]
    /\ mailbox' = [mailbox EXCEPT ![runs[r].job] = state]
    /\ UNCHANGED <<phase, held, processes, evidence, history, accepted>>

FinishMailboxRun(r, status, state) ==
    /\ MayFinishMailboxRun(r, status, state)
    /\ runs' = [runs EXCEPT ![r].status = status]
    /\ mailbox' = [mailbox EXCEPT ![runs[r].job] = state]
    /\ processes' = processes \ {r}
    /\ UNCHANGED <<phase, held, evidence, history, accepted>>

(* The endings the controller reports without evidence: a clean dry run or  *)
(* delta pass, a transfer whose evidence is missing or whose worker died    *)
(* (attention), a failure, a cancellation, and a single run whose result    *)
(* the ledger rejected (failed, attention).                                 *)
PlainEndings ==
    {<<"completed", "ready">>, <<"completed", "delta_required">>,
     <<"completed", "attention">>, <<"failed", "failed">>,
     <<"cancelled", "cancelled">>}

SingleEndings ==
    {<<"failed", "attention">>, <<"verification_failed", "attention">>}

(* Mutant: verified is accepted with evidence that is not exact. *)
MayFinishWithAnyEvidence(r, exact, state) ==
    /\ ~Absent(r) /\ runs[r].kind \in {"single", "child"}
    /\ runs[r].status = "running"
    /\ state \in {"ready", "verified", "delta_required",
                  "verification_difference", "attention"}
    /\ MaySettleWithEvidence(mailbox[runs[r].job], state)

(* finish_run_for_mailbox_with_evidence...: run, evidence and mailbox end   *)
(* together.  Evidence of a successful preflight is telemetry: it is        *)
(* recorded as incomplete, never as exact.                                  *)
MayFinishWithEvidence(r, exact, state) ==
    /\ ~Absent(r) /\ runs[r].kind \in {"single", "child"}
    /\ runs[r].status = "running"
    /\ state \in {"ready", "verified", "delta_required",
                  "verification_difference", "attention"}
    /\ state = "verified" => exact
    /\ MaySettleWithEvidence(mailbox[runs[r].job], state)

FinishWithEvidence(r, exact, state) ==
    LET m == runs[r].job
        row == [run |-> r, exact |-> exact /\ state # "ready"]
    IN  /\ MayFinishWithEvidence(r, exact, state)
        /\ runs' = [runs EXCEPT ![r].status = "completed"]
        /\ evidence' = [evidence EXCEPT ![m] = row]
        /\ history' = [history EXCEPT ![m] = row]
        /\ mailbox' = [mailbox EXCEPT ![m] = state]
        /\ processes' = processes \ {r}
        /\ UNCHANGED <<phase, held, accepted>>

(* finish_verification_only_run: history only; the projection, the mailbox  *)
(* and any process row stay as they are.                                    *)
FinishAudit(r, exact) ==
    /\ ~Absent(r) /\ runs[r].kind = "audit" /\ runs[r].status = "running"
    /\ runs' = [runs EXCEPT ![r].status = "completed"]
    /\ history' = [history EXCEPT ![runs[r].job] = [run |-> r, exact |-> exact]]
    /\ UNCHANGED <<phase, held, mailbox, processes, evidence, accepted>>

(* Mutant: the reason is stored where the status belongs. *)
CancelHeldChildAsHeld(r) ==
    /\ ~Absent(r) /\ runs[r].kind = "child" /\ runs[r].status = "queued"
    /\ runs' = [runs EXCEPT ![r].status = "held"]
    /\ UNCHANGED <<phase, held, mailbox, processes, evidence, history, accepted>>

(* cancel_held_child_run: the hold kept the child from starting. *)
CancelHeldChild(r) ==
    /\ ~Absent(r) /\ runs[r].kind = "child" /\ runs[r].status = "queued"
    /\ runs' = [runs EXCEPT ![r].status = "cancelled"]
    /\ UNCHANGED <<phase, held, mailbox, processes, evidence, history, accepted>>

-----------------------------------------------------------------------------
(* Process identities and startup recovery *)

(* Mutant: a late registration is stored for a run that already ended. *)
RegisterProcessLate(r) ==
    /\ ~Absent(r) /\ runs[r].kind \in {"single", "child"}
    /\ processes' = processes \cup {r}
    /\ UNCHANGED <<phase, held, mailbox, runs, evidence, history, accepted>>

(* register_process: only a running run may own an operating-system process.*)
RegisterProcess(r) ==
    /\ ~Absent(r) /\ runs[r].kind \in {"single", "child"}
    /\ runs[r].status = "running"
    /\ processes' = processes \cup {r}
    /\ UNCHANGED <<phase, held, mailbox, runs, evidence, history, accepted>>

ClearProcesses(r) ==
    /\ r \in processes
    /\ processes' = processes \ {r}
    /\ UNCHANGED <<phase, held, mailbox, runs, evidence, history, accepted>>

ClearProcessesAfterReview ==
    /\ processes # {}
    /\ processes' = {}
    /\ UNCHANGED <<phase, held, mailbox, runs, evidence, history, accepted>>

(* Mutant: recovery forgets the queued children of abandoned parents. *)
RecoverRunningOnly(preserved) ==
    /\ preserved \subseteq processes
    /\ mailbox' = [m \in Mailboxes |->
            IF mailbox[m] = "running" THEN "attention" ELSE mailbox[m]]
    /\ runs' = [r \in RunIds |->
            IF ~Absent(r) /\ runs[r].status = "running"
            THEN [runs[r] EXCEPT !.status = "abandoned"] ELSE runs[r]]
    /\ processes' = preserved
    /\ UNCHANGED <<phase, held, evidence, history, accepted>>

(* recover_abandoned_jobs_preserving: after a restart every running run is  *)
(* abandoned, and with it the queued children of an abandoned parent;       *)
(* claimed mailboxes go to attention.  Identities that could not be         *)
(* verified are preserved for the operator.                                 *)
Recover(preserved) ==
    LET restarted == {r \in RunIds : ~Absent(r) /\ runs[r].status = "running"}
        unclaimed == {r \in RunIds : /\ ~Absent(r) /\ runs[r].status = "queued"
                                     /\ runs[r].parent \in restarted}
    IN  /\ preserved \subseteq processes
        /\ mailbox' = [m \in Mailboxes |->
                IF mailbox[m] = "running" THEN "attention" ELSE mailbox[m]]
        /\ runs' = [r \in RunIds |->
                IF r \in restarted \cup unclaimed
                THEN [runs[r] EXCEPT !.status = "abandoned"] ELSE runs[r]]
        /\ processes' = preserved
        /\ UNCHANGED <<phase, held, evidence, history, accepted>>

-----------------------------------------------------------------------------
(* Operator and lifecycle operations *)

HoldProject(p) ==
    /\ p \notin held
    /\ held' = held \cup {p}
    /\ UNCHANGED <<phase, mailbox, runs, processes, evidence, history, accepted>>

ReleaseProjectHold(p) ==
    /\ p \in held
    /\ held' = held \ {p}
    /\ UNCHANGED <<phase, mailbox, runs, processes, evidence, history, accepted>>

(* StateStore::transition, with the targets the controller asks for. *)
Transition(p, next) ==
    /\ next \in {"preflight", "verification", "complete", "attention"}
    /\ PhaseEdge(phase[p], next)
    /\ next = "complete" /\ phase[p] # "complete" =>
           AllVerified(p) /\ phase[p] = "verification"
    /\ phase' = [phase EXCEPT ![p] = next]
    /\ UNCHANGED <<held, mailbox, runs, processes, evidence, history, accepted>>

ReopenProject(p) ==
    /\ phase[p] = "complete"
    /\ AllVerified(p)
    /\ ~\E r \in RunIds : ~Absent(r) /\ runs[r].project = p /\ (Active(r) \/ r \in processes)
    /\ mailbox' = [m \in Mailboxes |->
            IF ProjectOf[m] = p /\ mailbox[m] \in VerifiedStates
            THEN "attention" ELSE mailbox[m]]
    /\ phase' = [phase EXCEPT ![p] = "attention"]
    /\ UNCHANGED <<held, runs, processes, evidence, history, accepted>>

(* accept_verification_difference: the newest evidence row, of a transfer   *)
(* or of an audit, must still show a difference.  Accepting the last open   *)
(* difference of a project in verification completes it.                    *)
AcceptDifference(m) ==
    LET p == ProjectOf[m]
        mailbox2 == [mailbox EXCEPT ![m] = "verified_with_exceptions"]
        accepted2 == [accepted EXCEPT ![m] = history[m].run]
        settled(n) == \/ mailbox2[n] = "verified"
                      \/ /\ mailbox2[n] = "verified_with_exceptions"
                         /\ accepted2[n] # NoRun
    IN  /\ mailbox[m] = "verification_difference"
        /\ phase[p] # "complete"
        /\ history[m].run # NoRun /\ ~history[m].exact
        /\ mailbox' = mailbox2
        /\ accepted' = accepted2
        /\ phase' = [phase EXCEPT ![p] =
                IF phase[p] = "verification" /\ \A n \in MailboxesOf(p) : settled(n)
                THEN "complete" ELSE phase[p]]
        /\ UNCHANGED <<held, runs, processes, evidence, history>>

-----------------------------------------------------------------------------
Next ==
    \/ \E m \in Mailboxes, r \in RunIds : BeginRun(m, r)
    \/ \E p \in Projects, jobs \in SUBSET Mailboxes, parent \in RunIds :
           \E child \in [jobs -> RunIds] : BeginBatch(p, jobs, parent, child)
    \/ \E r \in RunIds : ClaimChild(r)
    \/ \E m \in Mailboxes, r, baseline \in RunIds : BeginAudit(m, r, baseline)
    \/ \E r \in RunIds, status \in TerminalStatuses \ {"abandoned"} : FinishRun(r, status)
    \/ \E r \in RunIds, e \in PlainEndings : FinishMailboxRun(r, e[1], e[2])
    \/ \E r \in RunIds, e \in SingleEndings :
           /\ ~Absent(r) /\ runs[r].kind = "single"
           /\ FinishMailboxRun(r, e[1], e[2])
    \/ \E r \in RunIds, exact \in BOOLEAN, state \in MailboxStates :
           FinishWithEvidence(r, exact, state)
    \/ \E r \in RunIds, exact \in BOOLEAN : FinishAudit(r, exact)
    \/ \E r \in RunIds : CancelHeldChild(r)
    \/ \E r \in RunIds : RegisterProcess(r)
    \/ \E r \in RunIds : ClearProcesses(r)
    \/ ClearProcessesAfterReview
    \/ \E preserved \in SUBSET processes : Recover(preserved)
    \/ \E p \in Projects : HoldProject(p)
    \/ \E p \in Projects : ReleaseProjectHold(p)
    \/ \E p \in Projects, next \in Phases : Transition(p, next)
    \/ \E p \in Projects : ReopenProject(p)
    \/ \E m \in Mailboxes : AcceptDifference(m)

Spec == Init /\ [][Next]_vars

-----------------------------------------------------------------------------
(* Properties *)

(* A mailbox is running exactly while one transfer run that owns it is      *)
(* running, through batch claims, failures, hold cancellations and restart  *)
(* recovery; no mailbox ever has two active runs.                           *)
OneOwner ==
    \A m \in Mailboxes :
        /\ mailbox[m] = "running" <=>
             \E r \in RunIds : /\ RunOf(r, m) /\ runs[r].kind # "audit"
                               /\ runs[r].status = "running"
        /\ \A r, s \in RunIds :
             RunOf(r, m) /\ Active(r) /\ RunOf(s, m) /\ Active(s) => r = s

(* An unfinished batch child always has a running parent, so that no child  *)
(* is left behind for a batch nobody is executing; and a parent recorded    *)
(* as completed has only completed children.                                *)
NoOrphanChild ==
    \A r \in RunIds : ~Absent(r) /\ runs[r].kind = "child" =>
        /\ ~Absent(runs[r].parent)
        /\ Active(r) => runs[runs[r].parent].status = "running"
        /\ runs[runs[r].parent].status = "completed" => runs[r].status = "completed"

(* A verified mailbox carries exact evidence in its projection, written by  *)
(* a completed transfer run of that very mailbox: no audit, failed run or   *)
(* preflight can leave verified resting on someone else's evidence.         *)
VerifiedIsProven ==
    \A m \in Mailboxes : mailbox[m] = "verified" =>
        /\ evidence[m].exact
        /\ evidence[m].run # NoRun
        /\ RunOf(evidence[m].run, m)
        /\ runs[evidence[m].run].kind # "audit"
        /\ runs[evidence[m].run].status = "completed"

(* A complete project has every mailbox verified or accepted, whatever      *)
(* claims, late endings or recoveries happen after it completed.            *)
CompleteIsVerified ==
    \A p \in Projects : phase[p] = "complete" => AllVerified(p)

(* A process identity on record belongs to a run that is running, or to one *)
(* that recovery abandoned while preserving the unverified identity.        *)
ProcessHasOwner ==
    \A r \in processes : ~Absent(r) /\ runs[r].status \in {"running", "abandoned"}

(* Two mailboxes that write to one destination account never have active    *)
(* runs at the same time, except as children of one batch.                  *)
DestinationExclusive ==
    \A r, s \in RunIds :
        /\ ~Absent(r) /\ Active(r) /\ ~Absent(s) /\ Active(s)
        /\ runs[r].job \in Mailboxes /\ runs[s].job \in Mailboxes
        /\ runs[r].job # runs[s].job
        /\ Account[runs[r].job] = Account[runs[s].job]
        => runs[r].kind = "child" /\ runs[s].kind = "child"
           /\ runs[r].parent = runs[s].parent

(* A run's terminal status is final: no late completion, recovery or claim  *)
(* rewrites it.                                                             *)
TerminalIsFinal ==
    [][\A r \in RunIds : runs[r].status \in TerminalStatuses => runs'[r] = runs[r]]_vars
=============================================================================
