# MailSwiftSync: a TLA+ verification project

MailSwiftSync migrates mailboxes between IMAP servers.  It does not move mail
itself: it plans, admits, supervises and verifies runs of external engines
(imapsync, Dovecot dsync), and keeps a durable SQLite ledger that decides what
may start, what counts as verified and when a project is complete.  This
directory models that control logic in TLA+ (the ledger, batches and their
scheduler, managed cutover, the staging of verification, process supervision,
the fleet's leases and the webhook outbox), checks it with TLC and proves its
safety properties with TLAPS, for every value of the constants.

Paths below are relative to the repository root (`src/core/runs.rs` is the
crate's `core::runs`).

## 1. Inventory of the system

| Component | State it keeps | Operations | Interacts with |
|---|---|---|---|
| **Ledger policy** (`core/state.rs`, `core/policy.rs`, `controller/batch.rs`) | none: pure decisions | `valid_mailbox_transition`, `phase_rank`, terminal pairs, `batch_run_status`, `batch_mailbox_state`, destination identities | every writer of the ledger |
| **Mailbox/run ledger** (`core/runs.rs`, `core/holds.rs`, `core/phases.rs`, `core/recovery.rs`, `core/evidence_ops.rs`) | projects, mailbox_jobs, runs, active_processes, evidence, evidence_history, acceptances, holds | begin/claim/finish runs, audits, hold/release, phase transitions, reopen, acceptance, startup recovery | GUI controller, headless commands, fleet API, reverify, each with its own SQLite connection |
| **Batch controller** (`controller/batch_*.rs`, `controller/poll*.rs`, `runner.rs`) | scheduler queues and timers, worker threads, cancel/failed flags, event channel, deferred events, pending evidence and checkpoints | load, dispatch, probe, claim, launch, register, transfer, verify, clean up, report, retry, sweep, poll | calls the ledger; spawns engines |
| **Managed cutover** (`core/cutover.rs`) | cutover_workflows, readiness events | create, approve, attest quiescence, advance, invalidate | run admission, phase changes, webhook outbox |
| **Control plane leases** (`cli/control/workers.rs`, `cli/control/agent.rs`) | workers, assignments, lease epochs | lease, renew, complete, reconcile, requeue, revoke; the agent's renewal thread | agents over HTTP |
| **Webhook outbox** (`core/webhook_outbox.rs`, `webhook.rs`, `cli/maintenance.rs`) | outbox rows with endpoint, lease and attempt count | emit (trigger), enqueue, bind, claim, deliver, fail, dead-letter | ledger transactions; any number of `notify-webhook` processes |
| **Batch scheduler** (`controller/batch_scheduler.rs`) | source, fair queue, timers, tasks waiting for a slot, alive and busy threads | load, admit, park, dispatch, receive, requeue, cancel | worker threads, rate limiter |
| **Rate domains, verification gate** (`controller/rate_domains.rs`, `controller/batch_work_item.rs`) | slot counts, adaptive limits, strikes, cooldown deadlines, gate permits | try_admit, release, credit, penalise | batch scheduler, worker threads |
| **Process supervision** (`process.rs`, `runner/process.rs`) | child process groups, gate pipe, instance lock | spawn stopped, release, terminate, prove identity | batch controller, startup recovery |
| **Message staging and reconciliation** (`core/message_staging.rs`, `imap_probe.rs`, `runner/verification.rs`, `core/message_verification/*`) | staging database: messages, folder cursors, plan identity | open, list, select, fetch pages, complete, reuse, resume, revalidate, match, remove | IMAP servers of both accounts; the controller, which commits the evidence |
| **Queue facts, waves** (`core/queue.rs`, `core/waves.rs`) | trigger-maintained projections, wave membership and approvals | import, reorder, approve | admission |
| **Audit log, authorisation** (`cli/control/audit.rs`, `authz.rs`, `jwt.rs`, `oidc.rs`) | hash chain, roles, token cache | append, verify, authorise | HTTP API |
| **OAuth** (`oauth*.rs`) | refresh locks, token expiry | authorise, refresh | probes and launches |
| **UI, reports, imports, installers, localisation** | presentation only | rendering, formatting, parsing | none of the above depends on them |

### What is hard about it

* **Several writers, one ledger.**  The GUI, `headless`, `supervise`, `hold`,
  `reverify` and the fleet API open the same database.  Every operation is one
  transaction, but any sequence of them can interleave, so each transaction
  must re-check what an earlier one established.
* **Workers never write the ledger.**  A worker thread sends an event and waits
  for the controller's answer, but stops waiting on cancellation or a timeout:
  the request it gave up on may still commit.
* **Terminal events are retried.**  An ending the ledger refuses is put back at
  the head of the queue and tried again on the next poll.  That is right for a
  busy database and fatal for a refusal that can never succeed.
* **Attempts share a child run.**  Retries reuse the child, so evidence and
  checkpoints of a failed attempt must not be committed with a later one.
* **Crashes.**  Recovery must close what was running, including children no
  worker had claimed, without forgetting engines that may still be alive.
* **Holds, phases and acceptances** change the project underneath a batch that
  was admitted before them.
* **Readiness is a claim about the past.**  Cutover readiness is published from
  evidence and an attestation with a time window; runs, audits, acceptances and
  crashes after it must withdraw it or leave it true.
* **Nobody checks the fencing token but the service.**  An IMAP server accepts
  a write from a worker whose lease has lapsed; exclusion rests on local
  deadlines, a grace period and the engine being stopped in time.
* **Accounts are in use while they are read.**  Two accounts are read one after
  the other, folder by folder and page by page, by message sequence numbers that
  shift; what is read is put together with rows of an attempt that was killed
  yesterday, on the strength of four counters.
* **A process and its record live in different worlds.**  A group outlives its
  leader, a pid outlives its process, a record outlives the controller.
* **Slots are released before attempts end.**  A transfer hands its slots back
  to verify; the scheduler may be about to sleep when that happens.

## 2. Modules

| Module | Models |
|---|---|
| `LedgerPolicy` | the state vocabulary and the pure decisions |
| `MailboxLedger` | the durable ledger: one action per `StateStore` transaction |
| `MCMailboxLedger` | small instances of the ledger |
| `BatchController` | one batch execution on top of the ledger (`L == INSTANCE MailboxLedger`) |
| `MCBatchController` | its symmetry set |
| `RateScheduler` | `run_batch_schedule` with the rate domains and the verification gate |
| `Cutover` | a managed project: workflow, attestation, readiness, completion |
| `Supervision` | one mailbox's engine processes: spawn, register, release, end, crash, reconcile |
| `FencedExecution` | the abstract promise of the fleet: one engine per assignment and epoch, one result |
| `FencedLease` | the control service and its agents; refines `FencedExecution` |
| `Outbox` | durable webhook deliveries by several processes |
| `VerificationStage` | verification attempts of one mailbox: durable stage, scans, reuse, revalidation |
| `MailboxLedgerProofs`, `OutboxProofs`, `FencedLeaseProofs`, `SupervisionProofs`, `CutoverProofs`, `VerificationStageProofs`, `BatchControllerProofs`, `RateSchedulerProofs` | the TLAPS proofs about the module each is named after |
| `MCRateScheduler`, `MCCutover`, `MCSupervision`, `MCFencedLease`, `MCOutbox`, `MCVerificationStage` | their instances |

Operators preceded by a comment beginning "Mutant:" are deliberately wrong
variants of the definition that follows them.  They are used
by no specification; substituting one for its definition must make TLC report a
violation, which shows that the property can fail.

### MailboxLedger

State: `phase` is `projects.phase`; `held` the projects with a `project_holds`
row; `mailbox` is `mailbox_jobs.state`; `runs` the `runs` table (status
`"absent"` is an unused identifier); `processes` the runs with an
`active_processes` row; `evidence` the projection in `evidence` with the run it
is bound to; `history` the newest `evidence_history` row; `accepted` the run
named by the newest acceptance.

| Action | Code |
|---|---|
| `BeginRun` | `begin_run_with_snapshot` |
| `BeginBatch` | `begin_batch_run_with_children` |
| `ClaimChild` | `claim_batch_mailbox_for_child` |
| `BeginAudit` | `begin_verification_run_with_baseline` |
| `FinishRun` | `finish_run` |
| `FinishMailboxRun` | `finish_run_for_mailbox_with_preflight_plan_and_checkpoint` |
| `FinishWithEvidence` | `finish_run_for_mailbox_with_evidence_and_mismatches_and_preflight_plan_and_checkpoint` |
| `FinishAudit` | `finish_verification_only_run` |
| `CancelHeldChild` | `cancel_held_child_run` |
| `RegisterProcess`, `ClearProcesses`, `ClearProcessesAfterReview` | `register_process`, `clear_processes`, `clear_active_processes_after_review` |
| `Recover` | `recover_abandoned_jobs_preserving` |
| `HoldProject`, `ReleaseProjectHold` | `hold_project`, `release_project_hold` |
| `Transition`, `ReopenProject` | `StateStore::transition`, `reopen_project` |
| `AcceptDifference` | `accept_verification_difference` |

An operation the code refuses changes nothing, so it is simply not enabled.
Data that decides nothing is left out: timestamps, details, counters of the
evidence, plan snapshots.  Evidence is `exact` or not, because that is what
`is_exact_match` is used for.  The projects here have no managed cutover
workflow; `validate_managed_cutover_run_admission` then passes and cutover
readiness bookkeeping touches no row.  Imports happen before the model starts
(all rows begin `queued`).

Destination identities are abstracted to two functions: `Identity` (exact
spelling, which `begin_batch_run_with_children` compares within a batch) and
`Account` (case-folded, which the lock compares).  A row whose plan lives in a
shared batch plan (`SharedPlan`) has no configuration of its own, and
`normalized_destination_lock_identity` then falls back to the mailbox name.

### BatchController

Extends the ledger's state with the scheduler's task per mailbox (`task`), the
reply channel of the task's last request (`reply`), the shared flags (`cancel`,
`failed`), the threads (`pool`), the worker thread's progress (`worker`), the
events (`events`: deferred events followed by the channel), the controller's
pending evidence and checkpoints, and `ctl`.

The life of a task is `unloaded -> waiting -> probing -> claiming -> launching ->
starting -> transferring -> verifying -> cleanup -> reporting -> settled`, with
retries going back to `waiting`.  Each arrow is an action named after the step
(`LoadTask`, `Dispatch`, `Probe`, `AwaitClaim`, `Launch`, `AwaitRegistration`,
`TransferEnds`, `Verify`, `EndAttempt`, `Settle`); `CancelWaiting`,
`WorkerPanics`, `LoaderFails` and `SweepUnresolved` are the ways out of line.
The controller's `Reduce...` actions consume the head of `events`, one per event
kind of `process_poll_events`, and perform the ledger transaction the code
performs.  `RetryDeferred` is the poll that fails to commit a terminal event
and keeps it: it is always possible (a busy database), and the only possibility
when the ledger refuses.

`Faults` chooses what the environment may do: `cancel` (operator), `hold`
(another process holds or releases the project), `ack` (an acknowledgement
arrives after its timeout), `cleanup` (temporary credential files cannot be
removed), `panic` (a worker thread panics), `loader` (a page of the queue
cannot be read), `crash` (the process dies and is restarted).  `LiveModes`
chooses between live batches (`TRUE`, `pool.live`) and dry runs, which preflight
a mailbox instead of transferring it; `StartStates` gives the mailbox states a
batch may be admitted from, restricted for live batches as
`controller/batch_admission.rs` restricts them (verified mailboxes included;
evidence of runs before the batch is not part of this instance of the ledger).

Abstractions: the rate limiter grants an admission eventually (`RateScheduler`
has it in full); one engine process stands for the processes of an attempt
(`Supervision` has the process group and the bounded event queue); events that
carry only presentation or telemetry are left out.

### RateScheduler

State: `domain` (adaptive limit, strikes, remaining cooldown and recently throttled
children of each rate domain), `inFlight` (its slots in use), `task` (stage and attempt of each
mailbox), `source`, `ready` (the fair queue: tenants in order, a queue each),
`timers`, `waiting` (`slot_waiting`), `threads` (`alive`, `busy`), `pc` (where
the loop is: filling, dispatching, waiting, ended), `reports` and `token` (the
report channel and the release channel of capacity one), `cancel`.

The loop body is cut where another thread can be seen: `Fill` (timers and
source), one `Dispatch` per popped task (`Admit`, `ParkCooling`, `AwaitSlot`),
`DispatchEnds`, then `ReceiveReport` or `ReceiveRelease` with the requeueing of
waiting tasks that follows either.  A worker thread's attempt succeeds, fails,
retries, is throttled or panics; `Release` is the drop of its `Admission`
(slots and notification), after which it waits for a verification permit or
reports.  Time windows (recent successes, quiet periods that decide which level
of the hierarchy is penalised) are nondeterministic; limits are the integer parts
of the code's floating-point ones, exactly, since admission floors them and the
integer parts of x/2 and x+1 depend on that of x alone.

`Fill` reads as many tasks as the code's loop would (`Loads`: up to the lookahead
of ready tasks or the bound `MaxParked` on tasks held in memory) and places them
one by one (`PlaceAll`); the waiting tasks go back last one first
(`PushAllFront`).  Both are recursive functions over the sequence of tasks, so
that what they do to the queues can be proved (section 4).

Left out: the credential level and the destination's chain (a task's path is
global, provider, tenant, mailbox), the bound on the number of domains, the
launch budget, which delays a release and never refuses it, and the delay a server
asks for, which may lengthen a cooldown past its cap (`.max(floor)`,
`controller/rate_domains.rs:592`) and, like any cooldown, only delays.  `Release`
is `release_slots` and the `try_send` after it in one step; a scheduler that runs
between them sees free slots and later a token it did not need.

### Cutover

State: the project's `phase`, `flow` (stage, approval, age of the attestation
and the stage it was made in), per mailbox its state, active run, projected
`evidence` with its grade, the `newest` evidence, the acceptance, and `ready`
(the newest readiness event, its age and the jobs whose runs withdrew it).  The
evidence grade is what `final_verification_evidence_summary` tells apart: none,
from an earlier stage, final but without the folder observations it needs,
final.  The run operations appear with everything they do to readiness; what
they do to the rest of the ledger is in `MailboxLedger`.  An audit needs a
completed transfer as its baseline, with or without evidence
(`core/runs.rs:128`); which runs completed is not kept here, so `BeginAudit` is
possible more often than in the code.  `covered` is a history
variable: the run started under an attestation made in Verification.

### Supervision

State: the host (`leader` and `helper` per pid, `pipe` to the gatekeeper), the
supervising thread (`worker`), the bounded event queue (`events`), the answer to
the registration (`ack`), the durable `record`, `review`
(process_review_required), `ctl` (controller down, reconciling or ready), the
cancel flag, and `parentDeath`: whether the platform kills the leader with its
parent, as Linux does.

`Spawn` is either `durable` or not.  `run_capture_lines` with `durable: None`
(`runner/process.rs:411-422`) releases an engine binary that was never registered: the
Dovecot destination preflight (`runner/verification.rs:451`) and version probes
(`runner/engine_identity.rs:26`).  Such a process, a `"probe"`, asks for a version
or looks up the destination's user; it is never on record, and when the
controller dies nothing but the parent-death signal ends it.  `EngineOnRecord` is therefore about the
engines that are registered, and says of a probe that it is its worker's until the
controller crashes.

System calls that follow each other directly are one step; a gatekeeper ends on
SIGTERM, an engine and its helpers may ignore it, SIGKILL is not ignored: the error
the code returns for a group that survives even that (`process.rs:1618-1622`,
`process.rs:1741-1751`) is left out.  A pid
is not reused while a worker still waits for its group, but may be at any time
afterwards.  `AcknowledgeReview` is the operator confirming that nothing is
left, assumed truthful.  Windows job objects are not modelled.

### FencedLease and FencedExecution

State: `project` (plan revision and approval), `asg` (the assignment rows with
token, holder and remaining time), `revoked`, `agent` (what each agent does,
its local deadline, its outstanding call with age and answer), `engine`
(running, or orphaned by a dead agent), and `late`: requests that time out at
the agent but still arrive.  A call is sent, served and answered in separate
steps, each of which time may delay up to `HttpTimeout`; `CallFails` loses it
with or without effect.  Expired leases become `needs_reconciliation` after the
grace, and only an operator who has checked that no orphan runs requeues them
(`OperatorChecked`): that is the one assumption on people, and
`requeue_assignment` asks for it.

`FencedExecution` keeps per assignment the epoch, the running engines and the
recorded outcome: an engine starts only in the newest epoch and alone, a new
epoch begins only when nothing runs, one outcome is recorded, by the newest
epoch.  `ImplementsFencedExecution` maps the service's token, the engines'
tokens and the recorded result to it.

### Outbox

State: `rows` (state, endpoint, attempts, owner, remaining lease and backoff),
`worker` per delivering process (among other things the endpoint `to` whose digest
the round uses and the `url` that a POST would read), `received` (endpoints that
accepted each delivery), `posts` (requests made), `rotated` (history: which URL
was replaced by which during a round).  One round of `deliver_webhook_once` is
`ReadStatus`, `Enqueue`, `Bind`, and then `Claim`, `Post`, `Mark` repeatedly.  A
post is accepted or not and answered or not, independently; a process may die
anywhere; `lease_until` and the HTTP timeouts are counted in ticks with the
code's order (a request's budget is shorter than the lease).  `Rotate` replaces
the file of `MAILSWIFTSYNC_WEBHOOK_URL_FILE` under a running round: the round took
its digest at the start, `post_json` reads the file again for every request.  Left
out: the project scope of a round, and its bound of 100 claims
(`cli/maintenance.rs:43`), after which the next round goes on.

### VerificationStage

State: `rows`, `cursor` and `identity` are the staging database
(`staged_messages`, `stage_cursors`, `stage_metadata`); `scan` the locals of the
running attempt (where it is, the session's CONDSTORE, the folders left, the
folder's snapshot and position, tries and reconnects used); `inventory` the
folder lists of this attempt; `server` what both accounts hold; `plan` the plan
in force.  `joint` is a history variable: at the LIST that opens the
destination's revalidation, the staged rows were exactly the contents of the listed
folders of both accounts.

| Action | Code |
|---|---|
| `OpenStage` | `open_durable` with `bind_identity`, `begin_verification_attempt` |
| `ListAccount`, `FinishAccount` | `fetch_tls_account_messages_with_sink` before and after its loop |
| `SelectFolder`, `FetchPage`, `EndScan` | `fetch_mailbox_with_existing_stream`: SELECT with reuse or resumption, `enumerate_uid_pages`, second SELECT and completion, with the stability retry |
| `SessionBreaks`, `FolderFails`, `AttemptFails` | the classes of `MailboxFetchError`, with rollback and reconnects |
| `Relist`, `Examine` | `revalidate_tls_account_snapshots`, in the order source, destination, source |
| `CommitEvidence` | the controller's terminal commit and `cleanup_durable_stage`, which may fail |
| `Crash` | the process dies; the stage is what its last transaction left |
| `Deliver`, `Expunge`, `SetFlag`, `RemoveFolder`, `RenameFolder`, `RecreateFolder`, `Replan` | the users of both accounts, and the operator |

A message is its plan, UIDVALIDITY and UID; a row has that, the flags if the
folder's MODSEQ is tracked, and whether the fingerprint of the body is staged.  The
servers promise little: an expunge need not raise HIGHESTMODSEQ, a recreated
folder may have every counter but UIDVALIDITY as before, a folder renamed away and
back has all of them as before, a new session may have
gained or lost CONDSTORE.  A folder is renamed to a name outside `Folders`, and
one that does not come back counts as gone; renaming one listed folder to the name
of another is left out.  A folder that is selected can be read on under its new
name.  The second SELECT of a scan and `complete_mailbox` are one step (`EndScan`).
A page's UID enumeration and its metadata are one
step; a message that vanishes between them is an error of the folder, which
`FolderFails` has.  Left out: folders without MODSEQ in a session with it,
excluded folders, ephemeral stages, limits, and the matching of the rows.

`EvidenceWasHeld` says that evidence does not mix states of the mail: at one moment
of the attempt the listed folders of both accounts held exactly the staged rows.
It rests on what IMAP promises of counters: UIDs and MODSEQs are never used again
under one UIDVALIDITY, so a snapshot that is the same before and after means the
same contents, and the source round after the destination's makes the two
intervals overlap.  It is no atomic snapshot of the two accounts, which
`docs/verification-envelope.md:432` and `:483-485` rightly disclaim: the rows were
read one by one, the moment is not one at which anything was read, and the
property says nothing of
* names: a folder renamed away and back between two LISTs had another name at that
  moment, and no counter shows it (with "every listed folder exists" added to the
  property, TLC refutes it in this way);
* folders that were not listed, such as one that appears and is removed between two
  LISTs;
* any later moment: either account may have changed before the evidence is
  committed.

The first source round is not needed for it; it only rejects a changed source
earlier.

## 3. Runs

| Run | Instance | Shows |
|---|---|---|
| `ledger` | 1 project, 2 mailboxes of one destination account, 3 runs | `TypeOK`, `OneOwner`, `NoOrphanChild`, `VerifiedIsProven`, `CompleteIsVerified`, `ProcessHasOwner`, `DestinationExclusive` (the rows agree on the lock identity), `TerminalIsFinal` |
| `batch_safety` | 2 mailboxes, 2 threads, 1 retry, every fault but late acknowledgements (2,475,748 states) | `TypeOK`, `EngineHasRunningChild`, `CommitsLastAttempt`, `NothingLeftRunning` |
| `batch_settles` | 2 mailboxes, ready or needing a delta, 1 thread, 1 retry, cancellation, late acknowledgements, live and dry runs (244,933 states) | `BatchSettles` |
| `rates` | 3 mailboxes, 2 tenants, 2 providers (one with ceiling 1), 2 transfer slots, 1 verification permit, 1 retry, 2 faults (500,743 states) | `TypeOK`, `CeilingHeld`, `NeverUnschedulable`, `NoLostWakeup`, `ScheduleCompletes` |
| `cutover` | 2 mailboxes, attestation window of 1 tick (293,725 states) | `TypeOK`, `ReadyMeansProven`, `CompletedIsProven`, `CutoverCompletes` |
| `supervision` | 2 pids, 4 process starts, 2 crashes, event queue of 2 (638,258 states) | `TypeOK`, `EngineOnRecord`, `ForeignUntouched`, `RecordHasRun`, `CancelEndsGroup` |
| `lease` | 2 workers, 1 assignment, 2 epochs, 2 plan revisions, 1 late request (1,137,178 states) | `TypeOK`, `BelievedLeaseIsHeld`, `EngineEndsInGrace`, `ImplementsFencedExecution` |
| `outbox` | 2 processes, 2 endpoints, 1 lifecycle event and a snapshot per endpoint, 2 attempts, 2 faults (a lost answer, a crash, a replaced URL file; 863,064 states) | `TypeOK`, `OnePostAtATime`, `StraysOnlyByRotation`, `PostsBounded`, `OutboxDrains` |
| `stage` | 2 folders per account, 2 UIDs, pages of 1, 2 attempts, 2 changes, 1 reconnect, a metadata and a body-hash plan (403,993 states) | `TypeOK`, `EvidenceWasHeld`, `CompletesTruthfully`, `AttemptEnds` |
| `batch_hold`, `supervision_orphan`, `rates_fair` | smallest instance each | a counterexample: see section 5 |

**Bounds.**  Three run identifiers hold a parent and two children, or a batch,
a single run and an audit.  Longer histories on one mailbox (transfer, audit,
acceptance, reopen, transfer again) are covered by the proofs of section 4,
which have no bound.  Two mailboxes are what interference between children
needs; one thread for two mailboxes is what a batch needs so that one child is
claimed while the other waits, two threads so that two are in flight.
One retry gives an attempt a predecessor, whose evidence must not be committed;
late acknowledgements together with all the other faults were checked once for
the four invariants of `batch_safety` (9,478,520 states).  In `rates`,
tenant a's two mailboxes compete for one provider slot while b uses the other,
so a task waits for a slot that is released early, late, or by a panic;
`MaxParked` is at least 256, which no run reaches and the proofs cover;
`MaxOvertaken` only bounds a history variable of `rates_fair`.  In `cutover` a
window of one tick already lets an attestation lapse between any two steps.  In
`supervision` two pids let one be reused while the other is in use, four starts
hold two engines and two foreign processes, two crashes hold a crash during
recovery.  In `lease` a tick
is ten seconds of the shortest lease (30 s, renewed every 10 s, an engine
stopped within 10 s); `HttpTimeout` and `Grace` are 2 and 4 instead of the 3 and
6 that 30 s and 60 s would be, within the assumptions `LeaseConstants`, and the
full values were checked once as well (2,144,238 states).  Two epochs are what
an overlap needs.  In `outbox` two attempts separate the last
from the first, and two faults let the retry fail as well.  In `stage` one folder
with a message and one that is created later, two changes (one hides the other: an
expunge and a delivery, a flag set and reset, a removal and a re-creation, a rename
away and back) and two
attempts are what taking over a stale stage needs; pages of one message put a
page boundary inside a folder of two.  Without `AttemptEnds` it was also checked
with two messages and three UIDs (853,580 states) and with a message in each of
the folders (8,128,708 states).

**Symmetry** is used for run identifiers, mailboxes and workers, never in runs
with liveness properties.

**Deadlock** is checked except in `cutover` (a completed project has nothing
left to do once its clock stops) and `rates`, `rates_fair` (the schedule ends).

**Fairness.**  `BatchController!Fairness` assumes that worker threads proceed
(engines and probes end by their timeouts, the rate limiter's deadlines pass),
that the scheduler's thread proceeds, and that the poll loop keeps polling, a
GUI timer or the headless loop.  Nothing is assumed of the operator or of
failures, and `RetryDeferred` needs no fairness because `Reduce` is fair: a
terminal event that *can* be committed eventually is.  `RateScheduler` assumes
the same of the scheduler thread, of the attempts together and of time.
`Supervision` assumes that the worker thread, the poll loop and a restarted
controller proceed; it assumes nothing of engines, helpers or crashes.
`Outbox` assumes that time passes, that a process takes the steps of its round,
and that every endpoint's round begins again and again (`--watch`, or the timer
that starts the command), strongly because another endpoint's round may keep a
process busy.  `Cutover!FairSpec` is about people: operators keep attesting,
starting what still needs a run, and advancing, and from some point on
(`<>[][Progress]_vars`) nothing else interferes, while attestations may keep
lapsing.  What it shows is that no earlier history, however bad, leaves the
workflow unable to complete.  `VerificationStage` assumes that the verification thread runs: every command is
answered or times out (`SessionBreaks`, which needs no fairness).  `AttemptEnds`
then does not rely on the execution deadline.  `FencedLease` has no liveness property: an
assignment may need an operator for ever.

## 4. Proofs

Every theorem has the form `Spec => []P` (or `Spec => P` for an action property
and a refinement) and holds for every value of the constants that satisfies the
module's `ASSUME`.  Each rests on an inductive invariant, proved in the same way:
it holds initially, every action preserves it (one lemma per part of the
invariant, one step per action), it implies the property.  Every inductive
invariant was first checked by TLC as an invariant of the run named below.

| Module | Theorems (property) | Inductive invariant | Run |
|---|---|---|---|
| `MailboxLedgerProofs` | `LedgerTypeOK`, `OneOwnerAlways`, `NoOrphanChildAlways`, `VerifiedIsProvenAlways`, `CompleteIsVerifiedAlways`, `ProcessHasOwnerAlways`, `TerminalIsFinalAlways`, `DestinationExclusiveAlways` | `LedgerInv` | `ledger` |
| `OutboxProofs` | `OutboxTypeOK`, `OnePostAtATimeAlways`, `StraysOnlyByRotationAlways`, `PostsBoundedAlways` | `OutboxInv` | `outbox` |
| `FencedLeaseProofs` | `LeaseTypeOK`, `BelievedLeaseIsHeldAlways`, `EngineEndsInGraceAlways`, `FencedExecutionImplemented` | `LeaseInv` | `lease` |
| `SupervisionProofs` | `SupervisionTypeOK`, `EngineOnRecordAlways`, `ForeignUntouchedAlways`, `RecordHasRunAlways` | `SupervisionInv` | `supervision` |
| `CutoverProofs` | `CutoverTypeOK`, `ReadyMeansProvenAlways`, `CompletedIsProvenAlways` | `CutoverInv` | `cutover` |
| `VerificationStageProofs` | `StageTypeOK`, `EvidenceWasHeldAlways`, `CompletesTruthfullyAlways` | `StageInv` | `stage` |
| `BatchControllerProofs` | `BatchTypeOK`, `EngineHasRunningChildAlways`, `CommitsLastAttemptAlways`, `NothingLeftRunningAlways` | `BatchInv` | `batch_safety` |
| `RateSchedulerProofs` | `CeilingHeldAlways`; `SchedulerInvariant`, `RateTypeOK`, `NeverUnschedulableAlways`, `NoLostWakeupAlways` | `LimiterInv`; `LimiterInv /\ SchedulerInv` | `rates` |

### Ledger

`DestinationExclusiveAlways` has the hypothesis `LockIdentitiesAgree` (rows of one
account compute one lock identity), which the code does not guarantee for rows of
shared plans (section 5).  None of the invariants is inductive alone.  `LedgerInv`
is their conjunction with
* `RowsOK`: the shape of the `runs` rows: known kinds, a child's parent is a
  present row of kind `parent`, parents have no mailbox, only children are ever
  queued;
* `ProcessIsTransfer`: only single and child runs own processes; with
  `ProcessHasOwner` it is `ProcessOwned`.

| Lemma | Preserves | From |
|---|---|---|
| `TypeStep`, `RowsStep` | `TypeOK`, `RowsOK` | `TypeOK`, `RowsOK` |
| `OwnerStep` | `OneOwner` | `TypeOK`, `RowsOK` |
| `OrphanStep` | `NoOrphanChild` | `TypeOK`, `RowsOK`: a parent ends only when no child is queued or running, and recovery takes children with their parent |
| `ProcessStep` | `ProcessOwned` | `TypeOK` |
| `VerifiedStep` | `VerifiedIsProven` | `TypeOK`, `RowsOK` |
| `CompleteStep` | `CompleteIsVerified` | `TypeOK`, `RowsOK`, `OneOwner`: a run that ended in a complete project could move a verified mailbox |
| `LockStep` | `DestinationExclusive` | `TypeOK`, `LockIdentitiesAgree` |

(each also uses the invariant it preserves).  The assumptions are
`LedgerConstants` only.

### Outbox

`OutboxInv` is `TypeOK` with `RoundOK` (what a process has in hand at each step of
its round), `LeaseHeld`, `AcceptedOK`, `CountOK` and `StraysOnlyByRotation`.  The
heart is `LeaseHeld`: a process that is posting owns the row's lease, and that
lease has counted down no more than the request has aged.  Since a request is
given up after `PostBudget`, less than `Lease`, no other process can reclaim the
row while a post of it is on its way; hence one post at a time.  `CountOK` bounds
the posts of a row by its attempts, plus the one in flight; the endpoint of a row
is bound once, and a round's URL is that endpoint until the file is replaced
(`RoundOK`), so a post that goes elsewhere is accounted for by `rotated`.

### Leases and the fleet

`LeaseInv` is `TypeOK` with `RowsOK` and `AgentsOK` (the shape of rows and agents,
and the bounds that tie an agent's local deadline to the service's expiry),
`EnginesOK` (an engine belongs to the newest grant of its assignment, still leased
to its agent or waiting for an operator, and an assignment has at most one) and `ReportsOK` (a run that is reported is over and
its token spent, also when the report is still on its way).  `FencedExecutionImplemented` is the refinement:
initial states map to initial states of `FencedExecution` and every step of the
service, of an agent, of the network and of time maps to a step of it or leaves
its variables alone.  It needs `LeaseInv`: the completion of an epoch is a step of
the abstract specification only because no second result of it can be accepted.

### Supervision

`SupervisionInv` is `TypeOK` with `StartsOK` (a start time names one process),
`WorkerOK`, `QueueOK`, `LiveOK`, `ProbeOK`, `ControlOK`, `RecordHasRun` and
`ForeignUntouched`.  A registration is the last event an attempt queues before it
waits, so when it is answered nothing queued before it remains (`QueueOK`); a live
engine is on record and supervised, or on record and under review, or the
controller is away and will find the record (`LiveOK`); a probe or its gatekeeper
is its worker's own, unless the controller has crashed (`ProbeOK`).  A pid that is reused
carries another start time, so what is signalled is what was recorded.

### Cutover

`CutoverInv` is `TypeOK` with `StageOK` (an approved workflow's phase follows its
stage), `NotBeforeVerification` (nothing counts as final earlier: no run, no
evidence, no readiness, no attestation), `CoveredOK` (in Verification an
attestation in force was made there, and whatever started there started under
one) and the two properties themselves: completion is taken from a readiness that
is still true.  The theorems are about `Spec`, which `FairSpec`
implies.

### Verification stage

`StageInv` is `ServerOK` and `ShapeOK` (types, and the counters of a folder bound
what it holds) with `StageTrue`, `ScanOK`, `FreshOK`, `ListedOK` and `JointOK`.
The argument:
* counters never come back (`NeverComesBack`): a folder that has left the snapshot
  under which its rows were staged never answers that snapshot again (`Past`);
* while it does answer it, every staged row is a message of the folder
  (`RowsTrue`), so as many true rows as there are messages are all the messages
  (`Staged`, by cardinality);
* a folder that no longer answers its snapshot when the destination is relisted is
  still to be examined and will be found out (`JointOK`), so for an attempt that
  reaches evidence the rows of both accounts were current together at that LIST.

A rename changes none of the counters and none of the messages, so it changes no
part of the argument; that is why the property is about contents and not names.

`CompletesTruthfullyAlways` is the action property: a folder is marked complete
only with all its rows.  The assumptions are `StageConstants` and
`NoCursorIsNone` (the value for "no cursor" is no cursor).

### Batch controller

`BatchInv` is `TypeOK` with `RowsOK`, `ProcessesOK`, `WorkerOK`, `ClaimsOK`,
`QueueOK`, `PendingOK` and `ThreadsOK`.  The argument:
* the identity columns of the batch's rows never change, a mailbox is running
  exactly while its child is, and an unfinished child has a running parent
  (`RowsOK`).  The effect of each ledger transaction the controller uses
  (`ClaimEffect`, `CommitEffect`, `ParentEffect`, `RecoverEffect`) is proved from
  `MailboxLedger`'s own definition of it;
* a `job_finished` event is queued only when nothing will work on its mailbox any
  more (`Over`), so a task that holds its claim and is still scheduled keeps a
  running child (`ClaimsOK`): this gives `EngineHasRunningChild`;
* evidence and checkpoints are sent only with a result that is not retried
  (`Last`), so whatever is queued or pending is of the attempt that ends the task
  (`QueueOK`, `PendingOK`): this gives `CommitsLastAttempt`;
* the scheduler's thread ends after every task has been let go, and `finished` is
  its last event, so the parent ends after its children; a process is on record
  for a running child only, and recovery abandons what it keeps (`WorkerOK`,
  `ProcessesOK`): this gives `NothingLeftRunning`;
* there are no more attempts under way than living threads (`ThreadsOK`, by
  cardinality), so a panic never takes the count below zero.

Every step of a worker thread is an `Advance` of its task (one lemma per action),
and `AdvanceKeeps` shows once that an `Advance` preserves the invariant.  The
assumptions are `BatchConstants`; a batch has finitely many mailboxes.

### Rate limiter and scheduler

`LimiterInv` is `LimitsOK` (a limit is at least one and at most the ceiling:
a credit is capped, a halving stops at one), `CountsOK` (the count of a domain is
at most its ceiling and at least the number of attempts that hold a slot of it)
and `TasksOK`.  It says nothing of the queues: the ceiling holds whatever order the
scheduler brings tasks in.

`SchedulerInv` is about the queues, and inductive together with `LimiterInv`:
* `QueuesOK`: the source, the fair queue, the timers, the waiting tasks and the
  report channel each hold tasks of their own stage only, each once, and a tenant is in the
  round once and only with a task.  Without it a task could be dispatched twice;
* `ThreadsOK`: `busy` is the number of tasks from dispatch until their report is
  taken, never more than the living threads, and every report not yet taken is in
  the channel;
* `SlotsHeld`: a domain counts no slot that no attempt holds.  With `CountsOK` the
  count *is* the number of holders, through panics and early releases.  So a
  saturated domain, whose limit is at least one, has a holder, and `busy` is not zero:
  this gives `NeverUnschedulable`, the claim of the comment at
  `controller/batch_scheduler.rs:402`;
* `WakeupsOK`: every waiting task lacks a slot, or the release token is in its
  channel, or a thread is about to give slots back and will send one.  A task is
  parked only when it lacks a slot; slots are given back only with a token; a
  credit, the one other way to gain a slot, comes with the release of the attempt
  that earned it; taking a token, or a report, puts every waiting task back.  This
  gives `NoLostWakeup`;
* `AttemptsOK` (a retry is asked for only when one is left, and a loaded task has no
  resume deadline) and `FlagsOK`.

What the queue operations do is proved for queues of every length.  The
functions that place and put back a whole sequence of tasks are recursive; that
they are defined (`IterationExists`) and that every prefix of them keeps the
queues well formed (`PlaceAllPlaces`, `QueuesPushAll`) is an induction on the
position, which is stated for a *set* of positions (`NatSetInduction`) and follows
from the least element of a set of numbers (`NatMin`), itself from the library's
well-foundedness of `<`.  The assumptions are `SchedulerConstants`: in particular
the source yields every task once, and a task's lineage ends in the task itself.

### Only model-checked

* Liveness under fairness, which this prover does not do: `BatchSettles`,
  `OutboxDrains`, `CancelEndsGroup`, `CutoverCompletes`, `ScheduleCompletes`,
  `AttemptEnds`.

Every invariant and action property of a passing run is proved.

## 5. Findings

Each of these is a run whose property TLC refutes.

1. `batch_hold`: a hold placed while a batch waits cancels the waiting children
   but does not mark the batch as failed; the batch then asks to finish as
   `completed`, the ledger refuses because a child is not completed, and the
   ending is retried forever.
2. `supervision_orphan`: startup reconciliation decides from the recorded leader
   alone.  An engine forks a helper, the controller crashes and the leader dies
   with it; the record is cleared and the mailbox becomes retryable while the
   helper, a member of the recorded group, still runs.  The README and the
   production runbook promise that recorded groups are ended first.
3. `rates_fair`: tasks waiting for a slot are put back last parked first, which
   also reverses the order of their tenants.  Whenever slots and not threads are
   the limit (verification workers, provider or tenant ceilings, a halved
   limit), the tenant whose task was parked last is first again after every
   release.  With the waiting tasks put back in order, at the back, the same
   invariant holds on the same instance (121,439 states).

More ways for a batch not to settle are the disagreement of `batch_hold` reached
through other inputs.  They have no run of their own; TLC refutes `BatchSettles`
when `batch_settles.cfg` is changed as said:

* `StartStates = {"attention"}`, also without any fault: a live batch admits
  mailboxes in `attention`, `completed`, `failed`, `cancelled` and the verified
  states (`controller/batch_admission.rs:185`), but for most of them the ledger has
  no edge to the state that an unclaimed mailbox is reported in: `failed` after a
  credential refresh or readiness probe that failed for good, `cancelled` by the
  operator (`core/state.rs:304-322`).  The refused ending is put back at the head of
  the queue and retried on every poll (`controller/poll_events.rs:511`).  For single
  runs `controller/poll_completion.rs:188` has the remedy and its reason:
  "An invariant rejection is deterministic: retrying the same write would hang the
  controller forever."  `ready`, `delta_required` and `verification_difference` have
  both edges; `batch_settles` is about the first two;
* `Faults = {"cleanup"}`: evidence is pending when the removal of temporary files
  fails; the failed ending takes the evidence path, which only accepts completed
  runs (`controller/batch_completion.rs:43`);
* `Faults = {"panic"}`: an unclaimed child is reported as `attention`, whose run
  status `completed` a queued child cannot take;
* `Faults = {"loader"}`: a page that cannot be loaded leaves children queued, and
  the parent's ending is refused while they are.

Likewise `DestinationExclusive` fails when two projects hold one account, one row
in a shared batch plan and the other with its own configuration: they compute
different lock identities (`core/policy.rs:62`).

In `Outbox` the stronger invariant `\A i \in Ids : received[i] \subseteq
{rows[i].endpoint}` is what the module comment of `core/webhook_outbox.rs:4-6`
says ("the outbox binds a queued event to an endpoint digest so a retry cannot
silently go to a different destination").  TLC refutes it in seven states: a round
takes its digest (`cli/maintenance.rs:22`) and binds a row, the URL file is
replaced, and `post_json` reads it again (`webhook.rs:111`, `webhook.rs:421-431`): the row goes
to the new endpoint and is recorded as delivered.  `StraysOnlyByRotation` is what
holds.

Observations made while modelling, which no run decides:

* `revoke_worker`'s comment says that leases return to the queue; the code keeps
  them until they expire, which is what `EngineEndsInGrace` needs.
* An agent whose completion was recorded but whose answer was lost retries, gets
  a conflict and reports the lease as lost.
* `create_assignments` does not require one assignment per mailbox; exclusion is
  per assignment.
* A capacity failure on the last attempt of a mailbox does not penalise its rate
  domains (`controller/batch_work_item.rs:1289`).
* A snapshot's event id is a digest of endpoint, scope and content, inserted
  with `INSERT OR IGNORE`: a status that returns to an earlier value is not sent
  again, and a dead-lettered snapshot is never queued again.
* Comments that say that nothing staged outlives its attempt
  (`core/message_staging.rs:344`, `core/message_staging.rs:826`,
  `runner/verification.rs:66` and the end of `run_imap_message_verification`)
  are older than the reuse of complete folders and the resumption of prefixes
  which the code has and `docs/architecture.md` describes; `EvidenceWasHeld`
  shows that the reuse is sound.
* Domains beyond the bound of the rate-domain table (4096) are admitted without
  accounting (`controller/rate_domains.rs:380`), by design.
* Renewing a lapsed attestation publishes readiness again from the evidence that
  is there, without a new scan, as documented.

## 6. Plan

1. *(done)* `LedgerPolicy`, `MailboxLedger`, its proofs.
2. *(done)* `BatchController` over the ledger.
3. *(done)* `Cutover`, `FencedLease` with `FencedExecution`, `Outbox`,
   `Supervision`, `RateScheduler`, `VerificationStage`.
4. *(done)* Proofs of `Outbox`, `FencedLease` with its refinement, `Supervision`,
   `Cutover`, `VerificationStage`, `BatchController` and `RateScheduler`.
5. The matching of staged messages, transfer passes, queue facts and waves,
   the audit chain of the control API.

Not modelled, and why: the matching of staged messages
(`core/message_verification/staged.rs`) is a pure algorithm on two multisets of
messages with several identity keys and needs a module of its own; transfer
passes, queue facts and waves are projections of the ledger kept by triggers and
come after it; the control API's authorisation, OAuth and JWT handling is
stateless checking of requests; connecting and parsing in the IMAP probes are protocol I/O; the launch
budget only delays; Windows supervision needs a model of job objects; user
interface, reports, imports, localisation, installers and diagnostics only
format or parse; HTTP, TLS, keyring and SQLite themselves are external.
