--------------------------- MODULE BatchController ---------------------------
(***************************************************************************)
(* One batch execution from the moment its parent and child runs have been *)
(* admitted: the scheduler and its worker threads (controller/             *)
(* batch_scheduler.rs, batch_work_item.rs, batch_worker.rs), the event     *)
(* channel, and the polling controller that owns the durable ledger        *)
(* (poll_events.rs, poll.rs, poll_completion.rs).  Workers never write the *)
(* ledger: they send events and wait for the controller's reply.  Every    *)
(* ledger change is a transaction of MailboxLedger.                        *)
(*                                                                         *)
(* Events that only carry presentation or telemetry are left out, the rate *)
(* limiter grants an admission eventually, and one engine process stands   *)
(* for the processes of an attempt.                                        *)
(***************************************************************************)
EXTENDS LedgerPolicy, Sequences, FiniteSets

CONSTANTS
    Project,
    Mailboxes,      \* the mailboxes of this batch
    StartStates,    \* the states in which the batch found them
    LiveModes,      \* live migration (TRUE) or dry run (FALSE)
    Concurrency,    \* worker threads
    RetryCount,     \* bound: retries of one mailbox
    Faults,         \* what the environment may do
    NoRun, NoJob, NoProject

FaultKinds == {"cancel", "hold", "ack", "cleanup", "panic", "loader", "crash"}

(* A verified mailbox may be run again too; evidence of its earlier runs is  *)
(* not part of this instance of the ledger.                                  *)
ASSUME BatchConstants ==
    /\ Mailboxes # {} /\ IsFiniteSet(Mailboxes)
    /\ StartStates \subseteq {s \in MailboxStates : MayStart(s)}
    /\ LiveModes \subseteq BOOLEAN /\ LiveModes # {}
    /\ TRUE \in LiveModes => StartStates \cap {"queued", "preflight"} = {}
    /\ Concurrency \in Nat \ {0} /\ RetryCount \in Nat
    /\ Faults \subseteq FaultKinds

Parent == <<"parent", NoJob>>
Child(m) == <<"child", m>>
RunIds == {Parent} \cup {Child(m) : m \in Mailboxes}

VARIABLES
    phase, held, mailbox, runs, processes, evidence, history, accepted,
    task,       \* the scheduler's MailboxTask of each mailbox
    reply,      \* the last answer sent on the task's reply channel
    cancel,     \* the shared cancellation flag
    failed,     \* the shared failure flag
    pool,       \* [live, alive, panicked, terminal, swept] of the worker thread
    worker,     \* "scheduling", "sweeping" or "done"
    events,     \* deferred events followed by the channel, oldest first
    pending,    \* pending_batch_evidence
    checkpoint, \* pending_batch_checkpoints: attempt that produced it, 0 if none
    ctl         \* "running", "advancing", "idle" or "crashed"

ledger == <<phase, held, mailbox, runs, processes, evidence, history, accepted>>
workers == <<task, cancel, failed, pool, worker>>
controller == <<reply, events, pending, checkpoint, ctl>>
vars == <<ledger, workers, controller>>

L == INSTANCE MailboxLedger
        WITH Projects <- {Project}, ProjectOf <- [m \in Mailboxes |-> Project],
             Identity <- [m \in Mailboxes |-> m], Account <- [m \in Mailboxes |-> m],
             SharedPlan <- {}

-----------------------------------------------------------------------------
Stages == {"unloaded", "waiting", "probing", "claiming", "launching", "starting", "transferring",
           "verifying", "cleanup", "reporting", "settled", "dead", "dropped"}

(* Stages in which a worker thread holds the task. *)
Busy == {"probing", "claiming", "launching", "starting", "transferring", "verifying", "cleanup",
         "reporting"}

Results == {"none", "ok", "delta", "transient", "permanent", "cancelled"}

Replies == {"none", "claimed", "held", "refused", "registered", "unregistered", "done"}

EvidenceKinds == {"none", "exact", "weak", "difference"}

NoPending == [kind |-> "none", attempt |-> 0]

ReportStates == {"ready", "completed", "delta_required", "failed", "cancelled", "held",
                 "attention"}

Event(kind, m, value, attempt) ==
    [kind |-> kind, job |-> m, value |-> value, attempt |-> attempt]

TypeOK ==
    /\ L!TypeOK
    /\ task \in [Mailboxes -> [stage : Stages, attempt : 0..RetryCount,
                               claimed : BOOLEAN, result : Results]]
    /\ reply \in [Mailboxes -> Replies]
    /\ cancel \in BOOLEAN /\ failed \in BOOLEAN
    /\ pool \in [live : LiveModes, alive : 0..Concurrency, panicked : BOOLEAN,
                 terminal : SUBSET Mailboxes, swept : SUBSET Mailboxes]
    /\ worker \in {"scheduling", "sweeping", "done"}
    /\ \A i \in 1..Len(events) : events[i].kind \in
          {"claim", "started", "ended", "evidence", "checkpoint", "job_finished", "finished"}
    /\ pending \in [Mailboxes -> [kind : EvidenceKinds, attempt : 0..RetryCount + 1]]
    /\ checkpoint \in [Mailboxes -> 0..RetryCount + 1]
    /\ ctl \in {"running", "advancing", "idle", "crashed"}

(* The state begin_batch_run_with_children leaves behind. *)
Init ==
    /\ held = {}
    /\ mailbox \in [Mailboxes -> StartStates]
    /\ runs = [r \in RunIds |->
            IF r = Parent
            THEN [kind |-> "parent", project |-> Project, job |-> NoJob,
                  parent |-> NoRun, status |-> "running"]
            ELSE [kind |-> "child", project |-> Project, job |-> r[2],
                  parent |-> Parent, status |-> "queued"]]
    /\ processes = {}
    /\ evidence = [m \in Mailboxes |-> L!NoEvidence]
    /\ history = [m \in Mailboxes |-> L!NoEvidence]
    /\ accepted = [m \in Mailboxes |-> NoRun]
    /\ task = [m \in Mailboxes |-> [stage |-> "unloaded", attempt |-> 0,
                                    claimed |-> FALSE, result |-> "none"]]
    /\ reply = [m \in Mailboxes |-> "none"]
    /\ cancel = FALSE /\ failed = FALSE
    /\ \E live \in LiveModes :
          /\ pool = [live |-> live, alive |-> Concurrency, panicked |-> FALSE,
                     terminal |-> {}, swept |-> {}]
          /\ phase = [p \in {Project} |-> IF live THEN "preflight" ELSE "discovery"]
    /\ worker = "scheduling"
    /\ events = <<>>
    /\ pending = [m \in Mailboxes |-> NoPending]
    /\ checkpoint = [m \in Mailboxes |-> 0]
    /\ ctl = "running"

Running == ctl = "running"

Stage(m) == task[m].stage

Live == pool.live

Send(e) == events' = Append(events, e)

Move(m, stage) == task' = [task EXCEPT ![m].stage = stage]

(* BatchAttemptRunner::terminal: the durable ending of a task is requested   *)
(* from the controller, and the thread waits for its acknowledgement.        *)
Report(m, state) ==
    /\ Move(m, "reporting")
    /\ Send(Event("job_finished", m, state, task[m].attempt + 1))
    /\ reply' = [reply EXCEPT ![m] = "none"]

-----------------------------------------------------------------------------
(* The scheduler: run_batch_schedule *)

(* JobSource::next_task; a cancelled scheduler still reads its source. *)
LoadTask(m) ==
    /\ Running /\ worker = "scheduling"
    /\ Stage(m) = "unloaded"
    /\ Move(m, "waiting")
    /\ UNCHANGED <<ledger, cancel, failed, pool, worker, controller>>

(* A page that cannot be loaded ends the source: the jobs still in it are    *)
(* never scheduled.                                                          *)
LoaderFails ==
    /\ Running /\ worker = "scheduling" /\ "loader" \in Faults
    /\ \E m \in Mailboxes : Stage(m) = "unloaded"
    /\ task' = [m \in Mailboxes |-> IF Stage(m) = "unloaded"
                                    THEN [task[m] EXCEPT !.stage = "dropped"] ELSE task[m]]
    /\ failed' = TRUE
    /\ UNCHANGED <<ledger, cancel, pool, worker, controller>>

(* A free thread takes a task whose timer, if it had one, is due. *)
Dispatch(m) ==
    /\ Running /\ worker = "scheduling" /\ ~cancel
    /\ Stage(m) = "waiting"
    /\ Cardinality({n \in Mailboxes : Stage(n) \in Busy}) < pool.alive
    /\ Move(m, "probing")
    /\ UNCHANGED <<ledger, cancel, failed, pool, worker, controller>>

CancelWaiting(m) ==
    /\ Running /\ worker = "scheduling" /\ cancel
    /\ Stage(m) = "waiting"
    /\ Report(m, "cancelled")
    /\ UNCHANGED <<ledger, cancel, failed, pool, worker, pending, checkpoint, ctl>>

-----------------------------------------------------------------------------
(* One attempt: BatchAttemptRunner::run_attempt *)

(* Mutant: the retry budget is off by one. *)
MayRetryOnceMore(m) == task[m].attempt <= RetryCount

(* should_retry's budget. *)
MayRetry(m) == task[m].attempt < RetryCount

(* retry_later: back to the scheduler's timers with one retry spent. *)
RetryLater(m) ==
    task' = [task EXCEPT ![m] = [@ EXCEPT !.stage = "waiting",
                                          !.attempt = task[m].attempt + 1, !.result = "none"]]

(* The checks before the claim: cancellation, an unpreparable job, token     *)
(* refresh and fresh readiness probes of a live run, then the claim itself   *)
(* unless an earlier attempt already holds it.                               *)
Probe(m) ==
    /\ Running /\ Stage(m) = "probing"
    /\ \/ cancel /\ Report(m, "cancelled") /\ UNCHANGED failed
       \/ /\ Live \/ task[m].attempt = 0
          /\ failed' = TRUE /\ Report(m, "failed")
       \/ /\ Live /\ MayRetry(m)
          /\ RetryLater(m)
          /\ UNCHANGED <<failed, events, reply>>
       \/ /\ ~task[m].claimed
          /\ Move(m, "claiming")
          /\ Send(Event("claim", m, "none", task[m].attempt + 1))
          /\ reply' = [reply EXCEPT ![m] = "none"]
          /\ UNCHANGED failed
       \/ /\ task[m].claimed
          /\ Move(m, "launching")
          /\ UNCHANGED <<failed, events, reply>>
    /\ UNCHANGED <<ledger, cancel, pool, worker, pending, checkpoint, ctl>>

(* Mutant: the worker starts without waiting for the durable claim. *)
AwaitClaimEagerly(m) ==
    /\ Running /\ Stage(m) = "claiming"
    /\ \/ cancel /\ Report(m, "cancelled")
       \/ /\ task' = [task EXCEPT ![m] = [@ EXCEPT !.stage = "launching", !.claimed = TRUE]]
          /\ UNCHANGED <<events, reply>>
    /\ UNCHANGED <<ledger, cancel, failed, pool, worker, pending, checkpoint, ctl>>

(* claim_batch_job waits for the durable claim but gives up on cancellation, *)
(* when the request may still be on its way to the controller.               *)
AwaitClaim(m) ==
    /\ Running /\ Stage(m) = "claiming"
    /\ \/ cancel /\ Report(m, "cancelled") /\ UNCHANGED failed
       \/ reply[m] = "held" /\ Report(m, "held") /\ UNCHANGED failed
       \/ reply[m] = "refused" /\ failed' = TRUE /\ Report(m, "failed")
       \/ /\ reply[m] = "claimed"
          /\ task' = [task EXCEPT ![m] = [@ EXCEPT !.stage = "launching", !.claimed = TRUE]]
          /\ UNCHANGED <<failed, events, reply>>
    /\ UNCHANGED <<ledger, cancel, pool, worker, pending, checkpoint, ctl>>

(* run_prepared_batch_attempt: a plan that no longer validates fails the     *)
(* attempt for good, the check of a saved checkpoint against both servers    *)
(* also by a transient error or by cancellation; otherwise the engine is     *)
(* spawned and asks for its registration.                                    *)
Launch(m) ==
    /\ Running /\ Stage(m) = "launching"
    /\ \/ \E result \in {"cancelled", "transient", "permanent"} :
          /\ result = "cancelled" => cancel
          /\ result # "permanent" => Live
          /\ task' = [task EXCEPT ![m] = [@ EXCEPT !.stage = "cleanup", !.result = result]]
          /\ UNCHANGED <<events, reply>>
       \/ /\ Move(m, "starting")
          /\ Send(Event("started", m, "none", task[m].attempt + 1))
          /\ reply' = [reply EXCEPT ![m] = "none"]
    /\ UNCHANGED <<ledger, cancel, failed, pool, worker, pending, checkpoint, ctl>>

(* run_streaming: the engine is spawned stopped and released only once its   *)
(* identity, and then the transfer attempt, are durable; otherwise it is     *)
(* killed, the whole batch is cancelled and the process reported ended.      *)
AwaitRegistration(m) ==
    /\ Running /\ Stage(m) = "starting"
    /\ \/ /\ reply[m] = "registered"
          /\ Move(m, "transferring")
          /\ UNCHANGED <<cancel, events>>
       \/ \E result \in {"cancelled", "transient", "permanent"} :
          /\ \/ cancel /\ result = "cancelled"
             \/ reply[m] = "unregistered"
             \/ "ack" \in Faults
          /\ task' = [task EXCEPT ![m] = [@ EXCEPT !.stage = "cleanup", !.result = result]]
          /\ cancel' = TRUE
          /\ Send(Event("ended", m, "none", task[m].attempt + 1))
    /\ UNCHANGED <<ledger, failed, pool, worker, reply, pending, checkpoint, ctl>>

(* The engine exits and its process is reported ended. *)
TransferEnds(m) ==
    /\ Running /\ Stage(m) = "transferring"
    /\ \E result \in {"ok", "delta", "transient", "permanent", "cancelled"} :
          /\ result = "cancelled" => cancel
          /\ result = "delta" => Live
          /\ task' = [task EXCEPT ![m] =
                [@ EXCEPT !.stage = IF Live /\ result \in {"ok", "delta"}
                                    THEN "verifying" ELSE "cleanup",
                          !.result = result]]
    /\ Send(Event("ended", m, "none", task[m].attempt + 1))
    /\ UNCHANGED <<ledger, cancel, failed, pool, worker, reply, pending, checkpoint, ctl>>

(* Verification sends evidence, with a checkpoint when the engine produced   *)
(* one, or reports that none is available, or fails the attempt.  After the  *)
(* checkpoint only recording the pass can fail, in the class Verification,   *)
(* which is never retried.                                                   *)
Verify(m) ==
    LET n == task[m].attempt + 1
        withCheckpoint == <<Event("checkpoint", m, "none", n)>>
    IN  /\ Running /\ Stage(m) = "verifying"
        /\ \/ /\ \E kind \in EvidenceKinds \ {"none"}, saved \in {<<>>, withCheckpoint} :
                    events' = events \o saved \o <<Event("evidence", m, kind, n)>>
              /\ Move(m, "cleanup")
           \/ Move(m, "cleanup") /\ UNCHANGED events
           \/ \E result \in {"transient", "permanent", "cancelled"},
                 saved \in {<<>>, withCheckpoint} :
              /\ result = "cancelled" => cancel
              /\ saved # <<>> => result = "permanent"
              /\ events' = events \o saved
              /\ task' = [task EXCEPT ![m] =
                    [@ EXCEPT !.stage = "cleanup", !.result = result]]
        /\ UNCHANGED <<ledger, cancel, failed, pool, worker, reply, pending, checkpoint, ctl>>

(* Mutant: a failed removal is an ordinary transient failure. *)
CleanupResultRetried(m, removed) == IF removed THEN task[m].result ELSE "transient"

(* A failed removal of the temporary credential files makes any result a     *)
(* failure of a class that is never retried.                                 *)
CleanupResult(m, removed) == IF removed THEN task[m].result ELSE "permanent"

(* cleanup_now, classification, and the attempt's outcome. *)
EndAttempt(m) ==
    /\ Running /\ Stage(m) = "cleanup"
    /\ \E removed \in IF "cleanup" \in Faults THEN BOOLEAN ELSE {TRUE} :
        LET result == CleanupResult(m, removed)
            retry == result = "transient" /\ MayRetry(m)
        IN  \/ /\ result = "ok"
               /\ Report(m, IF Live THEN "completed" ELSE "ready")
               /\ UNCHANGED failed
            \/ result = "delta" /\ Report(m, "delta_required") /\ UNCHANGED failed
            \/ result = "cancelled" /\ Report(m, "cancelled") /\ UNCHANGED failed
            \/ retry /\ RetryLater(m) /\ UNCHANGED <<failed, events, reply>>
            \/ /\ result \in {"transient", "permanent"} /\ ~retry
               /\ failed' = TRUE /\ Report(m, "failed")
    /\ UNCHANGED <<ledger, cancel, pool, worker, pending, checkpoint, ctl>>

(* The thread stops waiting for the acknowledgement when it arrives or when  *)
(* its timeout expires; only an acknowledged job counts as terminal.         *)
Settle(m) ==
    /\ Running /\ Stage(m) = "reporting"
    /\ \/ reply[m] = "done" /\ pool' = [pool EXCEPT !.terminal = @ \cup {m}]
       \/ reply[m] # "done" /\ "ack" \in Faults /\ UNCHANGED pool
    /\ Move(m, "settled")
    /\ UNCHANGED <<ledger, cancel, failed, worker, controller>>

(* A panicking attempt takes its thread with it; the registration guard     *)
(* reports the process ended unless the engine survived its termination.     *)
WorkerPanics(m) ==
    /\ Running /\ "panic" \in Faults
    /\ Stage(m) \in Busy \ {"reporting"}
    /\ Move(m, "dead")
    /\ pool' = [pool EXCEPT !.alive = @ - 1, !.panicked = TRUE]
    /\ failed' = TRUE
    /\ \/ UNCHANGED events
       \/ Stage(m) = "transferring" /\ Send(Event("ended", m, "none", task[m].attempt + 1))
    /\ UNCHANGED <<ledger, cancel, worker, reply, pending, checkpoint, ctl>>

-----------------------------------------------------------------------------
(* The end of spawn_batch_worker_with *)

ScheduleEnds ==
    /\ Running /\ worker = "scheduling"
    /\ \A m \in Mailboxes : Stage(m) \notin Busy
    /\ \/ pool.alive = 0
       \/ \A m \in Mailboxes : Stage(m) \notin {"unloaded", "waiting"}
    /\ worker' = "sweeping"
    /\ UNCHANGED <<ledger, task, cancel, failed, pool, controller>>

(* After a panic every job without an acknowledged ending is reported. *)
Unresolved ==
    IF pool.panicked THEN Mailboxes \ (pool.terminal \cup pool.swept) ELSE {}

SweepUnresolved(m) ==
    /\ Running /\ worker = "sweeping"
    /\ m \in Unresolved
    /\ pool' = [pool EXCEPT !.swept = @ \cup {m}]
    /\ Send(Event("job_finished", m, "attention", task[m].attempt + 1))
    /\ UNCHANGED <<ledger, task, cancel, failed, worker, reply, pending, checkpoint, ctl>>

SendFinished ==
    /\ Running /\ worker = "sweeping"
    /\ Unresolved = {}
    /\ worker' = "done"
    /\ Send(Event("finished", "batch",
                  IF cancel THEN "cancelled" ELSE IF failed THEN "failed" ELSE "completed", 0))
    /\ UNCHANGED <<ledger, task, cancel, failed, pool, reply, pending, checkpoint, ctl>>

-----------------------------------------------------------------------------
(* The controller: process_poll_events and finish_poll_run *)

Polls(kind) == ctl = "running" /\ events # <<>> /\ Head(events).kind = kind

Consume == events' = Tail(events)

Answer(m, value) == reply' = [reply EXCEPT ![m] = value]

(* ClaimBatch: a hold is answered apart from the other refusals. *)
HoldRefuses(r) ==
    /\ runs[Parent].status = "running" /\ runs[r].status = "queued"
    /\ phase[Project] # "complete" /\ Project \in held

ReduceClaim ==
    LET m == Head(events).job
        r == Child(m)
    IN  /\ Polls("claim")
        /\ \/ L!ClaimChild(r) /\ Answer(m, "claimed")
           \/ /\ ~L!MayClaim(r)
              /\ Answer(m, IF HoldRefuses(r) THEN "held" ELSE "refused")
              /\ UNCHANGED ledger
        /\ Consume
        /\ UNCHANGED <<workers, pending, checkpoint, ctl>>

(* ProcessStarted: a new process of a child drops the checkpoint of an       *)
(* earlier attempt; a registration that fails cancels the batch.             *)
ReduceStarted ==
    LET m == Head(events).job
        r == Child(m)
    IN  /\ Polls("started")
        /\ \/ /\ L!RegisterProcess(r)
              /\ checkpoint' = [checkpoint EXCEPT ![m] = 0]
              /\ Answer(m, "registered")
              /\ UNCHANGED cancel
           \/ /\ runs[r].status # "running"
              /\ Answer(m, "unregistered")
              /\ cancel' = TRUE
              /\ UNCHANGED <<ledger, checkpoint>>
        /\ Consume
        /\ UNCHANGED <<task, failed, pool, worker, pending, ctl>>

ReduceEnded ==
    LET r == Child(Head(events).job)
    IN  /\ Polls("ended")
        /\ L!ClearProcesses(r) \/ (r \notin processes /\ UNCHANGED ledger)
        /\ Consume
        /\ UNCHANGED <<workers, reply, pending, checkpoint, ctl>>

ReduceEvidence ==
    LET e == Head(events)
    IN  /\ Polls("evidence")
        /\ pending' = [pending EXCEPT ![e.job] = [kind |-> e.value, attempt |-> e.attempt]]
        /\ Consume
        /\ UNCHANGED <<ledger, workers, reply, checkpoint, ctl>>

ReduceCheckpoint ==
    LET e == Head(events)
    IN  /\ Polls("checkpoint")
        /\ checkpoint' = [checkpoint EXCEPT ![e.job] = e.attempt]
        /\ Consume
        /\ UNCHANGED <<ledger, workers, reply, pending, ctl>>

(* The ledger transaction a child's ending asks for: cancel_held_child_run   *)
(* or finish_batch_child.                                                    *)
CommitChild(m, state) ==
    LET r == Child(m)
        kind == pending[m].kind
        matches == kind \in {"exact", "weak"}
        final == BatchMailboxState(state, IF kind = "weak" THEN "exact" ELSE kind,
                                   kind # "weak")
    IN  IF state = "held" THEN L!CancelHeldChild(r)
        ELSE IF kind = "none" THEN L!FinishMailboxRun(r, BatchRunStatus(state), final)
        ELSE BatchRunStatus(state) = "completed" /\ L!FinishWithEvidence(r, matches, final)

(* JobFinished: committed and acknowledged, or kept by RetryDeferred. *)
ReduceJobFinished ==
    LET e == Head(events)
    IN  /\ Polls("job_finished")
        /\ CommitChild(e.job, e.value)
        /\ Answer(e.job, "done")
        /\ pending' = [pending EXCEPT ![e.job] = NoPending]
        /\ checkpoint' = [checkpoint EXCEPT ![e.job] = 0]
        /\ Consume
        /\ UNCHANGED <<workers, ctl>>

(* Finished: the parent's ending, likewise committed or kept. *)
ReduceFinished ==
    /\ Polls("finished")
    /\ L!FinishRun(Parent, Head(events).value)
    /\ ctl' = "advancing"
    /\ Consume
    /\ UNCHANGED <<workers, reply, pending, checkpoint>>

(* A terminal event the ledger refuses goes back to the head of the deferred *)
(* events and is tried again, unchanged, on the next poll.                   *)
RetryDeferred ==
    /\ Polls("job_finished") \/ Polls("finished")
    /\ UNCHANGED vars

(* The phase a finished batch asks for.  Entering complete is two            *)
(* transitions, verification first; a refused one is reported and dropped.   *)
NextPhase ==
    IF runs[Parent].status # "completed" THEN "attention"
    ELSE IF ~Live THEN "preflight"
    ELSE IF L!AllVerified(Project) /\ PhaseEdge(phase[Project], "verification")
         THEN "complete" ELSE "verification"

AdvancePhase ==
    /\ ctl = "advancing"
    /\ phase' = IF NextPhase = "complete" \/ PhaseEdge(phase[Project], NextPhase)
                THEN [phase EXCEPT ![Project] = NextPhase] ELSE phase
    /\ ctl' = "idle"
    /\ UNCHANGED <<held, mailbox, runs, processes, evidence, history, accepted, workers,
                   reply, events, pending, checkpoint>>

-----------------------------------------------------------------------------
(* The environment *)

(* The operator cancels the batch. *)
CancelBatch ==
    /\ Running /\ "cancel" \in Faults /\ worker = "scheduling" /\ ~cancel
    /\ cancel' = TRUE
    /\ UNCHANGED <<ledger, task, failed, pool, worker, controller>>

(* Another process holds or releases the project. *)
OperatorHolds ==
    /\ "hold" \in Faults
    /\ L!HoldProject(Project) \/ L!ReleaseProjectHold(Project)
    /\ UNCHANGED <<workers, controller>>

(* The process dies; threads, channel and flags are lost, the ledger stays. *)
Crash ==
    /\ "crash" \in Faults /\ ctl \in {"running", "advancing"}
    /\ ctl' = "crashed"
    /\ events' = <<>>
    /\ task' = [m \in Mailboxes |-> [task[m] EXCEPT !.stage = "dead"]]
    /\ worker' = "done"
    /\ UNCHANGED <<ledger, cancel, failed, pool, reply, pending, checkpoint>>

(* The next start recovers; identities of engines that could not be proved   *)
(* gone are preserved.                                                       *)
Restart ==
    /\ ctl = "crashed"
    /\ \E preserved \in SUBSET processes : L!Recover(preserved)
    /\ ctl' = "idle"
    /\ UNCHANGED <<workers, reply, events, pending, checkpoint>>

-----------------------------------------------------------------------------
Attempt(m) ==
    \/ LoadTask(m) \/ Dispatch(m) \/ CancelWaiting(m)
    \/ Probe(m) \/ AwaitClaim(m) \/ Launch(m) \/ AwaitRegistration(m)
    \/ TransferEnds(m) \/ Verify(m) \/ EndAttempt(m) \/ Settle(m) \/ SweepUnresolved(m)

Reduce ==
    \/ ReduceClaim \/ ReduceStarted \/ ReduceEnded \/ ReduceEvidence \/ ReduceCheckpoint
    \/ ReduceJobFinished \/ ReduceFinished \/ AdvancePhase

Environment ==
    \/ CancelBatch \/ OperatorHolds \/ LoaderFails \/ Crash \/ Restart
    \/ \E m \in Mailboxes : WorkerPanics(m)

(* Nothing happens after the batch is over. *)
Done == ctl = "idle" /\ UNCHANGED vars

Next ==
    \/ \E m \in Mailboxes : Attempt(m)
    \/ ScheduleEnds \/ SendFinished
    \/ Reduce \/ RetryDeferred
    \/ Environment
    \/ Done

(* Threads run, engines and probes end by their timeouts, and the poll loop  *)
(* keeps polling; nothing is assumed of the operator or of failures.         *)
Fairness ==
    /\ \A m \in Mailboxes : WF_vars(Attempt(m))
    /\ WF_vars(ScheduleEnds \/ SendFinished)
    /\ WF_vars(Reduce)

Spec == Init /\ [][Next]_vars /\ Fairness

-----------------------------------------------------------------------------
(* Properties *)

(* An engine that is past its release, its verification and its cleanup run *)
(* only while the mailbox's durable child run is running: no cancelled      *)
(* claim, hold, sweep or late completion leaves an engine working for a run *)
(* the ledger has closed.                                                   *)
EngineHasRunningChild ==
    \A m \in Mailboxes : Stage(m) \in {"transferring", "verifying", "cleanup"} =>
        /\ runs[Child(m)].status = "running"
        /\ mailbox[m] = "running"

(* The evidence and the checkpoint committed with a child's ending were     *)
(* produced by the attempt that ended it, never by an earlier attempt that  *)
(* failed and was retried.                                                  *)
CommitsLastAttempt ==
    Polls("job_finished") =>
        LET e == Head(events)
        IN  /\ pending[e.job].attempt \in {0, e.attempt}
            /\ BatchRunStatus(e.value) = "completed" => checkpoint[e.job] \in {0, e.attempt}

(* Once the batch is over, by its own ending or by a restart, no run of it  *)
(* is unfinished, no mailbox is left running, and a process identity is     *)
(* left only where recovery preserved it: also when a registration reached  *)
(* the ledger after its engine had been killed.                             *)
NothingLeftRunning ==
    ctl \in {"advancing", "idle"} =>
        /\ \A r \in RunIds : runs[r].status \in TerminalStatuses
        /\ \A m \in Mailboxes : mailbox[m] # "running"
        /\ \A r \in processes : runs[r].status = "abandoned"

(* Every batch ends: whatever the operator cancels and whichever attempts   *)
(* fail, the parent run reaches a terminal status unless the process dies.  *)
BatchSettles == <>(runs[Parent].status \in TerminalStatuses \/ ctl = "crashed")
=============================================================================
