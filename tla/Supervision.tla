----------------------------- MODULE Supervision -----------------------------
(***************************************************************************)
(* Supervision of one mailbox's engine processes on a Unix host: the       *)
(* gatekeeper that waits for its durable registration (runner/process.rs,  *)
(* runner.rs), the wait loop and its signals (process.rs), and the         *)
(* reconciliation of recorded processes after a crash (headless.rs,        *)
(* bootstrap.rs, core/recovery.rs).                                        *)
(*                                                                         *)
(* A process group has the pid of its leader.  The kernel gives a pid to a *)
(* new process only when neither a process nor a group has it.  Adjacent   *)
(* system calls (a check and the signal it guards) are one step.           *)
(***************************************************************************)
EXTENDS Naturals, Sequences, FiniteSets

CONSTANTS
    Pids,
    MaxStarts,     \* bound: processes started on the host; a start time names one
    MaxCrashes,    \* bound: controller crashes
    QueueBound,    \* capacity of the event channel
    NoPid

ASSUME SupervisionConstants ==
    /\ {MaxStarts, QueueBound} \subseteq Nat \ {0} /\ MaxCrashes \in Nat
    /\ NoPid \notin Pids

VARIABLES
    parentDeath,  \* Linux: the leader is killed when its controller dies
    leader,       \* what runs under each pid, and when it was started
    helper,       \* groups with a live process that is not the leader
    pipe,         \* the gatekeeper's stdin: "open", "go", "closed"
    starts,       \* processes started so far
    ctl,          \* controller: "down", "terminating", "escalating", "ready"
    review,       \* process_review_required
    run,          \* the mailbox's run: "none" or "running"
    cancel,       \* the cancellation flag
    worker,       \* the supervising thread
    events,       \* lifecycle events on their way to the controller
    ack,          \* answer to the registration: "none", "ok", "refused"
    record,       \* the active_processes row of the run
    crashes,
    hit           \* history: a process that is not ours was signalled

vars == <<parentDeath, leader, helper, pipe, starts, ctl, review, run, cancel, worker, events,
          ack, record, crashes, hit>>
host == <<leader, helper, pipe, starts, hit>>

(* A probe is an engine binary that asks for a version or looks up the     *)
(* destination user; it is released by a gatekeeper like an engine.         *)
Gates == {"gate", "probegate"}
Engines == {"engine", "probe"}
Images == Gates \cup Engines \cup {"none", "zombie", "foreign"}
Unknown == 0   \* an identity that could not be read
NoRecord == [pid |-> NoPid, start |-> Unknown]
Free == [image |-> "none", start |-> Unknown]
IdleWorker == [at |-> "idle", pid |-> NoPid, start |-> Unknown, durable |-> FALSE]

TypeOK ==
    /\ parentDeath \in BOOLEAN
    /\ leader \in [Pids -> [image : Images, start : 0..MaxStarts]]
    /\ helper \in SUBSET Pids
    /\ pipe \in [Pids -> {"open", "go", "closed"}]
    /\ starts \in 0..MaxStarts
    /\ ctl \in {"down", "terminating", "escalating", "ready"}
    /\ review \in BOOLEAN /\ cancel \in BOOLEAN /\ hit \in BOOLEAN
    /\ run \in {"none", "running"}
    /\ worker \in [at : {"idle", "spawned", "awaiting", "registered", "waiting", "grace", "ended"},
                   pid : Pids \cup {NoPid}, start : 0..MaxStarts, durable : BOOLEAN]
    /\ events \in Seq([kind : {"started", "ended"}, pid : Pids, start : 0..MaxStarts, known : BOOLEAN])
    /\ Len(events) <= QueueBound
    /\ ack \in {"none", "ok", "refused"}
    /\ record \in [pid : Pids \cup {NoPid}, start : 0..MaxStarts]
    /\ crashes \in 0..MaxCrashes

Init ==
    /\ parentDeath \in BOOLEAN
    /\ leader = [p \in Pids |-> Free]
    /\ helper = {}
    /\ pipe = [p \in Pids |-> "closed"]
    /\ starts = 0
    /\ ctl = "ready" /\ review = FALSE
    /\ run = "none" /\ cancel = FALSE
    /\ worker = IdleWorker
    /\ events = <<>> /\ ack = "none"
    /\ record = NoRecord
    /\ crashes = 0 /\ hit = FALSE

-----------------------------------------------------------------------------
(* The host *)

PidIsFree(p) == leader[p].image = "none" /\ p \notin helper
Runs(p) == leader[p].image \in Gates \cup Engines
OurGroup(p) == Runs(p) \/ leader[p].image = "zombie" \/ p \in helper

(* A dead leader stays a zombie while a controller that can reap it lives.  *)
Dead(p, reaper) == IF reaper THEN [leader[p] EXCEPT !.image = "zombie"] ELSE Free

(* SIGTERM to a group: a gatekeeper ends, an engine and its helpers may or  *)
(* may not.                                                                 *)
Terminate(p, reaper) ==
    /\ \E l \in BOOLEAN, h \in BOOLEAN :
          /\ leader' = IF Runs(p) /\ (l \/ leader[p].image \in Gates)
                       THEN [leader EXCEPT ![p] = Dead(p, reaper)] ELSE leader
          /\ helper' = IF h THEN helper \ {p} ELSE helper
    /\ hit' = (hit \/ leader[p].image = "foreign")
    /\ UNCHANGED <<pipe, starts>>

(* SIGKILL to a group, effective at once. *)
Kill(p, reaper) ==
    /\ leader' = IF Runs(p) THEN [leader EXCEPT ![p] = Dead(p, reaper)] ELSE leader
    /\ helper' = helper \ {p}
    /\ hit' = (hit \/ leader[p].image = "foreign")
    /\ UNCHANGED <<pipe, starts>>

(* Another program is started under a free pid, in a group of its own, or   *)
(* ends.  The kernel cycles through the pids, so a pid is not used again    *)
(* within the seconds a worker still waits for the group it named.          *)
ForeignStarts(p) ==
    /\ PidIsFree(p) /\ worker.pid # p /\ starts < MaxStarts
    /\ starts' = starts + 1
    /\ leader' = [leader EXCEPT ![p] = [image |-> "foreign", start |-> starts + 1]]
    /\ UNCHANGED <<parentDeath, helper, pipe, ctl, review, run, cancel, worker, events, ack, record,
                   crashes, hit>>

ForeignEnds(p) ==
    /\ leader[p].image = "foreign"
    /\ leader' = [leader EXCEPT ![p] = Free]
    /\ UNCHANGED <<parentDeath, helper, pipe, starts, ctl, review, run, cancel, worker, events, ack,
                   record, crashes, hit>>

-----------------------------------------------------------------------------
(* run_internal_launcher and the engine it becomes *)

(* GO arrives: the gatekeeper replaces itself by the engine, or refuses an  *)
(* engine whose identity changed.  End of file: it ends.                    *)
GateProceeds(p) ==
    /\ leader[p].image \in Gates
    /\ \/ /\ pipe[p] = "go"
          /\ leader' = [leader EXCEPT ![p].image = IF @ = "gate" THEN "engine" ELSE "probe"]
       \/ /\ pipe[p] \in {"go", "closed"}
          /\ leader' = [leader EXCEPT ![p] = Dead(p, ctl = "ready" /\ worker.pid = p)]
    /\ UNCHANGED <<parentDeath, helper, pipe, starts, ctl, review, run, cancel, worker, events, ack,
                   record, crashes, hit>>

EngineForks(p) ==
    /\ leader[p].image \in Engines
    /\ helper' = helper \cup {p}
    /\ UNCHANGED <<parentDeath, leader, pipe, starts, ctl, review, run, cancel, worker, events, ack,
                   record, crashes, hit>>

EngineExits(p) ==
    /\ leader[p].image \in Engines
    /\ leader' = [leader EXCEPT ![p] = Dead(p, ctl = "ready" /\ worker.pid = p)]
    /\ UNCHANGED <<parentDeath, helper, pipe, starts, ctl, review, run, cancel, worker, events, ack,
                   record, crashes, hit>>

HelperExits(p) ==
    /\ p \in helper
    /\ helper' = helper \ {p}
    /\ UNCHANGED <<parentDeath, leader, pipe, starts, ctl, review, run, cancel, worker, events, ack,
                   record, crashes, hit>>

-----------------------------------------------------------------------------
(* run_streaming and run_capture_lines: the supervising thread *)

BeginRun ==
    /\ ctl = "ready" /\ ~review /\ run = "none"
    /\ run' = "running" /\ cancel' = FALSE
    /\ UNCHANGED <<parentDeath, host, ctl, review, worker, events, ack, record, crashes>>

(* Mutant: the row of the last attempt stays. *)
FinishKeepingRecord ==
    /\ ctl = "ready" /\ run = "running" /\ worker.at = "idle" /\ events = <<>>
    /\ run' = "none"
    /\ UNCHANGED <<parentDeath, host, ctl, review, cancel, worker, events, ack, record, crashes>>

(* The run ends after its worker and its events; the row goes with it.      *)
FinishRun ==
    /\ ctl = "ready" /\ run = "running" /\ worker.at = "idle" /\ events = <<>>
    /\ run' = "none"
    /\ record' = NoRecord
    /\ UNCHANGED <<parentDeath, host, ctl, review, cancel, worker, events, ack, crashes>>

Cancel ==
    /\ ctl = "ready" /\ run = "running" /\ ~cancel
    /\ cancel' = TRUE
    /\ UNCHANGED <<parentDeath, host, ctl, review, run, worker, events, ack, record, crashes>>

(* The gatekeeper is started: of an engine of the run (durable), or of the  *)
(* version probe or the destination preflight, which pass no ledger to      *)
(* run_capture_lines and so have nothing to register.                       *)
Spawn(p, durable) ==
    /\ ctl = "ready" /\ run = "running" /\ worker.at = "idle"
    /\ PidIsFree(p) /\ starts < MaxStarts
    /\ starts' = starts + 1
    /\ leader' = [leader EXCEPT ![p] = [image |-> IF durable THEN "gate" ELSE "probegate",
                                       start |-> starts + 1]]
    /\ pipe' = [pipe EXCEPT ![p] = "open"]
    /\ worker' = [at |-> IF durable THEN "spawned" ELSE "registered", pid |-> p, start |-> starts + 1,
                  durable |-> durable]
    /\ ack' = "none"
    /\ UNCHANGED <<parentDeath, helper, ctl, review, run, cancel, events, record, crashes, hit>>

(* Giving up on an attempt: cancel, signal the group, wait for it.  The     *)
(* version probe has a cancellation flag of its own.                        *)
Stop ==
    /\ cancel' \in IF worker.durable THEN {TRUE} ELSE {TRUE, cancel}
    /\ Terminate(worker.pid, TRUE)
    /\ worker' = [worker EXCEPT !.at = "grace"]

(* ProcessStarted is queued, or the queue stays full until the deadline.    *)
SendStarted ==
    /\ worker.at = "spawned"
    /\ \/ /\ ~cancel /\ Len(events) < QueueBound
          /\ \E known \in BOOLEAN :
                events' = Append(events, [kind |-> "started", pid |-> worker.pid,
                                          start |-> worker.start, known |-> known])
          /\ worker' = [worker EXCEPT !.at = "awaiting"]
          /\ UNCHANGED <<host, cancel>>
       \/ /\ Stop
          /\ UNCHANGED events
    /\ UNCHANGED <<parentDeath, ctl, review, run, ack, record, crashes>>

(* Mutant: the engine is released without waiting for the ledger. *)
AwaitNothing ==
    /\ worker.at = "awaiting"
    /\ worker' = [worker EXCEPT !.at = "registered"]
    /\ UNCHANGED <<parentDeath, host, ctl, review, run, cancel, events, ack, record, crashes>>

(* The answer arrives, or the worker stops waiting for it.                  *)
AwaitRegistration ==
    /\ worker.at = "awaiting"
    /\ \/ /\ ~cancel /\ ack = "ok"
          /\ worker' = [worker EXCEPT !.at = "registered"]
          /\ UNCHANGED <<host, cancel>>
       \/ Stop
    /\ UNCHANGED <<parentDeath, ctl, review, run, events, ack, record, crashes>>

(* release_engine_with_limiter: GO, or the pipe is closed unused.           *)
Release ==
    /\ worker.at = "registered"
    /\ \/ /\ pipe' = [pipe EXCEPT ![worker.pid] = "go"]
          /\ worker' = [worker EXCEPT !.at = "waiting"]
          /\ UNCHANGED <<leader, helper, starts, hit, cancel>>
       \/ Stop
    /\ UNCHANGED <<parentDeath, ctl, review, run, events, ack, record, crashes>>

(* wait_with_timeout: the leader ended and is reaped; what is left of its   *)
(* group is terminated.                                                     *)
LeaderEnded ==
    LET p == worker.pid
    IN  /\ worker.at = "waiting" /\ leader[p].image = "zombie"
        /\ leader' = [leader EXCEPT ![p] = Free]
        /\ \/ /\ p \in helper
              /\ worker' = [worker EXCEPT !.at = "grace"]
              /\ helper' \in {helper, helper \ {p}}
           \/ /\ p \notin helper
              /\ worker' = [worker EXCEPT !.at = "ended"]
              /\ UNCHANGED helper
        /\ UNCHANGED <<parentDeath, pipe, starts, ctl, review, run, cancel, events, ack, record,
                       crashes, hit>>

(* wait_with_timeout: cancelled, or out of time.                            *)
StopWaiting ==
    /\ worker.at = "waiting" /\ leader[worker.pid].image # "zombie"
    /\ Terminate(worker.pid, TRUE)
    /\ worker' = [worker EXCEPT !.at = "grace"]
    /\ UNCHANGED <<parentDeath, ctl, review, run, cancel, events, ack, record, crashes>>

(* Mutant: only the leader is waited for and killed. *)
GraceForLeader ==
    LET p == worker.pid
    IN  /\ worker.at = "grace"
        /\ leader' = [leader EXCEPT ![p] = Free]
        /\ worker' = [worker EXCEPT !.at = "ended"]
        /\ UNCHANGED <<parentDeath, helper, pipe, starts, ctl, review, run, cancel, events, ack,
                       record, crashes, hit>>

(* wait_for_graceful_exit, wait_for_process_group_exit: the whole group     *)
(* went away, or it is killed when the grace period is over.  SIGKILL is    *)
(* taken to be effective: a group stuck in the kernel beyond it is an error *)
(* of the attempt (process.rs:1618) that the model does not have.           *)
GraceEnds ==
    LET p == worker.pid
    IN  /\ worker.at = "grace"
        /\ leader' = [leader EXCEPT ![p] = Free]
        /\ helper' = helper \ {p}
        /\ worker' = [worker EXCEPT !.at = "ended"]
        /\ UNCHANGED <<parentDeath, pipe, starts, ctl, review, run, cancel, events, ack, record,
                       crashes, hit>>

(* Mutant: the queue has no bound. *)
SendEndedUnbounded ==
    /\ worker.at = "ended"
    /\ events' = Append(events, [kind |-> "ended", pid |-> worker.pid,
                                 start |-> worker.start, known |-> FALSE])
    /\ worker' = IdleWorker
    /\ pipe' = [pipe EXCEPT ![worker.pid] = "closed"]
    /\ UNCHANGED <<parentDeath, leader, helper, starts, ctl, review, run, cancel, ack, record,
                   crashes, hit>>

(* ProcessEnded is queued, or lost when the queue stays full; a probe sends *)
(* none.                                                                    *)
SendEnded ==
    /\ worker.at = "ended"
    /\ \/ /\ worker.durable /\ Len(events) < QueueBound
          /\ events' = Append(events, [kind |-> "ended", pid |-> worker.pid,
                                       start |-> worker.start, known |-> FALSE])
       \/ UNCHANGED events
    /\ worker' = IdleWorker
    /\ pipe' = [pipe EXCEPT ![worker.pid] = "closed"]
    /\ UNCHANGED <<parentDeath, leader, helper, starts, ctl, review, run, cancel, ack, record,
                   crashes, hit>>

(* The thread panics: UnwindTerminator ends the group.  Once released, the  *)
(* registration guard of run_capture_lines then sends ProcessEnded while    *)
(* unwinding; run_streaming has no such guard.                              *)
WorkerPanics ==
    /\ worker.at \in {"spawned", "awaiting", "registered", "waiting", "grace"}
    /\ leader' = [leader EXCEPT ![worker.pid] = Free]
    /\ helper' = helper \ {worker.pid}
    /\ pipe' = [pipe EXCEPT ![worker.pid] = "closed"]
    /\ worker' = IdleWorker
    /\ \/ /\ worker.durable /\ worker.at \in {"waiting", "grace"} /\ Len(events) < QueueBound
          /\ events' = Append(events, [kind |-> "ended", pid |-> worker.pid,
                                       start |-> worker.start, known |-> FALSE])
       \/ UNCHANGED events
    /\ UNCHANGED <<parentDeath, starts, ctl, review, run, cancel, ack, record, crashes, hit>>

-----------------------------------------------------------------------------
(* The controller *)

(* register_process: the row is written, or the write is refused.           *)
ReduceStarted ==
    LET e == Head(events)
        Answer(a) == IF worker.at = "awaiting" /\ worker.start = e.start THEN a ELSE ack
    IN  /\ ctl = "ready" /\ events # <<>> /\ e.kind = "started"
        /\ \/ /\ run = "running"
              /\ record' = [pid |-> e.pid, start |-> IF e.known THEN e.start ELSE Unknown]
              /\ ack' = Answer("ok")
           \/ /\ ack' = Answer("refused")
              /\ UNCHANGED record
        /\ events' = Tail(events)
        /\ UNCHANGED <<parentDeath, host, ctl, review, run, cancel, worker, crashes>>

(* clear_processes *)
ReduceEnded ==
    /\ ctl = "ready" /\ events # <<>> /\ Head(events).kind = "ended"
    /\ record' = NoRecord
    /\ events' = Tail(events)
    /\ UNCHANGED <<parentDeath, host, ctl, review, run, cancel, worker, ack, crashes>>

-----------------------------------------------------------------------------
(* Crash, reconciliation, review *)

(* The controller dies.  Its ends of the pipes close, its zombies are       *)
(* reaped by init, and on Linux the leader it supervised is killed.         *)
Crash ==
    /\ ctl # "down" /\ crashes < MaxCrashes
    /\ crashes' = crashes + 1
    /\ ctl' = "down" /\ review' = FALSE /\ cancel' = FALSE
    /\ worker' = IdleWorker /\ events' = <<>> /\ ack' = "none"
    /\ leader' = [p \in Pids |-> IF \/ leader[p].image = "zombie"
                                    \/ parentDeath /\ worker.pid = p /\ Runs(p)
                                 THEN Free ELSE leader[p]]
    /\ pipe' = [p \in Pids |-> IF pipe[p] = "open" THEN "closed" ELSE pipe[p]]
    /\ UNCHANGED <<parentDeath, helper, starts, run, record, hit>>

(* The instance lock admits one controller. *)
Restart ==
    /\ ctl = "down"
    /\ ctl' = "terminating"
    /\ UNCHANGED <<parentDeath, host, review, run, cancel, worker, events, ack, record, crashes>>

(* Mutant: any process with the recorded pid is taken for the engine. *)
MatchesPid(r, procs) ==
    /\ r # NoRecord
    /\ procs[r.pid].image # "none"

(* recorded_process_matches and recorded_process_is_gone *)
Matches(r, procs) ==
    /\ r # NoRecord /\ r.start # Unknown
    /\ procs[r.pid].image # "none" /\ procs[r.pid].start = r.start
Gone(r, procs) == procs[r.pid].image = "none"

(* recover_abandoned_jobs_preserving: runs are closed and the rows that     *)
(* could not be settled are kept, which blocks execution until a review.    *)
Reconciled(keep) ==
    /\ ctl' = "ready"
    /\ run' = "none"
    /\ record' = IF keep THEN record ELSE NoRecord
    /\ review' = keep

(* terminate_recorded_process_group, first half: signal a verified group.   *)
TerminateRecorded ==
    /\ ctl = "terminating"
    /\ \/ /\ Matches(record, leader)
          /\ Terminate(record.pid, FALSE)
          /\ ctl' = "escalating"
          /\ UNCHANGED <<review, run, record>>
       \/ /\ ~Matches(record, leader)
          /\ Reconciled(record # NoRecord /\ ~Gone(record, leader))
          /\ UNCHANGED host
    /\ UNCHANGED <<parentDeath, cancel, worker, events, ack, crashes>>

(* Second half: two seconds later the identity is checked again and the     *)
(* group is killed; a process that does not die at once is kept on record.  *)
EscalateRecorded ==
    /\ ctl = "escalating"
    /\ \/ /\ Matches(record, leader)
          /\ \/ Kill(record.pid, FALSE)
             \/ UNCHANGED host
       \/ ~Matches(record, leader) /\ UNCHANGED host
    /\ Reconciled(Matches(record, leader'))
    /\ UNCHANGED <<parentDeath, cancel, worker, events, ack, crashes>>

(* clear_active_processes_after_review: the operator confirmed that no      *)
(* engine remains on the host.                                              *)
AcknowledgeReview ==
    /\ ctl = "ready" /\ review
    /\ \A p \in Pids : ~OurGroup(p)
    /\ review' = FALSE
    /\ record' = NoRecord
    /\ UNCHANGED <<parentDeath, host, ctl, run, cancel, worker, events, ack, crashes>>

-----------------------------------------------------------------------------
WorkerStep ==
    \/ SendStarted \/ AwaitRegistration \/ Release \/ LeaderEnded \/ StopWaiting
    \/ GraceEnds \/ SendEnded
Reduce == ReduceStarted \/ ReduceEnded
Recovery == Restart \/ TerminateRecorded \/ EscalateRecorded
HostStep(p) ==
    \/ ForeignStarts(p) \/ ForeignEnds(p) \/ GateProceeds(p) \/ EngineForks(p)
    \/ EngineExits(p) \/ HelperExits(p)

Next ==
    \/ BeginRun \/ FinishRun \/ Cancel \/ WorkerStep \/ WorkerPanics
    \/ Reduce \/ Crash \/ Recovery \/ AcknowledgeReview
    \/ \E p \in Pids : HostStep(p) \/ \E durable \in BOOLEAN : Spawn(p, durable)

(* The worker thread, the poll loop and a restarted controller proceed.     *)
Spec == Init /\ [][Next]_vars /\ WF_vars(WorkerStep) /\ WF_vars(Reduce) /\ WF_vars(Recovery)

-----------------------------------------------------------------------------
(* Properties *)

(* An engine that works on the mailbox never runs without its identity in   *)
(* the ledger, whatever was late, lost or killed between its creation and   *)
(* its release: recovery can always find it.  Version probes and            *)
(* destination preflights are never on record; they run under a living      *)
(* worker, unless the controller has crashed.                               *)
EngineOnRecord ==
    \A p \in Pids :
        /\ leader[p].image = "engine" =>
              record.pid = p /\ record.start \in {leader[p].start, Unknown}
        /\ leader[p].image = "probe" => worker.pid = p \/ crashes > 0

(* No process of another program is ever signalled, though pids are reused  *)
(* while a stale row still names them.                                      *)
ForeignUntouched == ~hit

(* A row outlives its run only under a pending review: a lost ProcessEnded  *)
(* or a late registration cannot wedge the next run.                        *)
RecordHasRun == record # NoRecord /\ ctl = "ready" => run = "running" \/ review

(* A cancelled attempt ends with its whole process group, helpers included. *)
CancelEndsGroup ==
    \A p \in Pids :
        cancel /\ worker.pid = p ~> ~OurGroup(p) \/ ctl # "ready"

(* A run on record becomes retryable at startup only when no process of the *)
(* recorded group is left on the host.                                      *)
RetryableIsQuiet ==
    [][\A p \in Pids : ctl # "ready" /\ ctl' = "ready" /\ ~review' /\ record.pid = p
                           => ~OurGroup(p)']_vars
=============================================================================
