---------------------------- MODULE RateScheduler ----------------------------
(***************************************************************************)
(* The batch scheduler and the rate limiter it admits attempts through     *)
(* (controller/batch_scheduler.rs, rate_domains.rs, and the verification   *)
(* gate of batch_work_item.rs).  BatchController takes admission for       *)
(* granted; here an attempt is its use of slots, threads and permits.      *)
(*                                                                         *)
(* A task is admitted through every rate domain of its lineage, broadest   *)
(* first: global, provider, tenant, mailbox.  The credential level and the *)
(* second endpoint's chain obey the same rules and are left out.  The      *)
(* table of domains stays below MAX_RATE_DOMAINS, so that forgetting a     *)
(* domain, done only when it equals a fresh one, has no effect.  Limits    *)
(* are the integer parts of the code's: the integer parts of x/2 and x+1   *)
(* depend on that of x alone.                                              *)
(***************************************************************************)
EXTENDS Integers, Sequences, FiniteSets, SequencesExt

CONSTANTS
    Tasks,               \* the mailboxes of the batch
    SourceOrder,         \* the order in which the job source yields them
    Lineage,             \* the rate domains of each task, broadest first
    DomainCeiling,       \* the configured ceiling of each domain
    Concurrency,         \* transfers at once: the most any domain admits
    VerificationWorkers, \* extra threads, and permits, for verification
    Verifies,            \* tasks whose plan asks for a verification scan
    RetryCount,          \* retries of one task
    BaseDelay, MaxCooldown, MaxStrikes,  \* cooldowns, in ticks, and their doublings
    MaxOvertaken,        \* bound: overtaken is counted up to this
    Resumed,             \* tasks that an earlier run left in retry backoff
    Faults,              \* what else may happen
    MaxFaults            \* bound: failures that throttle, retry or panic

Path(t) == ToSet(Lineage[t])

Domains == UNION {Path(t) : t \in Tasks}

Global == Lineage[Head(SourceOrder)][1]

Tenant(t) == Lineage[t][3]

Tenants == {Tenant(t) : t \in Tasks}

Child(t, d) == Lineage[t][CHOOSE i \in 1..4 : i > 1 /\ Lineage[t][i - 1] = d]

ASSUME SchedulerConstants ==
    /\ {Concurrency, RetryCount, VerificationWorkers, BaseDelay, MaxCooldown, MaxStrikes,
        MaxOvertaken, MaxFaults} \subseteq Nat
    /\ Concurrency > 0 /\ BaseDelay > 0 /\ BaseDelay <= MaxCooldown /\ IsFiniteSet(Tasks)
    /\ SourceOrder \in Seq(Tasks) /\ ToSet(SourceOrder) = Tasks
    /\ \A i, j \in 1..Len(SourceOrder) : SourceOrder[i] = SourceOrder[j] => i = j
    /\ \A t \in Tasks : DOMAIN Lineage[t] = 1..4 /\ Lineage[t][1] = Global /\ Lineage[t][4] = t
    /\ \A d \in Domains : DomainCeiling[d] \in Nat \ {0}
    /\ Resumed \subseteq Tasks /\ Verifies \subseteq Tasks
    /\ Faults \subseteq {"throttle", "transient", "panic", "cancel"}

VARIABLES
    domain,     \* [limit, blocked, strikes, children] of each rate domain
    inFlight,   \* admissions counted in each rate domain
    task,       \* [stage, next, attempt, stale, resume] of each task
    source,     \* tasks not yet loaded
    ready,      \* FairQueue: [order of tenants, queues of each tenant]
    timers,     \* TimerQueue: parked [task, left], earliest first
    waiting,    \* slot_waiting, oldest first
    reports,    \* the report channel
    token,      \* a release notification is pending
    threads,    \* [alive, busy] as the scheduler counts them
    pc,         \* where the scheduler's loop stands
    cancel,     \* the shared cancellation flag
    overtaken,  \* per tenant, admissions of others that it could have had
    faults      \* failures so far

limiter == <<domain, inFlight>>
queuesAndTimers == <<source, ready, timers, waiting>>
scheduler == <<queuesAndTimers, threads, pc, overtaken>>
vars == <<limiter, task, scheduler, reports, token, cancel, faults>>

-----------------------------------------------------------------------------
Smaller(a, b) == IF a < b THEN a ELSE b

Ceiling(d) == Smaller(Concurrency, DomainCeiling[d])

Threads == Concurrency + VerificationWorkers

Lookahead == 2 * Threads

(* The most tasks that are held in memory without a thread.                  *)
MaxParked == IF 64 * Threads > 256 THEN 64 * Threads ELSE 256

Queued == {"source", "ready", "timer", "waiting"}

(* A worker thread has the task, with an admission or without one.           *)
Admitted == {"transferring", "releasing"}
Released == {"gate", "verifying", "ending"}

Over == {"done", "unschedulable", "lost"}

Stage(t) == task[t].stage

Holders(d) == {t \in Tasks : Stage(t) \in Admitted /\ d \in Path(t)}

TypeOK ==
    /\ domain \in [Domains -> [limit : 1..Concurrency, blocked : 0..MaxCooldown,
                               strikes : 0..MaxStrikes, children : SUBSET Domains]]
    /\ inFlight \in [Domains -> 0..Concurrency]
    /\ task \in [Tasks -> [stage : Queued \cup Admitted \cup Released \cup Over \cup {"reported"},
                           next : {"none", "finished", "retry", "panicked", "verify"},
                           attempt : 0..RetryCount, stale : SUBSET Domains,
                           resume : 0..BaseDelay]]
    /\ token \in BOOLEAN /\ cancel \in BOOLEAN
    /\ threads \in [alive : 0..Threads, busy : 0..Threads]
    /\ Len(reports) <= Threads
    /\ pc \in {"fill", "admit", "wait", "ended"}
    /\ overtaken \in [Tenants -> 0..MaxOvertaken]
    /\ faults \in 0..MaxFaults

Init ==
    /\ domain = [d \in Domains |-> [limit |-> Ceiling(d), blocked |-> 0, strikes |-> 0,
                                    children |-> {}]]
    /\ inFlight = [d \in Domains |-> 0]
    /\ task = [t \in Tasks |-> [stage |-> "source", next |-> "none", attempt |-> 0, stale |-> {},
                                resume |-> IF t \in Resumed THEN BaseDelay ELSE 0]]
    /\ source = SourceOrder
    /\ ready = [order |-> <<>>, queues |-> [n \in Tenants |-> <<>>]]
    /\ timers = <<>> /\ waiting = <<>> /\ reports = <<>>
    /\ token = FALSE /\ cancel = FALSE
    /\ threads = [alive |-> Threads, busy |-> 0]
    /\ pc = "fill"
    /\ overtaken = [n \in Tenants |-> 0]
    /\ faults = 0

-----------------------------------------------------------------------------
(* RateDomainLimiter.                                                        *)

Cooling(t) == {d \in Path(t) : domain[d].blocked > 0}

(* Mutant: one admission more than the limit fits. *)
SaturatedMissesOne(d) == inFlight[d] > domain[d].limit

Saturated(d) == inFlight[d] >= domain[d].limit

SlotLimited(t) == \E d \in Path(t) : Saturated(d)

Admissible(t) == Cooling(t) = {} /\ ~SlotLimited(t)

(* try_admit counts an admission in every domain of the path, or in none.    *)
TakeSlots(t) == inFlight' = [d \in Domains |-> inFlight[d] + (IF d \in Path(t) THEN 1 ELSE 0)]

(* Mutant: an attempt that panics keeps its slots. *)
ReleaseSlotsUnlessUnwinding(t) ==
    inFlight' = [d \in Domains |-> IF d \in Path(t) /\ task[t].next # "panicked"
                                   THEN inFlight[d] - 1 ELSE inFlight[d]]

(* release_slots, when an Admission is dropped.                              *)
ReleaseSlots(t) ==
    inFlight' = [d \in Domains |-> IF d \in Path(t) /\ inFlight[d] > 0 THEN inFlight[d] - 1
                                                                       ELSE inFlight[d]]

(* Mutant: the limit may grow past the ceiling. *)
CreditedUncapped(t, d) ==
    IF d \in Path(t) \ task[t].stale
    THEN [domain[d] EXCEPT !.limit = @ + 1,
                           !.strikes = IF domain[d].blocked = 0 THEN 0 ELSE @]
    ELSE domain[d]

(* observe_success: additive increase of every domain that was not throttled *)
(* after the attempt was admitted.                                           *)
Credited(t, d) ==
    IF d \in Path(t) \ task[t].stale
    THEN [domain[d] EXCEPT !.limit = Smaller(@ + 1, Ceiling(d)),
                           !.strikes = IF domain[d].blocked = 0 THEN 0 ELSE @]
    ELSE domain[d]

(* penalize: one halving per congestion episode and a cooldown that doubles. *)
(* A longer delay the server asked for (the floor of a cooldown) is left     *)
(* out: a cooldown of any length only delays the next admission.             *)
Cooldown(strikes) == Smaller(BaseDelay * 2^strikes, MaxCooldown)

Halved(limit) == IF limit = 1 THEN 1 ELSE limit \div 2

Penalized(t, d, strikes) ==
    [domain[d] EXCEPT !.limit = IF d \in task[t].stale THEN @ ELSE Halved(@),
                      !.blocked = IF Cooldown(strikes) > @ THEN Cooldown(strikes) ELSE @,
                      !.strikes = Smaller(strikes + 1, MaxStrikes)]

(* observe_classified_at penalizes the mailbox, and each ancestor of which   *)
(* two children were throttled within the escalation window.  Time decides   *)
(* which domains' earlier child failures are recent, and which domains have  *)
(* been out of cooldown long enough for their escalation to be forgotten.    *)
Throttled(t, recent, calm) ==
    LET children(d) == (IF d \in recent THEN domain[d].children ELSE {}) \cup {Child(t, d)}
        implicated == {d \in Path(t) : d = t \/ Cardinality(children(d)) >= 2}
        strikes(d) == IF d \in calm THEN 0 ELSE domain[d].strikes
    IN /\ domain' = [d \in Domains |->
              IF d \notin Path(t) THEN domain[d]
              ELSE LET after == IF d \in implicated THEN Penalized(t, d, strikes(d)) ELSE domain[d]
                   IN IF d = t THEN after ELSE [after EXCEPT !.children = children(d)]]
       /\ task' = [u \in Tasks |->
              IF u = t THEN [task[t] EXCEPT !.stage = "releasing", !.next = "retry",
                                            !.stale = @ \cup implicated]
              ELSE IF Stage(u) \in Admitted
                   THEN [task[u] EXCEPT !.stale = @ \cup (implicated \cap Path(u))]
                   ELSE task[u]]

-----------------------------------------------------------------------------
(* Worker threads: run_attempt.                                              *)

Move(t, stage, next) == task' = [task EXCEPT ![t].stage = stage, ![t].next = next]

MayRetry(t) == task[t].attempt < RetryCount

Fault(kind) == kind \in Faults /\ faults < MaxFaults /\ faults' = faults + 1

(* The transfer succeeds.  With a verification pool, a mailbox that verifies *)
(* gives its slots back first; every other one has verified by now.          *)
TransferSucceeds(t) ==
    /\ Stage(t) = "transferring"
    /\ domain' = [d \in Domains |-> Credited(t, d)]
    /\ Move(t, "releasing",
            IF VerificationWorkers > 0 /\ t \in Verifies THEN "verify" ELSE "finished")
    /\ UNCHANGED <<inFlight, scheduler, reports, token, cancel, faults>>

(* The attempt is over without a retry: cancelled, not preparable, refused   *)
(* by the controller, or failed for good.                                    *)
TransferFails(t) ==
    /\ Stage(t) = "transferring"
    /\ Move(t, "releasing", "finished")
    /\ UNCHANGED <<limiter, scheduler, reports, token, cancel, faults>>

TransferRetries(t) ==
    /\ Fault("transient")
    /\ Stage(t) = "transferring" /\ MayRetry(t)
    /\ Move(t, "releasing", "retry")
    /\ UNCHANGED <<limiter, scheduler, reports, token, cancel>>

(* A capacity failure of the provider.                                       *)
TransferThrottled(t) ==
    /\ Fault("throttle")
    /\ Stage(t) = "transferring" /\ MayRetry(t)
    /\ \E recent \in SUBSET {d \in Path(t) : domain[d].children # {}},
          calm \in SUBSET {d \in Path(t) : domain[d].blocked = 0 /\ domain[d].strikes > 0} :
             Throttled(t, recent, calm)
    /\ UNCHANGED <<inFlight, scheduler, reports, token, cancel>>

(* A panic unwinds through the attempt and drops its admission.              *)
AttemptPanics(t) ==
    /\ Fault("panic")
    /\ \/ Stage(t) = "transferring" /\ Move(t, "releasing", "panicked")
       \/ Stage(t) = "verifying" /\ Move(t, "ending", "panicked")
    /\ UNCHANGED <<limiter, scheduler, reports, token, cancel>>

AfterRelease(t) == IF task[t].next = "verify" THEN "gate" ELSE "ending"

(* Mutant: slots released early are not announced. *)
ReleaseSilentlyForVerification(t) ==
    /\ Stage(t) = "releasing"
    /\ ReleaseSlots(t)
    /\ token' = (token \/ task[t].next # "verify")
    /\ task' = [task EXCEPT ![t].stage = AfterRelease(t), ![t].stale = {}]
    /\ UNCHANGED <<domain, scheduler, reports, cancel, faults>>

(* release gives the slots back and, right after, signals the scheduler; the *)
(* notifier's channel has room for one token and a second one is dropped.    *)
(* Both are one step here: between them the thread itself is the wake-up     *)
(* still to come, and a scheduler that saw the slots finds a spurious token. *)
Release(t) ==
    /\ Stage(t) = "releasing"
    /\ ReleaseSlots(t)
    /\ token' = TRUE
    /\ task' = [task EXCEPT ![t].stage = AfterRelease(t), ![t].stale = {}]
    /\ UNCHANGED <<domain, scheduler, reports, cancel, faults>>

(* VerificationGate::acquire; only a thread that has to wait looks at the    *)
(* cancellation flag.                                                        *)
EnterVerification(t) ==
    LET full == Cardinality({u \in Tasks : Stage(u) = "verifying"}) >= VerificationWorkers
    IN /\ Stage(t) = "gate"
       /\ \/ ~full /\ Move(t, "verifying", "none")
          \/ full /\ cancel /\ Move(t, "ending", "finished")
       /\ UNCHANGED <<limiter, scheduler, reports, token, cancel, faults>>

VerificationEnds(t) ==
    /\ Stage(t) = "verifying"
    /\ \/ Move(t, "ending", "finished") /\ UNCHANGED faults
       \/ Fault("transient") /\ MayRetry(t) /\ Move(t, "ending", "retry")
    /\ UNCHANGED <<limiter, scheduler, reports, token, cancel>>

Report(t) ==
    /\ Stage(t) = "ending"
    /\ reports' = Append(reports, t)
    /\ task' = [task EXCEPT ![t].stage = "reported"]
    /\ UNCHANGED <<limiter, scheduler, token, cancel, faults>>

WorkerStep(t) ==
    \/ TransferSucceeds(t) \/ TransferFails(t) \/ TransferRetries(t)
    \/ TransferThrottled(t) \/ AttemptPanics(t) \/ Release(t)
    \/ EnterVerification(t) \/ VerificationEnds(t) \/ Report(t)

-----------------------------------------------------------------------------
(* FairQueue and TimerQueue.                                                 *)

Push(queue, t, front) ==
    LET n == Tenant(t)
        old == queue.queues[n]
    IN [order |-> IF old = <<>> THEN Append(queue.order, n) ELSE queue.order,
        queues |-> [queue.queues EXCEPT ![n] = IF front THEN <<t>> \o old ELSE Append(old, t)]]

PushBack(queue, t) == Push(queue, t, FALSE)

PushFront(queue, t) == Push(queue, t, TRUE)

(* pop_next takes the oldest task of the first tenant and moves the tenant   *)
(* to the back.                                                              *)
Popped ==
    LET n == Head(ready.order)
        rest == Tail(ready.queues[n])
    IN [task |-> Head(ready.queues[n]),
        ready |-> [order |-> IF rest = <<>> THEN Tail(ready.order) ELSE Append(Tail(ready.order), n),
                   queues |-> [ready.queues EXCEPT ![n] = rest]]]

(* Parked behind every task that is due no later.                            *)
Parked(queue, t, left) ==
    LET sooner == Cardinality({i \in 1..Len(queue) : queue[i].left <= left})
    IN InsertAt(queue, sooner + 1, [task |-> t, left |-> left])

ReadyLen == Cardinality({t \in Tasks : Stage(t) = "ready"})

(* pop_due, until the earliest timer is not due.                             *)
Due == Max({k \in 0..Len(timers) : \A i \in 1..k : timers[i].left = 0})

(* A task that an earlier run left in backoff is parked, any other is ready. *)
Place(queues, t) ==
    IF task[t].resume > 0
    THEN [queues EXCEPT !.timers = Parked(queues.timers, t, task[t].resume)]
    ELSE [queues EXCEPT !.ready = PushBack(queues.ready, t)]

PlaceAll(queues, s) ==
    LET placed[i \in 0..Len(s)] == IF i = 0 THEN queues ELSE Place(placed[i - 1], s[i])
    IN placed[Len(s)]

(* Last one first.                                                           *)
PushAllFront(queue, s) ==
    LET pushed[i \in 0..Len(s)] ==
            IF i = 0 THEN queue ELSE PushFront(pushed[i - 1], s[Len(s) + 1 - i])
    IN pushed[Len(s)]

(* The waiting tasks compete again after every wake-up.                      *)
RequeueWaiting ==
    /\ ready' = PushAllFront(ready, waiting)
    /\ waiting' = <<>>

Requeued(u) == u \in ToSet(waiting) /\ u \notin ToSet(waiting')

-----------------------------------------------------------------------------
(* The scheduler's loop: run_batch_schedule.                                 *)

(* Mutant: the scheduler sleeps until a message comes. *)
AtTopOnMessage == pc = "fill"

(* The loop begins again after a message, or when neither channel has had    *)
(* one within the scheduler's tick.                                          *)
AtTop == pc = "fill" \/ (pc = "wait" /\ reports = <<>> /\ ~token)

(* How many tasks are read from the source: up to the lookahead of ready     *)
(* tasks, or the bound on parked ones.                                       *)
Loads ==
    LET fresh(k) == Cardinality({i \in 1..k : task[source[i]].resume = 0})
        parked == ReadyLen + Len(timers) + Len(waiting)
    IN Min({k \in 0..Len(source) : \/ k = Len(source)
                                   \/ ReadyLen + Due + fresh(k) >= Lookahead
                                   \/ parked + k >= MaxParked})

(* Due timers become ready, then the source is read.  The tasks of timers    *)
(* have no resume deadline left.                                             *)
Fill ==
    LET coming == [i \in 1..Due |-> timers[i].task] \o SubSeq(source, 1, Loads)
        queues == PlaceAll([ready |-> ready, timers |-> SubSeq(timers, Due + 1, Len(timers))],
                           coming)
    IN /\ AtTop /\ ~cancel
       /\ ready' = queues.ready
       /\ timers' = queues.timers
       /\ source' = SubSeq(source, Loads + 1, Len(source))
       /\ task' = [t \in Tasks |->
              IF t \in ToSet(coming)
              THEN [task[t] EXCEPT !.stage = IF task[t].resume > 0 THEN "timer" ELSE "ready",
                                   !.resume = 0]
              ELSE task[t]]
       /\ pc' = "admit"
       /\ UNCHANGED <<limiter, waiting, threads, overtaken, reports, token, cancel, faults>>

(* The loop ends once nothing runs and nothing is left, or no thread lives.  *)
Settled ==
    /\ threads.busy = 0
    /\ \/ threads.alive = 0
       \/ source' = <<>> /\ ready'.order = <<>> /\ timers' = <<>> /\ waiting' = <<>>

(* Cancellation ends every task that no worker has.                          *)
FillCancelled ==
    /\ AtTop /\ cancel
    /\ task' = [t \in Tasks |-> IF Stage(t) \in Queued THEN [task[t] EXCEPT !.stage = "done"]
                                                       ELSE task[t]]
    /\ ready' = [order |-> <<>>, queues |-> [n \in Tenants |-> <<>>]]
    /\ source' = <<>> /\ timers' = <<>> /\ waiting' = <<>>
    /\ pc' = IF Settled THEN "ended" ELSE "wait"
    /\ UNCHANGED <<limiter, threads, overtaken, reports, token, cancel, faults>>

(* Admissions that a tenant had to watch although a ready task of its own    *)
(* could have been admitted instead.                                         *)
Overtaken(t) ==
    [n \in Tenants |->
        IF n = Tenant(t) THEN 0
        ELSE IF \E u \in Tasks : Tenant(u) = n /\ Stage(u) = "ready" /\ Admissible(u)
        THEN Smaller(overtaken[n] + 1, MaxOvertaken)
        ELSE overtaken[n]]

MayDispatch == threads.busy < threads.alive /\ ready.order # <<>>

Admit(t) ==
    /\ Admissible(t)
    /\ TakeSlots(t)
    /\ threads' = [threads EXCEPT !.busy = @ + 1]
    /\ overtaken' = Overtaken(t)
    /\ task' = [task EXCEPT ![t].stage = "transferring", ![t].stale = {}, ![t].next = "none"]
    /\ UNCHANGED <<timers, waiting>>

(* Blocked::Until, to the end of the longest cooldown on the path.           *)
ParkCooling(t) ==
    /\ Cooling(t) # {}
    /\ timers' = Parked(timers, t, Max({domain[d].blocked : d \in Path(t)}))
    /\ task' = [task EXCEPT ![t].stage = "timer"]
    /\ UNCHANGED <<inFlight, threads, overtaken, waiting>>

(* Blocked::Slot: a running attempt will wake the task; without one, it is   *)
(* failed as unschedulable.                                                  *)
AwaitSlot(t) ==
    /\ Cooling(t) = {} /\ SlotLimited(t)
    /\ IF threads.busy > 0
       THEN /\ waiting' = Append(waiting, t)
            /\ task' = [task EXCEPT ![t].stage = "waiting"]
       ELSE /\ waiting' = waiting
            /\ task' = [task EXCEPT ![t].stage = "unschedulable"]
    /\ UNCHANGED <<inFlight, threads, overtaken, timers>>

Dispatch ==
    /\ pc = "admit" /\ MayDispatch
    /\ ready' = Popped.ready
    /\ Admit(Popped.task) \/ ParkCooling(Popped.task) \/ AwaitSlot(Popped.task)
    /\ UNCHANGED <<domain, source, pc, reports, token, cancel, faults>>

DispatchEnds ==
    /\ pc = "admit" /\ ~MayDispatch
    /\ UNCHANGED <<limiter, task, queuesAndTimers, threads, overtaken, reports, token, cancel, faults>>
    /\ pc' = IF Settled THEN "ended" ELSE "wait"

ReceiveReport ==
    LET t == Head(reports)
        parks == task[t].next = "retry" /\ ~cancel
    IN /\ pc = "wait" /\ reports # <<>>
       /\ reports' = Tail(reports)
       /\ threads' = [alive |-> threads.alive - (IF task[t].next = "panicked" THEN 1 ELSE 0),
                      busy |-> threads.busy - 1]
       /\ timers' = IF parks THEN Parked(timers, t, BaseDelay) ELSE timers
       /\ RequeueWaiting
       /\ task' = [u \in Tasks |->
              IF Requeued(u) THEN [task[u] EXCEPT !.stage = "ready"]
              ELSE IF u # t THEN task[u]
              ELSE IF parks THEN [task[t] EXCEPT !.stage = "timer", !.attempt = @ + 1, !.next = "none"]
              ELSE [task[t] EXCEPT !.stage = IF task[t].next = "panicked" THEN "lost" ELSE "done",
                                   !.next = "none"]]
       /\ pc' = "fill"
       /\ UNCHANGED <<limiter, source, overtaken, token, cancel, faults>>

ReceiveRelease ==
    /\ pc = "wait" /\ token
    /\ token' = FALSE
    /\ RequeueWaiting
    /\ task' = [u \in Tasks |-> IF Requeued(u) THEN [task[u] EXCEPT !.stage = "ready"] ELSE task[u]]
    /\ pc' = "fill"
    /\ UNCHANGED <<limiter, source, timers, threads, overtaken, reports, cancel, faults>>

SchedulerStep ==
    \/ Fill \/ FillCancelled \/ Dispatch \/ DispatchEnds
    \/ ReceiveReport \/ ReceiveRelease

-----------------------------------------------------------------------------
Cancel ==
    /\ "cancel" \in Faults
    /\ ~cancel /\ pc # "ended"
    /\ cancel' = TRUE
    /\ UNCHANGED <<limiter, task, scheduler, reports, token, faults>>

Down(n) == IF n > 0 THEN n - 1 ELSE 0

Tick ==
    /\ domain' = [d \in Domains |-> [domain[d] EXCEPT !.blocked = Down(@)]]
    /\ timers' = [i \in 1..Len(timers) |-> [timers[i] EXCEPT !.left = Down(@)]]
    /\ task' = [t \in Tasks |-> [task[t] EXCEPT !.resume = Down(@)]]
    /\ <<domain, timers, task>>' # <<domain, timers, task>>
    /\ UNCHANGED <<inFlight, source, ready, waiting, threads, pc, overtaken, reports, token, cancel, faults>>

Workers == \E t \in Tasks : WorkerStep(t)

Next ==
    \/ SchedulerStep
    \/ Workers
    \/ Cancel
    \/ Tick

(* The scheduler thread runs, time passes, and some attempt moves on while   *)
(* any can: engines and scans have timeouts.                                 *)
Spec ==
    /\ Init /\ [][Next]_vars
    /\ WF_vars(SchedulerStep) /\ WF_vars(Workers) /\ WF_vars(Tick)

-----------------------------------------------------------------------------
(* No rate domain ever carries more attempts than its ceiling, whatever the  *)
(* limits, retries and panics did: admissions are counted while they last.   *)
CeilingHeld == \A d \in Domains : Cardinality(Holders(d)) <= Ceiling(d)

(* No task is failed for want of a slot: when one finds every slot taken, a  *)
(* running attempt holds it (the comment at batch_scheduler.rs:402).         *)
NeverUnschedulable == \A t \in Tasks : Stage(t) # "unschedulable"

(* No wake-up is lost: when the scheduler sleeps, no message is pending and  *)
(* no thread is giving its slots back, no waiting task could be admitted.    *)
NoLostWakeup ==
    (/\ pc = "wait" /\ ~token /\ reports = <<>>
     /\ \A t \in Tasks : Stage(t) # "releasing")
    => \A i \in 1..Len(waiting) : ~Admissible(waiting[i])

(* The schedule ends, and unless every worker thread panicked it ends with   *)
(* every task over.                                                          *)
ScheduleCompletes ==
    <>(pc = "ended" /\ (threads.alive > 0 => \A t \in Tasks : Stage(t) \in {"done", "lost"}))

(* "Ready mailboxes are served round-robin across tenants, so one customer   *)
(* with many queued mailboxes cannot starve another" (batch_scheduler.rs:8): *)
(* a tenant is not passed over again and again while it could be admitted.   *)
TenantsTakeTurns == \A n \in Tenants : overtaken[n] < 2 * Cardinality(Tenants)
============================================================================
