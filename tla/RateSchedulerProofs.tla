------------------------ MODULE RateSchedulerProofs ------------------------
(***************************************************************************)
(* The rate limiter's and the scheduler's promises, for every set of       *)
(* tasks, every lineage and every choice of ceilings, threads and faults.  *)
(* First the limiter: no rate domain ever carries more attempts than its   *)
(* ceiling, in whatever order the scheduler's queues bring the tasks       *)
(* (LimiterInv).  Then the scheduler: its lists, its count of busy threads *)
(* and the limiter's counts agree with what the attempts do on their own   *)
(* threads, so that no task is failed for want of a slot and no wake-up is *)
(* lost (SchedulerInv).                                                    *)
(***************************************************************************)
EXTENDS RateScheduler, FiniteSetTheorems, SequenceTheorems, WellFoundedInduction, TLAPS

DomainRow ==
    [limit : 1..Concurrency, blocked : 0..MaxCooldown, strikes : 0..MaxStrikes,
     children : SUBSET Domains]

TaskRow ==
    [stage : Queued \cup Admitted \cup Released \cup Over \cup {"reported"},
     next : {"none", "finished", "retry", "panicked", "verify"},
     attempt : Nat, stale : SUBSET Domains, resume : 0..BaseDelay]

(* A domain's limit is at least one and never above its ceiling. *)
LimitsOK ==
    /\ domain \in [Domains -> DomainRow]
    /\ \A d \in Domains : domain[d].limit <= Ceiling(d)

(* The count of a domain covers every attempt that holds a slot of it. *)
CountsOK ==
    /\ inFlight \in [Domains -> Nat]
    /\ \A d \in Domains :
          inFlight[d] <= Ceiling(d) /\ Cardinality(Holders(d)) <= inFlight[d]

TasksOK == task \in [Tasks -> TaskRow]

LimiterInv == LimitsOK /\ CountsOK /\ TasksOK

(* No element occurs twice. *)
Distinct(s) == \A i, j \in 1..Len(s) : s[i] = s[j] => i = j

(* s lists tasks of T, each at most once. *)
Lists(s, T) == s \in Seq(Tasks) /\ Distinct(s) /\ \A i \in 1..Len(s) : s[i] \in T

FairQueues == [order : Seq(Tenants), queues : [Tenants -> Seq(Tasks)]]

(* A fair queue whose tasks are in T: each is queued once, with its tenant,  *)
(* and the tenants in the round are distinct and have a task each.           *)
Queues(q, T) ==
    /\ q \in FairQueues
    /\ Distinct(q.order)
    /\ \A i \in 1..Len(q.order) : q.queues[q.order[i]] # <<>>
    /\ \A n \in Tenants : Lists(q.queues[n], {t \in T : Tenant(t) = n})

TimerRow == [task : Tasks, left : Nat]

(* A timer queue whose tasks are in T, each parked once. *)
Parks(q, T) ==
    /\ q \in Seq(TimerRow)
    /\ \A i, j \in 1..Len(q) : q[i].task = q[j].task => i = j
    /\ \A i \in 1..Len(q) : q[i].task \in T

Staged(stages) == {t \in Tasks : Stage(t) \in stages}

(* Every list the scheduler keeps holds tasks of its own stage only, so no   *)
(* task is in two of them or twice in one.                                   *)
QueuesOK ==
    /\ Lists(source, Staged({"source"}))
    /\ Queues(ready, Staged({"ready"}))
    /\ Parks(timers, Staged({"timer"}))
    /\ Lists(waiting, Staged({"waiting"}))
    /\ Lists(reports, Staged({"reported"}))

(* The tasks that a thread has, until the scheduler takes the report. *)
Engaged == Staged(Admitted \cup Released \cup {"reported"})

ThreadsOK ==
    /\ threads \in [alive : 0..Threads, busy : Nat]
    /\ threads.busy = Cardinality(Engaged) /\ threads.busy <= threads.alive
    /\ Len(reports) = Cardinality(Staged({"reported"}))

(* No slot is counted that no attempt holds. *)
SlotsHeld == \A d \in Domains : inFlight[d] <= Cardinality(Holders(d))

(* Only a task that may be tried again asks for it, and one that was loaded   *)
(* and not cancelled before has no resume deadline left.                     *)
AttemptsOK ==
    \A t \in Tasks :
        /\ task[t].attempt <= RetryCount
        /\ task[t].next = "retry" => task[t].attempt < RetryCount
        /\ Stage(t) \notin {"source", "done"} => task[t].resume = 0

(* A waiting task still finds no slot, unless a release is announced or about *)
(* to be.                                                                     *)
WakeupsOK ==
    \/ token
    \/ Staged({"releasing"}) # {}
    \/ \A i \in 1..Len(waiting) : SlotLimited(waiting[i])

FlagsOK ==
    /\ token \in BOOLEAN /\ cancel \in BOOLEAN
    /\ pc \in {"fill", "admit", "wait", "ended"}
    /\ overtaken \in [Tenants -> 0..MaxOvertaken]
    /\ faults \in 0..MaxFaults

SchedulerInv ==
    /\ QueuesOK /\ ThreadsOK /\ SlotsHeld /\ AttemptsOK /\ WakeupsOK /\ FlagsOK
    /\ NeverUnschedulable

-----------------------------------------------------------------------------
(* The limiter's arithmetic *)

(* The constants as the arithmetic uses them. *)
LEMMA Constants ==
    /\ Concurrency \in Nat \ {0} /\ MaxCooldown \in Nat /\ MaxStrikes \in Nat
    /\ BaseDelay \in Nat /\ IsFiniteSet(Tasks)
    /\ \A d \in Domains : DomainCeiling[d] \in Nat \ {0}
BY SchedulerConstants

(* Every domain admits at least one attempt, and never more than the batch. *)
LEMMA CeilingType ==
    ASSUME NEW d \in Domains
    PROVE  Ceiling(d) \in 1..Concurrency
BY Constants DEF Ceiling, Smaller

(* The domains that a task is admitted through are rate domains. *)
LEMMA PathDomains ==
    ASSUME NEW t \in Tasks
    PROVE  Path(t) \subseteq Domains
BY DEF Domains

(* Attempts that hold no new slot keep the counts. *)
LEMMA CountsKept ==
    ASSUME CountsOK, UNCHANGED inFlight,
           \A t \in Tasks : Stage(t)' \in Admitted => Stage(t) \in Admitted
    PROVE  CountsOK'
<1> SUFFICES ASSUME NEW d \in Domains PROVE Cardinality(Holders(d)') <= inFlight[d]
  BY DEF CountsOK
<1>1. Holders(d)' \subseteq Holders(d)
  BY DEF Holders
<1>2. IsFiniteSet(Holders(d))
  BY Constants, FS_Subset DEF Holders
<1>3. /\ Cardinality(Holders(d)') <= Cardinality(Holders(d))
      /\ Cardinality(Holders(d)') \in Nat /\ Cardinality(Holders(d)) \in Nat
  BY <1>1, <1>2, FS_Subset, FS_CardinalityType
<1> QED BY <1>3 DEF CountsOK

(* An admission is counted in every domain of the path, each of which had   *)
(* room for it.                                                             *)
LEMMA CountsTaken ==
    ASSUME CountsOK, LimitsOK, NEW t, ~SlotLimited(t), TakeSlots(t),
           \A u \in Tasks : u # t /\ Stage(u)' \in Admitted => Stage(u) \in Admitted
    PROVE  CountsOK'
<1> SUFFICES ASSUME NEW d \in Domains
             PROVE  /\ inFlight'[d] \in Nat /\ inFlight'[d] <= Ceiling(d)
                    /\ Cardinality(Holders(d)') <= inFlight'[d]
  <2>1. inFlight' \in [Domains -> Nat]
    BY DEF TakeSlots, CountsOK
  <2> QED BY <2>1 DEF CountsOK
<1>0. PICK H : H = Holders(d)
  OBVIOUS
<1>1. IsFiniteSet(H) /\ Cardinality(H) \in Nat /\ Cardinality(H) <= inFlight[d]
      /\ inFlight[d] \in Nat /\ inFlight[d] <= Ceiling(d)
  BY <1>0, Constants, FS_Subset, FS_CardinalityType DEF Holders, CountsOK
<1>2. CASE d \in Path(t)
  <2>1. inFlight[d] < Ceiling(d) /\ inFlight'[d] = inFlight[d] + 1
    <3>1. inFlight[d] < domain[d].limit /\ domain[d].limit <= Ceiling(d)
      BY <1>1, <1>2 DEF SlotLimited, Saturated, LimitsOK, DomainRow
    <3>2. domain[d].limit \in Nat /\ Ceiling(d) \in Nat
      BY CeilingType DEF LimitsOK, DomainRow
    <3> QED BY <1>1, <1>2, <3>1, <3>2 DEF TakeSlots
  <2>2. Holders(d)' \subseteq H \cup {t}
    BY <1>0 DEF Holders
  <2>3. /\ IsFiniteSet(H \cup {t})
        /\ Cardinality(H \cup {t}) = IF t \in H THEN Cardinality(H) ELSE Cardinality(H) + 1
    BY <1>1, FS_AddElement, Zenon
  <2>4. /\ Cardinality(Holders(d)') <= Cardinality(H \cup {t})
        /\ Cardinality(Holders(d)') \in Nat
    BY <2>2, <2>3, FS_Subset, FS_CardinalityType
  <2> QED BY <1>1, <2>1, <2>3, <2>4, CeilingType
<1>3. CASE d \notin Path(t)
  <2>1. inFlight'[d] = inFlight[d]
    BY <1>1, <1>3 DEF TakeSlots
  <2>2. Holders(d)' \subseteq H
    BY <1>0, <1>3 DEF Holders
  <2>3. Cardinality(Holders(d)') <= Cardinality(H) /\ Cardinality(Holders(d)') \in Nat
    BY <1>1, <2>2, FS_Subset, FS_CardinalityType
  <2> QED BY <1>1, <2>1, <2>3
<1> QED BY <1>2, <1>3

(* A release uncounts one attempt, the one that stops holding the slots.    *)
LEMMA CountsReleased ==
    ASSUME CountsOK, NEW t \in Tasks, Stage(t) \in Admitted, Stage(t)' \notin Admitted,
           ReleaseSlots(t),
           \A u \in Tasks : u # t => Stage(u)' = Stage(u)
    PROVE  CountsOK'
<1> SUFFICES ASSUME NEW d \in Domains
             PROVE  /\ inFlight'[d] <= Ceiling(d)
                    /\ Cardinality(Holders(d)') <= inFlight'[d]
  <2>1. inFlight' \in [Domains -> Nat]
    BY DEF ReleaseSlots, CountsOK
  <2> QED BY <2>1 DEF CountsOK
<1>0. PICK H : H = Holders(d)
  OBVIOUS
<1>1. IsFiniteSet(H) /\ Cardinality(H) \in Nat /\ Cardinality(H) <= inFlight[d]
      /\ inFlight[d] \in Nat /\ inFlight[d] <= Ceiling(d) /\ Ceiling(d) \in Nat
  BY <1>0, Constants, CeilingType, FS_Subset, FS_CardinalityType DEF Holders, CountsOK
<1>2. CASE d \in Path(t)
  <2>1. t \in H /\ Holders(d)' = H \ {t}
    BY <1>0, <1>2 DEF Holders
  <2>2. Cardinality(H \ {t}) = Cardinality(H) - 1 /\ Cardinality(H \ {t}) \in Nat
    BY <1>1, <2>1, FS_RemoveElement, FS_CardinalityType
  <2>3. inFlight'[d] = inFlight[d] - 1
    BY <1>1, <1>2, <2>2 DEF ReleaseSlots
  <2> QED BY <1>1, <2>1, <2>2, <2>3
<1>3. CASE d \notin Path(t)
  <2>1. Holders(d)' = H /\ inFlight'[d] = inFlight[d]
    BY <1>0, <1>1, <1>3 DEF Holders, ReleaseSlots
  <2> QED BY <1>1, <2>1
<1> QED BY <1>2, <1>3

(* One halving keeps a limit of at least one; one credit stays below the    *)
(* ceiling.                                                                 *)
LEMMA CreditKeepsLimits ==
    ASSUME LimitsOK, NEW t, domain' = [d \in Domains |-> Credited(t, d)]
    PROVE  LimitsOK'
<1> SUFFICES ASSUME NEW d \in Domains
             PROVE  Credited(t, d) \in DomainRow /\ Credited(t, d).limit <= Ceiling(d)
  BY DEF LimitsOK
<1>1. domain[d] \in DomainRow /\ domain[d].limit <= Ceiling(d) /\ Ceiling(d) \in 1..Concurrency
  BY CeilingType DEF LimitsOK
<1>2. CASE d \in Path(t) \ task[t].stale
  <2> DEFINE limit == Smaller(domain[d].limit + 1, Ceiling(d))
             strikes == IF domain[d].blocked = 0 THEN 0 ELSE domain[d].strikes
  <2>1. Credited(t, d) = [domain[d] EXCEPT !.limit = limit, !.strikes = strikes]
    BY <1>2 DEF Credited
  <2>2. limit \in 1..Concurrency /\ limit <= Ceiling(d) /\ strikes \in 0..MaxStrikes
    BY <1>1, Constants DEF DomainRow, Smaller
  <2> HIDE DEF limit, strikes
  <2> QED BY <1>1, <2>1, <2>2 DEF DomainRow
<1>3. CASE d \notin Path(t) \ task[t].stale
  BY <1>1, <1>3 DEF Credited
<1> QED BY <1>2, <1>3


(* penalize halves a limit, never below one, and caps the cooldown and the   *)
(* escalation.                                                               *)
LEMMA PenaltyKeepsLimit ==
    ASSUME LimitsOK, NEW t, NEW d \in Domains, NEW strikes \in 0..MaxStrikes
    PROVE  Penalized(t, d, strikes) \in DomainRow /\ Penalized(t, d, strikes).limit <= Ceiling(d)
<1>1. domain[d] \in DomainRow /\ domain[d].limit <= Ceiling(d) /\ Ceiling(d) \in 1..Concurrency
  BY CeilingType DEF LimitsOK
<1> DEFINE limit == IF d \in task[t].stale THEN domain[d].limit ELSE Halved(domain[d].limit)
           blocked == IF Cooldown(strikes) > domain[d].blocked THEN Cooldown(strikes)
                                                               ELSE domain[d].blocked
           more == Smaller(strikes + 1, MaxStrikes)
<1>2. Penalized(t, d, strikes) =
         [domain[d] EXCEPT !.limit = limit, !.blocked = blocked, !.strikes = more]
  BY DEF Penalized
<1>3. limit \in 1..Concurrency /\ limit <= Ceiling(d)
  BY <1>1, Constants DEF DomainRow, Halved
<1>4. Cooldown(strikes) \in Int /\ Cooldown(strikes) <= MaxCooldown
  <2>1. 2^strikes \in Int
    OBVIOUS
  <2>2. PICK power \in Int : power = 2^strikes
    BY <2>1
  <2>3. BaseDelay * power \in Int
    BY <2>2, Constants
  <2> QED BY <2>2, <2>3, Constants DEF Cooldown, Smaller
<1>5. blocked \in 0..MaxCooldown /\ more \in 0..MaxStrikes
  BY <1>1, <1>4, Constants DEF DomainRow, Smaller
<1> HIDE DEF limit, blocked, more
<1> QED BY <1>1, <1>2, <1>3, <1>5 DEF DomainRow

(* The next narrower domain of a lineage. *)
LEMMA ChildDomain ==
    ASSUME NEW t \in Tasks, NEW d \in Path(t), d # t
    PROVE  Child(t, d) \in Domains
<1>1. DOMAIN Lineage[t] = 1..4 /\ Lineage[t][4] = t
  BY SchedulerConstants
<1>2. PICK j \in 1..4 : d = Lineage[t][j]
  BY <1>1 DEF Path, ToSet
<1>3. j + 1 \in 1..4 /\ j + 1 > 1 /\ Lineage[t][(j + 1) - 1] = d
  BY <1>1, <1>2
<1>4. \E i \in 1..4 : i > 1 /\ Lineage[t][i - 1] = d
  BY <1>3
<1>5. PICK i \in 1..4 : i = CHOOSE k \in 1..4 : k > 1 /\ Lineage[t][k - 1] = d
  BY <1>4
<1>6. Lineage[t][i] \in Path(t)
  BY <1>1 DEF Path, ToSet
<1> QED BY <1>5, <1>6, PathDomains DEF Child

(* A throttled attempt penalizes domains of its own lineage. *)
LEMMA ThrottleKeepsLimits ==
    ASSUME LimitsOK, NEW t \in Tasks, NEW recent, NEW calm, Throttled(t, recent, calm)
    PROVE  LimitsOK'
<1> DEFINE children(d) == (IF d \in recent THEN domain[d].children ELSE {}) \cup {Child(t, d)}
           implicated == {d \in Path(t) : d = t \/ Cardinality(children(d)) >= 2}
           strikes(d) == IF d \in calm THEN 0 ELSE domain[d].strikes
           after(d) == IF d \in implicated THEN Penalized(t, d, strikes(d)) ELSE domain[d]
           row(d) == IF d \notin Path(t) THEN domain[d]
                     ELSE IF d = t THEN after(d) ELSE [after(d) EXCEPT !.children = children(d)]
<1>1. domain' = [d \in Domains |-> row(d)]
  BY DEF Throttled
<1> SUFFICES ASSUME NEW d \in Domains PROVE row(d) \in DomainRow /\ row(d).limit <= Ceiling(d)
  <2> HIDE DEF row
  <2> QED BY <1>1 DEF LimitsOK
<1>2. domain[d] \in DomainRow /\ domain[d].limit <= Ceiling(d)
  BY DEF LimitsOK
<1>3. strikes(d) \in 0..MaxStrikes
  BY <1>2, Constants DEF DomainRow
<1>4. after(d) \in DomainRow /\ after(d).limit <= Ceiling(d)
  <2> HIDE DEF strikes, implicated
  <2> QED BY <1>2, <1>3, PenaltyKeepsLimit
<1>5. d \in Path(t) /\ d # t => children(d) \in SUBSET Domains
  BY <1>2, ChildDomain DEF DomainRow
<1> HIDE DEF after, children
<1>6. d \in Path(t) /\ d # t =>
         LET r == [after(d) EXCEPT !.children = children(d)]
         IN  r \in DomainRow /\ r.limit <= Ceiling(d)
  BY <1>4, <1>5 DEF DomainRow
<1> QED BY <1>2, <1>4, <1>6


-----------------------------------------------------------------------------
(* The tasks *)

(* Steps that admit nothing: no task enters a stage in which it would hold  *)
(* slots.                                                                   *)
Stays ==
    /\ TasksOK'
    /\ \A t \in Tasks : Stage(t)' \in Admitted => Stage(t) \in Admitted

Stages == Queued \cup Admitted \cup Released \cup Over \cup {"reported"}

(* Replacing columns of a task's row leaves a row. *)
LEMMA Restaged ==
    ASSUME NEW r \in TaskRow, NEW stage \in Stages
    PROVE  [r EXCEPT !.stage = stage] \in TaskRow /\ [r EXCEPT !.stage = stage].stage = stage
BY DEF TaskRow, Stages

(* A task alone changes, and takes no slot by it. *)
LEMMA OneTaskStays ==
    ASSUME TasksOK, NEW t, NEW row, t \in Tasks => row \in TaskRow,
           task' = [task EXCEPT ![t] = row],
           t \in Tasks /\ row.stage \in Admitted => Stage(t) \in Admitted
    PROVE  Stays /\ \A u \in Tasks : u # t => task'[u] = task[u]
<1>1. task' \in [Tasks -> TaskRow] /\ \A u \in Tasks : task'[u] = IF u = t THEN row ELSE task[u]
  BY DEF TasksOK
<1> QED BY <1>1 DEF Stays, Stage, TasksOK

(* Every task changes on its own. *)
LEMMA AllTasksStay ==
    ASSUME TasksOK, \A u \in Tasks : /\ task'[u] \in TaskRow
                                     /\ task'[u].stage \in Admitted => Stage(u) \in Admitted,
           task' = [u \in Tasks |-> task'[u]]
    PROVE  Stays
<1>1. task' \in [Tasks -> TaskRow]
  OBVIOUS
<1> QED BY <1>1 DEF Stays, Stage, TasksOK

(* A thread that moves its task without admitting it adds no holder of a     *)
(* slot.                                                                     *)
LEMMA MoveStays ==
    ASSUME TasksOK, NEW t \in Tasks, NEW stage \in Stages,
           NEW next \in {"none", "finished", "retry", "panicked", "verify"},
           Move(t, stage, next), stage \in Admitted => Stage(t) \in Admitted
    PROVE  Stays
<1> DEFINE row == [task[t] EXCEPT !.stage = stage, !.next = next]
<1>1. task' = [task EXCEPT ![t] = row]
  BY DEF Move, TasksOK
<1>2. row \in TaskRow /\ row.stage = stage
  BY DEF TasksOK, TaskRow, Stages
<1> HIDE DEF row
<1> QED BY <1>1, <1>2, OneTaskStays

(* The same for a step that sets the stage alone. *)
LEMMA StageStays ==
    ASSUME TasksOK, NEW t, NEW stage \in Stages,
           task' = [task EXCEPT ![t].stage = stage],
           t \in Tasks /\ stage \in Admitted => Stage(t) \in Admitted
    PROVE  Stays
<1> DEFINE row == [task[t] EXCEPT !.stage = stage]
<1>1. task' = [task EXCEPT ![t] = row]
  BY DEF TasksOK
<1>2. t \in Tasks => row \in TaskRow /\ row.stage = stage
  BY Restaged DEF TasksOK
<1> HIDE DEF row
<1> QED BY <1>1, <1>2, OneTaskStays

(* A step of the limiter's clients that neither takes nor returns a slot. *)
LEMMA QuietKeeps ==
    ASSUME LimiterInv, LimitsOK', Stays, UNCHANGED inFlight
    PROVE  LimiterInv'
BY CountsKept DEF LimiterInv, Stays

-----------------------------------------------------------------------------
(* The worker threads *)

(* Every step of run_attempt on a worker thread keeps the limiter's counts. *)
LEMMA WorkerStepKeeps ==
    ASSUME LimiterInv, NEW t \in Tasks, WorkerStep(t)
    PROVE  LimiterInv'
<1>0. TasksOK /\ LimitsOK /\ CountsOK /\ task[t] \in TaskRow
  BY DEF LimiterInv, TasksOK
<1>a. ASSUME UNCHANGED limiter, Stays PROVE LimiterInv'
  <2>1. LimitsOK' /\ UNCHANGED inFlight
    BY <1>0, <1>a DEF limiter, LimitsOK
  <2> QED BY <1>a, <2>1, QuietKeeps
<1>b. {"releasing", "ending", "verifying", "reported", "gate"} \subseteq Stages
  BY DEF Stages, Admitted, Released
<1>c. "releasing" \in Admitted /\ "transferring" \in Admitted
      /\ {"ending", "verifying", "reported", "gate"} \cap Admitted = {}
  BY DEF Admitted
<1>1. CASE TransferSucceeds(t)
  <2>1. \E next \in {"verify", "finished"} : Move(t, "releasing", next)
    BY <1>1 DEF TransferSucceeds
  <2>2. Stays
    BY <1>0, <1>1, <1>b, <1>c, <2>1, MoveStays DEF TransferSucceeds
  <2>3. LimitsOK' /\ UNCHANGED inFlight
    BY <1>0, <1>1, CreditKeepsLimits DEF TransferSucceeds
  <2> QED BY <2>2, <2>3, QuietKeeps
<1>2. CASE TransferFails(t)
  <2>1. Stays
    BY <1>0, <1>2, <1>b, <1>c, MoveStays DEF TransferFails
  <2> QED BY <1>2, <1>a, <2>1 DEF TransferFails
<1>3. CASE TransferRetries(t)
  <2>1. Stays
    BY <1>0, <1>3, <1>b, <1>c, MoveStays DEF TransferRetries
  <2> QED BY <1>3, <1>a, <2>1 DEF TransferRetries
<1>4. CASE TransferThrottled(t)
  <2>1. PICK recent, calm : Throttled(t, recent, calm)
    BY <1>4 DEF TransferThrottled
  <2>2. LimitsOK' /\ UNCHANGED inFlight
    BY <1>0, <1>4, <2>1, ThrottleKeepsLimits DEF TransferThrottled
  <2> DEFINE children(d) == (IF d \in recent THEN domain[d].children ELSE {}) \cup {Child(t, d)}
             implicated == {d \in Path(t) : d = t \/ Cardinality(children(d)) >= 2}
             own == [task[t] EXCEPT !.stage = "releasing", !.next = "retry",
                                    !.stale = task[t].stale \cup implicated]
             other(u) == [task[u] EXCEPT !.stale = task[u].stale \cup (implicated \cap Path(u))]
  <2>3. task' = [u \in Tasks |-> IF u = t THEN own
                                 ELSE IF Stage(u) \in Admitted THEN other(u) ELSE task[u]]
    BY <2>1 DEF Throttled
  <2>4. implicated \subseteq Domains
    BY PathDomains
  <2> HIDE DEF implicated
  <2>5. own \in TaskRow /\ Stage(t) \in Admitted
    BY <1>0, <1>4, <1>b, <1>c, <2>4 DEF TaskRow, Stages, TransferThrottled
  <2>6. ASSUME NEW u \in Tasks PROVE other(u) \in TaskRow /\ other(u).stage = Stage(u)
    <3>1. task[u] \in TaskRow
      BY <1>0 DEF TasksOK
    <3>2. implicated \cap Path(u) \subseteq Domains
      BY <2>4
    <3> QED BY <3>1, <3>2 DEF TaskRow, Stage
  <2> HIDE DEF own, other
  <2>7. \A u \in Tasks : task'[u] \in TaskRow /\ (task'[u].stage \in Admitted => Stage(u) \in Admitted)
    BY <1>0, <2>3, <2>5, <2>6 DEF TasksOK, Stage
  <2>8. task' = [u \in Tasks |-> task'[u]]
    BY <2>3
  <2>9. Stays
    BY <1>0, <2>7, <2>8, AllTasksStay
  <2> QED BY <2>2, <2>9, QuietKeeps
<1>5. CASE AttemptPanics(t)
  <2>1. Stays
    BY <1>0, <1>5, <1>b, <1>c, MoveStays DEF AttemptPanics
  <2> QED BY <1>5, <1>a, <2>1 DEF AttemptPanics
<1>6. CASE Release(t)
  <2> DEFINE row == [task[t] EXCEPT !.stage = AfterRelease(t), !.stale = {}]
  <2>1. task' = [task EXCEPT ![t] = row]
    BY <1>0, <1>6 DEF Release, TasksOK
  <2>2. AfterRelease(t) \in {"gate", "ending"}
    BY DEF AfterRelease
  <2>3. row \in TaskRow /\ row.stage \in {"gate", "ending"}
    BY <1>0, <1>b, <2>2 DEF TaskRow, Stages
  <2> HIDE DEF row
  <2>4. /\ TasksOK' /\ Stage(t)' \notin Admitted
        /\ \A u \in Tasks : u # t => Stage(u)' = Stage(u)
    BY <1>0, <1>c, <2>1, <2>3 DEF TasksOK, Stage
  <2>5. CountsOK'
    BY <1>0, <1>6, <1>c, <2>4, CountsReleased DEF Release
  <2> QED BY <1>0, <1>6, <2>4, <2>5 DEF Release, LimiterInv, LimitsOK
<1>7. CASE EnterVerification(t)
  <2>1. Move(t, "verifying", "none") \/ Move(t, "ending", "finished")
    BY <1>7 DEF EnterVerification
  <2>2. Stays
    BY <1>0, <1>b, <1>c, <2>1, MoveStays
  <2> QED BY <1>7, <1>a, <2>2 DEF EnterVerification
<1>8. CASE VerificationEnds(t)
  <2>1. Stays
    BY <1>0, <1>8, <1>b, <1>c, MoveStays DEF VerificationEnds
  <2> QED BY <1>8, <1>a, <2>1 DEF VerificationEnds
<1>9. CASE Report(t)
  <2>1. Stays
    BY <1>0, <1>9, <1>b, <1>c, StageStays DEF Report
  <2> QED BY <1>9, <1>a, <2>1 DEF Report
<1> QED BY <1>1, <1>2, <1>3, <1>4, <1>5, <1>6, <1>7, <1>8, <1>9 DEF WorkerStep


-----------------------------------------------------------------------------
(* The scheduler's loop and time *)

(* What a step that leaves the limiter alone keeps. *)
LEMMA LimiterKept ==
    ASSUME LimiterInv, UNCHANGED limiter, Stays
    PROVE  LimiterInv'
<1>1. LimitsOK' /\ UNCHANGED inFlight
  BY DEF limiter, LimitsOK, LimiterInv
<1> QED BY <1>1, QuietKeeps

(* Loading, parking, cancelling and requeueing give tasks stages without a  *)
(* slot.                                                                    *)
LEMMA QueueingKeeps ==
    ASSUME LimiterInv, Fill \/ FillCancelled \/ ReceiveReport \/ ReceiveRelease
    PROVE  LimiterInv'
<1>0. TasksOK
  BY DEF LimiterInv
<1> DEFINE R(t) == [task[t] EXCEPT !.stage = "ready"]
           P(t) == [task[t] EXCEPT !.stage = IF task[t].resume > 0 THEN "timer" ELSE "ready",
                                   !.resume = 0]
           D(t) == [task[t] EXCEPT !.stage = "done"]
           A(t) == [task[t] EXCEPT !.stage = "timer", !.attempt = task[t].attempt + 1,
                                   !.next = "none"]
           E(t, s) == [task[t] EXCEPT !.stage = s, !.next = "none"]
<1>1. ASSUME NEW t \in Tasks, NEW s \in {"lost", "done"}
      PROVE  /\ {R(t), P(t), D(t), A(t), E(t, s)} \subseteq TaskRow
             /\ \A r \in {R(t), P(t), D(t), A(t), E(t, s)} : r.stage \notin Admitted
  <2>1. task[t] \in TaskRow
    BY <1>0 DEF TasksOK
  <2>2. {"ready", "timer", "done", s} \subseteq Stages /\ 0 \in 0..BaseDelay
        /\ {"ready", "timer", "done", s} \cap Admitted = {} /\ task[t].attempt + 1 \in Nat
    BY <2>1, Constants DEF Stages, Queued, Over, Admitted, TaskRow
  <2>3. R(t) \in TaskRow /\ R(t).stage = "ready" /\ D(t) \in TaskRow /\ D(t).stage = "done"
    BY <2>1, <2>2 DEF TaskRow, Stages
  <2>4. P(t) \in TaskRow /\ P(t).stage \in {"timer", "ready"}
    <3>1. PICK stage \in {"timer", "ready"} :
              stage = IF task[t].resume > 0 THEN "timer" ELSE "ready"
      OBVIOUS
    <3>2. P(t) = [task[t] EXCEPT !.stage = stage, !.resume = 0]
      BY <3>1
    <3> QED BY <2>1, <2>2, <3>2 DEF TaskRow, Stages
  <2>5. A(t) \in TaskRow /\ A(t).stage = "timer"
    BY <2>1, <2>2 DEF TaskRow, Stages
  <2>6. E(t, s) \in TaskRow /\ E(t, s).stage = s
    BY <2>1, <2>2 DEF TaskRow, Stages
  <2> HIDE DEF R, P, D, A, E
  <2> QED BY <2>2, <2>3, <2>4, <2>5, <2>6
<1> DEFINE loaded == \E X, Y : task' = [t \in Tasks |->
               IF t \in X THEN R(t) ELSE IF t \in Y THEN P(t) ELSE task[t]]
           ended == \E X : task' = [t \in Tasks |-> IF t \in X THEN D(t) ELSE task[t]]
           received == \E X, u, row :
               /\ row \in {A(u), E(u, "lost"), E(u, "done")}
               /\ task' = [t \in Tasks |->
                       IF t \in X THEN R(t) ELSE IF t = u THEN row ELSE task[t]]
<1>2. loaded \/ ended \/ received
  <2>1. CASE Fill
    <3>1. PICK coming : task' = [t \in Tasks |-> IF t \in coming THEN P(t) ELSE task[t]]
      BY <2>1, Zenon DEF Fill
    <3> DEFINE none == {}
    <3> HIDE DEF R, P
    <3>2. task' = [t \in Tasks |-> IF t \in none THEN R(t)
                                   ELSE IF t \in coming THEN P(t) ELSE task[t]]
      BY <3>1
    <3> HIDE DEF none
    <3>3. loaded
      BY <3>2, Zenon
    <3> QED BY <3>3, Zenon
  <2>2. CASE FillCancelled
    <3> DEFINE X == {t \in Tasks : Stage(t) \in Queued}
    <3>1. task' = [t \in Tasks |-> IF t \in X THEN D(t) ELSE task[t]]
      BY <2>2 DEF FillCancelled
    <3> HIDE DEF X, D
    <3>2. ended
      BY <3>1, Zenon
    <3> QED BY <3>2, Zenon
  <2>3. CASE ReceiveRelease
    <3> DEFINE X == {t \in Tasks : Requeued(t)}
    <3>1. task' = [t \in Tasks |-> IF Requeued(t) THEN R(t) ELSE task[t]]
      BY <2>3, Zenon DEF ReceiveRelease
    <3> HIDE DEF R, P
    <3>2. task' = [t \in Tasks |-> IF t \in X THEN R(t) ELSE IF t \in {} THEN P(t) ELSE task[t]]
      BY <3>1
    <3> HIDE DEF X
    <3>3. loaded
      BY <3>2, Zenon
    <3> QED BY <3>3, Zenon
  <2>4. CASE ReceiveReport
    <3> DEFINE X == {t \in Tasks : Requeued(t)}
               u == Head(reports)
               parks == task[u].next = "retry" /\ ~cancel
               s == IF task[u].next = "panicked" THEN "lost" ELSE "done"
    <3>1. task' = [t \in Tasks |-> IF Requeued(t) THEN R(t) ELSE IF t # u THEN task[t]
                                   ELSE IF parks THEN A(u) ELSE E(u, s)]
      BY <2>4, Zenon DEF ReceiveReport
    <3>2. s \in {"lost", "done"}
      OBVIOUS
    <3> HIDE DEF u, parks, s, R, A, E
    <3> DEFINE row == IF parks THEN A(u) ELSE E(u, s)
    <3>3. task' = [t \in Tasks |-> IF t \in X THEN R(t) ELSE IF t = u THEN row ELSE task[t]]
      BY <3>1
    <3>4. row \in {A(u), E(u, "lost"), E(u, "done")}
      BY <3>2
    <3> HIDE DEF X, row
    <3>5. received
      <4> WITNESS X, u, row
      <4> QED BY <3>3, <3>4, Zenon
    <3> QED BY <3>5, Zenon
  <2> QED BY <2>1, <2>2, <2>3, <2>4, Zenon
<1> HIDE DEF R, P, D, A, E
<1>3. \A t \in Tasks : /\ task'[t] \in TaskRow
                       /\ task'[t].stage \in Admitted => Stage(t) \in Admitted
  BY <1>0, <1>1, <1>2 DEF TasksOK, Stage
<1>4. task' = [t \in Tasks |-> task'[t]]
  BY <1>2
<1>5. Stays
  BY <1>0, <1>3, <1>4, AllTasksStay
<1>6. UNCHANGED limiter
  BY Zenon DEF Fill, FillCancelled, ReceiveReport, ReceiveRelease
<1> QED BY <1>5, <1>6, LimiterKept

(* Only an admission takes slots, and try_admit found room for it. *)
LEMMA DispatchKeeps ==
    ASSUME LimiterInv, Dispatch
    PROVE  LimiterInv'
<1>0. TasksOK /\ LimitsOK /\ CountsOK
  BY DEF LimiterInv
<1>1. PICK t : t = Popped.task
  OBVIOUS
<1>2. UNCHANGED domain /\ (Admit(t) \/ ParkCooling(t) \/ AwaitSlot(t))
  BY <1>1 DEF Dispatch
<1>3. LimitsOK'
  BY <1>0, <1>2 DEF LimitsOK
<1>4. CASE Admit(t)
  <2> DEFINE row == [task[t] EXCEPT !.stage = "transferring", !.stale = {}, !.next = "none"]
  <2>1. task' = [task EXCEPT ![t] = row]
    BY <1>0, <1>4 DEF Admit, TasksOK
  <2>2. t \in Tasks => row \in TaskRow
    BY <1>0 DEF TasksOK, TaskRow, Admitted
  <2> HIDE DEF row
  <2>3. TasksOK' /\ \A u \in Tasks : u # t => Stage(u)' = Stage(u)
    BY <1>0, <2>1, <2>2 DEF TasksOK, Stage
  <2>4. ~SlotLimited(t) /\ TakeSlots(t)
    BY <1>4 DEF Admit, Admissible
  <2>5. CountsOK'
    BY <1>0, <2>3, <2>4, CountsTaken
  <2> QED BY <1>3, <2>3, <2>5 DEF LimiterInv
<1>5. CASE ParkCooling(t) \/ AwaitSlot(t)
  <2>1. PICK s \in {"timer", "waiting", "unschedulable"} : task' = [task EXCEPT ![t].stage = s]
    BY <1>5, Zenon DEF ParkCooling, AwaitSlot
  <2>2. s \in Stages /\ s \notin Admitted
    BY DEF Stages, Queued, Over, Admitted
  <2>3. Stays
    BY <1>0, <2>1, <2>2, StageStays
  <2>4. UNCHANGED inFlight
    BY <1>5, Zenon DEF ParkCooling, AwaitSlot
  <2> QED BY <1>3, <2>3, <2>4, QuietKeeps
<1> QED BY <1>2, <1>4, <1>5

(* Time lets cooldowns and backoffs run out. *)
LEMMA TickKeeps ==
    ASSUME LimiterInv, Tick
    PROVE  LimiterInv'
<1>0. TasksOK /\ LimitsOK
  BY DEF LimiterInv
<1> DEFINE row(d) == [domain[d] EXCEPT !.blocked = Down(domain[d].blocked)]
           later(t) == [task[t] EXCEPT !.resume = Down(task[t].resume)]
<1>1. /\ domain' = [d \in Domains |-> row(d)] /\ task' = [t \in Tasks |-> later(t)]
      /\ UNCHANGED inFlight
  BY DEF Tick
<1>2. \A d \in Domains : row(d) \in DomainRow /\ row(d).limit = domain[d].limit
  <2> TAKE d \in Domains
  <2>1. domain[d] \in DomainRow /\ Down(domain[d].blocked) \in 0..MaxCooldown
    BY <1>0, Constants DEF LimitsOK, DomainRow, Down
  <2> QED BY <2>1 DEF DomainRow
<1>3. \A t \in Tasks : later(t) \in TaskRow /\ later(t).stage = Stage(t)
  <2> TAKE t \in Tasks
  <2>1. task[t] \in TaskRow /\ Down(task[t].resume) \in 0..BaseDelay
    BY <1>0, Constants DEF TasksOK, TaskRow, Down
  <2> QED BY <2>1 DEF TaskRow, Stage
<1> HIDE DEF row, later
<1>4. LimitsOK'
  BY <1>0, <1>1, <1>2 DEF LimitsOK
<1>5. /\ \A t \in Tasks : /\ task'[t] \in TaskRow
                          /\ task'[t].stage \in Admitted => Stage(t) \in Admitted
      /\ task' = [t \in Tasks |-> task'[t]]
  BY <1>1, <1>3
<1>6. Stays
  BY <1>0, <1>5, AllTasksStay
<1> QED BY <1>1, <1>4, <1>6, QuietKeeps

(* Steps that change neither the tasks nor the limiter. *)
LEMMA IdleKeeps ==
    ASSUME LimiterInv, UNCHANGED <<limiter, task>>
    PROVE  LimiterInv'
<1>1. Stays
  BY DEF Stays, Stage, TasksOK, LimiterInv
<1> QED BY <1>1, LimiterKept

-----------------------------------------------------------------------------
(* The invariant *)

(* A new limiter: every domain is at its ceiling and counts nothing. *)
LEMMA LimiterInvInit ==
    ASSUME Init
    PROVE  LimiterInv
<1>1. LimitsOK
  <2> DEFINE row(d) == [limit |-> Ceiling(d), blocked |-> 0, strikes |-> 0, children |-> {}]
  <2>1. domain = [d \in Domains |-> row(d)]
    BY DEF Init
  <2>2. \A d \in Domains : row(d) \in DomainRow /\ row(d).limit <= Ceiling(d)
    BY CeilingType, Constants DEF DomainRow
  <2> HIDE DEF row
  <2> QED BY <2>1, <2>2 DEF LimitsOK
<1>2. TasksOK /\ \A t \in Tasks : Stage(t) = "source"
  <2> DEFINE row(t) == [stage |-> "source", next |-> "none", attempt |-> 0, stale |-> {},
                        resume |-> IF t \in Resumed THEN BaseDelay ELSE 0]
  <2>1. task = [t \in Tasks |-> row(t)]
    BY DEF Init
  <2>2. \A t \in Tasks : row(t) \in TaskRow /\ row(t).stage = "source"
    BY Constants DEF TaskRow, Queued
  <2> HIDE DEF row
  <2> QED BY <2>1, <2>2 DEF TasksOK, Stage
<1>3. CountsOK
  <2> SUFFICES ASSUME NEW d \in Domains
               PROVE  0 <= Ceiling(d) /\ Cardinality(Holders(d)) <= 0
    BY DEF Init, CountsOK
  <2>1. Holders(d) = {}
    BY <1>2 DEF Holders, Admitted
  <2>2. Cardinality({}) = 0
    BY FS_EmptySet
  <2> QED BY <2>1, <2>2, CeilingType
<1> QED BY <1>1, <1>2, <1>3 DEF LimiterInv

(* Threads, the scheduler, cancellation and time all keep it. *)
LEMMA LimiterInvStep ==
    ASSUME LimiterInv, [Next]_vars
    PROVE  LimiterInv'
<1>1. CASE SchedulerStep
  <2>1. CASE Fill \/ FillCancelled \/ ReceiveReport \/ ReceiveRelease
    BY <2>1, QueueingKeeps
  <2>2. CASE Dispatch
    BY <2>2, DispatchKeeps
  <2>3. CASE DispatchEnds
    BY <2>3, IdleKeeps DEF DispatchEnds
  <2> QED BY <1>1, <2>1, <2>2, <2>3 DEF SchedulerStep
<1>2. CASE Workers
  BY <1>2, WorkerStepKeeps DEF Workers
<1>3. CASE Cancel
  BY <1>3, IdleKeeps DEF Cancel
<1>4. CASE Tick
  BY <1>4, TickKeeps
<1>5. CASE UNCHANGED vars
  BY <1>5, IdleKeeps DEF vars
<1> QED BY <1>1, <1>2, <1>3, <1>4, <1>5 DEF Next

(* LimiterInv holds throughout every schedule. *)
THEOREM LimiterInvariant == Spec => []LimiterInv
<1>1. Init => LimiterInv
  BY LimiterInvInit
<1>2. LimiterInv /\ [Next]_vars => LimiterInv'
  BY LimiterInvStep
<1> QED BY <1>1, <1>2, PTL DEF Spec

(* No rate domain, from the whole batch down to one mailbox, ever carries    *)
(* more attempts than its ceiling (try_admit, release_slots, penalize and    *)
(* observe_success of rate_domains.rs): whatever halvings, credits, retries, *)
(* panics and early releases for verification interleave, and in whatever    *)
(* order the queues bring the tasks.                                         *)
THEOREM CeilingHeldAlways == Spec => []CeilingHeld
<1>1. LimiterInv => CeilingHeld
  <2> SUFFICES ASSUME LimiterInv, NEW d \in Domains
               PROVE  Cardinality(Holders(d)) <= Ceiling(d)
    BY DEF CeilingHeld
  <2>1. Cardinality(Holders(d)) <= inFlight[d] /\ inFlight[d] <= Ceiling(d) /\ inFlight[d] \in Nat
    BY DEF LimiterInv, CountsOK
  <2>2. IsFiniteSet(Holders(d))
    BY Constants, FS_Subset DEF Holders
  <2>3. Cardinality(Holders(d)) \in Nat /\ Ceiling(d) \in Nat
    BY <2>2, FS_CardinalityType, CeilingType
  <2> QED BY <2>1, <2>3
<1> QED BY <1>1, LimiterInvariant, PTL

-----------------------------------------------------------------------------
(* Induction on the natural numbers, for a set in place of a predicate *)

(* A nonempty set of naturals has a least element. *)
LEMMA NatMin ==
    ASSUME NEW T \in SUBSET Nat, T # {}
    PROVE  \E x \in T : \A y \in T : x <= y
<1> DEFINE R == {ss \in Nat \X Nat : ss[1] < ss[2]}
<1>1. IsWellFoundedOn(R, Nat)
  BY NatLessThanWellFounded, Zenon DEF OpToRel
<1>2. \A x, y \in Nat : y < x => <<y, x>> \in R
  OBVIOUS
<1> HIDE DEF R
<1>3. PICK x \in T : \A y \in T : ~ (<<y, x>> \in R)
  BY <1>1, WFMin
<1>4. ASSUME NEW y \in T PROVE x <= y
  <2>1. x \in Nat /\ y \in Nat /\ ~ (y < x)
    BY <1>2, <1>3
  <2> QED BY <2>1
<1> QED BY <1>4

(* A nonempty bounded set of naturals has a greatest element. *)
LEMMA NatMax ==
    ASSUME NEW n \in Nat, NEW T \in SUBSET (0..n), T # {}
    PROVE  \E x \in T : \A y \in T : x >= y
<1> DEFINE U == {m \in Nat : n - m \in T}
<1>1. \A x \in T : n - x \in U
  OBVIOUS
<1>2. PICK m \in U : \A y \in U : m <= y
  BY <1>1, NatMin
<1>3. n - m \in T /\ \A y \in T : n - m >= y
  BY <1>1, <1>2
<1> QED BY <1>3

(* A set that contains zero and is closed under successor has them all. *)
LEMMA NatSetInduction ==
    ASSUME NEW S, 0 \in S, \A n \in Nat : n \in S => n + 1 \in S
    PROVE  \A n \in Nat : n \in S
<1> SUFFICES ASSUME Nat \ S # {} PROVE FALSE
  OBVIOUS
<1>1. PICK x \in Nat \ S : \A y \in Nat \ S : x <= y
  BY NatMin
<1>2. x - 1 \in Nat /\ x - 1 \in S
  BY <1>1
<1> QED BY <1>1, <1>2

(* f[i] is what the first i of n steps make of a first value. *)
Iterates(f, n, S, first, step) ==
    f \in [0..n -> S] /\ f[0] = first /\ \A i \in 1..n : f[i] = step[i][f[i - 1]]

(* A function defined by recursion on 0..n exists. *)
LEMMA IterationExists ==
    ASSUME NEW S, NEW first \in S, NEW n \in Nat, NEW step \in [1..n -> [S -> S]]
    PROVE  \E f : Iterates(f, n, S, first, step)
<1> DEFINE Run(f, k) == f \in [0..k -> S] /\ f[0] = first /\ \A i \in 1..k : f[i] = step[i][f[i - 1]]
           P == {k \in Nat : k <= n => \E f : Run(f, k)}
<1>1. 0 \in P
  <2>1. Run([i \in 0..0 |-> first], 0)
    OBVIOUS
  <2> QED BY <2>1
<1>2. ASSUME NEW k \in Nat, k \in P PROVE k + 1 \in P
  <2> SUFFICES ASSUME k + 1 <= n PROVE \E f : Run(f, k + 1)
    OBVIOUS
  <2>1. PICK f : Run(f, k)
    BY <1>2
  <2> DEFINE g == [i \in 0..(k + 1) |-> IF i <= k THEN f[i] ELSE step[k + 1][f[k]]]
  <2>2. step[k + 1] \in [S -> S] /\ f[k] \in S
    BY <2>1
  <2>3. g \in [0..(k + 1) -> S]
    BY <2>1, <2>2
  <2>4. \A i \in 1..(k + 1) : g[i] = step[i][g[i - 1]]
    <3> TAKE i \in 1..(k + 1)
    <3>1. CASE i <= k
      BY <2>1, <3>1
    <3>2. CASE i = k + 1
      BY <2>1, <3>2
    <3> QED BY <3>1, <3>2
  <2>5. Run(g, k + 1)
    BY <2>1, <2>3, <2>4
  <2> QED BY <2>5
<1> HIDE DEF P
<1>3. n \in P
  BY <1>1, <1>2, NatSetInduction
<1> QED BY <1>3 DEF P, Iterates

-----------------------------------------------------------------------------
(* Lists of distinct tasks *)

(* The empty list lists members of every set. *)
LEMMA ListsEmpty ==
    ASSUME NEW T
    PROVE  Lists(<<>>, T)
BY DEF Lists, Distinct

(* A list of members of T lists members of every set that has them. *)
LEMMA ListsWiden ==
    ASSUME NEW s, NEW T, NEW U, Lists(s, T), \A t \in Tasks : t \in T => t \in U
    PROVE  Lists(s, U)
BY DEF Lists

(* A task that is not on the list can be put at its end. *)
LEMMA ListsAppend ==
    ASSUME NEW s, NEW T, Lists(s, T), NEW t \in Tasks, t \notin T
    PROVE  Lists(Append(s, t), T \cup {t}) /\ Append(s, t) # <<>>
           /\ Len(Append(s, t)) = Len(s) + 1
<1>1. s \in Seq(Tasks) /\ Len(s) \in Nat
  BY DEF Lists
<1>2. /\ Append(s, t) \in Seq(Tasks) /\ Len(Append(s, t)) = Len(s) + 1
      /\ \A i \in 1..Len(s) : Append(s, t)[i] = s[i]
      /\ Append(s, t)[Len(s) + 1] = t
  BY <1>1
<1>3. Distinct(Append(s, t))
  BY <1>1, <1>2 DEF Distinct, Lists
<1>4. \A i \in 1..Len(Append(s, t)) : Append(s, t)[i] \in T \cup {t}
  BY <1>1, <1>2 DEF Lists
<1>5. Append(s, t) # <<>>
  BY <1>1, <1>2
<1>6. Lists(Append(s, t), T \cup {t})
  BY <1>2, <1>3, <1>4 DEF Lists
<1> QED BY <1>2, <1>5, <1>6

(* A task that is not on the list can be put in front of it. *)
LEMMA ListsPrepend ==
    ASSUME NEW s, NEW T, Lists(s, T), NEW t \in Tasks, t \notin T
    PROVE  Lists(<<t>> \o s, T \cup {t}) /\ <<t>> \o s # <<>>
<1>1. s \in Seq(Tasks) /\ Len(s) \in Nat
  BY DEF Lists
<1> DEFINE r == <<t>> \o s
<1>2. r \in Seq(Tasks) /\ Len(r) = Len(s) + 1 /\ r[1] = t
      /\ \A i \in 1..Len(r) : i # 1 => r[i] = s[i - 1]
  BY <1>1
<1> HIDE DEF r
<1>3. \A i \in 1..Len(r) : i = 1 \/ (i - 1 \in 1..Len(s) /\ r[i] = s[i - 1] /\ r[i] \in T)
  BY <1>1, <1>2 DEF Lists
<1>4. Distinct(r)
  <2> SUFFICES ASSUME NEW i \in 1..Len(r), NEW j \in 1..Len(r), r[i] = r[j] PROVE i = j
    BY DEF Distinct
  <2>1. CASE i = 1 \/ j = 1
    BY <1>2, <1>3, <2>1
  <2>2. CASE i # 1 /\ j # 1
    <3>1. i - 1 = j - 1
      BY <1>3, <2>2 DEF Distinct, Lists
    <3> QED BY <1>1, <1>2, <3>1
  <2> QED BY <2>1, <2>2
<1>5. r # <<>>
  BY <1>1, <1>2
<1>6. Lists(r, T \cup {t})
  BY <1>1, <1>2, <1>3, <1>4 DEF Lists
<1> QED BY <1>5, <1>6 DEF r

(* Taking the head off a list takes it out of the set. *)
LEMMA ListsTail ==
    ASSUME NEW s, NEW T, Lists(s, T), s # <<>>
    PROVE  /\ Head(s) \in Tasks /\ Head(s) \in T /\ Lists(Tail(s), T \ {Head(s)})
           /\ Len(Tail(s)) = Len(s) - 1
<1>1. s \in Seq(Tasks) /\ Len(s) \in Nat /\ Len(s) >= 1 /\ Head(s) = s[1] /\ s[1] \in Tasks
  BY DEF Lists
<1>2. Tail(s) \in Seq(Tasks) /\ Len(Tail(s)) = Len(s) - 1
      /\ \A i \in 1..Len(Tail(s)) : Tail(s)[i] = s[i + 1]
  BY <1>1
<1>3. Distinct(Tail(s))
  BY <1>1, <1>2 DEF Distinct, Lists
<1>4. \A i \in 1..Len(Tail(s)) : Tail(s)[i] \in T \ {Head(s)}
  BY <1>1, <1>2 DEF Distinct, Lists
<1>5. s[1] \in T
  BY <1>1 DEF Lists
<1> QED BY <1>1, <1>2, <1>3, <1>4, <1>5 DEF Lists

(* What is left of a list when its first k tasks are taken. *)
LEMMA ListsSuffix ==
    ASSUME NEW s, NEW T, Lists(s, T), NEW k \in 0..Len(s)
    PROVE  Lists(SubSeq(s, k + 1, Len(s)), T \ {s[i] : i \in 1..k})
<1>1. s \in Seq(Tasks) /\ Len(s) \in Nat /\ k \in Nat
  BY DEF Lists
<1> DEFINE r == SubSeq(s, k + 1, Len(s))
<1>2. r \in Seq(Tasks) /\ Len(r) = Len(s) - k /\ \A i \in 1..Len(r) : r[i] = s[k + i]
  BY <1>1
<1> HIDE DEF r
<1>3. \A i \in 1..Len(r) : k + i \in 1..Len(s)
  BY <1>1, <1>2
<1>4. Distinct(r)
  BY <1>1, <1>2, <1>3 DEF Distinct, Lists
<1>5. ASSUME NEW i \in 1..Len(r) PROVE r[i] \in T \ {s[j] : j \in 1..k}
  <2>1. \A j \in 1..k : s[j] # s[k + i]
    BY <1>1, <1>3 DEF Distinct, Lists
  <2> QED BY <1>2, <1>3, <2>1 DEF Lists
<1>6. Lists(r, T \ {s[i] : i \in 1..k})
  BY <1>2, <1>4, <1>5 DEF Lists
<1> QED BY <1>6 DEF r

(* The first k tasks of a list. *)
LEMMA ListsPrefix ==
    ASSUME NEW s, NEW T, Lists(s, T), NEW k \in 0..Len(s)
    PROVE  /\ Lists(SubSeq(s, 1, k), T) /\ Len(SubSeq(s, 1, k)) = k
           /\ \A i \in 1..k : SubSeq(s, 1, k)[i] = s[i]
<1>1. s \in Seq(Tasks) /\ Len(s) \in Nat /\ k \in Nat
  BY DEF Lists
<1> DEFINE r == SubSeq(s, 1, k)
<1>2. r \in Seq(Tasks) /\ Len(r) = k /\ \A i \in 1..Len(r) : r[i] = s[i]
  BY <1>1
<1> HIDE DEF r
<1>3. Lists(r, T)
  BY <1>1, <1>2 DEF Distinct, Lists
<1> QED BY <1>2, <1>3 DEF r

(* Two lists of different tasks, one after the other. *)
LEMMA ListsConcat ==
    ASSUME NEW r, NEW s, NEW T, NEW U, Lists(r, T), Lists(s, U), T \cap U = {}
    PROVE  Lists(r \o s, T \cup U)
<1>1. r \in Seq(Tasks) /\ Len(r) \in Nat /\ s \in Seq(Tasks) /\ Len(s) \in Nat
  BY DEF Lists
<1> DEFINE q == r \o s
<1>2. q \in Seq(Tasks) /\ Len(q) = Len(r) + Len(s)
      /\ \A i \in 1..Len(q) : q[i] = IF i <= Len(r) THEN r[i] ELSE s[i - Len(r)]
  BY <1>1
<1> HIDE DEF q
<1>3. \A i \in 1..Len(q) : \/ i \in 1..Len(r) /\ q[i] = r[i] /\ q[i] \in T
                           \/ i - Len(r) \in 1..Len(s) /\ q[i] = s[i - Len(r)] /\ q[i] \in U
  BY <1>1, <1>2 DEF Lists
<1>4. Distinct(q)
  <2> SUFFICES ASSUME NEW i \in 1..Len(q), NEW j \in 1..Len(q), q[i] = q[j] PROVE i = j
    BY DEF Distinct
  <2>1. CASE i \in 1..Len(r) /\ q[i] = r[i] /\ q[i] \in T
    <3>1. j \in 1..Len(r) /\ q[j] = r[j]
      BY <1>3, <2>1
    <3> QED BY <2>1, <3>1 DEF Distinct, Lists
  <2>2. CASE i - Len(r) \in 1..Len(s) /\ q[i] = s[i - Len(r)] /\ q[i] \in U
    <3>1. j - Len(r) \in 1..Len(s) /\ q[j] = s[j - Len(r)]
      BY <1>3, <2>2
    <3>2. i - Len(r) = j - Len(r)
      BY <2>2, <3>1 DEF Distinct, Lists
    <3> QED BY <1>1, <1>2, <3>2
  <2> QED BY <1>3, <2>1, <2>2
<1>5. Lists(q, T \cup U)
  BY <1>2, <1>3, <1>4 DEF Lists
<1> QED BY <1>5 DEF q

-----------------------------------------------------------------------------
(* The timer queue *)

(* r is the timer queue q with a timer of task t put in at position k. *)
Inserted(r, q, t, k) ==
    /\ r \in Seq(TimerRow) /\ Len(r) = Len(q) + 1 /\ r[k].task = t
    /\ \A i \in 1..(Len(q) + 1) : /\ i < k => i \in 1..Len(q) /\ r[i] = q[i]
                                  /\ i > k => i - 1 \in 1..Len(q) /\ r[i] = q[i - 1]

(* A new timer goes somewhere between the others, and keeps their order. *)
LEMMA ParkedAt ==
    ASSUME NEW q \in Seq(TimerRow), NEW t \in Tasks, NEW left \in Nat
    PROVE  \E k \in 1..(Len(q) + 1) : Inserted(Parked(q, t, left), q, t, k)
<1> DEFINE earlier == {i \in 1..Len(q) : q[i].left <= left}
           row == [task |-> t, left |-> left]
<1>0. Len(q) \in Nat /\ row \in TimerRow /\ row.task = t
  BY DEF TimerRow
<1>1. PICK k \in 1..(Len(q) + 1) : k = Cardinality(earlier) + 1
  <2>1. PICK n \in Nat : n = Len(q)
    BY <1>0
  <2>2. IsFiniteSet(1..n) /\ Cardinality(1..n) = IF 1 > n THEN 0 ELSE n - 1 + 1
    BY FS_Interval
  <2>3. earlier \subseteq 1..n
    BY <2>1
  <2> HIDE DEF earlier
  <2>4. Cardinality(earlier) \in Nat /\ Cardinality(earlier) <= Cardinality(1..n)
    BY <2>2, <2>3, FS_Subset, FS_CardinalityType
  <2>5. Cardinality(earlier) + 1 \in 1..(n + 1)
    BY <2>2, <2>4
  <2> QED BY <2>1, <2>5
<1> HIDE DEF row
<1>2. Parked(q, t, left) = SubSeq(q, 1, k - 1) \o <<row>> \o SubSeq(q, k, Len(q))
  BY <1>1 DEF Parked, InsertAt, row
<1> DEFINE a == SubSeq(q, 1, k - 1)
           b == SubSeq(q, k, Len(q))
<1>3. a \in Seq(TimerRow) /\ Len(a) = k - 1 /\ \A i \in 1..(k - 1) : a[i] = q[i]
  BY <1>0
<1>4. b \in Seq(TimerRow) /\ Len(b) = Len(q) + 1 - k
      /\ \A i \in 1..(Len(q) + 1 - k) : b[i] = q[k + i - 1]
  BY <1>0
<1> DEFINE c == a \o <<row>>
<1> HIDE DEF a, b
<1>5. c \in Seq(TimerRow) /\ Len(c) = k /\ c[k] = row /\ \A i \in 1..(k - 1) : c[i] = a[i]
  BY <1>0, <1>3
<1> HIDE DEF c
<1> DEFINE d == c \o b
<1>6. d \in Seq(TimerRow) /\ Len(d) = Len(q) + 1 /\ d[k] = row
  <2>1. d \in Seq(TimerRow) /\ Len(d) = Len(c) + Len(b)
    <3>1. c \in Seq(TimerRow) /\ b \in Seq(TimerRow)
      BY <1>4, <1>5
    <3> QED BY <3>1, ConcatProperties, Zenon
  <2>2. d[k] = c[k]
    BY <1>4, <1>5
  <2> QED BY <1>0, <1>4, <1>5, <2>1, <2>2
<1>7. ASSUME NEW i \in 1..(Len(q) + 1)
      PROVE  /\ i < k => i \in 1..Len(q) /\ d[i] = q[i]
             /\ i > k => i - 1 \in 1..Len(q) /\ d[i] = q[i - 1]
  <2>1. CASE i < k
    <3>1. d[i] = c[i]
      BY <1>4, <1>5, <2>1
    <3> QED BY <1>0, <1>3, <1>5, <2>1, <3>1
  <2>2. CASE i > k
    <3>1. d[i] = b[i - k] /\ i - k \in 1..(Len(q) + 1 - k)
      BY <1>0, <1>4, <1>5, <2>2
    <3>2. k + (i - k) - 1 = i - 1
      BY <1>0
    <3> QED BY <1>0, <1>4, <2>2, <3>1, <3>2
  <2>3. CASE i = k
    BY <1>0, <2>3
  <2> QED BY <1>0, <2>1, <2>2, <2>3
<1>8. Parked(q, t, left) = d
  BY <1>2 DEF a, b, c
<1> HIDE DEF d
<1>9. Inserted(d, q, t, k)
  BY <1>0, <1>6, <1>7 DEF Inserted
<1> QED BY <1>8, <1>9

(* TimerQueue::park keeps the other timers, wherever the new one goes. *)
LEMMA ParksInsert ==
    ASSUME NEW q, NEW T, Parks(q, T), NEW t \in Tasks, t \notin T, NEW left \in Nat
    PROVE  Parks(Parked(q, t, left), T \cup {t})
<1>0. q \in Seq(TimerRow) /\ Len(q) \in Nat
  BY DEF Parks
<1>1. PICK r : r = Parked(q, t, left)
  OBVIOUS
<1>2. PICK k \in 1..(Len(q) + 1) :
              /\ r \in Seq(TimerRow) /\ Len(r) = Len(q) + 1 /\ r[k].task = t
              /\ \A i \in 1..(Len(q) + 1) :
                    /\ i < k => i \in 1..Len(q) /\ r[i] = q[i]
                    /\ i > k => i - 1 \in 1..Len(q) /\ r[i] = q[i - 1]
  <2>1. PICK k \in 1..(Len(q) + 1) : Inserted(r, q, t, k)
    BY <1>0, <1>1, ParkedAt
  <2> QED BY <2>1 DEF Inserted
<1>3. \A i \in 1..Len(r) : i # k => r[i].task \in T
  BY <1>0, <1>2 DEF Parks
<1>4. ASSUME NEW i \in 1..Len(r), NEW j \in 1..Len(r), r[i].task = r[j].task
      PROVE  i = j
  <2>1. CASE i = k \/ j = k
    BY <1>2, <1>3, <1>4, <2>1
  <2>2. CASE i # k /\ j # k
    <3> DEFINE f(x) == IF x < k THEN x ELSE x - 1
    <3>1. /\ f(i) \in 1..Len(q) /\ r[i] = q[f(i)]
          /\ f(j) \in 1..Len(q) /\ r[j] = q[f(j)]
      BY <1>0, <1>2, <2>2
    <3>2. f(i) = f(j)
      <4> HIDE DEF f
      <4> QED BY <1>4, <3>1 DEF Parks
    <3> QED BY <1>0, <1>2, <2>2, <3>2
  <2> QED BY <2>1, <2>2
<1>5. \A i \in 1..Len(r) : r[i].task \in T \cup {t}
  BY <1>2, <1>3
<1>6. Parks(r, T \cup {t})
  BY <1>2, <1>4, <1>5 DEF Parks
<1> QED BY <1>1, <1>6

(* A timer is the timer of a task. *)
LEMMA TimerTask ==
    ASSUME NEW q \in Seq(TimerRow), NEW i \in 1..Len(q)
    PROVE  q[i].task \in Tasks /\ q[i].left \in Nat
<1>1. q[i] \in TimerRow
  OBVIOUS
<1> QED BY <1>1 DEF TimerRow

(* Timers of tasks of T are timers of tasks of every set that has them. *)
LEMMA ParksWiden ==
    ASSUME NEW q, NEW T, NEW U, Parks(q, T), \A t \in Tasks : t \in T => t \in U
    PROVE  Parks(q, U)
<1>1. \A i \in 1..Len(q) : q[i].task \in Tasks
  BY TimerTask DEF Parks
<1> QED BY <1>1 DEF Parks

(* The first k timers are taken: their tasks, and the timers left. *)
LEMMA ParksSplit ==
    ASSUME NEW q, NEW T, Parks(q, T), NEW k \in 0..Len(q)
    PROVE  /\ Lists([i \in 1..k |-> q[i].task], T)
           /\ Parks(SubSeq(q, k + 1, Len(q)), T \ {q[i].task : i \in 1..k})
<1>0. q \in Seq(TimerRow) /\ Len(q) \in Nat /\ \A i \in 1..Len(q) : q[i].task \in Tasks
  BY TimerTask DEF Parks
<1>1. Lists([i \in 1..k |-> q[i].task], T)
  <2> DEFINE s == [i \in 1..k |-> q[i].task]
  <2>1. s \in Seq(Tasks) /\ Len(s) = k /\ \A i \in 1..k : s[i] = q[i].task
    <3>1. s \in [1..k -> Tasks]
      BY <1>0
    <3> QED BY <1>0, <3>1, IsASeq, LenProperties
  <2> HIDE DEF s
  <2>2. Lists(s, T)
    BY <1>0, <2>1 DEF Parks, Lists, Distinct
  <2> QED BY <2>2 DEF s
<1> DEFINE r == SubSeq(q, k + 1, Len(q))
<1>2. r \in Seq(TimerRow) /\ Len(r) = Len(q) - k /\ \A i \in 1..Len(r) : r[i] = q[k + i]
  BY <1>0
<1> HIDE DEF r
<1>3. \A i \in 1..Len(r) : k + i \in 1..Len(q)
  BY <1>0, <1>2
<1>4. ASSUME NEW i \in 1..Len(r), NEW j \in 1..Len(r), r[i].task = r[j].task PROVE i = j
  <2>1. k + i = k + j
    <3>1. PICK x \in 1..Len(q), y \in 1..Len(q) : x = k + i /\ y = k + j
      BY <1>3
    <3>2. q[x].task = q[y].task
      BY <1>2, <1>4, <3>1
    <3>3. x = y
      BY <3>2 DEF Parks
    <3> QED BY <3>1, <3>3
  <2> QED BY <1>0, <1>2, <2>1
<1>5. ASSUME NEW i \in 1..Len(r) PROVE r[i].task \in T \ {q[j].task : j \in 1..k}
  <2>1. \A j \in 1..k : q[j].task # q[k + i].task
    <3> SUFFICES ASSUME NEW j \in 1..k, q[j].task = q[k + i].task PROVE FALSE
      OBVIOUS
    <3>1. j \in 1..Len(q) /\ j # k + i
      BY <1>0, <1>2
    <3> QED BY <1>3, <3>1 DEF Parks
  <2> QED BY <1>2, <1>3, <2>1 DEF Parks
<1>6. Parks(r, T \ {q[i].task : i \in 1..k})
  BY <1>2, <1>4, <1>5 DEF Parks
<1> QED BY <1>1, <1>6 DEF r

-----------------------------------------------------------------------------
(* The fair queue *)

(* A fair queue of tasks of T is one of every set that has them. *)
LEMMA QueuesWiden ==
    ASSUME NEW q, NEW T, NEW U, Queues(q, T), \A t \in Tasks : t \in T => t \in U
    PROVE  Queues(q, U)
<1>1. ASSUME NEW n \in Tenants PROVE Lists(q.queues[n], {t \in U : Tenant(t) = n})
  <2>1. Lists(q.queues[n], {t \in T : Tenant(t) = n})
    BY DEF Queues
  <2>2. \A t \in Tasks : t \in {u \in T : Tenant(u) = n} => t \in {u \in U : Tenant(u) = n}
    OBVIOUS
  <2> QED BY <2>1, <2>2, ListsWiden, Zenon
<1> QED BY <1>1 DEF Queues

(* Where a task goes and its tenant's place in the round, for both ends. *)
LEMMA QueuesPush ==
    ASSUME NEW q, NEW T, Queues(q, T), NEW t \in Tasks, t \notin T, NEW front
    PROVE  Queues(Push(q, t, front), T \cup {t})
<1> DEFINE n == Tenant(t)
           old == q.queues[n]
           new == IF front THEN <<t>> \o old ELSE Append(old, t)
           order == IF old = <<>> THEN Append(q.order, n) ELSE q.order
           queues == [q.queues EXCEPT ![n] = new]
           r == [order |-> order, queues |-> queues]
<1>0. n \in Tenants /\ q \in FairQueues /\ q.order \in Seq(Tenants)
      /\ q.queues \in [Tenants -> Seq(Tasks)] /\ Len(q.order) \in Nat
  BY DEF Tenants, Queues, FairQueues
<1>1. Lists(old, {u \in T : Tenant(u) = n})
  BY <1>0 DEF Queues
<1>2. Lists(new, {u \in T : Tenant(u) = n} \cup {t}) /\ new # <<>>
  <2> HIDE DEF old
  <2> QED BY <1>1, ListsAppend, ListsPrepend
<1>3. Lists(new, {u \in T \cup {t} : Tenant(u) = n})
  <2> HIDE DEF new
  <2> QED BY <1>2, ListsWiden
<1>4. new \in Seq(Tasks)
  BY <1>3 DEF Lists
<1> HIDE DEF new
<1>5. queues \in [Tenants -> Seq(Tasks)] /\ queues[n] = new
      /\ \A m \in Tenants : m # n => queues[m] = q.queues[m]
  BY <1>0, <1>4
<1> HIDE DEF queues
<1>6. ASSUME NEW m \in Tenants PROVE Lists(queues[m], {u \in T \cup {t} : Tenant(u) = m})
  <2>1. CASE m = n
    BY <1>3, <1>5, <2>1
  <2>2. CASE m # n
    <3>1. Lists(q.queues[m], {u \in T : Tenant(u) = m})
      BY DEF Queues
    <3> QED BY <1>5, <2>2, <3>1, ListsWiden
  <2> QED BY <2>1, <2>2
<1>7. /\ order \in Seq(Tenants) /\ Distinct(order)
      /\ \A i \in 1..Len(order) : queues[order[i]] # <<>>
  <2>1. /\ Distinct(q.order)
        /\ \A i \in 1..Len(q.order) : q.order[i] \in Tenants /\ q.queues[q.order[i]] # <<>>
    BY <1>0 DEF Queues
  <2>2. CASE old = <<>>
    <3>1. \A i \in 1..Len(q.order) : q.order[i] # n
      BY <2>1, <2>2
    <3> DEFINE s == Append(q.order, n)
    <3>2. /\ s \in Seq(Tenants) /\ Len(s) = Len(q.order) + 1 /\ s[Len(s)] = n
          /\ \A i \in 1..Len(s) : i # Len(s) => i \in 1..Len(q.order) /\ s[i] = q.order[i]
      BY <1>0
    <3> HIDE DEF s
    <3>3. Distinct(s)
      BY <1>0, <2>1, <3>1, <3>2 DEF Distinct
    <3>4. \A i \in 1..Len(s) : queues[s[i]] # <<>>
      BY <1>0, <1>2, <1>5, <2>1, <3>1, <3>2
    <3>5. order = s
      BY <2>2 DEF s
    <3> HIDE DEF order
    <3> QED BY <3>2, <3>3, <3>4, <3>5
  <2>3. CASE old # <<>>
    <3>1. order = q.order
      BY <2>3
    <3> HIDE DEF order
    <3> QED BY <1>0, <1>2, <1>5, <2>1, <3>1
  <2> QED BY <2>2, <2>3
<1>8. Push(q, t, front) = r
  BY DEF Push, new, queues
<1> HIDE DEF order
<1>9. r \in FairQueues /\ r.order = order /\ r.queues = queues
  BY <1>5, <1>7 DEF FairQueues
<1> HIDE DEF r
<1> QED BY <1>6, <1>7, <1>8, <1>9 DEF Queues

(* pop_next gives a queued task, and the queue without it. *)
LEMMA QueuesPop ==
    ASSUME NEW T, Queues(ready, T), ready.order # <<>>
    PROVE  /\ Popped.task \in Tasks /\ Popped.task \in T
           /\ Queues(Popped.ready, T \ {Popped.task})
<1> DEFINE n == Head(ready.order)
           old == ready.queues[n]
           rest == Tail(old)
           t == Head(old)
           tail == Tail(ready.order)
           order == IF rest = <<>> THEN tail ELSE Append(tail, n)
           queues == [ready.queues EXCEPT ![n] = rest]
           r == [order |-> order, queues |-> queues]
<1>0. ready \in FairQueues /\ ready.order \in Seq(Tenants) /\ Len(ready.order) \in Nat \ {0}
      /\ ready.queues \in [Tenants -> Seq(Tasks)]
  BY DEF Queues, FairQueues
<1>1. n = ready.order[1] /\ n \in Tenants /\ old # <<>>
  BY <1>0 DEF Queues
<1>2. Lists(old, {u \in T : Tenant(u) = n})
  BY <1>1 DEF Queues
<1>3. /\ t \in Tasks /\ t \in T /\ Tenant(t) = n
      /\ Lists(rest, {u \in T : Tenant(u) = n} \ {t}) /\ rest \in Seq(Tasks)
  <2> HIDE DEF old, n
  <2>1. t \in Tasks /\ t \in {u \in T : Tenant(u) = n} /\ Lists(rest, {u \in T : Tenant(u) = n} \ {t})
    BY <1>1, <1>2, ListsTail
  <2> QED BY <2>1 DEF Lists
<1>4. Popped.task = t /\ Popped.ready = r
  BY DEF Popped
<1> HIDE DEF t, rest
<1>5. queues \in [Tenants -> Seq(Tasks)] /\ queues[n] = rest
      /\ \A m \in Tenants : m # n => queues[m] = ready.queues[m]
  BY <1>0, <1>1, <1>3
<1> HIDE DEF queues
<1>6. ASSUME NEW m \in Tenants PROVE Lists(queues[m], {u \in T \ {t} : Tenant(u) = m})
  <2>1. CASE m = n
    <3>1. Lists(rest, {u \in T \ {t} : Tenant(u) = m})
      BY <1>3, <2>1, ListsWiden
    <3> QED BY <1>5, <2>1, <3>1
  <2>2. CASE m # n
    <3>1. Lists(ready.queues[m], {u \in T : Tenant(u) = m})
      BY DEF Queues
    <3>2. Lists(ready.queues[m], {u \in T \ {t} : Tenant(u) = m})
      BY <1>3, <2>2, <3>1, ListsWiden
    <3> QED BY <1>5, <2>2, <3>2
  <2> QED BY <2>1, <2>2
<1>7. /\ order \in Seq(Tenants) /\ Distinct(order)
      /\ \A i \in 1..Len(order) : queues[order[i]] # <<>>
  <2>1. /\ Distinct(ready.order)
        /\ \A i \in 1..Len(ready.order) :
              ready.order[i] \in Tenants /\ ready.queues[ready.order[i]] # <<>>
    BY <1>0 DEF Queues
  <2>2. /\ tail \in Seq(Tenants) /\ Len(tail) = Len(ready.order) - 1
        /\ \A i \in 1..Len(tail) : tail[i] = ready.order[i + 1] /\ i + 1 \in 1..Len(ready.order)
    BY <1>0
  <2> HIDE DEF tail
  <2>3. \A i \in 1..Len(tail) : tail[i] # n /\ tail[i] \in Tenants /\ queues[tail[i]] # <<>>
    <3> TAKE i \in 1..Len(tail)
    <3>1. tail[i] # n
      BY <1>0, <1>1, <2>1, <2>2 DEF Distinct
    <3> QED BY <1>5, <2>1, <2>2, <3>1
  <2>4. Distinct(tail)
    <3> SUFFICES ASSUME NEW i \in 1..Len(tail), NEW j \in 1..Len(tail), tail[i] = tail[j]
                 PROVE  i = j
      BY DEF Distinct
    <3>1. i + 1 = j + 1
      BY <2>1, <2>2 DEF Distinct
    <3> QED BY <1>0, <2>2, <3>1
  <2> HIDE DEF n
  <2>5. CASE rest = <<>>
    <3>1. order = tail
      BY <2>5
    <3> HIDE DEF order
    <3> QED BY <2>2, <2>3, <2>4, <3>1
  <2>6. CASE rest # <<>>
    <3> DEFINE s == Append(tail, n)
    <3>1. /\ s \in Seq(Tenants) /\ Len(s) = Len(tail) + 1 /\ s[Len(s)] = n
          /\ \A i \in 1..Len(s) : i # Len(s) => i \in 1..Len(tail) /\ s[i] = tail[i]
      BY <1>1, <2>2
    <3>2. order = s
      BY <2>6
    <3> HIDE DEF s, order
    <3>3. Distinct(s)
      BY <2>2, <2>3, <2>4, <3>1 DEF Distinct
    <3>4. queues[n] # <<>>
      BY <1>5, <2>6
    <3>5. \A i \in 1..Len(s) : queues[s[i]] # <<>>
      <4> HIDE DEF rest
      <4> TAKE i \in 1..Len(s)
      <4>1. CASE i = Len(s)
        BY <3>1, <3>4, <4>1
      <4>2. CASE i # Len(s)
        BY <2>3, <3>1, <4>2
      <4> QED BY <4>1, <4>2
    <3> QED BY <3>1, <3>2, <3>3, <3>5
  <2> QED BY <2>5, <2>6
<1> HIDE DEF order
<1>8. r \in FairQueues /\ r.order = order /\ r.queues = queues
  BY <1>5, <1>7 DEF FairQueues
<1> HIDE DEF r
<1>9. Queues(r, T \ {t})
  BY <1>6, <1>7, <1>8 DEF Queues
<1> QED BY <1>3, <1>4, <1>9

(* FairQueue::push, at either end, yields a fair queue. *)
LEMMA PushType ==
    ASSUME NEW q \in FairQueues, NEW t \in Tasks, NEW front
    PROVE  Push(q, t, front) \in FairQueues
<1> DEFINE n == Tenant(t)
           old == q.queues[n]
           new == IF front THEN <<t>> \o old ELSE Append(old, t)
           order == IF old = <<>> THEN Append(q.order, n) ELSE q.order
           queues == [q.queues EXCEPT ![n] = new]
<1>1. n \in Tenants /\ q.order \in Seq(Tenants) /\ q.queues \in [Tenants -> Seq(Tasks)]
  BY DEF Tenants, FairQueues
<1>2. old \in Seq(Tasks)
  BY <1>1
<1>3. Append(q.order, n) \in Seq(Tenants)
  BY <1>1
<1> HIDE DEF n
<1>4. new \in Seq(Tasks) /\ order \in Seq(Tenants)
  <2> HIDE DEF old
  <2>1. <<t>> \o old \in Seq(Tasks) /\ Append(old, t) \in Seq(Tasks)
    BY <1>2
  <2> QED BY <1>1, <1>3, <2>1
<1> HIDE DEF new, order
<1>5. queues \in [Tenants -> Seq(Tasks)]
  BY <1>1, <1>4
<1> HIDE DEF queues
<1>6. Push(q, t, front) = [order |-> order, queues |-> queues]
  BY DEF Push, new, order, queues, n
<1> QED BY <1>4, <1>5, <1>6 DEF FairQueues

(* Requeueing a list of other tasks, last one first, queues exactly those    *)
(* and what was queued before.                                               *)
LEMMA QueuesPushAll ==
    ASSUME NEW q, NEW T, Queues(q, T), NEW s, NEW U, Lists(s, U), T \cap U = {}
    PROVE  Queues(PushAllFront(q, s), T \cup U)
<1>1. PICK n \in Nat : n = Len(s)
  BY DEF Lists
<1>2. /\ q \in FairQueues
      /\ \A i \in 1..n : n + 1 - i \in 1..n /\ s[n + 1 - i] \in Tasks /\ s[n + 1 - i] \in U
      /\ \A i, j \in 1..n : s[i] = s[j] => i = j
  BY <1>1 DEF Queues, Lists, Distinct
<1> DEFINE P(h) == h = [i \in 0..n |-> IF i = 0 THEN q ELSE PushFront(h[i - 1], s[n + 1 - i])]
           c == CHOOSE h : P(h)
<1>3. PushAllFront(q, s) = c[n]
  BY <1>1 DEF PushAllFront
<1>4. \E f : P(f)
  <2> DEFINE step == [i \in 1..n |-> [r \in FairQueues |-> PushFront(r, s[n + 1 - i])]]
  <2>1. \A i \in 1..n : \A r \in FairQueues : PushFront(r, s[n + 1 - i]) \in FairQueues
    BY <1>2, PushType DEF PushFront
  <2>2. step \in [1..n -> [FairQueues -> FairQueues]] /\ q \in FairQueues
    BY <1>2, <2>1
  <2>3. \A i \in 1..n, r \in FairQueues : step[i][r] = PushFront(r, s[n + 1 - i])
    OBVIOUS
  <2> HIDE DEF step, P, c
  <2>a. PICK f : Iterates(f, n, FairQueues, q, step)
    BY <2>2, IterationExists
  <2>4. f \in [0..n -> FairQueues] /\ f[0] = q /\ \A i \in 1..n : f[i] = step[i][f[i - 1]]
    BY <2>a DEF Iterates
  <2>5. \A i \in 1..n : f[i] = PushFront(f[i - 1], s[n + 1 - i])
    <3> TAKE i \in 1..n
    <3>1. f[i - 1] \in FairQueues
      BY <2>4
    <3> QED BY <2>3, <2>4, <3>1
  <2>6. \A i \in 0..n : f[i] = IF i = 0 THEN q ELSE PushFront(f[i - 1], s[n + 1 - i])
    BY <2>4, <2>5
  <2>7. P(f)
    BY <2>4, <2>6 DEF P
  <2> QED BY <2>7
<1>5. P(c)
  <2> HIDE DEF P
  <2> QED BY <1>4
<1> HIDE DEF c
<1>6. c[0] = q /\ \A i \in 1..n : c[i] = PushFront(c[i - 1], s[n + 1 - i])
  BY <1>5
<1> HIDE DEF P
<1> DEFINE pushed(i) == {s[n + 1 - j] : j \in 1..i}
           Good(i) == Queues(c[i], T \cup pushed(i))
           D == {i \in Nat : i <= n => Good(i)}
<1>7. 0 \in D
  <2>1. Queues(q, T \cup pushed(0))
    BY QueuesWiden
  <2> QED BY <1>6, <2>1
<1>8. ASSUME NEW i \in Nat, i \in D PROVE i + 1 \in D
  <2> HIDE DEF Good
  <2> SUFFICES ASSUME i + 1 <= n PROVE Good(i + 1)
    OBVIOUS
  <2>1. PICK t \in Tasks : t = s[n + 1 - (i + 1)] /\ t \in U
    BY <1>2
  <2>2. Queues(c[i], T \cup pushed(i))
    <3>1. Good(i)
      BY <1>8
    <3> QED BY <3>1 DEF Good
  <2>3. t \notin T \cup pushed(i)
    <3>1. t \notin T
      BY <2>1
    <3>2. ASSUME NEW j \in 1..i, t = s[n + 1 - j] PROVE FALSE
      <4>1. n + 1 - j \in 1..n /\ n + 1 - (i + 1) \in 1..n
        OBVIOUS
      <4>2. n + 1 - j = n + 1 - (i + 1)
        BY <1>2, <2>1, <3>2, <4>1
      <4> QED BY <4>2
    <3> QED BY <3>1, <3>2
  <2>4. c[i + 1] = Push(c[i], t, TRUE)
    <3>1. i + 1 \in 1..n /\ (i + 1) - 1 = i
      OBVIOUS
    <3> QED BY <1>6, <2>1, <3>1 DEF PushFront
  <2>5. T \cup pushed(i + 1) = (T \cup pushed(i)) \cup {t}
    BY <2>1
  <2> HIDE DEF pushed
  <2>6. Queues(Push(c[i], t, TRUE), (T \cup pushed(i)) \cup {t})
    BY <2>2, <2>3, QueuesPush, Zenon
  <2> QED BY <2>4, <2>5, <2>6, Zenon DEF Good
<1> HIDE DEF D
<1>9. n \in D
  BY <1>7, <1>8, NatSetInduction
<1>10. Queues(c[n], T \cup pushed(n))
  BY <1>9 DEF D
<1>11. \A t \in Tasks : t \in T \cup pushed(n) => t \in T \cup U
  BY <1>2
<1> HIDE DEF pushed
<1> QED BY <1>3, <1>10, <1>11, QueuesWiden

Places == [ready : FairQueues, timers : Seq(TimerRow)]

(* A task that comes in goes to the timers or to its tenant's queue. *)
LEMMA PlaceType ==
    ASSUME TasksOK, NEW p \in Places, NEW t \in Tasks
    PROVE  /\ Place(p, t) \in Places
           /\ task[t].resume > 0 => /\ Place(p, t).ready = p.ready
                                    /\ Place(p, t).timers = Parked(p.timers, t, task[t].resume)
           /\ ~(task[t].resume > 0) => /\ Place(p, t).ready = PushBack(p.ready, t)
                                       /\ Place(p, t).timers = p.timers
<1>1. p.ready \in FairQueues /\ p.timers \in Seq(TimerRow)
  BY DEF Places
<1>2. task[t].resume \in Nat
  BY Constants DEF TasksOK, TaskRow
<1>3. PICK r \in FairQueues : r = PushBack(p.ready, t)
  BY <1>1, PushType DEF PushBack
<1>4. PICK q \in Seq(TimerRow) : q = Parked(p.timers, t, task[t].resume)
  BY <1>1, <1>2, ParkedAt DEF Inserted
<1>5. Place(p, t) = IF task[t].resume > 0 THEN [p EXCEPT !.timers = q] ELSE [p EXCEPT !.ready = r]
  BY <1>3, <1>4, Zenon DEF Place
<1> QED BY <1>1, <1>3, <1>4, <1>5 DEF Places

(* Loading a list of other tasks: those in backoff are parked, the others    *)
(* are ready.                                                                *)
LEMMA PlaceAllPlaces ==
    ASSUME TasksOK, NEW p \in Places, NEW R, NEW P, Queues(p.ready, R), Parks(p.timers, P),
           NEW s, NEW U, Lists(s, U), (R \cup P) \cap U = {}
    PROVE  /\ Queues(PlaceAll(p, s).ready, R \cup {t \in U : ~(task[t].resume > 0)})
           /\ Parks(PlaceAll(p, s).timers, P \cup {t \in U : task[t].resume > 0})
<1>1. PICK n \in Nat : n = Len(s)
  BY DEF Lists
<1>2. /\ \A i \in 1..n : s[i] \in Tasks /\ s[i] \in U
      /\ \A i, j \in 1..n : s[i] = s[j] => i = j
  BY <1>1 DEF Lists, Distinct
<1> DEFINE F(h) == h = [i \in 0..n |-> IF i = 0 THEN p ELSE Place(h[i - 1], s[i])]
           c == CHOOSE h : F(h)
<1>3. PlaceAll(p, s) = c[n]
  BY <1>1 DEF PlaceAll
<1>4. \E f : F(f)
  <2> DEFINE step == [i \in 1..n |-> [r \in Places |-> Place(r, s[i])]]
  <2>1. \A i \in 1..n : \A r \in Places : Place(r, s[i]) \in Places
    BY <1>2, PlaceType
  <2>2. step \in [1..n -> [Places -> Places]]
    BY <2>1
  <2>3. \A i \in 1..n, r \in Places : step[i][r] = Place(r, s[i])
    OBVIOUS
  <2> HIDE DEF step
  <2>a. PICK f : Iterates(f, n, Places, p, step)
    BY <2>2, IterationExists
  <2>4. f \in [0..n -> Places] /\ f[0] = p /\ \A i \in 1..n : f[i] = step[i][f[i - 1]]
    BY <2>a DEF Iterates
  <2>5. \A i \in 1..n : f[i] = Place(f[i - 1], s[i])
    <3> TAKE i \in 1..n
    <3>1. f[i - 1] \in Places
      BY <2>4
    <3> QED BY <2>3, <2>4, <3>1
  <2>6. \A i \in 0..n : f[i] = IF i = 0 THEN p ELSE Place(f[i - 1], s[i])
    BY <2>4, <2>5
  <2>7. F(f)
    BY <2>4, <2>6
  <2> QED BY <2>7
<1>5. F(c)
  <2> HIDE DEF F
  <2> QED BY <1>4
<1> HIDE DEF c
<1>6. c[0] = p /\ \A i \in 1..n : c[i] = Place(c[i - 1], s[i])
  BY <1>5
<1> HIDE DEF F
<1> DEFINE late(t) == task[t].resume > 0
           fresh(i) == {t \in {s[j] : j \in 1..i} : ~late(t)}
           parked(i) == {t \in {s[j] : j \in 1..i} : late(t)}
           Good(i) == /\ c[i] \in Places
                      /\ Queues(c[i].ready, R \cup fresh(i))
                      /\ Parks(c[i].timers, P \cup parked(i))
           D == {i \in Nat : i <= n => Good(i)}
<1>7. 0 \in D
  <2>1. Queues(p.ready, R \cup fresh(0)) /\ Parks(p.timers, P \cup parked(0))
    BY QueuesWiden, ParksWiden
  <2> HIDE DEF fresh, parked
  <2> QED BY <1>6, <2>1
<1>8. ASSUME NEW i \in Nat, i \in D PROVE i + 1 \in D
  <2> SUFFICES ASSUME i + 1 <= n PROVE Good(i + 1)
    OBVIOUS
  <2>1. PICK t \in Tasks : t = s[i + 1] /\ t \in U
    BY <1>2
  <2>2. Good(i)
    BY <1>8
  <2>3. t \notin R \cup fresh(i) /\ t \notin P \cup parked(i)
    <3>1. t \notin R /\ t \notin P
      BY <2>1
    <3>2. \A j \in 1..i : t # s[j]
      BY <1>2, <2>1
    <3> QED BY <3>1, <3>2
  <2>4. c[i + 1] = Place(c[i], t)
    <3>1. i + 1 \in 1..n /\ (i + 1) - 1 = i
      OBVIOUS
    <3> QED BY <1>6, <2>1, <3>1
  <2>5. /\ late(t) => fresh(i + 1) = fresh(i) /\ parked(i + 1) = parked(i) \cup {t}
        /\ ~late(t) => fresh(i + 1) = fresh(i) \cup {t} /\ parked(i + 1) = parked(i)
    <3>1. {s[j] : j \in 1..(i + 1)} = {s[j] : j \in 1..i} \cup {t}
      BY <2>1
    <3> HIDE DEF late
    <3> QED BY <3>1
  <2> HIDE DEF fresh, parked
  <2>6. CASE late(t)
    <3>1. c[i + 1] \in Places /\ c[i + 1].ready = c[i].ready
          /\ c[i + 1].timers = Parked(c[i].timers, t, task[t].resume)
      BY <2>2, <2>4, <2>6, PlaceType
    <3>2. task[t].resume \in Nat
      BY Constants DEF TasksOK, TaskRow
    <3>3. Parks(c[i + 1].timers, (P \cup parked(i)) \cup {t})
      BY <2>2, <2>3, <3>1, <3>2, ParksInsert
    <3>4. (P \cup parked(i)) \cup {t} = P \cup parked(i + 1) /\ fresh(i + 1) = fresh(i)
      BY <2>5, <2>6
    <3> HIDE DEF late
    <3> QED BY <2>2, <3>1, <3>3, <3>4
  <2>7. CASE ~late(t)
    <3>1. c[i + 1] \in Places /\ c[i + 1].ready = PushBack(c[i].ready, t)
          /\ c[i + 1].timers = c[i].timers
      BY <2>2, <2>4, <2>7, PlaceType
    <3>2. Queues(PushBack(c[i].ready, t), (R \cup fresh(i)) \cup {t})
      BY <2>2, <2>3, QueuesPush, Zenon DEF PushBack
    <3>3. (R \cup fresh(i)) \cup {t} = R \cup fresh(i + 1) /\ parked(i + 1) = parked(i)
      BY <2>5, <2>7
    <3> HIDE DEF late
    <3> QED BY <2>2, <3>1, <3>2, <3>3
  <2> QED BY <2>6, <2>7
<1> HIDE DEF D
<1>9. n \in D
  BY <1>7, <1>8, NatSetInduction
<1>10. Good(n)
  BY <1>9 DEF D
<1>11. /\ \A t \in Tasks : t \in R \cup fresh(n) => t \in R \cup {u \in U : ~late(u)}
       /\ \A t \in Tasks : t \in P \cup parked(n) => t \in P \cup {u \in U : late(u)}
  <2> HIDE DEF late
  <2> QED BY <1>2
<1> HIDE DEF fresh, parked
<1>12. Queues(c[n].ready, R \cup {u \in U : ~late(u)}) /\ Parks(c[n].timers, P \cup {u \in U : late(u)})
  BY <1>10, <1>11, QueuesWiden, ParksWiden, Zenon
<1> QED BY <1>3, <1>12

-----------------------------------------------------------------------------
(* What a step does to the stages *)

(* There are finitely many tasks in any stage. *)
LEMMA StagedFinite ==
    ASSUME NEW X
    PROVE  /\ IsFiniteSet(Staged(X)) /\ Cardinality(Staged(X)) \in Nat
           /\ IsFiniteSet(Staged(X)') /\ Cardinality(Staged(X)') \in Nat
<1>1. Staged(X) \subseteq Tasks /\ Staged(X)' \subseteq Tasks
  BY DEF Staged
<1> QED BY <1>1, Constants, FS_Subset, FS_CardinalityType

(* Task t goes to a stage, with a next step in mind, and the others stay. *)
Moved(t, stage, next) ==
    /\ Stage(t)' = stage /\ task'[t].next = next
    /\ task'[t].attempt = task[t].attempt /\ task'[t].resume = task[t].resume
    /\ \A u \in Tasks : u # t => /\ Stage(u)' = Stage(u) /\ task'[u].next = task[u].next
                                 /\ task'[u].attempt = task[u].attempt
                                 /\ task'[u].resume = task[u].resume

(* Replacing the row of one task moves that task and no other. *)
LEMMA OneTaskMoved ==
    ASSUME TasksOK, NEW t \in Tasks, NEW row, task' = [task EXCEPT ![t] = row],
           row.attempt = task[t].attempt, row.resume = task[t].resume
    PROVE  Moved(t, row.stage, row.next)
<1>1. \A u \in Tasks : task'[u] = IF u = t THEN row ELSE task[u]
  BY DEF TasksOK
<1> QED BY <1>1 DEF Moved, Stage

(* Move moves one task. *)
LEMMA MoveMoved ==
    ASSUME TasksOK, NEW t \in Tasks, NEW stage, NEW next, Move(t, stage, next)
    PROVE  Moved(t, stage, next)
<1> DEFINE row == [task[t] EXCEPT !.stage = stage, !.next = next]
<1>1. task' = [task EXCEPT ![t] = row]
  BY DEF Move, TasksOK
<1>2. row.stage = stage /\ row.next = next /\ row.attempt = task[t].attempt
      /\ row.resume = task[t].resume
  BY DEF TasksOK, TaskRow
<1> HIDE DEF row
<1> QED BY <1>1, <1>2, OneTaskMoved

(* A worker's step moves its own task, between the stages a thread has it    *)
(* in.  The waiting tasks can gain a slot by it only when the release is     *)
(* announced, or still to come.                                              *)
Works(t) ==
    /\ UNCHANGED <<scheduler, cancel>>
    /\ \E stage, next :
          /\ Moved(t, stage, next)
          /\ stage \in Admitted \cup Released \cup {"reported"}
          /\ next = "retry" => task[t].next = "retry" \/ MayRetry(t)
          /\ IF stage = "reported" THEN reports' = Append(reports, t) ELSE UNCHANGED reports
          /\ IF stage \in Admitted <=> Stage(t) \in Admitted
             THEN UNCHANGED inFlight
             ELSE ReleaseSlots(t) /\ Stage(t) \in Admitted
          /\ \/ token' = TRUE
             \/ stage = "releasing"
             \/ UNCHANGED <<limiter, token>> /\ Stage(t) # "releasing"
    /\ Stage(t) \in Admitted \cup Released
    /\ token' \in {token, TRUE}
    /\ UNCHANGED faults \/ (faults < MaxFaults /\ faults' = faults + 1)

(* Every step of run_attempt is of the form the scheduler can rely on. *)
LEMMA WorkerWorks ==
    ASSUME LimiterInv, NEW t \in Tasks, WorkerStep(t)
    PROVE  Works(t)
<1>0. TasksOK
  BY DEF LimiterInv
<1>a. /\ {"releasing", "transferring", "ending", "verifying", "gate"} \subseteq Admitted \cup Released
      /\ {"releasing", "transferring"} \subseteq Admitted
      /\ {"ending", "verifying", "gate", "reported"} \cap Admitted = {}
  BY DEF Admitted, Released
<1>1. CASE TransferSucceeds(t)
  <2>1. PICK next \in {"verify", "finished"} : Move(t, "releasing", next)
    BY <1>1 DEF TransferSucceeds
  <2>2. Moved(t, "releasing", next)
    BY <1>0, <2>1, MoveMoved
  <2> QED BY <1>1, <1>a, <2>2 DEF TransferSucceeds, Works, limiter
<1>2. CASE TransferFails(t)
  <2>1. Moved(t, "releasing", "finished")
    BY <1>0, <1>2, MoveMoved DEF TransferFails
  <2> QED BY <1>2, <1>a, <2>1 DEF TransferFails, Works, limiter
<1>3. CASE TransferRetries(t)
  <2>1. Moved(t, "releasing", "retry")
    BY <1>0, <1>3, MoveMoved DEF TransferRetries
  <2> QED BY <1>3, <1>a, <2>1 DEF TransferRetries, Works, limiter, Fault
<1>4. CASE TransferThrottled(t)
  <2>1. PICK recent, calm : Throttled(t, recent, calm)
    BY <1>4 DEF TransferThrottled
  <2> DEFINE children(d) == (IF d \in recent THEN domain[d].children ELSE {}) \cup {Child(t, d)}
             implicated == {d \in Path(t) : d = t \/ Cardinality(children(d)) >= 2}
             own == [task[t] EXCEPT !.stage = "releasing", !.next = "retry",
                                    !.stale = task[t].stale \cup implicated]
             other(u) == IF Stage(u) \in Admitted
                         THEN [task[u] EXCEPT !.stale = task[u].stale \cup (implicated \cap Path(u))]
                         ELSE task[u]
  <2>2. task' = [u \in Tasks |-> IF u = t THEN own ELSE other(u)]
    BY <2>1 DEF Throttled
  <2> HIDE DEF implicated
  <2>3. own.stage = "releasing" /\ own.next = "retry" /\ own.attempt = task[t].attempt
        /\ own.resume = task[t].resume
    BY <1>0 DEF TasksOK, TaskRow
  <2>4. \A u \in Tasks : /\ other(u).stage = task[u].stage /\ other(u).next = task[u].next
                         /\ other(u).attempt = task[u].attempt /\ other(u).resume = task[u].resume
    BY <1>0 DEF TasksOK, TaskRow
  <2> HIDE DEF own, other
  <2>5. Moved(t, "releasing", "retry")
    BY <2>2, <2>3, <2>4 DEF Moved, Stage
  <2> QED BY <1>4, <1>a, <2>5 DEF TransferThrottled, Works, limiter, Fault
<1>5. CASE AttemptPanics(t)
  <2>1. CASE Stage(t) = "transferring" /\ Move(t, "releasing", "panicked")
    <3>1. Moved(t, "releasing", "panicked")
      BY <1>0, <2>1, MoveMoved
    <3> QED BY <1>5, <1>a, <2>1, <3>1 DEF AttemptPanics, Works, limiter, Fault
  <2>2. CASE Stage(t) = "verifying" /\ Move(t, "ending", "panicked")
    <3>1. Moved(t, "ending", "panicked")
      BY <1>0, <2>2, MoveMoved
    <3> QED BY <1>5, <1>a, <2>2, <3>1 DEF AttemptPanics, Works, limiter, Fault
  <2> QED BY <1>5, <2>1, <2>2 DEF AttemptPanics
<1>6. CASE Release(t)
  <2> DEFINE row == [task[t] EXCEPT !.stage = AfterRelease(t), !.stale = {}]
  <2>1. task' = [task EXCEPT ![t] = row]
    BY <1>0, <1>6 DEF Release, TasksOK
  <2>2. row.stage = AfterRelease(t) /\ row.next = task[t].next /\ row.attempt = task[t].attempt
        /\ row.resume = task[t].resume
    BY <1>0 DEF TasksOK, TaskRow
  <2> HIDE DEF row
  <2>3. Moved(t, AfterRelease(t), task[t].next) /\ AfterRelease(t) \in {"gate", "ending"}
    <3>1. Moved(t, row.stage, row.next)
      BY <1>0, <2>1, <2>2, OneTaskMoved
    <3> QED BY <2>2, <3>1 DEF AfterRelease
  <2> QED BY <1>6, <1>a, <2>3 DEF Release, Works, limiter
<1>7. CASE EnterVerification(t)
  <2>1. PICK stage \in {"verifying", "ending"}, next \in {"none", "finished"} : Move(t, stage, next)
    BY <1>7 DEF EnterVerification
  <2>2. Moved(t, stage, next)
    BY <1>0, <2>1, MoveMoved
  <2> QED BY <1>7, <1>a, <2>2 DEF EnterVerification, Works, limiter
<1>8. CASE VerificationEnds(t)
  <2>1. CASE Move(t, "ending", "finished") /\ UNCHANGED faults
    <3>1. Moved(t, "ending", "finished")
      BY <1>0, <2>1, MoveMoved
    <3> QED BY <1>8, <1>a, <2>1, <3>1 DEF VerificationEnds, Works, limiter
  <2>2. CASE Fault("transient") /\ MayRetry(t) /\ Move(t, "ending", "retry")
    <3>1. Moved(t, "ending", "retry")
      BY <1>0, <2>2, MoveMoved
    <3> QED BY <1>8, <1>a, <2>2, <3>1 DEF VerificationEnds, Works, limiter, Fault
  <2> QED BY <1>8, <2>1, <2>2 DEF VerificationEnds
<1>9. CASE Report(t)
  <2> DEFINE row == [task[t] EXCEPT !.stage = "reported"]
  <2>1. task' = [task EXCEPT ![t] = row]
    BY <1>0, <1>9 DEF Report, TasksOK
  <2>2. row.stage = "reported" /\ row.next = task[t].next /\ row.attempt = task[t].attempt
        /\ row.resume = task[t].resume
    BY <1>0 DEF TasksOK, TaskRow
  <2> HIDE DEF row
  <2>3. Moved(t, "reported", task[t].next)
    <3>1. Moved(t, row.stage, row.next)
      BY <1>0, <2>1, <2>2, OneTaskMoved
    <3> QED BY <2>2, <3>1
  <2> QED BY <1>9, <1>a, <2>3 DEF Report, Works, limiter
<1> QED BY <1>1, <1>2, <1>3, <1>4, <1>5, <1>6, <1>7, <1>8, <1>9 DEF WorkerStep

-----------------------------------------------------------------------------
(* The workers keep the scheduler's invariant *)

(* Lists that a step leaves alone still hold tasks of their stage, when no   *)
(* such task was moved.                                                      *)
LEMMA QueuesKept ==
    ASSUME QueuesOK, UNCHANGED queuesAndTimers,
           \A u \in Tasks : Stage(u) \in Queued => Stage(u)' = Stage(u)
    PROVE  /\ Lists(source', Staged({"source"})') /\ Queues(ready', Staged({"ready"})')
           /\ Parks(timers', Staged({"timer"})') /\ Lists(waiting', Staged({"waiting"})')
<1>1. \A stage \in Queued, u \in Tasks : u \in Staged({stage}) => u \in Staged({stage})'
  BY DEF Staged
<1>2. {"source", "ready", "timer", "waiting"} \subseteq Queued
  BY DEF Queued
<1>3. /\ \A u \in Tasks : u \in Staged({"source"}) => u \in Staged({"source"})'
      /\ \A u \in Tasks : u \in Staged({"ready"}) => u \in Staged({"ready"})'
      /\ \A u \in Tasks : u \in Staged({"timer"}) => u \in Staged({"timer"})'
      /\ \A u \in Tasks : u \in Staged({"waiting"}) => u \in Staged({"waiting"})'
  BY <1>1, <1>2
<1>4. UNCHANGED <<source, ready, timers, waiting>>
  BY DEF queuesAndTimers
<1>5. Lists(source', Staged({"source"})') /\ Lists(waiting', Staged({"waiting"})')
  BY <1>3, <1>4, ListsWiden, Zenon DEF QueuesOK
<1>6. Queues(ready', Staged({"ready"})')
  BY <1>3, <1>4, QueuesWiden, Zenon DEF QueuesOK
<1>7. Parks(timers', Staged({"timer"})')
  BY <1>3, <1>4, ParksWiden, Zenon DEF QueuesOK
<1> QED BY <1>5, <1>6, <1>7

(* Slots are held by the same attempts as before. *)
LEMMA SlotsKept ==
    ASSUME SlotsHeld, UNCHANGED inFlight,
           \A u \in Tasks : Stage(u)' \in Admitted <=> Stage(u) \in Admitted
    PROVE  SlotsHeld'
<1>1. \A d \in Domains : Holders(d)' = Holders(d)
  BY DEF Holders
<1> QED BY <1>1 DEF SlotsHeld

(* Finitely many attempts hold a slot. *)
LEMMA HoldersFinite ==
    ASSUME NEW d
    PROVE  /\ IsFiniteSet(Holders(d)) /\ Cardinality(Holders(d)) \in Nat
           /\ IsFiniteSet(Holders(d)') /\ Cardinality(Holders(d)') \in Nat
<1>1. Holders(d) \subseteq Tasks /\ Holders(d)' \subseteq Tasks
  BY DEF Holders
<1> QED BY <1>1, Constants, FS_Subset, FS_CardinalityType

(* A release takes back the slots of one attempt, which held them. *)
LEMMA SlotsReleased ==
    ASSUME SlotsHeld, CountsOK, NEW t \in Tasks, Stage(t) \in Admitted, Stage(t)' \notin Admitted,
           ReleaseSlots(t), \A u \in Tasks : u # t => Stage(u)' = Stage(u)
    PROVE  SlotsHeld'
<1> SUFFICES ASSUME NEW d \in Domains PROVE inFlight'[d] <= Cardinality(Holders(d)')
  BY DEF SlotsHeld
<1>1. PICK H : H = Holders(d)
  OBVIOUS
<1>2. /\ IsFiniteSet(H) /\ Cardinality(H) \in Nat /\ inFlight[d] \in Nat
      /\ inFlight[d] <= Cardinality(H) /\ Cardinality(H) <= inFlight[d]
  BY <1>1, HoldersFinite DEF CountsOK, SlotsHeld
<1>3. CASE d \in Path(t)
  <2>1. t \in H /\ Holders(d)' = H \ {t}
    BY <1>1, <1>3 DEF Holders
  <2>2. Cardinality(H \ {t}) = Cardinality(H) - 1 /\ Cardinality(H \ {t}) \in Nat
    BY <1>2, <2>1, FS_RemoveElement, FS_CardinalityType
  <2>3. inFlight'[d] = inFlight[d] - 1
    BY <1>2, <1>3, <2>2 DEF ReleaseSlots
  <2> QED BY <1>2, <2>1, <2>2, <2>3
<1>4. CASE d \notin Path(t)
  <2>1. Holders(d)' = H /\ inFlight'[d] = inFlight[d]
    BY <1>1, <1>2, <1>4 DEF Holders, ReleaseSlots
  <2> QED BY <1>2, <2>1
<1> QED BY <1>3, <1>4

(* A thread of run_attempt keeps the scheduler's invariant: what it does to  *)
(* the slots behind the scheduler's back, it announces.                      *)
LEMMA WorkerKeepsScheduler ==
    ASSUME LimiterInv, SchedulerInv, NEW t \in Tasks, WorkerStep(t)
    PROVE  SchedulerInv'
<1>1. Works(t) /\ TasksOK /\ CountsOK
  BY WorkerWorks DEF LimiterInv
<1>2. PICK stage, next :
          /\ Moved(t, stage, next)
          /\ stage \in Admitted \cup Released \cup {"reported"}
          /\ next = "retry" => task[t].next = "retry" \/ MayRetry(t)
          /\ IF stage = "reported" THEN reports' = Append(reports, t) ELSE UNCHANGED reports
          /\ IF stage \in Admitted <=> Stage(t) \in Admitted
             THEN UNCHANGED inFlight
             ELSE ReleaseSlots(t) /\ Stage(t) \in Admitted
          /\ \/ token' = TRUE
             \/ stage = "releasing"
             \/ UNCHANGED <<limiter, token>> /\ Stage(t) # "releasing"
  BY <1>1 DEF Works
<1>3. /\ Stage(t)' = stage /\ Stage(t) \in Admitted \cup Released
      /\ \A u \in Tasks : u # t => Stage(u)' = Stage(u)
      /\ UNCHANGED <<queuesAndTimers, threads, pc, overtaken, cancel>>
  BY <1>1, <1>2 DEF Moved, Works, scheduler
<1>4. Stage(t) \notin Queued \cup {"reported"} /\ stage \notin Queued
  BY <1>2, <1>3 DEF Admitted, Released, Queued
<1>5. QueuesOK' /\ Len(reports') = Cardinality(Staged({"reported"})')
  <2>0. /\ Lists(source', Staged({"source"})') /\ Queues(ready', Staged({"ready"})')
        /\ Parks(timers', Staged({"timer"})') /\ Lists(waiting', Staged({"waiting"})')
    BY <1>3, <1>4, QueuesKept DEF SchedulerInv
  <2>1. /\ Lists(reports, Staged({"reported"})) /\ t \notin Staged({"reported"})
        /\ Len(reports) = Cardinality(Staged({"reported"}))
    BY <1>4 DEF SchedulerInv, QueuesOK, ThreadsOK, Staged
  <2>2. PICK R : R = Staged({"reported"})
    OBVIOUS
  <2>3. CASE stage = "reported"
    <3>1. Staged({"reported"})' = R \cup {t}
      BY <1>3, <2>2, <2>3 DEF Staged
    <3>2. Lists(reports', R \cup {t}) /\ Len(reports') = Len(reports) + 1
      BY <1>2, <2>1, <2>2, <2>3, ListsAppend
    <3>3. Cardinality(R \cup {t}) = Cardinality(R) + 1
      BY <2>1, <2>2, StagedFinite, FS_AddElement
    <3> QED BY <2>0, <2>1, <2>2, <3>1, <3>2, <3>3 DEF QueuesOK
  <2>4. CASE stage # "reported"
    <3>1. Staged({"reported"})' = R /\ UNCHANGED reports
      BY <1>2, <1>3, <1>4, <2>2, <2>4 DEF Staged
    <3> QED BY <2>0, <2>1, <2>2, <3>1 DEF QueuesOK
  <2> QED BY <2>3, <2>4
<1>6. ThreadsOK'
  <2>1. Engaged' = Engaged
    BY <1>2, <1>3 DEF Engaged, Staged
  <2> QED BY <1>3, <1>5, <2>1 DEF ThreadsOK, SchedulerInv
<1>7. SlotsHeld'
  <2>1. CASE stage \in Admitted <=> Stage(t) \in Admitted
    BY <1>2, <1>3, <2>1, SlotsKept DEF SchedulerInv
  <2>2. CASE ~(stage \in Admitted <=> Stage(t) \in Admitted)
    BY <1>1, <1>2, <1>3, <2>2, SlotsReleased DEF SchedulerInv
  <2> QED BY <2>1, <2>2
<1>8. AttemptsOK'
  <2> SUFFICES ASSUME NEW u \in Tasks
               PROVE  /\ task'[u].attempt <= RetryCount
                      /\ task'[u].next = "retry" => task'[u].attempt < RetryCount
                      /\ Stage(u)' \notin {"source", "done"} => task'[u].resume = 0
    BY DEF AttemptsOK
  <2>1. /\ task[u].attempt <= RetryCount
        /\ task[u].next = "retry" => task[u].attempt < RetryCount
        /\ Stage(u) \notin {"source", "done"} => task[u].resume = 0
    BY DEF AttemptsOK, SchedulerInv
  <2>2. task'[u].attempt = task[u].attempt /\ task'[u].resume = task[u].resume
        /\ (u # t => task'[u].next = task[u].next /\ Stage(u)' = Stage(u))
        /\ (u = t => task'[u].next = next)
    BY <1>2 DEF Moved
  <2>3. Stage(t) \notin {"source", "done"}
    BY <1>3 DEF Admitted, Released
  <2> QED BY <1>2, <2>1, <2>2, <2>3 DEF MayRetry
<1>9. WakeupsOK'
  <2>1. CASE token' = TRUE
    BY <2>1 DEF WakeupsOK
  <2>2. CASE stage = "releasing"
    BY <1>3, <2>2 DEF WakeupsOK, Staged
  <2>3. CASE UNCHANGED <<limiter, token>> /\ Stage(t) # "releasing"
    <3>1. Staged({"releasing"}) \subseteq Staged({"releasing"})'
      BY <1>3, <2>3 DEF Staged
    <3>2. UNCHANGED <<domain, inFlight, waiting>>
      BY <1>3, <2>3 DEF limiter, queuesAndTimers
    <3>3. \A x : SlotLimited(x) <=> SlotLimited(x)'
      BY <3>2 DEF SlotLimited, Saturated
    <3> QED BY <2>3, <3>1, <3>2, <3>3 DEF WakeupsOK, SchedulerInv
  <2> QED BY <1>2, <2>1, <2>2, <2>3
<1>10. FlagsOK'
  <2>1. token' \in BOOLEAN /\ UNCHANGED <<pc, overtaken, cancel>>
    BY <1>1, <1>3 DEF Works, FlagsOK, SchedulerInv
  <2>2. faults' \in 0..MaxFaults
    <3>1. MaxFaults \in Nat /\ faults \in 0..MaxFaults
      BY SchedulerConstants DEF FlagsOK, SchedulerInv
    <3> QED BY <1>1, <3>1 DEF Works
  <2> QED BY <2>1, <2>2 DEF FlagsOK, SchedulerInv
<1>11. NeverUnschedulable'
  <2>1. stage # "unschedulable"
    BY <1>2 DEF Admitted, Released
  <2> QED BY <1>3, <2>1 DEF NeverUnschedulable, SchedulerInv
<1> QED BY <1>5, <1>6, <1>7, <1>8, <1>9, <1>10, <1>11 DEF SchedulerInv

-----------------------------------------------------------------------------
(* The scheduler's loop keeps it *)

(* A step that moves no task to or from a thread. *)
LEMMA QuietStages ==
    ASSUME SchedulerInv, UNCHANGED <<threads, reports, inFlight>>,
           \A u \in Tasks : \/ Stage(u)' = Stage(u)
                            \/ Stage(u) \in Queued /\ Stage(u)' \in Queued \cup {"done"}
    PROVE  /\ ThreadsOK' /\ SlotsHeld' /\ NeverUnschedulable'
           /\ Lists(reports', Staged({"reported"})')
           /\ Staged({"releasing"})' = Staged({"releasing"})
<1> DEFINE E == Admitted \cup Released \cup {"reported"}
<1>1. (Queued \cup {"done"}) \cap E = {} /\ {"reported", "releasing"} \subseteq E
      /\ Admitted \subseteq E /\ "unschedulable" \notin Queued \cup {"done"}
  BY DEF Queued, Admitted, Released
<1> HIDE DEF E
<1>2. \A u \in Tasks : \A e \in E : Stage(u)' = e <=> Stage(u) = e
  BY <1>1
<1>3. \A u \in Tasks : (Stage(u)' \in E <=> Stage(u) \in E)
                       /\ (Stage(u)' \in Admitted <=> Stage(u) \in Admitted)
  BY <1>1, <1>2
<1>4. Staged({"releasing"})' = Staged({"releasing"}) /\ Staged({"reported"})' = Staged({"reported"})
  BY <1>1, <1>2 DEF Staged
<1>5. Engaged' = Engaged
  BY <1>3 DEF Engaged, Staged, E
<1>6. SlotsHeld'
  BY <1>3, SlotsKept DEF SchedulerInv
<1>7. NeverUnschedulable'
  BY <1>1 DEF NeverUnschedulable, SchedulerInv
<1>8. ThreadsOK'
  BY <1>4, <1>5 DEF ThreadsOK, SchedulerInv
<1>9. Lists(reports', Staged({"reported"})')
  BY <1>4 DEF QueuesOK, SchedulerInv
<1> QED BY <1>4, <1>6, <1>7, <1>8, <1>9

(* A step that leaves the limits, the counts and the notifier alone wakes no *)
(* waiting task that it should not.                                          *)
LEMMA WakeupsKept ==
    ASSUME SchedulerInv, UNCHANGED <<inFlight, token>>, waiting' = waiting \/ waiting' = <<>>,
           \A d \in Domains : domain'[d].limit = domain[d].limit,
           Staged({"releasing"})' = Staged({"releasing"})
    PROVE  WakeupsOK'
<1>1. CASE waiting' = <<>>
  BY <1>1 DEF WakeupsOK
<1>2. CASE waiting' = waiting
  <2>1. ASSUME NEW i \in 1..Len(waiting), SlotLimited(waiting[i])
        PROVE  SlotLimited(waiting[i])'
    <3>1. waiting[i] \in Tasks
      BY DEF SchedulerInv, QueuesOK, Lists
    <3>2. Path(waiting[i]) \subseteq Domains
      BY <3>1, PathDomains
    <3>3. PICK d \in Path(waiting[i]) : Saturated(d)
      BY <2>1 DEF SlotLimited
    <3>4. Saturated(d)'
      BY <3>2, <3>3 DEF Saturated
    <3> QED BY <1>2, <3>3, <3>4 DEF SlotLimited
  <2> QED BY <1>2, <2>1 DEF WakeupsOK, SchedulerInv
<1> QED BY <1>1, <1>2

(* The due timers are among the timers. *)
LEMMA DueBound ==
    ASSUME timers \in Seq(TimerRow)
    PROVE  Due \in 0..Len(timers)
<1> DEFINE K == {k \in 0..Len(timers) : \A i \in 1..k : timers[i].left = 0}
<1>1. PICK n \in Nat : n = Len(timers)
  OBVIOUS
<1>2. 0 \in K /\ K \in SUBSET (0..n)
  BY <1>1
<1> HIDE DEF K
<1>3. \E x \in K : \A y \in K : x >= y
  BY <1>2, NatMax
<1>4. Max(K) \in K
  BY <1>3 DEF Max
<1>5. Due = Max(K)
  BY Zenon DEF Due, K
<1> QED BY <1>1, <1>2, <1>4, <1>5

(* The loaded tasks are among those of the source. *)
LEMMA LoadsBound ==
    ASSUME source \in Seq(Tasks)
    PROVE  Loads \in 0..Len(source)
<1> DEFINE fresh(k) == Cardinality({i \in 1..k : task[source[i]].resume = 0})
           parked == ReadyLen + Len(timers) + Len(waiting)
           K == {k \in 0..Len(source) : \/ k = Len(source)
                                        \/ ReadyLen + Due + fresh(k) >= Lookahead
                                        \/ parked + k >= MaxParked}
<1>1. PICK n \in Nat : n = Len(source)
  OBVIOUS
<1>2. K \in SUBSET (0..n) /\ n \in K
  BY <1>1
<1>3. Loads = Min(K)
  BY Zenon DEF Loads
<1> HIDE DEF K
<1>4. \E x \in K : \A y \in K : x <= y
  BY <1>2, NatMin
<1>5. Min(K) \in K
  BY <1>4 DEF Min
<1> QED BY <1>1, <1>2, <1>3, <1>5

(* The top of the loop (pop_due and the reading of the source) moves tasks   *)
(* between lists without losing or doubling one.                             *)
LEMMA FillKeepsScheduler ==
    ASSUME LimiterInv, SchedulerInv, Fill
    PROVE  SchedulerInv'
<1>0. /\ TasksOK /\ source \in Seq(Tasks) /\ timers \in Seq(TimerRow)
      /\ Lists(source, Staged({"source"})) /\ Queues(ready, Staged({"ready"}))
      /\ Parks(timers, Staged({"timer"})) /\ Lists(waiting, Staged({"waiting"}))
  BY DEF LimiterInv, SchedulerInv, QueuesOK, Lists, Parks
<1>1. PICK due \in 0..Len(timers), loads \in 0..Len(source) : due = Due /\ loads = Loads
  BY <1>0, DueBound, LoadsBound
<1> DEFINE first == [i \in 1..due |-> timers[i].task]
           second == SubSeq(source, 1, loads)
           left == SubSeq(timers, due + 1, Len(timers))
           X == {timers[i].task : i \in 1..due}
           S == {source[i] : i \in 1..loads}
           coming == first \o second
           p == [ready |-> ready, timers |-> left]
           C == ToSet(coming)
           P(t) == [task[t] EXCEPT !.stage = IF task[t].resume > 0 THEN "timer" ELSE "ready",
                                   !.resume = 0]
<1>2. /\ ready' = PlaceAll(p, coming).ready /\ timers' = PlaceAll(p, coming).timers
      /\ source' = SubSeq(source, loads + 1, Len(source))
      /\ task' = [t \in Tasks |-> IF t \in C THEN P(t) ELSE task[t]]
      /\ pc' = "admit"
      /\ UNCHANGED <<limiter, waiting, threads, overtaken, reports, token, cancel, faults>>
  BY <1>1, Zenon DEF Fill
<1>3. Lists(first, X) /\ X \subseteq Staged({"timer"})
      /\ Parks(left, Staged({"timer"}) \ X)
  <2>1. Lists(first, Staged({"timer"})) /\ Parks(left, Staged({"timer"}) \ X)
    BY <1>0, ParksSplit
  <2>2. \A i \in 1..due : timers[i].task \in Staged({"timer"})
    BY <1>0 DEF Parks
  <2>3. Len(first) = due /\ \A i \in 1..Len(first) : first[i] \in X
    BY <1>0, <2>1 DEF Lists
  <2> HIDE DEF first
  <2> QED BY <2>1, <2>2, <2>3 DEF Lists
<1>4. Lists(second, S) /\ S \subseteq Staged({"source"})
      /\ Lists(source', Staged({"source"}) \ S)
  <2>1. /\ Lists(second, Staged({"source"})) /\ Len(second) = loads
        /\ \A i \in 1..loads : second[i] = source[i]
    BY <1>0, ListsPrefix
  <2>2. Lists(source', Staged({"source"}) \ S)
    BY <1>0, <1>2, ListsSuffix
  <2>3. \A i \in 1..loads : source[i] \in Staged({"source"})
    BY <1>0 DEF Lists
  <2> HIDE DEF second
  <2> QED BY <2>1, <2>2, <2>3 DEF Lists
<1>5. Staged({"source"}) \cap Staged({"timer"}) = {} /\ Staged({"source"}) \cap Staged({"ready"}) = {}
      /\ Staged({"ready"}) \cap Staged({"timer"}) = {}
  BY DEF Staged
<1>6. Lists(coming, C) /\ C \subseteq X \cup S
  <2>1. X \cap S = {}
    BY <1>3, <1>4, <1>5
  <2> HIDE DEF first, second, X, S
  <2>2. Lists(coming, X \cup S)
    BY <1>3, <1>4, <2>1, ListsConcat
  <2> HIDE DEF coming
  <2> QED BY <2>2 DEF Lists, ToSet
<1>7. p \in Places /\ p.ready = ready /\ p.timers = left
  <2>1. ready \in FairQueues /\ left \in Seq(TimerRow)
    BY <1>0, <1>3 DEF Queues, Parks
  <2> HIDE DEF left
  <2> QED BY <2>1 DEF Places
<1> HIDE DEF first, second, left, coming, p, X, S
<1>8. /\ Queues(ready', Staged({"ready"}) \cup {t \in C : ~(task[t].resume > 0)})
      /\ Parks(timers', (Staged({"timer"}) \ X) \cup {t \in C : task[t].resume > 0})
  <2>1. (Staged({"ready"}) \cup (Staged({"timer"}) \ X)) \cap C = {}
    BY <1>3, <1>4, <1>5, <1>6
  <2> HIDE DEF C
  <2>2. Queues(p.ready, Staged({"ready"})) /\ Parks(p.timers, Staged({"timer"}) \ X)
    BY <1>0, <1>3, <1>7
  <2>3. PICK R, Q : R = Staged({"ready"}) /\ Q = Staged({"timer"}) \ X
    OBVIOUS
  <2>4. /\ Queues(p.ready, R) /\ Parks(p.timers, Q) /\ (R \cup Q) \cap C = {}
    BY <2>1, <2>2, <2>3
  <2>5. /\ Queues(PlaceAll(p, coming).ready, R \cup {t \in C : ~(task[t].resume > 0)})
        /\ Parks(PlaceAll(p, coming).timers, Q \cup {t \in C : task[t].resume > 0})
    BY <1>0, <1>6, <1>7, <2>4, PlaceAllPlaces
  <2> QED BY <1>2, <2>3, <2>5
<1> HIDE DEF C
<1>9. ASSUME NEW t \in Tasks
      PROVE  /\ Stage(t)' = IF t \notin C THEN Stage(t)
                            ELSE IF task[t].resume > 0 THEN "timer" ELSE "ready"
             /\ task'[t].attempt = task[t].attempt /\ task'[t].next = task[t].next
             /\ task'[t].resume = IF t \in C THEN 0 ELSE task[t].resume
             /\ t \in C => Stage(t) \in {"source", "timer"}
  <2>1. task'[t] = IF t \in C THEN P(t) ELSE task[t]
    BY <1>2
  <2>2. /\ P(t).stage = IF task[t].resume > 0 THEN "timer" ELSE "ready"
        /\ P(t).attempt = task[t].attempt /\ P(t).next = task[t].next /\ P(t).resume = 0
    BY <1>0 DEF TasksOK, TaskRow
  <2>3. t \in C => Stage(t) \in {"source", "timer"}
    BY <1>3, <1>4, <1>6 DEF Staged
  <2> HIDE DEF P
  <2> QED BY <2>1, <2>2, <2>3 DEF Stage
<1> HIDE DEF P
<1>10. Lists(source', Staged({"source"})') /\ Lists(waiting', Staged({"waiting"})')
  <2>1. \A t \in Tasks : t \in Staged({"source"}) \ S => t \in Staged({"source"})'
    BY <1>3, <1>5, <1>6, <1>9 DEF Staged
  <2>2. \A t \in Tasks : t \in Staged({"waiting"}) => t \in Staged({"waiting"})'
    BY <1>9 DEF Staged
  <2>3. Lists(source', Staged({"source"})')
    BY <1>4, <2>1, ListsWiden, Zenon
  <2>4. Lists(waiting', Staged({"waiting"})')
    BY <1>0, <1>2, <2>2, ListsWiden, Zenon
  <2> QED BY <2>3, <2>4
<1>11. Queues(ready', Staged({"ready"})')
  <2>1. \A t \in Tasks : t \in Staged({"ready"}) \cup {u \in C : ~(task[u].resume > 0)}
                         => t \in Staged({"ready"})'
    BY <1>9 DEF Staged
  <2> QED BY <1>8, <2>1, QueuesWiden, Zenon
<1>12. Parks(timers', Staged({"timer"})')
  <2>1. \A t \in Tasks : t \in (Staged({"timer"}) \ X) \cup {u \in C : task[u].resume > 0}
                         => t \in Staged({"timer"})'
    BY <1>4, <1>5, <1>6, <1>9 DEF Staged
  <2> QED BY <1>8, <2>1, ParksWiden, Zenon
<1>13. /\ ThreadsOK' /\ SlotsHeld' /\ NeverUnschedulable'
       /\ Lists(reports', Staged({"reported"})')
       /\ Staged({"releasing"})' = Staged({"releasing"})
  <2>1. UNCHANGED <<threads, reports, inFlight>>
    BY <1>2 DEF limiter
  <2>2. \A u \in Tasks : \/ Stage(u)' = Stage(u)
                         \/ Stage(u) \in Queued /\ Stage(u)' \in Queued \cup {"done"}
    BY <1>9 DEF Queued
  <2> QED BY <2>1, <2>2, QuietStages
<1>14. AttemptsOK'
  <2> SUFFICES ASSUME NEW u \in Tasks
               PROVE  /\ task'[u].attempt <= RetryCount
                      /\ task'[u].next = "retry" => task'[u].attempt < RetryCount
                      /\ Stage(u)' \notin {"source", "done"} => task'[u].resume = 0
    BY DEF AttemptsOK
  <2> QED BY <1>9 DEF AttemptsOK, SchedulerInv
<1>15. WakeupsOK'
  <2>1. UNCHANGED <<inFlight, token, domain, waiting>>
    BY <1>2 DEF limiter
  <2> QED BY <1>13, <2>1, WakeupsKept
<1>16. FlagsOK'
  BY <1>2 DEF FlagsOK, SchedulerInv
<1> QED BY <1>10, <1>11, <1>12, <1>13, <1>14, <1>15, <1>16 DEF SchedulerInv, QueuesOK

(* A fair queue without tenants has no tasks. *)
LEMMA QueuesEmpty ==
    ASSUME NEW T
    PROVE  Queues([order |-> <<>>, queues |-> [n \in Tenants |-> <<>>]], T)
<1> DEFINE queues == [n \in Tenants |-> <<>>]
           q == [order |-> <<>>, queues |-> queues]
<1>1. queues \in [Tenants -> Seq(Tasks)] /\ \A n \in Tenants : queues[n] = <<>>
  OBVIOUS
<1> HIDE DEF queues
<1>2. q \in FairQueues /\ q.order = <<>> /\ q.queues = queues
  BY <1>1 DEF FairQueues
<1> HIDE DEF q
<1>3. \A n \in Tenants : Lists(q.queues[n], {t \in T : Tenant(t) = n})
  BY <1>1, <1>2, ListsEmpty
<1>4. Distinct(q.order) /\ Len(q.order) = 0
  BY <1>2 DEF Distinct
<1>5. Queues(q, T)
  BY <1>2, <1>3, <1>4 DEF Queues
<1> QED BY <1>5 DEF q, queues

(* No timer, no parked task. *)
LEMMA ParksEmpty ==
    ASSUME NEW T
    PROVE  Parks(<<>>, T)
BY DEF Parks

(* Cancellation empties every list and leaves the running attempts counted. *)
LEMMA FillCancelledKeepsScheduler ==
    ASSUME LimiterInv, SchedulerInv, FillCancelled
    PROVE  SchedulerInv'
<1>0. TasksOK
  BY DEF LimiterInv
<1> DEFINE D(t) == [task[t] EXCEPT !.stage = "done"]
<1>1. /\ task' = [t \in Tasks |-> IF Stage(t) \in Queued THEN D(t) ELSE task[t]]
      /\ ready' = [order |-> <<>>, queues |-> [n \in Tenants |-> <<>>]]
      /\ source' = <<>> /\ timers' = <<>> /\ waiting' = <<>>
      /\ pc' \in {"ended", "wait"}
      /\ UNCHANGED <<limiter, threads, overtaken, reports, token, cancel, faults>>
  BY DEF FillCancelled
<1>2. ASSUME NEW t \in Tasks
      PROVE  /\ Stage(t)' = IF Stage(t) \in Queued THEN "done" ELSE Stage(t)
             /\ task'[t].attempt = task[t].attempt /\ task'[t].next = task[t].next
             /\ task'[t].resume = task[t].resume
  <2>1. D(t).stage = "done" /\ D(t).attempt = task[t].attempt /\ D(t).next = task[t].next
        /\ D(t).resume = task[t].resume
    BY <1>0 DEF TasksOK, TaskRow
  <2> HIDE DEF D
  <2> QED BY <1>1, <2>1 DEF Stage
<1>3. /\ Lists(source', Staged({"source"})') /\ Queues(ready', Staged({"ready"})')
      /\ Parks(timers', Staged({"timer"})') /\ Lists(waiting', Staged({"waiting"})')
  BY <1>1, ListsEmpty, ParksEmpty, QueuesEmpty, Zenon
<1>4. /\ ThreadsOK' /\ SlotsHeld' /\ NeverUnschedulable'
      /\ Lists(reports', Staged({"reported"})')
      /\ Staged({"releasing"})' = Staged({"releasing"})
  <2>1. UNCHANGED <<threads, reports, inFlight>>
    BY <1>1 DEF limiter
  <2>2. \A u \in Tasks : \/ Stage(u)' = Stage(u)
                         \/ Stage(u) \in Queued /\ Stage(u)' \in Queued \cup {"done"}
    BY <1>2
  <2> QED BY <2>1, <2>2, QuietStages
<1>5. AttemptsOK'
  BY <1>2 DEF AttemptsOK, SchedulerInv, Queued
<1>6. WakeupsOK'
  BY <1>1 DEF WakeupsOK
<1>7. FlagsOK'
  BY <1>1 DEF FlagsOK, SchedulerInv
<1> QED BY <1>3, <1>4, <1>5, <1>6, <1>7 DEF SchedulerInv, QueuesOK

(* Steps that leave every task in its stage, and the scheduler's lists, its  *)
(* threads and the notifier alone.                                           *)
LEMMA IdleKeepsScheduler ==
    ASSUME SchedulerInv, UNCHANGED <<source, ready, waiting, threads, reports, inFlight, token>>,
           Parks(timers', Staged({"timer"})),
           \A d \in Domains : domain'[d].limit = domain[d].limit,
           \A u \in Tasks : /\ Stage(u)' = Stage(u) /\ task'[u].attempt = task[u].attempt
                            /\ task'[u].next = task[u].next
                            /\ task[u].resume = 0 => task'[u].resume = 0,
           FlagsOK'
    PROVE  SchedulerInv'
<1>1. \A X : Staged(X)' = Staged(X)
  BY DEF Staged
<1>2. QueuesOK'
  <2>1. /\ Lists(source', Staged({"source"})') /\ Queues(ready', Staged({"ready"})')
        /\ Lists(waiting', Staged({"waiting"})')
    BY <1>1, Zenon DEF QueuesOK, SchedulerInv
  <2>2. Parks(timers', Staged({"timer"})') /\ Lists(reports', Staged({"reported"})')
    BY <1>1, Zenon DEF QueuesOK, SchedulerInv
  <2> QED BY <2>1, <2>2 DEF QueuesOK
<1>3. ThreadsOK' /\ SlotsHeld' /\ NeverUnschedulable'
  BY QuietStages
<1>4. AttemptsOK'
  BY DEF AttemptsOK, SchedulerInv
<1>5. WakeupsOK'
  BY <1>1, WakeupsKept
<1> QED BY <1>2, <1>3, <1>4, <1>5 DEF SchedulerInv

(* Time only shortens cooldowns, timers and resume deadlines. *)
LEMMA TickKeepsScheduler ==
    ASSUME LimiterInv, SchedulerInv, Tick
    PROVE  SchedulerInv'
<1>0. TasksOK /\ LimitsOK /\ timers \in Seq(TimerRow)
  BY DEF LimiterInv, SchedulerInv, QueuesOK, Parks
<1> DEFINE row(d) == [domain[d] EXCEPT !.blocked = Down(domain[d].blocked)]
           later(t) == [task[t] EXCEPT !.resume = Down(task[t].resume)]
           sooner(i) == [timers[i] EXCEPT !.left = Down(timers[i].left)]
<1>1. /\ domain' = [d \in Domains |-> row(d)] /\ task' = [t \in Tasks |-> later(t)]
      /\ timers' = [i \in 1..Len(timers) |-> sooner(i)]
      /\ UNCHANGED <<inFlight, source, ready, waiting, threads, pc, overtaken, reports, token,
                     cancel, faults>>
  BY DEF Tick
<1>2. \A d \in Domains : domain'[d].limit = domain[d].limit
  <2>1. \A d \in Domains : row(d).limit = domain[d].limit
    BY <1>0 DEF LimitsOK, DomainRow
  <2> HIDE DEF row
  <2> QED BY <1>1, <2>1
<1>3. \A u \in Tasks : /\ Stage(u)' = Stage(u) /\ task'[u].attempt = task[u].attempt
                       /\ task'[u].next = task[u].next
                       /\ task[u].resume = 0 => task'[u].resume = 0
  <2>1. \A u \in Tasks : /\ later(u).stage = task[u].stage /\ later(u).attempt = task[u].attempt
                         /\ later(u).next = task[u].next
                         /\ later(u).resume = Down(task[u].resume)
    BY <1>0 DEF TasksOK, TaskRow
  <2>2. Down(0) = 0
    BY DEF Down
  <2> HIDE DEF later
  <2> QED BY <1>1, <2>1, <2>2 DEF Stage
<1>4. Parks(timers', Staged({"timer"}))
  <2>1. PICK n \in Nat : n = Len(timers)
    BY <1>0
  <2>2. \A i \in 1..n : sooner(i) \in TimerRow /\ sooner(i).task = timers[i].task
    <3> TAKE i \in 1..n
    <3>1. timers[i] \in TimerRow
      BY <1>0, <2>1
    <3>2. Down(timers[i].left) \in Nat
      BY <3>1 DEF Down, TimerRow
    <3> QED BY <3>1, <3>2 DEF TimerRow
  <2> HIDE DEF sooner
  <2>3. timers' \in [1..n -> TimerRow] /\ \A i \in 1..n : timers'[i].task = timers[i].task
    BY <1>1, <2>1, <2>2
  <2>4. timers' \in Seq(TimerRow) /\ Len(timers') = n
    BY <2>3, IsASeq, LenProperties
  <2>5. Parks(timers, Staged({"timer"}))
    BY DEF SchedulerInv, QueuesOK
  <2> QED BY <2>1, <2>3, <2>4, <2>5 DEF Parks
<1>5. FlagsOK'
  BY <1>1 DEF FlagsOK, SchedulerInv
<1> QED BY <1>1, <1>2, <1>3, <1>4, <1>5, IdleKeepsScheduler

(* Setting the cancellation flag, or going to sleep, disturbs none of it. *)
LEMMA FlagsKeepScheduler ==
    ASSUME SchedulerInv, UNCHANGED <<limiter, task, queuesAndTimers, threads, reports, token>>,
           FlagsOK'
    PROVE  SchedulerInv'
<1>1. UNCHANGED <<source, ready, waiting, timers, threads, reports, inFlight, domain, token, task>>
  BY DEF limiter, queuesAndTimers
<1>2. Parks(timers', Staged({"timer"}))
  BY <1>1 DEF SchedulerInv, QueuesOK
<1>3. \A u \in Tasks : Stage(u)' = Stage(u)
  BY <1>1 DEF Stage
<1> QED BY <1>1, <1>2, <1>3, IdleKeepsScheduler

(* The waiting tasks are ready again, and none of them was. *)
LEMMA RequeueQueues ==
    ASSUME SchedulerInv, RequeueWaiting
    PROVE  /\ Queues(ready', Staged({"ready"}) \cup Staged({"waiting"}))
           /\ Queues(ready', Staged({"ready"}) \cup ToSet(waiting))
           /\ \A u \in Tasks : Requeued(u) <=> u \in ToSet(waiting)
           /\ ToSet(waiting) \subseteq Staged({"waiting"})
<1>1. Queues(ready, Staged({"ready"})) /\ Lists(waiting, Staged({"waiting"}))
      /\ waiting \in Seq(Tasks)
  BY DEF SchedulerInv, QueuesOK, Lists
<1>2. ToSet(waiting) \subseteq Staged({"waiting"}) /\ Lists(waiting, ToSet(waiting))
  BY <1>1 DEF Lists, ToSet
<1>3. Staged({"ready"}) \cap Staged({"waiting"}) = {}
  BY DEF Staged
<1>4. Queues(ready', Staged({"ready"}) \cup Staged({"waiting"}))
  BY <1>1, <1>3, QueuesPushAll DEF RequeueWaiting
<1>5. Staged({"ready"}) \cap ToSet(waiting) = {}
  BY <1>2, <1>3
<1>6. Queues(ready', Staged({"ready"}) \cup ToSet(waiting))
  BY <1>1, <1>2, <1>5, QueuesPushAll DEF RequeueWaiting
<1>7. ToSet(waiting)' = {}
  BY DEF RequeueWaiting, ToSet
<1> QED BY <1>2, <1>4, <1>6, <1>7 DEF Requeued

(* Taking a release token requeues every waiting task, so that none is left  *)
(* to miss it.                                                               *)
LEMMA ReceiveReleaseKeepsScheduler ==
    ASSUME LimiterInv, SchedulerInv, ReceiveRelease
    PROVE  SchedulerInv'
<1>0. TasksOK
  BY DEF LimiterInv
<1> DEFINE R(t) == [task[t] EXCEPT !.stage = "ready"]
<1>1. /\ task' = [u \in Tasks |-> IF Requeued(u) THEN R(u) ELSE task[u]]
      /\ RequeueWaiting /\ token' = FALSE /\ pc' = "fill"
      /\ UNCHANGED <<limiter, source, timers, threads, overtaken, reports, cancel, faults>>
  BY Zenon DEF ReceiveRelease
<1>2. ASSUME NEW t \in Tasks
      PROVE  /\ Stage(t)' = IF t \in ToSet(waiting) THEN "ready" ELSE Stage(t)
             /\ task'[t].attempt = task[t].attempt /\ task'[t].next = task[t].next
             /\ task'[t].resume = task[t].resume
             /\ t \in ToSet(waiting) => Stage(t) = "waiting"
  <2>1. R(t).stage = "ready" /\ R(t).attempt = task[t].attempt /\ R(t).next = task[t].next
        /\ R(t).resume = task[t].resume
    BY <1>0 DEF TasksOK, TaskRow
  <2>2. Requeued(t) <=> t \in ToSet(waiting)
    BY <1>1, RequeueQueues
  <2>3. t \in ToSet(waiting) => Stage(t) = "waiting"
    BY <1>1, RequeueQueues DEF Staged
  <2> HIDE DEF R
  <2> QED BY <1>1, <2>1, <2>2, <2>3 DEF Stage
<1>3. waiting' = <<>> /\ Lists(waiting', Staged({"waiting"})')
  BY <1>1, ListsEmpty DEF RequeueWaiting
<1>4. Queues(ready', Staged({"ready"})')
  <2>1. Queues(ready', Staged({"ready"}) \cup ToSet(waiting))
    BY <1>1, RequeueQueues
  <2>2. \A t \in Tasks : t \in Staged({"ready"}) \cup ToSet(waiting) => t \in Staged({"ready"})'
    BY <1>2 DEF Staged
  <2> QED BY <2>1, <2>2, QueuesWiden, Zenon
<1>5. Lists(source', Staged({"source"})') /\ Parks(timers', Staged({"timer"})')
  <2>1. /\ \A t \in Tasks : t \in Staged({"source"}) => t \in Staged({"source"})'
        /\ \A t \in Tasks : t \in Staged({"timer"}) => t \in Staged({"timer"})'
    BY <1>2 DEF Staged
  <2>2. Lists(source', Staged({"source"})) /\ Parks(timers', Staged({"timer"}))
    BY <1>1 DEF SchedulerInv, QueuesOK
  <2> QED BY <2>1, <2>2, ListsWiden, ParksWiden, Zenon
<1>6. /\ ThreadsOK' /\ SlotsHeld' /\ NeverUnschedulable'
      /\ Lists(reports', Staged({"reported"})')
  <2>1. UNCHANGED <<threads, reports, inFlight>>
    BY <1>1 DEF limiter
  <2>2. \A u \in Tasks : \/ Stage(u)' = Stage(u)
                         \/ Stage(u) \in Queued /\ Stage(u)' \in Queued \cup {"done"}
    BY <1>2 DEF Queued
  <2> QED BY <2>1, <2>2, QuietStages
<1>7. AttemptsOK'
  BY <1>2 DEF AttemptsOK, SchedulerInv
<1>8. WakeupsOK'
  BY <1>3 DEF WakeupsOK
<1>9. FlagsOK'
  BY <1>1 DEF FlagsOK, SchedulerInv
<1> QED BY <1>3, <1>4, <1>5, <1>6, <1>7, <1>8, <1>9 DEF SchedulerInv, QueuesOK

(* A report frees its thread, unless the thread panicked; a retry is parked  *)
(* and every waiting task competes again.                                    *)
LEMMA ReceiveReportKeepsScheduler ==
    ASSUME LimiterInv, SchedulerInv, ReceiveReport
    PROVE  SchedulerInv'
<1>0. TasksOK
  BY DEF LimiterInv
<1>1. PICK t : t = Head(reports)
  OBVIOUS
<1> DEFINE parks == task[t].next = "retry" /\ ~cancel
           R(u) == [task[u] EXCEPT !.stage = "ready"]
           A == [task[t] EXCEPT !.stage = "timer", !.attempt = task[t].attempt + 1, !.next = "none"]
           last == IF task[t].next = "panicked" THEN "lost" ELSE "done"
           E == [task[t] EXCEPT !.stage = last, !.next = "none"]
           dead == IF task[t].next = "panicked" THEN 1 ELSE 0
<1>2. /\ reports # <<>> /\ reports' = Tail(reports)
      /\ threads' = [alive |-> threads.alive - dead, busy |-> threads.busy - 1]
      /\ timers' = IF parks THEN Parked(timers, t, BaseDelay) ELSE timers
      /\ RequeueWaiting
      /\ task' = [u \in Tasks |-> IF Requeued(u) THEN R(u) ELSE IF u # t THEN task[u]
                                  ELSE IF parks THEN A ELSE E]
      /\ pc' = "fill"
      /\ UNCHANGED <<limiter, source, overtaken, token, cancel, faults>>
  BY <1>1, Zenon DEF ReceiveReport
<1>3. /\ Lists(reports, Staged({"reported"})) /\ t \in Tasks /\ Stage(t) = "reported"
      /\ Lists(reports', Staged({"reported"}) \ {t}) /\ Len(reports') = Len(reports) - 1
  <2>1. Lists(reports, Staged({"reported"}))
    BY DEF SchedulerInv, QueuesOK
  <2>2. t \in Staged({"reported"}) /\ Lists(Tail(reports), Staged({"reported"}) \ {t})
        /\ Len(Tail(reports)) = Len(reports) - 1
    BY <1>1, <1>2, <2>1, ListsTail
  <2> QED BY <1>2, <2>1, <2>2 DEF Staged
<1>4. /\ A.stage = "timer" /\ A.attempt = task[t].attempt + 1 /\ A.next = "none"
      /\ A.resume = task[t].resume
      /\ E.stage = last /\ E.attempt = task[t].attempt /\ E.next = "none"
      /\ E.resume = task[t].resume /\ last \in {"lost", "done"}
  BY <1>0, <1>3 DEF TasksOK, TaskRow
<1>5. \A u \in Tasks : R(u).stage = "ready" /\ R(u).attempt = task[u].attempt
                       /\ R(u).next = task[u].next /\ R(u).resume = task[u].resume
  BY <1>0 DEF TasksOK, TaskRow
<1> HIDE DEF R, A, E, last
<1>6. \A u \in Tasks : (Requeued(u) <=> u \in ToSet(waiting))
                       /\ (u \in ToSet(waiting) => Stage(u) = "waiting")
  BY <1>2, RequeueQueues DEF Staged
<1>7. t \notin ToSet(waiting) /\ task'[t] = IF parks THEN A ELSE E
  BY <1>2, <1>3, <1>6
<1>8. ASSUME NEW u \in Tasks, u # t
      PROVE  /\ Stage(u)' = IF u \in ToSet(waiting) THEN "ready" ELSE Stage(u)
             /\ task'[u].attempt = task[u].attempt /\ task'[u].next = task[u].next
             /\ task'[u].resume = task[u].resume
  BY <1>2, <1>5, <1>6, <1>8 DEF Stage
<1>9. /\ Stage(t)' = IF parks THEN "timer" ELSE last
      /\ task'[t].next = "none" /\ task'[t].resume = task[t].resume
      /\ task'[t].attempt = IF parks THEN task[t].attempt + 1 ELSE task[t].attempt
  BY <1>4, <1>7 DEF Stage
<1>10. waiting' = <<>> /\ Lists(waiting', Staged({"waiting"})')
  BY <1>2, ListsEmpty DEF RequeueWaiting
<1>11. Queues(ready', Staged({"ready"})')
  <2>1. Queues(ready', Staged({"ready"}) \cup ToSet(waiting))
    BY <1>2, RequeueQueues
  <2>2. \A u \in Tasks : u \in Staged({"ready"}) \cup ToSet(waiting) => u \in Staged({"ready"})'
    BY <1>3, <1>7, <1>8 DEF Staged
  <2> QED BY <2>1, <2>2, QueuesWiden, Zenon
<1>12. Lists(source', Staged({"source"})')
  <2>1. \A u \in Tasks : u \in Staged({"source"}) => u \in Staged({"source"})'
    BY <1>3, <1>6, <1>8 DEF Staged
  <2>2. Lists(source', Staged({"source"}))
    BY <1>2 DEF SchedulerInv, QueuesOK
  <2> QED BY <2>1, <2>2, ListsWiden, Zenon
<1>13. Parks(timers', Staged({"timer"})')
  <2>1. Parks(timers, Staged({"timer"})) /\ t \notin Staged({"timer"}) /\ BaseDelay \in Nat
    BY <1>3, Constants DEF SchedulerInv, QueuesOK, Staged
  <2>2. \A u \in Tasks : u \in Staged({"timer"}) => u \in Staged({"timer"})'
    BY <1>3, <1>6, <1>8 DEF Staged
  <2>3. CASE parks
    <3>1. Parks(timers', Staged({"timer"}) \cup {t})
      BY <1>2, <1>3, <2>1, <2>3, ParksInsert
    <3>2. \A u \in Tasks : u \in Staged({"timer"}) \cup {t} => u \in Staged({"timer"})'
      BY <1>9, <2>2, <2>3 DEF Staged
    <3> QED BY <3>1, <3>2, ParksWiden, Zenon
  <2>4. CASE ~parks
    <3>1. Parks(timers', Staged({"timer"}))
      BY <1>2, <2>1, <2>4
    <3> QED BY <2>2, <3>1, ParksWiden, Zenon
  <2> QED BY <2>3, <2>4
<1>14. Staged({"reported"})' = Staged({"reported"}) \ {t} /\ Engaged' = Engaged \ {t}
       /\ t \in Engaged
  <2>1. Stage(t)' \notin Admitted \cup Released \cup {"reported"}
    BY <1>4, <1>9 DEF Admitted, Released
  <2>2. \A u \in Tasks : u # t => (Stage(u)' \in Admitted \cup Released \cup {"reported"}
                                   <=> Stage(u) \in Admitted \cup Released \cup {"reported"})
                                  /\ (Stage(u)' = "reported" <=> Stage(u) = "reported")
    BY <1>6, <1>8 DEF Admitted, Released
  <2> QED BY <1>3, <2>1, <2>2 DEF Staged, Engaged
<1>15. Lists(reports', Staged({"reported"})')
  BY <1>3, <1>14
<1>16. ThreadsOK'
  <2>1. PICK G, S : G = Engaged /\ S = Staged({"reported"})
    OBVIOUS
  <2>2. /\ IsFiniteSet(G) /\ Cardinality(G) \in Nat /\ IsFiniteSet(S) /\ Cardinality(S) \in Nat
        /\ t \in G /\ t \in S
    BY <1>3, <1>14, <2>1, StagedFinite DEF Engaged, Staged
  <2>3. /\ Cardinality(G \ {t}) = Cardinality(G) - 1 /\ Cardinality(G \ {t}) \in Nat
        /\ Cardinality(S \ {t}) = Cardinality(S) - 1
    BY <2>2, FS_RemoveElement, FS_CardinalityType
  <2>4. /\ threads.alive \in 0..Threads /\ threads.busy \in Nat /\ threads.busy = Cardinality(G)
        /\ threads.busy <= threads.alive /\ Len(reports) = Cardinality(S) /\ Threads \in Nat
    BY <2>1, SchedulerConstants DEF SchedulerInv, ThreadsOK, Threads
  <2>5. dead \in {0, 1}
    OBVIOUS
  <2> HIDE DEF dead
  <2>6. threads.alive - dead \in 0..Threads /\ threads.busy - 1 \in Nat
        /\ threads.busy - 1 <= threads.alive - dead
    BY <2>2, <2>3, <2>4, <2>5
  <2>7. threads'.alive = threads.alive - dead /\ threads'.busy = threads.busy - 1
        /\ threads' \in [alive : 0..Threads, busy : Nat]
    BY <1>2, <2>6
  <2>8. Engaged' = G \ {t} /\ Staged({"reported"})' = S \ {t}
    BY <1>14, <2>1
  <2> QED BY <1>3, <2>3, <2>4, <2>6, <2>7, <2>8 DEF ThreadsOK
<1>17. SlotsHeld'
  <2>1. \A u \in Tasks : Stage(u)' \in Admitted <=> Stage(u) \in Admitted
    BY <1>3, <1>4, <1>6, <1>8, <1>9 DEF Admitted
  <2>2. UNCHANGED inFlight
    BY <1>2 DEF limiter
  <2> QED BY <2>1, <2>2, SlotsKept DEF SchedulerInv
<1>18. AttemptsOK'
  <2> SUFFICES ASSUME NEW u \in Tasks
               PROVE  /\ task'[u].attempt <= RetryCount
                      /\ task'[u].next = "retry" => task'[u].attempt < RetryCount
                      /\ Stage(u)' \notin {"source", "done"} => task'[u].resume = 0
    BY DEF AttemptsOK
  <2>1. /\ task[u].attempt <= RetryCount
        /\ task[u].next = "retry" => task[u].attempt < RetryCount
        /\ Stage(u) \notin {"source", "done"} => task[u].resume = 0
    BY DEF AttemptsOK, SchedulerInv
  <2>2. task[u].attempt \in Nat /\ RetryCount \in Nat
    BY <1>0, SchedulerConstants DEF TasksOK, TaskRow
  <2>3. CASE u = t
    BY <1>3, <1>9, <2>1, <2>2, <2>3
  <2>4. CASE u # t
    BY <1>6, <1>8, <2>1, <2>4
  <2> QED BY <2>3, <2>4
<1>19. WakeupsOK'
  BY <1>10 DEF WakeupsOK
<1>20. FlagsOK'
  BY <1>2 DEF FlagsOK, SchedulerInv
<1>21. NeverUnschedulable'
  BY <1>4, <1>8, <1>9 DEF NeverUnschedulable, SchedulerInv
<1> QED BY <1>10, <1>11, <1>12, <1>13, <1>15, <1>16, <1>17, <1>18, <1>19, <1>20, <1>21
        DEF SchedulerInv, QueuesOK

(* The cooldown of a path is that of one of its domains. *)
LEMMA CooldownType ==
    ASSUME LimitsOK, NEW t \in Tasks
    PROVE  Max({domain[d].blocked : d \in Path(t)}) \in Nat
<1> DEFINE B == {domain[d].blocked : d \in Path(t)}
<1>1. B \in SUBSET (0..MaxCooldown) /\ MaxCooldown \in Nat
  BY PathDomains, Constants DEF LimitsOK, DomainRow
<1>2. t \in Path(t)
  BY SchedulerConstants DEF Path, ToSet
<1>3. B # {}
  BY <1>2
<1> HIDE DEF B
<1>4. \E x \in B : \A y \in B : x >= y
  BY <1>1, <1>3, NatMax
<1>5. Max(B) \in B
  BY <1>4 DEF Max
<1>6. PICK m : m = Max(B)
  OBVIOUS
<1>7. m \in B
  BY <1>5, <1>6
<1>8. m \in Nat
  BY <1>1, <1>7
<1> QED BY <1>6, <1>8 DEF B

(* A task without a slot means a running attempt that holds it: the comment  *)
(* of the scheduler, "so busy > 0".                                          *)
LEMMA SlotMeansBusy ==
    ASSUME LimiterInv, SchedulerInv, NEW t \in Tasks, SlotLimited(t)
    PROVE  threads.busy > 0
<1>1. PICK d \in Path(t) : Saturated(d)
  BY DEF SlotLimited
<1>2. d \in Domains
  BY PathDomains
<1>3. inFlight[d] \in Nat /\ inFlight[d] >= 1
  <2>1. domain[d].limit \in 1..Concurrency /\ inFlight[d] \in Nat
    BY <1>2 DEF LimiterInv, LimitsOK, DomainRow, CountsOK
  <2>2. Concurrency \in Nat
    BY Constants
  <2> QED BY <1>1, <2>1, <2>2 DEF Saturated
<1>4. Holders(d) # {}
  <2>1. inFlight[d] <= Cardinality(Holders(d)) /\ Cardinality(Holders(d)) \in Nat
    BY <1>2, HoldersFinite DEF SchedulerInv, SlotsHeld
  <2>2. Cardinality({}) = 0
    BY FS_EmptySet
  <2> QED BY <1>3, <2>1, <2>2
<1>5. Engaged # {}
  BY <1>4 DEF Holders, Engaged, Staged
<1>6. IsFiniteSet(Engaged) /\ Cardinality(Engaged) \in Nat
  BY StagedFinite DEF Engaged
<1>7. Cardinality(Engaged) # 0
  BY <1>5, <1>6, FS_EmptySet
<1> QED BY <1>6, <1>7 DEF SchedulerInv, ThreadsOK

(* An admission counts one slot more in every domain of the path. *)
LEMMA SlotsTaken ==
    ASSUME SlotsHeld, CountsOK, NEW t \in Tasks, Stage(t) \notin Admitted, Stage(t)' \in Admitted,
           TakeSlots(t), \A u \in Tasks : u # t => Stage(u)' = Stage(u)
    PROVE  SlotsHeld'
<1> SUFFICES ASSUME NEW d \in Domains PROVE inFlight'[d] <= Cardinality(Holders(d)')
  BY DEF SlotsHeld
<1>1. PICK H : H = Holders(d)
  OBVIOUS
<1>2. /\ IsFiniteSet(H) /\ Cardinality(H) \in Nat /\ inFlight[d] \in Nat
      /\ inFlight[d] <= Cardinality(H) /\ t \notin H
  BY <1>1, HoldersFinite DEF CountsOK, SlotsHeld, Holders
<1>3. CASE d \in Path(t)
  <2>1. Holders(d)' = H \cup {t} /\ inFlight'[d] = inFlight[d] + 1
    BY <1>1, <1>2, <1>3 DEF Holders, TakeSlots
  <2>2. Cardinality(H \cup {t}) = Cardinality(H) + 1
    BY <1>2, FS_AddElement
  <2> QED BY <1>2, <2>1, <2>2
<1>4. CASE d \notin Path(t)
  <2>1. Holders(d)' = H /\ inFlight'[d] = inFlight[d]
    BY <1>1, <1>2, <1>4 DEF Holders, TakeSlots
  <2> QED BY <1>2, <2>1
<1> QED BY <1>3, <1>4

(* The counts of admissions watched by the other tenants stay bounded. *)
LEMMA OvertakenType ==
    ASSUME NEW t, overtaken \in [Tenants -> 0..MaxOvertaken]
    PROVE  Overtaken(t) \in [Tenants -> 0..MaxOvertaken]
<1>1. MaxOvertaken \in Nat
  BY SchedulerConstants
<1>2. ASSUME NEW n \in Tenants PROVE Smaller(overtaken[n] + 1, MaxOvertaken) \in 0..MaxOvertaken
  BY <1>1 DEF Smaller
<1> QED BY <1>1, <1>2 DEF Overtaken

(* The popped task is admitted, parked or made to wait; it was ready, and in *)
(* no other list.                                                            *)
LEMMA DispatchKeepsScheduler ==
    ASSUME LimiterInv, SchedulerInv, Dispatch
    PROVE  SchedulerInv'
<1>0. TasksOK /\ LimitsOK /\ CountsOK
  BY DEF LimiterInv
<1>1. PICK t : t = Popped.task
  OBVIOUS
<1>2. /\ MayDispatch /\ ready' = Popped.ready
      /\ Admit(t) \/ ParkCooling(t) \/ AwaitSlot(t)
      /\ UNCHANGED <<domain, source, pc, reports, token, cancel, faults>>
  BY <1>1 DEF Dispatch
<1>3. t \in Tasks /\ Stage(t) = "ready" /\ Queues(ready', Staged({"ready"}) \ {t})
  <2>1. Queues(ready, Staged({"ready"})) /\ ready.order # <<>>
    BY <1>2 DEF SchedulerInv, QueuesOK, MayDispatch
  <2>2. PICK T : T = Staged({"ready"})
    OBVIOUS
  <2>3. t \in Tasks /\ t \in T /\ Queues(Popped.ready, T \ {t})
    BY <1>1, <2>1, <2>2, QueuesPop
  <2> QED BY <1>2, <2>2, <2>3 DEF Staged
<1>4. ASSUME NEW row, task' = [task EXCEPT ![t] = row]
      PROVE  /\ Stage(t)' = row.stage /\ task'[t] = row
             /\ \A u \in Tasks : u # t => task'[u] = task[u] /\ Stage(u)' = Stage(u)
  BY <1>0, <1>3, <1>4 DEF TasksOK, Stage
<1>5. PICK row :
          /\ task' = [task EXCEPT ![t] = row]
          /\ row.attempt = task[t].attempt /\ row.resume = task[t].resume
          /\ row.next \in {task[t].next, "none"}
          /\ \/ Admit(t) /\ row.stage = "transferring"
             \/ ParkCooling(t) /\ row.stage = "timer"
             \/ AwaitSlot(t) /\ threads.busy > 0 /\ row.stage = "waiting"
  <2>1. CASE Admit(t)
    <3> DEFINE row == [task[t] EXCEPT !.stage = "transferring", !.stale = {}, !.next = "none"]
    <3>1. task' = [task EXCEPT ![t] = row]
      BY <1>0, <1>3, <2>1 DEF Admit, TasksOK
    <3>2. row.attempt = task[t].attempt /\ row.resume = task[t].resume /\ row.next = "none"
          /\ row.stage = "transferring"
      BY <1>0, <1>3 DEF TasksOK, TaskRow
    <3> HIDE DEF row
    <3> QED BY <2>1, <3>1, <3>2
  <2>2. CASE ParkCooling(t)
    <3> DEFINE row == [task[t] EXCEPT !.stage = "timer"]
    <3>1. task' = [task EXCEPT ![t] = row]
      <4>1. task' = [task EXCEPT ![t].stage = "timer"]
        BY <2>2, Zenon DEF ParkCooling
      <4> QED BY <1>0, <1>3, <4>1 DEF TasksOK
    <3>2. row.attempt = task[t].attempt /\ row.resume = task[t].resume /\ row.next = task[t].next
          /\ row.stage = "timer"
      BY <1>0, <1>3 DEF TasksOK, TaskRow
    <3> HIDE DEF row
    <3> QED BY <2>2, <3>1, <3>2
  <2>3. CASE AwaitSlot(t)
    <3>1. threads.busy > 0
      BY <1>3, <2>3, SlotMeansBusy DEF AwaitSlot
    <3> DEFINE row == [task[t] EXCEPT !.stage = "waiting"]
    <3>2. task' = [task EXCEPT ![t] = row]
      <4>1. task' = [task EXCEPT ![t].stage = "waiting"]
        BY <2>3, <3>1 DEF AwaitSlot
      <4> QED BY <1>0, <1>3, <4>1 DEF TasksOK
    <3>3. row.attempt = task[t].attempt /\ row.resume = task[t].resume /\ row.next = task[t].next
          /\ row.stage = "waiting"
      BY <1>0, <1>3 DEF TasksOK, TaskRow
    <3> HIDE DEF row
    <3> QED BY <2>3, <3>1, <3>2, <3>3
  <2> QED BY <1>2, <2>1, <2>2, <2>3
<1>6. /\ Stage(t)' = row.stage /\ task'[t] = row
      /\ \A u \in Tasks : u # t => task'[u] = task[u] /\ Stage(u)' = Stage(u)
  BY <1>4, <1>5
<1>7. row.stage \in {"transferring", "timer", "waiting"}
  BY <1>5
<1>8. Queues(ready', Staged({"ready"})')
  <2>1. \A u \in Tasks : u \in Staged({"ready"}) \ {t} => u \in Staged({"ready"})'
    BY <1>6 DEF Staged
  <2> QED BY <1>3, <2>1, QueuesWiden, Zenon
<1>9. Lists(source', Staged({"source"})') /\ Lists(reports', Staged({"reported"})')
  <2>1. \A u \in Tasks : (u \in Staged({"source"}) => u \in Staged({"source"})')
                         /\ (u \in Staged({"reported"}) => u \in Staged({"reported"})')
    BY <1>3, <1>6 DEF Staged
  <2>2. Lists(source', Staged({"source"})) /\ Lists(reports', Staged({"reported"}))
    BY <1>2 DEF SchedulerInv, QueuesOK
  <2> QED BY <2>1, <2>2, ListsWiden, Zenon
<1>10. /\ \A u \in Tasks : u \in Staged({"timer"}) => u \in Staged({"timer"})'
       /\ \A u \in Tasks : u \in Staged({"waiting"}) => u \in Staged({"waiting"})'
       /\ Parks(timers, Staged({"timer"})) /\ Lists(waiting, Staged({"waiting"}))
       /\ t \notin Staged({"timer"}) /\ t \notin Staged({"waiting"})
       /\ Staged({"reported"})' = Staged({"reported"})
       /\ Staged({"releasing"})' = Staged({"releasing"})
  <2>1. Parks(timers, Staged({"timer"})) /\ Lists(waiting, Staged({"waiting"}))
    BY DEF SchedulerInv, QueuesOK
  <2> QED BY <1>3, <1>6, <1>7, <2>1 DEF Staged
<1>11. AttemptsOK'
  <2> SUFFICES ASSUME NEW u \in Tasks
               PROVE  /\ task'[u].attempt <= RetryCount
                      /\ task'[u].next = "retry" => task'[u].attempt < RetryCount
                      /\ Stage(u)' \notin {"source", "done"} => task'[u].resume = 0
    BY DEF AttemptsOK
  <2>1. /\ task[u].attempt <= RetryCount
        /\ task[u].next = "retry" => task[u].attempt < RetryCount
        /\ Stage(u) \notin {"source", "done"} => task[u].resume = 0
    BY DEF AttemptsOK, SchedulerInv
  <2> QED BY <1>3, <1>5, <1>6, <2>1
<1>12. NeverUnschedulable'
  BY <1>6, <1>7 DEF NeverUnschedulable, SchedulerInv
<1>13. CASE Admit(t) /\ row.stage = "transferring"
  <2>1. /\ TakeSlots(t) /\ threads' = [threads EXCEPT !.busy = threads.busy + 1]
        /\ overtaken' = Overtaken(t) /\ UNCHANGED <<timers, waiting>>
    BY <1>13 DEF Admit
  <2>2. Parks(timers', Staged({"timer"})') /\ Lists(waiting', Staged({"waiting"})')
    BY <1>10, <2>1, ParksWiden, ListsWiden, Zenon
  <2>3. Engaged' = Engaged \cup {t} /\ t \notin Engaged
    BY <1>3, <1>6, <1>13 DEF Engaged, Staged, Admitted, Released
  <2>4. ThreadsOK'
    <3>1. PICK G : G = Engaged
      OBVIOUS
    <3>2. IsFiniteSet(G) /\ Cardinality(G) \in Nat
      BY <3>1, StagedFinite DEF Engaged
    <3>3. Cardinality(G \cup {t}) = Cardinality(G) + 1
      BY <2>3, <3>1, <3>2, FS_AddElement
    <3>4. threads \in [alive : 0..Threads, busy : Nat] /\ threads.busy = Cardinality(G)
          /\ threads.busy < threads.alive /\ Len(reports) = Cardinality(Staged({"reported"}))
      BY <1>2, <3>1 DEF SchedulerInv, ThreadsOK, MayDispatch
    <3>5. threads' \in [alive : 0..Threads, busy : Nat] /\ threads'.busy = threads.busy + 1
          /\ threads'.alive = threads.alive
      BY <2>1, <3>4
    <3>6. Threads \in Nat
      BY SchedulerConstants DEF Threads
    <3>7. threads'.busy = Cardinality(Engaged') /\ threads'.busy <= threads'.alive
      BY <2>3, <3>1, <3>3, <3>4, <3>5, <3>6
    <3>8. Len(reports') = Cardinality(Staged({"reported"})')
      BY <1>2, <1>10, <3>4
    <3> QED BY <3>5, <3>7, <3>8 DEF ThreadsOK
  <2>5. SlotsHeld'
    <3>1. Stage(t) \notin Admitted /\ Stage(t)' \in Admitted
      BY <1>3, <1>6, <1>13 DEF Admitted
    <3> QED BY <1>0, <1>3, <1>6, <2>1, <3>1, SlotsTaken DEF SchedulerInv
  <2>6. WakeupsOK'
    <3>1. ASSUME NEW i \in 1..Len(waiting), SlotLimited(waiting[i])
          PROVE  SlotLimited(waiting[i])'
      <4>1. waiting[i] \in Tasks
        BY <1>10 DEF Lists
      <4>2. PICK d \in Path(waiting[i]) : Saturated(d)
        BY <3>1 DEF SlotLimited
      <4>3. d \in Domains
        BY <4>1, PathDomains
      <4>4. domain[d].limit \in Nat /\ inFlight[d] \in Nat
        BY <1>0, <4>3, Constants DEF LimitsOK, DomainRow, CountsOK
      <4>5. inFlight'[d] \in Nat /\ inFlight'[d] >= inFlight[d]
        BY <2>1, <4>3, <4>4 DEF TakeSlots
      <4>6. Saturated(d)'
        BY <1>2, <4>2, <4>4, <4>5 DEF Saturated
      <4> QED BY <2>1, <4>2, <4>6 DEF SlotLimited
    <3> QED BY <1>2, <1>10, <2>1, <3>1 DEF WakeupsOK, SchedulerInv
  <2>7. FlagsOK'
    BY <1>2, <2>1, OvertakenType DEF FlagsOK, SchedulerInv
  <2> QED BY <1>8, <1>9, <1>11, <1>12, <2>2, <2>4, <2>5, <2>6, <2>7 DEF SchedulerInv, QueuesOK
<1>14. ASSUME row.stage \in {"timer", "waiting"}, UNCHANGED <<inFlight, threads, overtaken>>
       PROVE  ThreadsOK' /\ SlotsHeld' /\ FlagsOK'
  <2>1. \A u \in Tasks : \/ Stage(u)' = Stage(u)
                         \/ Stage(u) \in Queued /\ Stage(u)' \in Queued \cup {"done"}
    BY <1>3, <1>6, <1>14 DEF Queued
  <2>2. ThreadsOK' /\ SlotsHeld'
    BY <1>2, <1>14, <2>1, QuietStages
  <2>3. FlagsOK'
    BY <1>2, <1>14 DEF FlagsOK, SchedulerInv
  <2> QED BY <2>2, <2>3
<1>15. CASE ParkCooling(t) /\ row.stage = "timer"
  <2>1. UNCHANGED <<inFlight, threads, overtaken, waiting>>
        /\ timers' = Parked(timers, t, Max({domain[d].blocked : d \in Path(t)}))
    BY <1>15, Zenon DEF ParkCooling
  <2>2. PICK left \in Nat : left = Max({domain[d].blocked : d \in Path(t)})
    BY <1>0, <1>3, CooldownType
  <2>3. Parks(timers', Staged({"timer"}) \cup {t})
    BY <1>3, <1>10, <2>1, <2>2, ParksInsert
  <2>4. \A u \in Tasks : u \in Staged({"timer"}) \cup {t} => u \in Staged({"timer"})'
    BY <1>6, <1>10, <1>15 DEF Staged
  <2>5. Parks(timers', Staged({"timer"})') /\ Lists(waiting', Staged({"waiting"})')
    <3>1. Parks(timers', Staged({"timer"})')
      <4>1. Staged({"timer"}) \cup {t} \subseteq Tasks /\ Staged({"timer"})' \subseteq Tasks
        BY <1>3 DEF Staged
      <4>2. Staged({"timer"}) \cup {t} \subseteq Staged({"timer"})'
        BY <2>4, <4>1
      <4> QED BY <2>3, <4>2 DEF Parks
    <3>2. Lists(waiting, Staged({"waiting"})')
      BY <1>10, ListsWiden, Zenon
    <3> QED BY <2>1, <3>1, <3>2
  <2>6. WakeupsOK'
    BY <1>2, <1>10, <2>1, WakeupsKept
  <2>7. ThreadsOK' /\ SlotsHeld' /\ FlagsOK'
    BY <1>14, <1>15, <2>1
  <2> QED BY <1>8, <1>9, <1>11, <1>12, <2>5, <2>6, <2>7 DEF SchedulerInv, QueuesOK
<1>16. CASE AwaitSlot(t) /\ threads.busy > 0 /\ row.stage = "waiting"
  <2>1. UNCHANGED <<inFlight, threads, overtaken, timers>> /\ waiting' = Append(waiting, t)
        /\ SlotLimited(t)
    BY <1>16 DEF AwaitSlot
  <2>2. Lists(waiting', Staged({"waiting"}) \cup {t})
    BY <1>3, <1>10, <2>1, ListsAppend
  <2>3. \A u \in Tasks : u \in Staged({"waiting"}) \cup {t} => u \in Staged({"waiting"})'
    BY <1>6, <1>10, <1>16 DEF Staged
  <2>4. Parks(timers', Staged({"timer"})') /\ Lists(waiting', Staged({"waiting"})')
    <3>1. Lists(waiting', Staged({"waiting"})')
      <4>1. Staged({"waiting"}) \cup {t} \subseteq Tasks /\ Staged({"waiting"})' \subseteq Tasks
        BY <1>3 DEF Staged
      <4>2. Staged({"waiting"}) \cup {t} \subseteq Staged({"waiting"})'
        BY <2>3, <4>1
      <4> QED BY <2>2, <4>2 DEF Lists
    <3>2. Parks(timers, Staged({"timer"})')
      BY <1>10, ParksWiden, Zenon
    <3> QED BY <2>1, <3>1, <3>2
  <2>5. WakeupsOK'
    <3>1. \A x : SlotLimited(x)' <=> SlotLimited(x)
      BY <1>2, <2>1 DEF SlotLimited, Saturated
    <3>2. waiting \in Seq(Tasks) /\ Len(waiting) \in Nat
      BY <1>10 DEF Lists
    <3>3. Len(waiting') = Len(waiting) + 1
          /\ \A i \in 1..Len(waiting') : waiting'[i] = t \/ (i \in 1..Len(waiting) /\ waiting'[i] = waiting[i])
      BY <2>1, <3>2, <1>3
    <3>4. token \/ Staged({"releasing"}) # {} \/ \A i \in 1..Len(waiting) : SlotLimited(waiting[i])
      BY DEF SchedulerInv, WakeupsOK
    <3>5. CASE token \/ Staged({"releasing"}) # {}
      BY <1>2, <1>10, <3>5 DEF WakeupsOK
    <3>6. CASE \A i \in 1..Len(waiting) : SlotLimited(waiting[i])
      <4>1. ASSUME NEW i \in 1..Len(waiting') PROVE SlotLimited(waiting[i])'
        <5>1. PICK x : x = waiting'[i]
          OBVIOUS
        <5>2. SlotLimited(x)
          BY <2>1, <3>3, <3>6, <5>1
        <5>3. SlotLimited(x)'
          BY <3>1, <5>2
        <5> QED BY <5>1, <5>3 DEF SlotLimited
      <4> QED BY <4>1 DEF WakeupsOK
    <3> QED BY <3>4, <3>5, <3>6
  <2>6. ThreadsOK' /\ SlotsHeld' /\ FlagsOK'
    BY <1>14, <1>16, <2>1
  <2> QED BY <1>8, <1>9, <1>11, <1>12, <2>4, <2>5, <2>6 DEF SchedulerInv, QueuesOK
<1> QED BY <1>5, <1>13, <1>15, <1>16

-----------------------------------------------------------------------------
(* The scheduler's invariant *)

(* A batch starts with every task in the source, no attempt and every thread *)
(* idle (run_batch_schedule before its loop).                                *)
LEMMA SchedulerInvInit ==
    ASSUME Init
    PROVE  SchedulerInv
<1> DEFINE row(t) == [stage |-> "source", next |-> "none", attempt |-> 0, stale |-> {},
                      resume |-> IF t \in Resumed THEN BaseDelay ELSE 0]
<1>1. /\ task = [t \in Tasks |-> row(t)] /\ inFlight = [d \in Domains |-> 0]
      /\ source = SourceOrder
      /\ ready = [order |-> <<>>, queues |-> [n \in Tenants |-> <<>>]]
      /\ timers = <<>> /\ waiting = <<>> /\ reports = <<>>
      /\ token = FALSE /\ cancel = FALSE /\ pc = "fill" /\ faults = 0
      /\ threads = [alive |-> Threads, busy |-> 0]
      /\ overtaken = [n \in Tenants |-> 0]
  BY DEF Init
<1>2. \A t \in Tasks : row(t).stage = "source" /\ row(t).next = "none" /\ row(t).attempt = 0
  OBVIOUS
<1> HIDE DEF row
<1>3. \A t \in Tasks : Stage(t) = "source" /\ task[t].next = "none" /\ task[t].attempt = 0
  BY <1>1, <1>2 DEF Stage
<1>4. Staged({"source"}) = Tasks /\ Engaged = {} /\ Staged({"reported"}) = {}
  BY <1>3 DEF Staged, Engaged, Admitted, Released
<1>5. Cardinality({}) = 0
  BY FS_EmptySet
<1>6. QueuesOK
  <2>1. Lists(source, Staged({"source"}))
    BY <1>1, <1>4, SchedulerConstants DEF Lists, Distinct
  <2>2. Queues(ready, Staged({"ready"}))
    BY <1>1, QueuesEmpty
  <2>3. Parks(timers, Staged({"timer"})) /\ Lists(waiting, Staged({"waiting"}))
        /\ Lists(reports, Staged({"reported"}))
    BY <1>1, ParksEmpty, ListsEmpty
  <2> QED BY <2>1, <2>2, <2>3 DEF QueuesOK
<1>7. ThreadsOK
  <2>1. Threads \in Nat
    BY SchedulerConstants DEF Threads
  <2>2. Len(reports) = 0
    BY <1>1
  <2>3. threads \in [alive : 0..Threads, busy : Nat] /\ threads.busy = 0 /\ threads.alive = Threads
    BY <1>1, <2>1
  <2>4. Cardinality(Engaged) = 0 /\ Cardinality(Staged({"reported"})) = 0
    BY <1>4, <1>5
  <2> QED BY <2>1, <2>2, <2>3, <2>4 DEF ThreadsOK
<1>8. SlotsHeld
  <2>1. \A d \in Domains : inFlight[d] = 0 /\ Cardinality(Holders(d)) \in Nat
    BY <1>1, HoldersFinite
  <2> QED BY <2>1 DEF SlotsHeld
<1>9. AttemptsOK
  BY <1>3, SchedulerConstants DEF AttemptsOK
<1>10. WakeupsOK
  BY <1>1 DEF WakeupsOK
<1>11. FlagsOK
  <2>1. MaxOvertaken \in Nat /\ MaxFaults \in Nat
    BY SchedulerConstants
  <2>2. overtaken \in [Tenants -> 0..MaxOvertaken]
    BY <1>1, <2>1
  <2>3. token \in BOOLEAN /\ cancel \in BOOLEAN
    BY <1>1
  <2>4. pc \in {"fill", "admit", "wait", "ended"} /\ faults \in 0..MaxFaults
    BY <1>1, <2>1
  <2> QED BY <2>2, <2>3, <2>4 DEF FlagsOK
<1>12. NeverUnschedulable
  BY <1>3 DEF NeverUnschedulable
<1> QED BY <1>6, <1>7, <1>8, <1>9, <1>10, <1>11, <1>12 DEF SchedulerInv

(* The scheduler, the threads, cancellation and time all keep it. *)
LEMMA SchedulerInvStep ==
    ASSUME LimiterInv, SchedulerInv, [Next]_vars
    PROVE  SchedulerInv'
<1>1. CASE Fill
  BY <1>1, FillKeepsScheduler
<1>2. CASE FillCancelled
  BY <1>2, FillCancelledKeepsScheduler
<1>3. CASE Dispatch
  BY <1>3, DispatchKeepsScheduler
<1>4. CASE DispatchEnds
  <2>1. /\ UNCHANGED <<limiter, task, queuesAndTimers, threads, overtaken, reports, token, cancel,
                       faults>>
        /\ pc' \in {"ended", "wait"}
    BY <1>4, Zenon DEF DispatchEnds
  <2>2. FlagsOK'
    BY <2>1 DEF FlagsOK, SchedulerInv
  <2> QED BY <2>1, <2>2, FlagsKeepScheduler
<1>5. CASE ReceiveReport
  BY <1>5, ReceiveReportKeepsScheduler
<1>6. CASE ReceiveRelease
  BY <1>6, ReceiveReleaseKeepsScheduler
<1>7. CASE Workers
  BY <1>7, WorkerKeepsScheduler DEF Workers
<1>8. CASE Cancel
  <2>1. /\ UNCHANGED <<limiter, task, queuesAndTimers, threads, pc, overtaken, reports, token,
                       faults>>
        /\ cancel' = TRUE
    BY <1>8 DEF Cancel, scheduler
  <2>2. FlagsOK'
    BY <2>1 DEF FlagsOK, SchedulerInv
  <2> QED BY <2>1, <2>2, FlagsKeepScheduler
<1>9. CASE Tick
  BY <1>9, TickKeepsScheduler
<1>10. CASE UNCHANGED vars
  <2>1. UNCHANGED <<limiter, task, queuesAndTimers, threads, pc, overtaken, reports, token, cancel,
                    faults>>
    BY <1>10 DEF vars, scheduler
  <2>2. FlagsOK'
    BY <2>1 DEF FlagsOK, SchedulerInv
  <2> QED BY <2>1, <2>2, FlagsKeepScheduler
<1> QED BY <1>1, <1>2, <1>3, <1>4, <1>5, <1>6, <1>7, <1>8, <1>9, <1>10 DEF Next, SchedulerStep

(* Whatever the order of reports, releases, timers and cancellation, every   *)
(* list of run_batch_schedule holds each task once and in its own stage, its *)
(* count of busy threads is the number of attempts not reported back, the    *)
(* limiter counts no slot that no attempt holds, and a task on slot_waiting  *)
(* either has no slot or a release of one is announced or under way.         *)
THEOREM SchedulerInvariant == Spec => []SchedulerInv
<1>1. Init => LimiterInv /\ SchedulerInv
  BY LimiterInvInit, SchedulerInvInit
<1>2. LimiterInv /\ SchedulerInv /\ [Next]_vars => (LimiterInv /\ SchedulerInv)'
  BY LimiterInvStep, SchedulerInvStep
<1> QED BY <1>1, <1>2, PTL DEF Spec

(* The counters of the limiter and of run_batch_schedule stay within their   *)
(* bounds: no domain counts more admissions than transfers may run at once,  *)
(* no task is tried more than RetryCount times again, no more threads are    *)
(* busy or have a report pending than were started.                          *)
THEOREM RateTypeOK == Spec => []TypeOK
<1>1. LimiterInv /\ SchedulerInv => TypeOK
  <2> SUFFICES ASSUME LimiterInv, SchedulerInv
               PROVE  TypeOK
    OBVIOUS
  <2> DEFINE Row == [stage : Queued \cup Admitted \cup Released \cup Over \cup {"reported"},
                     next : {"none", "finished", "retry", "panicked", "verify"},
                     attempt : 0..RetryCount, stale : SUBSET Domains, resume : 0..BaseDelay]
  <2>1. domain \in [Domains -> DomainRow]
    BY DEF LimiterInv, LimitsOK
  <2>2. inFlight \in [Domains -> 0..Concurrency]
    <3>1. \A d \in Domains : inFlight[d] \in 0..Concurrency
      <4> TAKE d \in Domains
      <4>1. inFlight[d] \in Nat /\ inFlight[d] <= Ceiling(d)
        BY DEF LimiterInv, CountsOK
      <4>2. Ceiling(d) \in 1..Concurrency /\ Concurrency \in Nat
        BY CeilingType, Constants
      <4> QED BY <4>1, <4>2
    <3> QED BY <3>1 DEF LimiterInv, CountsOK
  <2>3. task \in [Tasks -> Row]
    <3> SUFFICES ASSUME NEW t \in Tasks
                 PROVE  task[t] \in Row
      BY DEF LimiterInv, TasksOK
    <3>1. task[t] \in TaskRow /\ task[t].attempt <= RetryCount /\ RetryCount \in Nat
      BY SchedulerConstants DEF LimiterInv, TasksOK, SchedulerInv, AttemptsOK
    <3> QED BY <3>1 DEF TaskRow
  <2>4. threads \in [alive : 0..Threads, busy : 0..Threads] /\ Len(reports) <= Threads
    <3>1. /\ threads \in [alive : 0..Threads, busy : Nat] /\ threads.busy <= threads.alive
          /\ threads.busy = Cardinality(Engaged) /\ Len(reports) = Cardinality(Staged({"reported"}))
      BY DEF SchedulerInv, ThreadsOK
    <3>2. Threads \in Nat
      BY SchedulerConstants DEF Threads
    <3>3. Cardinality(Staged({"reported"})) \in Nat /\ IsFiniteSet(Engaged)
      BY StagedFinite DEF Engaged
    <3>4. Staged({"reported"}) \subseteq Engaged
      BY DEF Staged, Engaged
    <3>5. Cardinality(Staged({"reported"})) <= Cardinality(Engaged)
      BY <3>3, <3>4, FS_Subset
    <3> QED BY <3>1, <3>2, <3>3, <3>5
  <2>5. FlagsOK
    BY DEF SchedulerInv
  <2> HIDE DEF Row
  <2> QED BY <2>1, <2>2, <2>3, <2>4, <2>5 DEF TypeOK, FlagsOK, DomainRow, Row
<1> QED BY <1>1, LimiterInvariant, SchedulerInvariant, PTL

(* The scheduler never fails a mailbox as unschedulable: a task that finds   *)
(* no slot finds a running attempt that holds it, as the comment at          *)
(* batch_scheduler.rs:402 claims, for every lineage and every limit.         *)
THEOREM NeverUnschedulableAlways == Spec => []NeverUnschedulable
<1>1. SchedulerInv => NeverUnschedulable
  BY DEF SchedulerInv
<1> QED BY <1>1, SchedulerInvariant, PTL

(* No wake-up is lost between an attempt that gives its slots back on its    *)
(* own thread and the scheduler that parks a task for want of one: when the  *)
(* scheduler sleeps with no message pending, no waiting task is admissible.  *)
THEOREM NoLostWakeupAlways == Spec => []NoLostWakeup
<1>1. SchedulerInv => NoLostWakeup
  <2> SUFFICES ASSUME SchedulerInv, ~token, \A t \in Tasks : Stage(t) # "releasing",
                      NEW i \in 1..Len(waiting)
               PROVE  ~Admissible(waiting[i])
    BY DEF NoLostWakeup
  <2>1. Staged({"releasing"}) = {}
    BY DEF Staged
  <2>2. SlotLimited(waiting[i])
    BY <2>1 DEF SchedulerInv, WakeupsOK
  <2> QED BY <2>2 DEF Admissible
<1> QED BY <1>1, SchedulerInvariant, PTL
=============================================================================
