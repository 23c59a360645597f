----------------------- MODULE BatchControllerProofs -----------------------
(***************************************************************************)
(* Proofs about BatchController for every set of mailboxes, number of      *)
(* threads and retries, and every choice of faults.  The safety properties *)
(* follow from one inductive invariant, BatchInv.                          *)
(***************************************************************************)
EXTENDS BatchController, FiniteSetTheorems, TLAPS

ChildStatus(m) == runs[Child(m)].status

(* The rows of the batch: one parent, one child per mailbox, whose identity *)
(* columns never change.  A mailbox is running exactly while its child is,  *)
(* and an unfinished child has a running parent.                            *)
RowsOK ==
    /\ runs[Parent].kind = "parent"
    /\ runs[Parent].status \in {"running"} \cup TerminalStatuses
    /\ \A m \in Mailboxes :
          /\ runs[Child(m)].kind = "child" /\ runs[Child(m)].job = m
          /\ runs[Child(m)].parent = Parent /\ runs[Child(m)].project = Project
          /\ ChildStatus(m) \in ActiveStatuses \cup TerminalStatuses
          /\ ChildStatus(m) \in ActiveStatuses => runs[Parent].status = "running"
          /\ mailbox[m] = "running" <=> ChildStatus(m) = "running"

(* Processes on record are of running children, or of children recovery     *)
(* abandoned.                                                               *)
ProcessesOK ==
    \A r \in processes : \E m \in Mailboxes :
        /\ r = Child(m)
        /\ \/ ChildStatus(m) = "running"
           \/ ctl = "idle" /\ ChildStatus(m) = "abandoned"

(* The scheduler's thread ends after every task has been let go, and the    *)
(* controller leaves the batch, or dies, after or with that thread.         *)
WorkerOK ==
    /\ worker # "scheduling" => \A m \in Mailboxes : Stage(m) \notin Busy
    /\ ctl # "running" => worker = "done"
    /\ ctl \in {"advancing", "idle"} => runs[Parent].status \in TerminalStatuses

(* Stages in which the scheduler has no further use for the task. *)
Gone == {"reporting", "settled", "dead", "dropped"}

Engaged == {"launching", "starting", "transferring", "verifying", "cleanup"}

(* A task that holds its claim and is still scheduled has a running child;  *)
(* only a successful transfer is verified.                                  *)
ClaimsOK ==
    \A m \in Mailboxes :
        /\ Stage(m) \in Engaged => task[m].claimed
        /\ task[m].claimed /\ Stage(m) \notin Gone /\ worker = "scheduling" =>
              ChildStatus(m) = "running"
        /\ Stage(m) = "claiming" /\ reply[m] = "claimed" => ChildStatus(m) = "running"
        /\ Stage(m) = "verifying" => task[m].result \in {"ok", "delta"}

(* The attempt of m is the last one: it can no longer be retried. *)
Last(m) ==
    /\ Stage(m) \in {"cleanup", "reporting", "settled", "dead"}
    /\ Stage(m) = "cleanup" => task[m].result # "transient"

(* No job_finished event of m can be followed by work on m. *)
Over(m) == Stage(m) \in {"reporting", "settled"} \/ worker # "scheduling"

EventKinds ==
    {"claim", "started", "ended", "evidence", "checkpoint", "job_finished", "finished"}

Endings == {"cancelled", "failed", "completed"}

EventRow ==
    [kind : EventKinds, job : Mailboxes \cup {"batch"},
     value : {"none"} \cup EvidenceKinds \cup ReportStates \cup Endings, attempt : Nat]

(* What a queued event says of the task it is about. *)
EventOK(e) ==
    /\ e.kind # "finished" => e.job \in Mailboxes
    /\ e.kind \in {"evidence", "checkpoint"} =>
          Last(e.job) /\ e.attempt = task[e.job].attempt + 1
    /\ e.kind = "evidence" => e.value \in EvidenceKinds
    /\ e.kind = "job_finished" => Over(e.job) /\ e.attempt = task[e.job].attempt + 1
    /\ e.kind = "finished" => worker = "done" /\ e.value \in Endings

QueueOK ==
    /\ events \in Seq(EventRow)
    /\ \A i \in 1..Len(events) : EventOK(events[i])

(* Pending evidence and checkpoints are of the last attempt. *)
PendingOK ==
    \A m \in Mailboxes :
        /\ pending[m].attempt # 0 => Last(m) /\ pending[m].attempt = task[m].attempt + 1
        /\ checkpoint[m] # 0 => Last(m) /\ checkpoint[m] = task[m].attempt + 1

(* Every attempt that is under way has a living thread. *)
AtWork == {m \in Mailboxes : Stage(m) \in Busy \ {"reporting"}}

ThreadsOK == Cardinality(AtWork) <= pool.alive

BatchInv ==
    /\ TypeOK
    /\ RowsOK
    /\ ProcessesOK
    /\ WorkerOK
    /\ ClaimsOK
    /\ QueueOK
    /\ PendingOK
    /\ ThreadsOK

USE BatchConstants


-----------------------------------------------------------------------------
(* The rows *)

(* The ledger's vocabulary is the controller's. *)
LEMMA Words ==
    /\ L!MailboxStates = MailboxStates /\ L!Phases = Phases
    /\ L!ActiveStatuses = ActiveStatuses /\ L!TerminalStatuses = TerminalStatuses
BY DEF L!MailboxStates, MailboxStates, L!Phases, Phases, L!ActiveStatuses, ActiveStatuses,
   L!TerminalStatuses, TerminalStatuses

(* A row is the parent's or the child's of one mailbox. *)
LEMMA Ids ==
    /\ Parent \in RunIds
    /\ \A m \in Mailboxes : Child(m) \in RunIds /\ Child(m) # Parent
    /\ \A m, n \in Mailboxes : Child(m) = Child(n) => m = n
    /\ \A r \in RunIds : r = Parent \/ \E m \in Mailboxes : r = Child(m)
BY DEF Parent, Child, RunIds

Statuses == ActiveStatuses \cup TerminalStatuses \cup {"absent"}

(* Runs of the next state differ from runs only in the status of r. *)
OnlyStatusOf(r, s) ==
    /\ runs' \in [RunIds -> L!RunRow]
    /\ runs'[r].kind = runs[r].kind /\ runs'[r].project = runs[r].project
    /\ runs'[r].job = runs[r].job /\ runs'[r].parent = runs[r].parent
    /\ runs'[r].status = s
    /\ \A q \in RunIds : q # r => runs'[q] = runs[q]

(* A conditional status UPDATE changes one column of one row. *)
LEMMA StatusUpdate ==
    ASSUME runs \in [RunIds -> L!RunRow], NEW r \in RunIds, NEW s \in Statuses,
           runs' = [runs EXCEPT ![r].status = s]
    PROVE  OnlyStatusOf(r, s)
<1>1. runs[r] \in L!RunRow
  OBVIOUS
<1>2. [runs[r] EXCEPT !.status = s] \in L!RunRow
  BY <1>1, Words DEF L!RunRow, Statuses
<1>3. runs' = [runs EXCEPT ![r] = [runs[r] EXCEPT !.status = s]]
  OBVIOUS
<1>4. runs' \in [RunIds -> L!RunRow]
  BY <1>2, <1>3
<1>5. \A q \in RunIds : q # r => runs'[q] = runs[q]
  BY <1>3
<1>6. runs'[r] = [runs[r] EXCEPT !.status = s]
  BY <1>3
<1>7. /\ runs'[r].kind = runs[r].kind /\ runs'[r].project = runs[r].project
      /\ runs'[r].job = runs[r].job /\ runs'[r].parent = runs[r].parent
      /\ runs'[r].status = s
  BY <1>1, <1>6 DEF L!RunRow
<1> QED BY <1>4, <1>5, <1>7 DEF OnlyStatusOf

(* Transaction on the child of m alone: its new status and mailbox state,   *)
(* and what is left of the processes.                                       *)
Settles(m, status, state) ==
    /\ L!TypeOK'
    /\ OnlyStatusOf(Child(m), status)
    /\ mailbox' = [mailbox EXCEPT ![m] = state]
    /\ processes' \subseteq processes

(* claim_batch_mailbox_for_child: mailbox and child start together, under a *)
(* running parent.                                                          *)
LEMMA ClaimEffect ==
    ASSUME L!TypeOK, RowsOK, NEW m \in Mailboxes, L!ClaimChild(Child(m))
    PROVE  /\ Settles(m, "running", "running")
           /\ processes' = processes
           /\ ChildStatus(m) = "queued" /\ runs[Parent].status = "running"
<1>1. Child(m) \in RunIds /\ runs[Child(m)].job = m /\ runs[Child(m)].parent = Parent
  BY Ids DEF RowsOK
<1>2. OnlyStatusOf(Child(m), "running")
  BY <1>1, StatusUpdate DEF L!ClaimChild, L!TypeOK, Statuses, ActiveStatuses
<1>3. mailbox' = [mailbox EXCEPT ![m] = "running"]
  BY <1>1 DEF L!ClaimChild
<1>4. L!TypeOK'
  BY <1>2, <1>3, Words DEF L!ClaimChild, L!TypeOK, OnlyStatusOf, MailboxStates, L!EvidenceRow
<1> QED BY <1>1, <1>2, <1>3, <1>4 DEF L!ClaimChild, L!MayClaim, Settles, ChildStatus

(* The ending of a child, by whichever of the three transactions.           *)
LEMMA CommitEffect ==
    ASSUME L!TypeOK, RowsOK, ProcessesOK, ctl = "running", NEW m \in Mailboxes, NEW state,
           pending[m].kind \in EvidenceKinds,
           CommitChild(m, state)
    PROVE  /\ \E status \in TerminalStatuses, final \in MailboxStates \ {"running"} :
                 Settles(m, status, final)
           /\ Child(m) \notin processes'
<1>1. Child(m) \in RunIds /\ runs[Child(m)].job = m
  BY Ids DEF RowsOK
<1>2. CASE L!CancelHeldChild(Child(m))
  <2>1. OnlyStatusOf(Child(m), "cancelled")
    BY <1>1, <1>2, StatusUpdate DEF L!CancelHeldChild, L!TypeOK, Statuses, TerminalStatuses
  <2>2. ChildStatus(m) = "queued" /\ mailbox' = mailbox /\ processes' = processes
    BY <1>2 DEF L!CancelHeldChild, ChildStatus
  <2>3. mailbox[m] # "running"
    BY <2>2 DEF RowsOK
  <2>4. L!TypeOK'
    BY <1>2, <2>1 DEF L!CancelHeldChild, L!TypeOK, OnlyStatusOf
  <2>5. mailbox' = [mailbox EXCEPT ![m] = mailbox[m]] /\ mailbox[m] \in MailboxStates
    BY <2>2, Words DEF L!TypeOK
  <2>6. Settles(m, "cancelled", mailbox[m])
    BY <2>1, <2>2, <2>4, <2>5 DEF Settles
  <2>7. Child(m) \notin processes
    BY <2>2, Ids DEF ProcessesOK, ChildStatus
  <2> QED BY <2>2, <2>3, <2>5, <2>6, <2>7 DEF TerminalStatuses
<1>3. ASSUME NEW status, NEW final, L!FinishMailboxRun(Child(m), status, final)
      PROVE  /\ status \in TerminalStatuses /\ final \in MailboxStates \ {"running"}
             /\ Settles(m, status, final) /\ Child(m) \notin processes'
  <2>1. status \in TerminalStatuses /\ final \in MailboxStates \ {"running"}
    BY <1>3 DEF L!FinishMailboxRun, L!MayFinishMailboxRun, L!TerminalPair, TerminalStatuses,
       MailboxStates
  <2>2. OnlyStatusOf(Child(m), status)
    BY <1>1, <1>3, <2>1, StatusUpdate DEF L!FinishMailboxRun, L!TypeOK, Statuses
  <2>3. /\ mailbox' = [mailbox EXCEPT ![m] = final] /\ processes' = processes \ {Child(m)}
        /\ UNCHANGED <<phase, held, evidence, history, accepted>>
    BY <1>1, <1>3 DEF L!FinishMailboxRun
  <2>4. L!TypeOK'
    BY <2>1, <2>2, <2>3, Words DEF L!TypeOK, OnlyStatusOf
  <2> QED BY <2>1, <2>2, <2>3, <2>4 DEF Settles
<1>4. ASSUME NEW matches \in BOOLEAN, NEW final, L!FinishWithEvidence(Child(m), matches, final)
      PROVE  /\ final \in MailboxStates \ {"running"}
             /\ Settles(m, "completed", final) /\ Child(m) \notin processes'
  <2>1. final \in MailboxStates \ {"running"}
    BY <1>4 DEF L!FinishWithEvidence, L!MayFinishWithEvidence, MailboxStates
  <2>2. OnlyStatusOf(Child(m), "completed")
    BY <1>1, <1>4, StatusUpdate DEF L!FinishWithEvidence, L!TypeOK, Statuses, TerminalStatuses
  <2>3. mailbox' = [mailbox EXCEPT ![m] = final] /\ processes' = processes \ {Child(m)}
    BY <1>1, <1>4 DEF L!FinishWithEvidence
  <2> DEFINE row == [run |-> Child(m), exact |-> matches /\ final # "ready"]
  <2>4. row \in L!EvidenceRow
    BY <1>1 DEF L!EvidenceRow
  <2>5. /\ evidence' = [evidence EXCEPT ![m] = row]
        /\ history' = [history EXCEPT ![m] = row]
        /\ UNCHANGED <<phase, held, accepted>>
    BY <1>1, <1>4 DEF L!FinishWithEvidence
  <2> HIDE DEF row
  <2>6. L!TypeOK'
    BY <2>1, <2>2, <2>3, <2>4, <2>5, Words DEF L!TypeOK, OnlyStatusOf
  <2> QED BY <2>1, <2>2, <2>3, <2>6 DEF Settles
<1>5. "completed" \in TerminalStatuses
  BY DEF TerminalStatuses
<1> DEFINE matches == pending[m].kind \in {"exact", "weak"}
<1>6. matches \in BOOLEAN
  OBVIOUS
<1> HIDE DEF matches
<1>7. \/ L!CancelHeldChild(Child(m))
      \/ \E status, final : L!FinishMailboxRun(Child(m), status, final)
      \/ \E final : L!FinishWithEvidence(Child(m), matches, final)
  BY Zenon DEF CommitChild, matches
<1> QED BY <1>2, <1>3, <1>4, <1>5, <1>6, <1>7, Zenon

(* finish_run on the parent: no child is queued or running, and only the    *)
(* parent's status changes.                                                 *)
LEMMA ParentEffect ==
    ASSUME L!TypeOK, RowsOK, ProcessesOK, NEW status \in Endings, L!FinishRun(Parent, status)
    PROVE  /\ L!TypeOK' /\ OnlyStatusOf(Parent, status)
           /\ mailbox' = mailbox /\ processes' = processes
           /\ \A m \in Mailboxes : ChildStatus(m) \in TerminalStatuses
<1>1. OnlyStatusOf(Parent, status)
  BY Ids, StatusUpdate DEF L!FinishRun, L!TypeOK, Statuses, TerminalStatuses, Endings
<1>2. /\ processes' = processes \ {Parent}
      /\ UNCHANGED <<phase, held, mailbox, evidence, history, accepted>>
  BY DEF L!FinishRun
<1>3. Parent \notin processes
  BY Ids DEF ProcessesOK
<1>4. L!TypeOK'
  BY <1>1, <1>2 DEF L!TypeOK, OnlyStatusOf
<1>5. \A m \in Mailboxes : ~L!Absent(Child(m)) /\ Child(m) \in L!ChildrenOf(Parent)
  BY Ids DEF RowsOK, L!ChildrenOf, L!Absent, ChildStatus, ActiveStatuses, TerminalStatuses
<1>6. \A m \in Mailboxes : ChildStatus(m) \notin ActiveStatuses
  BY <1>5, Words DEF L!FinishRun, L!MayFinishRun, L!Active, ChildStatus
<1> QED BY <1>1, <1>2, <1>3, <1>4, <1>6 DEF RowsOK

(* recover_abandoned_jobs_preserving closes every run of the batch.         *)
LEMMA RecoverEffect ==
    ASSUME L!TypeOK, RowsOK, NEW preserved, L!Recover(preserved)
    PROVE  /\ L!TypeOK'
           /\ \A r \in RunIds :
                 /\ runs'[r].kind = runs[r].kind /\ runs'[r].project = runs[r].project
                 /\ runs'[r].job = runs[r].job /\ runs'[r].parent = runs[r].parent
                 /\ runs'[r].status = IF runs[r].status \in ActiveStatuses
                                      THEN "abandoned" ELSE runs[r].status
           /\ \A m \in Mailboxes : mailbox'[m] # "running"
           /\ processes' \subseteq processes
<1> DEFINE restarted == {r \in RunIds : ~L!Absent(r) /\ runs[r].status = "running"}
           unclaimed == {r \in RunIds : /\ ~L!Absent(r) /\ runs[r].status = "queued"
                                        /\ runs[r].parent \in restarted}
           closed(r) == [runs[r] EXCEPT !.status = "abandoned"]
<1>1. \A r \in RunIds : r \in restarted \cup unclaimed <=> runs[r].status \in ActiveStatuses
  <2>1. \A r \in RunIds : r = Parent \/ \E m \in Mailboxes : r = Child(m)
    BY Ids
  <2>2. Parent \in restarted \cup unclaimed <=> runs[Parent].status \in ActiveStatuses
    BY Ids DEF RowsOK, L!Absent, ActiveStatuses, TerminalStatuses
  <2>3. \A m \in Mailboxes :
           Child(m) \in restarted \cup unclaimed <=> runs[Child(m)].status \in ActiveStatuses
    BY Ids DEF RowsOK, L!Absent, ActiveStatuses, TerminalStatuses, ChildStatus
  <2> QED BY <2>1, <2>2, <2>3
<1>2. /\ preserved \subseteq processes /\ processes' = preserved
      /\ mailbox' = [m \in Mailboxes |->
              IF mailbox[m] = "running" THEN "attention" ELSE mailbox[m]]
      /\ runs' = [r \in RunIds |-> IF r \in restarted \cup unclaimed THEN closed(r) ELSE runs[r]]
      /\ UNCHANGED <<phase, held, evidence, history, accepted>>
  BY DEF L!Recover
<1> HIDE DEF restarted, unclaimed
<1>3. \A r \in RunIds : /\ closed(r) \in L!RunRow /\ closed(r).kind = runs[r].kind
                        /\ closed(r).project = runs[r].project /\ closed(r).job = runs[r].job
                        /\ closed(r).parent = runs[r].parent /\ closed(r).status = "abandoned"
  <2> TAKE r \in RunIds
  <2>1. runs[r] \in L!RunRow
    BY DEF L!TypeOK
  <2>2. "abandoned" \in L!TerminalStatuses
    BY DEF L!TerminalStatuses
  <2> QED BY <2>1, <2>2 DEF L!RunRow
<1> HIDE DEF closed
<1>4. \A r \in RunIds :
         runs'[r] = IF runs[r].status \in ActiveStatuses THEN closed(r) ELSE runs[r]
  BY <1>1, <1>2
<1>5. runs' \in [RunIds -> L!RunRow]
  BY <1>2, <1>3 DEF L!TypeOK
<1>6. mailbox' \in [Mailboxes -> L!MailboxStates] /\ \A m \in Mailboxes : mailbox'[m] # "running"
  BY <1>2, Words DEF L!TypeOK, MailboxStates
<1>7. L!TypeOK'
  BY <1>2, <1>5, <1>6 DEF L!TypeOK
<1> QED BY <1>2, <1>3, <1>4, <1>6, <1>7

-----------------------------------------------------------------------------
(* The queue *)

TaskRow == [stage : Stages, attempt : 0..RetryCount, claimed : BOOLEAN, result : Results]

(* No task leaves its last attempt or its ending again. *)
Forward ==
    /\ worker \in {"sweeping", "done"} => worker' \in {"sweeping", "done"}
    /\ worker = "done" => worker' = "done"
    /\ \A m \in Mailboxes :
          /\ Last(m) => Last(m)' /\ task'[m].attempt = task[m].attempt
          /\ Over(m) => Over(m)' /\ task'[m].attempt = task[m].attempt

(* Events are kept, consumed, or added with what they say being true. *)
Queued ==
    /\ events' \in Seq(EventRow)
    /\ \A i \in 1..Len(events') :
          (\E j \in 1..Len(events) : events'[i] = events[j]) \/ EventOK(events[i])'

(* What a queued event says stays true while tasks move forward. *)
LEMMA EventKept ==
    ASSUME Forward, NEW e, EventOK(e)
    PROVE  EventOK(e)'
BY DEF Forward, EventOK

(* An event stays true when the queue changes and the tasks move forward. *)
LEMMA QueueStep ==
    ASSUME QueueOK, Forward, Queued
    PROVE  QueueOK'
<1>1. ASSUME NEW i \in 1..Len(events') PROVE EventOK(events[i])'
  <2>1. CASE EventOK(events[i])'
    BY <2>1
  <2>2. ASSUME NEW j \in 1..Len(events), events'[i] = events[j] PROVE EventOK(events[i])'
    <3>1. PICK e : e = events[j]
      OBVIOUS
    <3>2. EventOK(e)
      BY <3>1 DEF QueueOK
    <3>3. EventOK(e)'
      BY <3>2, EventKept
    <3>4. events'[i] = e
      BY <2>2, <3>1
    <3> QED BY <3>3, <3>4 DEF EventOK
  <2> QED BY <1>1, <2>1, <2>2 DEF Queued
<1> QED BY <1>1 DEF QueueOK, Queued

(* An unchanged queue, a consumed event, one event more. *)
LEMMA QueueKept ==
    ASSUME QueueOK, UNCHANGED events
    PROVE  Queued
BY DEF QueueOK, Queued

(* The consumed event is a row of the queue, and true. *)
LEMMA QueueConsumed ==
    ASSUME QueueOK, events # <<>>, Consume
    PROVE  /\ Queued
           /\ Head(events) \in EventRow /\ EventOK(Head(events))
<1>1. events \in Seq(EventRow) /\ Len(events) > 0
  BY DEF QueueOK
<1>2. Head(events) = events[1] /\ events[1] \in EventRow /\ EventOK(events[1])
  BY <1>1 DEF QueueOK
<1>3. /\ events' \in Seq(EventRow) /\ Len(events') = Len(events) - 1
      /\ \A i \in 1..Len(events') : events'[i] = events[i + 1] /\ i + 1 \in 1..Len(events)
  BY <1>1 DEF Consume
<1> QED BY <1>2, <1>3 DEF Queued

(* A true event is sent. *)
LEMMA QueueSent ==
    ASSUME QueueOK, NEW e \in EventRow, Send(e), EventOK(e)'
    PROVE  Queued
<1>1. events \in Seq(EventRow)
  BY DEF QueueOK
<1>2. /\ events' \in Seq(EventRow) /\ Len(events') = Len(events) + 1
      /\ \A i \in 1..Len(events) : events'[i] = events[i]
      /\ events'[Len(events')] = e
  BY <1>1 DEF Send
<1>3. ASSUME NEW i \in 1..Len(events')
      PROVE  (\E j \in 1..Len(events) : events'[i] = events[j]) \/ EventOK(events[i])'
  <2>1. CASE i \in 1..Len(events)
    BY <1>2, <2>1
  <2>2. CASE i = Len(events')
    BY <1>2, <2>2 DEF EventOK
  <2> QED BY <1>1, <1>2, <1>3, <2>1, <2>2
<1> QED BY <1>2, <1>3 DEF Queued

(* Verification sends evidence behind a checkpoint. *)
LEMMA QueueSentTwo ==
    ASSUME QueueOK, NEW c \in EventRow, NEW e \in EventRow,
           events' = events \o <<c>> \o <<e>>, EventOK(c)', EventOK(e)'
    PROVE  Queued
<1>1. events \in Seq(EventRow)
  BY DEF QueueOK
<1>2. /\ events' \in Seq(EventRow) /\ Len(events') = Len(events) + 2
      /\ \A i \in 1..Len(events) : events'[i] = events[i]
      /\ events'[Len(events) + 1] = c
      /\ events'[Len(events) + 2] = e
  BY <1>1
<1>3. ASSUME NEW i \in 1..Len(events')
      PROVE  (\E j \in 1..Len(events) : events'[i] = events[j]) \/ EventOK(events[i])'
  <2>1. CASE i \in 1..Len(events)
    BY <1>2, <2>1
  <2>2. CASE i = Len(events) + 2
    BY <1>2, <2>2 DEF EventOK
  <2>3. CASE i = Len(events) + 1
    BY <1>2, <2>3 DEF EventOK
  <2> QED BY <1>1, <1>2, <1>3, <2>1, <2>2, <2>3
<1> QED BY <1>2, <1>3 DEF Queued

-----------------------------------------------------------------------------
(* The threads *)

(* A thread may end only with its attempt. *)
LEMMA ThreadsKept ==
    ASSUME ThreadsOK, pool.alive \in Nat, AtWork' \subseteq AtWork, pool'.alive = pool.alive
    PROVE  ThreadsOK'
<1>1. IsFiniteSet(AtWork)
  BY FS_Subset DEF AtWork
<1>2. /\ IsFiniteSet(AtWork') /\ Cardinality(AtWork') <= Cardinality(AtWork)
      /\ Cardinality(AtWork) \in Nat /\ Cardinality(AtWork') \in Nat
  BY <1>1, FS_Subset, FS_CardinalityType
<1> QED BY <1>2 DEF ThreadsOK

(* A task is dispatched to a free thread only. *)
LEMMA ThreadsDispatch ==
    ASSUME NEW m \in Mailboxes, pool.alive \in Nat, AtWork' \subseteq AtWork \cup {m},
           Cardinality({n \in Mailboxes : Stage(n) \in Busy}) < pool.alive,
           pool'.alive = pool.alive
    PROVE  ThreadsOK'
<1> DEFINE B == {n \in Mailboxes : Stage(n) \in Busy}
<1>1. IsFiniteSet(B) /\ AtWork \subseteq B
  BY FS_Subset DEF AtWork
<1>2. /\ IsFiniteSet(AtWork) /\ Cardinality(AtWork) <= Cardinality(B)
      /\ Cardinality(B) \in Nat /\ Cardinality(AtWork) \in Nat
  BY <1>1, FS_Subset, FS_CardinalityType
<1>3. /\ IsFiniteSet(AtWork \cup {m}) /\ Cardinality(AtWork \cup {m}) <= Cardinality(AtWork) + 1
      /\ Cardinality(AtWork \cup {m}) \in Nat
  <2>1. PICK W : W = AtWork
    OBVIOUS
  <2>2. IsFiniteSet(W) /\ Cardinality(W) \in Nat
    BY <1>2, <2>1
  <2>3. IsFiniteSet(W \cup {m}) /\ Cardinality(W \cup {m}) <= Cardinality(W) + 1
    <3>1. /\ IsFiniteSet(W \cup {m})
          /\ Cardinality(W \cup {m}) = IF m \in W THEN Cardinality(W) ELSE Cardinality(W) + 1
      BY <2>2, FS_AddElement, Zenon
    <3> QED BY <2>2, <3>1
  <2>4. Cardinality(W \cup {m}) \in Nat
    BY <2>3, FS_CardinalityType
  <2> QED BY <2>1, <2>3, <2>4
<1>4. Cardinality(AtWork') <= Cardinality(AtWork \cup {m}) /\ Cardinality(AtWork') \in Nat
  BY <1>3, FS_Subset, FS_CardinalityType
<1> QED BY <1>2, <1>3, <1>4 DEF ThreadsOK

(* A panic takes the attempt and its thread, which was alive. *)
LEMMA ThreadsPanic ==
    ASSUME ThreadsOK, pool.alive \in Nat, NEW m \in AtWork, AtWork' = AtWork \ {m},
           pool'.alive = pool.alive - 1
    PROVE  ThreadsOK' /\ pool.alive >= 1
<1>1. IsFiniteSet(AtWork)
  BY FS_Subset DEF AtWork
<1>2. /\ Cardinality(AtWork \ {m}) = Cardinality(AtWork) - 1
      /\ Cardinality(AtWork) \in Nat /\ Cardinality(AtWork \ {m}) \in Nat
  BY <1>1, FS_RemoveElement, FS_CardinalityType
<1> QED BY <1>2 DEF ThreadsOK

-----------------------------------------------------------------------------
(* The steps of one task *)

PoolRow == [live : LiveModes, alive : 0..Concurrency, panicked : BOOLEAN,
            terminal : SUBSET Mailboxes, swept : SUBSET Mailboxes]

(* What every step of the thread that works on m does, and what it leaves   *)
(* alone: no step goes back behind the attempt's last result or its ending, *)
(* and none goes on without the claim.                                      *)
Advance(m) ==
    /\ UNCHANGED <<ledger, pending, checkpoint, ctl>> /\ ctl = "running"
    /\ worker = "scheduling" /\ worker' = "scheduling"
    /\ cancel' \in BOOLEAN /\ failed' \in BOOLEAN /\ pool' \in PoolRow
    /\ task' \in [Mailboxes -> TaskRow] /\ reply' \in [Mailboxes -> Replies]
    /\ \A n \in Mailboxes : n # m => task'[n] = task[n] /\ reply'[n] = reply[n]
    /\ Last(m) => Last(m)' /\ task'[m].attempt = task[m].attempt
    /\ Stage(m) \in {"reporting", "settled"} =>
          /\ Stage(m)' \in {"reporting", "settled"} /\ task'[m].attempt = task[m].attempt
    /\ Stage(m)' \in Engaged => task'[m].claimed
    /\ task'[m].claimed /\ Stage(m)' \notin Gone => ChildStatus(m) = "running"
    /\ Stage(m)' = "claiming" => reply'[m] # "claimed"
    /\ Stage(m)' = "verifying" => task'[m].result \in {"ok", "delta"}
    /\ Queued
    /\ ThreadsOK'

(* Every such step keeps the invariant. *)
LEMMA AdvanceKeeps ==
    ASSUME BatchInv, NEW m \in Mailboxes, Advance(m)
    PROVE  BatchInv'
<1>1. UNCHANGED <<phase, held, mailbox, runs, processes, evidence, history, accepted,
                  pending, checkpoint, ctl>>
  BY DEF Advance, ledger
<1>2. Forward
  <2>1. \A n \in Mailboxes : n # m => (Last(n) => Last(n)') /\ task'[n].attempt = task[n].attempt
    BY DEF Advance, Last, Stage
  <2>2. \A n \in Mailboxes : n # m => (Over(n) => Over(n)')
    BY DEF Advance, Over, Stage
  <2>3. Over(m) => Over(m)' /\ task'[m].attempt = task[m].attempt
    BY DEF Advance, Over
  <2> QED BY <2>1, <2>2, <2>3 DEF Forward, Advance
<1>3. QueueOK'
  BY <1>2, QueueStep DEF BatchInv, Advance
<1>4. TypeOK'
  <2>1. L!TypeOK'
    BY <1>1 DEF BatchInv, TypeOK, L!TypeOK
  <2>2. \A i \in 1..Len(events') : events'[i].kind \in
          {"claim", "started", "ended", "evidence", "checkpoint", "job_finished", "finished"}
    <3>1. \A i \in 1..Len(events') : events'[i] \in EventRow
      BY <1>3 DEF QueueOK
    <3> QED BY <3>1 DEF EventRow, EventKinds
  <2> QED BY <1>1, <2>1, <2>2 DEF BatchInv, TypeOK, Advance, PoolRow, TaskRow
<1>5. RowsOK'
  BY <1>1 DEF BatchInv, RowsOK, ChildStatus
<1>6. ProcessesOK'
  BY <1>1 DEF BatchInv, ProcessesOK, ChildStatus
<1>7. WorkerOK'
  BY <1>1 DEF BatchInv, WorkerOK, Advance
<1>8. ClaimsOK'
  <2>1. \A n \in Mailboxes : ChildStatus(n)' = ChildStatus(n)
    BY <1>1 DEF ChildStatus
  <2>2. ASSUME NEW n \in Mailboxes, n # m
        PROVE  /\ Stage(n)' = Stage(n) /\ task'[n] = task[n] /\ reply'[n] = reply[n]
    BY <2>2 DEF Advance, Stage
  <2> QED BY <2>1, <2>2 DEF BatchInv, ClaimsOK, Advance
<1>9. PendingOK'
  BY <1>1, <1>2 DEF BatchInv, PendingOK, Forward
<1> QED BY <1>3, <1>4, <1>5, <1>6, <1>7, <1>8, <1>9 DEF BatchInv, Advance

(* The task of m becomes a row with the given stage, attempt, claim and     *)
(* result.                                                                  *)
Becomes(m, stage, attempt, claimed, result) ==
    /\ task' \in [Mailboxes -> TaskRow]
    /\ \A n \in Mailboxes : n # m => task'[n] = task[n]
    /\ task'[m].stage = stage /\ task'[m].attempt = attempt
    /\ task'[m].claimed = claimed /\ task'[m].result = result

(* What each update of a task leaves in its row: a new stage; *)
LEMMA MoveBecomes ==
    ASSUME task \in [Mailboxes -> TaskRow], NEW m \in Mailboxes, NEW stage \in Stages,
           Move(m, stage)
    PROVE  Becomes(m, stage, task[m].attempt, task[m].claimed, task[m].result)
<1>1. task[m] \in TaskRow
  OBVIOUS
<1> DEFINE row == [task[m] EXCEPT !.stage = stage]
<1>2. /\ row \in TaskRow /\ row.stage = stage /\ row.attempt = task[m].attempt
      /\ row.claimed = task[m].claimed /\ row.result = task[m].result
  BY <1>1 DEF TaskRow
<1>3. task' = [task EXCEPT ![m] = row]
  BY DEF Move
<1> HIDE DEF row
<1> QED BY <1>2, <1>3 DEF Becomes

(* a stage and a result; *)
LEMMA ResultBecomes ==
    ASSUME task \in [Mailboxes -> TaskRow], NEW m \in Mailboxes, NEW stage \in Stages,
           NEW result \in Results,
           task' = [task EXCEPT ![m] = [@ EXCEPT !.stage = stage, !.result = result]]
    PROVE  Becomes(m, stage, task[m].attempt, task[m].claimed, result)
<1>1. task[m] \in TaskRow
  OBVIOUS
<1> DEFINE row == [task[m] EXCEPT !.stage = stage, !.result = result]
<1>2. /\ row \in TaskRow /\ row.stage = stage /\ row.attempt = task[m].attempt
      /\ row.claimed = task[m].claimed /\ row.result = result
  BY <1>1 DEF TaskRow
<1>3. task' = [task EXCEPT ![m] = row]
  OBVIOUS
<1> HIDE DEF row
<1> QED BY <1>2, <1>3 DEF Becomes

(* a timer, with one retry more, which stays within the budget; *)
LEMMA RetryBecomes ==
    ASSUME task \in [Mailboxes -> TaskRow], NEW m \in Mailboxes, MayRetry(m), RetryLater(m)
    PROVE  Becomes(m, "waiting", task[m].attempt + 1, task[m].claimed, "none")
<1>1. task[m] \in TaskRow
  OBVIOUS
<1> DEFINE row == [task[m] EXCEPT !.stage = "waiting", !.attempt = @ + 1, !.result = "none"]
<1>2. task[m].attempt + 1 \in 0..RetryCount
  BY <1>1 DEF MayRetry, TaskRow
<1>3. /\ row \in TaskRow /\ row.stage = "waiting" /\ row.attempt = task[m].attempt + 1
      /\ row.claimed = task[m].claimed /\ row.result = "none"
  BY <1>1, <1>2 DEF TaskRow, Stages, Results
<1>4. task' = [task EXCEPT ![m] = row]
  BY DEF RetryLater
<1> HIDE DEF row
<1> QED BY <1>3, <1>4 DEF Becomes

(* the claim. *)
LEMMA ClaimBecomes ==
    ASSUME task \in [Mailboxes -> TaskRow], NEW m \in Mailboxes,
           task' = [task EXCEPT ![m] = [@ EXCEPT !.stage = "launching", !.claimed = TRUE]]
    PROVE  /\ task' \in [Mailboxes -> TaskRow]
           /\ \A n \in Mailboxes : n # m => task'[n] = task[n]
           /\ task'[m].stage = "launching" /\ task'[m].attempt = task[m].attempt
           /\ task'[m].claimed
<1>1. task[m] \in TaskRow
  OBVIOUS
<1> DEFINE row == [task[m] EXCEPT !.stage = "launching", !.claimed = TRUE]
<1>2. /\ row \in TaskRow /\ row.stage = "launching" /\ row.attempt = task[m].attempt
      /\ row.claimed
  BY <1>1 DEF TaskRow, Stages
<1>3. task' = [task EXCEPT ![m] = row]
  OBVIOUS
<1> HIDE DEF row
<1> QED BY <1>2, <1>3

-----------------------------------------------------------------------------
(* What every step on m may assume and what it leaves alone. *)
Plain(m) ==
    /\ BatchInv /\ m \in Mailboxes
    /\ UNCHANGED <<ledger, pending, checkpoint, ctl>> /\ ctl = "running"
    /\ worker = "scheduling" /\ worker' = "scheduling"
    /\ cancel' \in BOOLEAN /\ failed' \in BOOLEAN

(* The types those steps start from. *)
LEMMA PlainTypes ==
    ASSUME NEW m \in Mailboxes, Plain(m)
    PROVE  /\ task \in [Mailboxes -> TaskRow] /\ task[m] \in TaskRow
           /\ task[m].attempt \in 0..RetryCount /\ RetryCount \in Nat
           /\ task[m].stage = Stage(m) /\ task[m].claimed \in BOOLEAN
           /\ reply \in [Mailboxes -> Replies] /\ pool \in PoolRow /\ pool.alive \in Nat
<1>1. /\ task \in [Mailboxes -> TaskRow] /\ reply \in [Mailboxes -> Replies]
      /\ pool \in PoolRow
  BY DEF Plain, BatchInv, TypeOK, TaskRow, PoolRow
<1>2. task[m] \in TaskRow
  BY <1>1
<1>3. task[m].attempt \in 0..RetryCount /\ task[m].claimed \in BOOLEAN
  BY <1>2 DEF TaskRow
<1>4. pool.alive \in Nat
  BY <1>1 DEF PoolRow
<1> QED BY <1>1, <1>2, <1>3, <1>4 DEF Stage

(* The attempts at work when only the task of m moves. *)
LEMMA AtWorkMoves ==
    ASSUME NEW m \in Mailboxes, \A n \in Mailboxes : n # m => task'[n] = task[n]
    PROVE  /\ AtWork' \subseteq AtWork \cup {m}
           /\ Stage(m) \in Busy \ {"reporting"} => AtWork' \subseteq AtWork
           /\ Stage(m)' \notin Busy \ {"reporting"} => AtWork' = AtWork \ {m}
BY DEF AtWork, Stage

(* Steps without an event: a task goes on, keeping its attempt. *)
LEMMA GoesOn ==
    ASSUME NEW m \in Mailboxes, Plain(m), NEW stage \in Stages, NEW claimed, NEW result,
           Becomes(m, stage, task[m].attempt, claimed, result),
           UNCHANGED <<events, reply, pool>>,
           ~Last(m), Stage(m) \notin {"reporting", "settled"},
           stage \in Engaged => claimed,
           claimed /\ stage \notin Gone => ChildStatus(m) = "running",
           stage # "claiming", stage # "verifying",
           Stage(m) \in Busy \ {"reporting"} \/ stage \notin Busy \ {"reporting"}
    PROVE  Advance(m)
<1>1. /\ task' \in [Mailboxes -> TaskRow] /\ task'[m].attempt = task[m].attempt
      /\ \A n \in Mailboxes : n # m => task'[n] = task[n]
      /\ Stage(m)' = stage /\ task'[m].claimed = claimed
  BY DEF Becomes, Stage
<1>2. AtWork' \subseteq AtWork
  BY <1>1, AtWorkMoves
<1>3. ThreadsOK'
  BY <1>2, PlainTypes, ThreadsKept DEF Plain, BatchInv
<1>4. Queued
  BY QueueKept DEF Plain, BatchInv
<1>5. reply' \in [Mailboxes -> Replies] /\ pool' \in PoolRow
  BY PlainTypes
<1> QED BY <1>1, <1>3, <1>4, <1>5 DEF Advance, Plain

(* retry_later: only an attempt that sent neither evidence nor checkpoint   *)
(* is retried, and the claim is kept.                                       *)
LEMMA Retries ==
    ASSUME NEW m \in Mailboxes, Plain(m), MayRetry(m), RetryLater(m),
           UNCHANGED <<events, reply, pool>>,
           ~Last(m), Stage(m) \in Busy \ {"reporting"}
    PROVE  Advance(m)
<1>1. Becomes(m, "waiting", task[m].attempt + 1, task[m].claimed, "none")
  BY PlainTypes, RetryBecomes
<1>2. /\ task' \in [Mailboxes -> TaskRow]
      /\ \A n \in Mailboxes : n # m => task'[n] = task[n]
      /\ Stage(m)' = "waiting" /\ task'[m].claimed = task[m].claimed
  BY <1>1 DEF Becomes, Stage
<1>3. AtWork' \subseteq AtWork
  BY <1>2, AtWorkMoves
<1>4. ThreadsOK'
  BY <1>3, PlainTypes, ThreadsKept DEF Plain, BatchInv
<1>5. Queued
  BY QueueKept DEF Plain, BatchInv
<1>6. reply' \in [Mailboxes -> Replies] /\ pool' \in PoolRow
  BY PlainTypes
<1>7. Stage(m) \notin {"reporting", "settled"} /\ Stage(m) \notin Gone
  BY DEF Busy, Gone
<1>8. task[m].claimed => ChildStatus(m) = "running"
  BY <1>7 DEF Plain, BatchInv, ClaimsOK
<1>9. "waiting" \notin Engaged /\ "waiting" # "claiming"
  BY DEF Engaged
<1> QED BY <1>2, <1>4, <1>5, <1>6, <1>7, <1>8, <1>9 DEF Advance, Plain

(* Steps with an event about m that is true of its new task. *)
LEMMA GoesOnAndSends ==
    ASSUME NEW m \in Mailboxes, Plain(m), NEW stage \in Stages, NEW claimed, NEW result,
           Becomes(m, stage, task[m].attempt, claimed, result),
           NEW kind \in EventKinds \ {"finished", "evidence", "checkpoint"},
           NEW value \in {"none"} \cup ReportStates,
           Send(Event(kind, m, value, task[m].attempt + 1)),
           kind = "job_finished" => stage = "reporting",
           UNCHANGED pool, reply' \in [Mailboxes -> Replies],
           \A n \in Mailboxes : n # m => reply'[n] = reply[n],
           ~Last(m) \/ stage = "reporting", Stage(m) \notin {"reporting", "settled"},
           stage \in Engaged => claimed,
           claimed /\ stage \notin Gone => ChildStatus(m) = "running",
           stage = "claiming" => reply'[m] # "claimed",
           stage = "verifying" => result \in {"ok", "delta"},
           Stage(m) \in Busy \ {"reporting"} \/ stage \notin Busy \ {"reporting"}
    PROVE  Advance(m)
<1>1. /\ task' \in [Mailboxes -> TaskRow] /\ task'[m].attempt = task[m].attempt
      /\ \A n \in Mailboxes : n # m => task'[n] = task[n]
      /\ Stage(m)' = stage /\ task'[m].claimed = claimed /\ task'[m].result = result
  BY DEF Becomes, Stage
<1>2. AtWork' \subseteq AtWork
  BY <1>1, AtWorkMoves
<1>3. ThreadsOK'
  BY <1>2, PlainTypes, ThreadsKept DEF Plain, BatchInv
<1>4. PICK e : e = Event(kind, m, value, task[m].attempt + 1)
  OBVIOUS
<1>5. /\ e \in EventRow /\ e.kind = kind /\ e.job = m /\ e.value = value
      /\ e.attempt = task[m].attempt + 1
  BY <1>4, PlainTypes DEF Event, EventRow, EventKinds
<1>6. kind = "job_finished" => Over(m)'
  BY <1>1 DEF Over
<1>7. EventOK(e)'
  BY <1>1, <1>5, <1>6 DEF EventOK, EventKinds
<1>8. Queued
  BY <1>4, <1>5, <1>7, QueueSent DEF Plain, BatchInv
<1>9. pool' \in PoolRow
  BY PlainTypes
<1>10. Last(m) => Last(m)'
  BY <1>1 DEF Last
<1> QED BY <1>1, <1>3, <1>8, <1>9, <1>10 DEF Advance, Plain

(* BatchAttemptRunner::terminal: the ending of any attempt may be reported. *)
LEMMA Reports ==
    ASSUME NEW m \in Mailboxes, Plain(m), NEW state \in ReportStates, Report(m, state),
           UNCHANGED pool, Stage(m) \notin {"reporting", "settled"}
    PROVE  Advance(m)
<1>1. "reporting" \in Stages /\ "job_finished" \in EventKinds \ {"finished", "evidence", "checkpoint"}
  BY DEF Stages, EventKinds
<1>2. Becomes(m, "reporting", task[m].attempt, task[m].claimed, task[m].result)
  BY <1>1, PlainTypes, MoveBecomes DEF Report
<1>3. /\ reply' \in [Mailboxes -> Replies]
      /\ \A n \in Mailboxes : n # m => reply'[n] = reply[n]
  BY PlainTypes DEF Report, Replies
<1>4. "reporting" \notin Engaged /\ "reporting" \in Gone /\ "reporting" # "claiming" /\ "reporting" # "verifying"
      /\ "reporting" \notin Busy \ {"reporting"}
  BY DEF Engaged, Gone
<1>5. Send(Event("job_finished", m, state, task[m].attempt + 1))
  BY DEF Report
<1> DEFINE s == "reporting"  k == "job_finished"
<1>6. s \in Stages /\ k \in EventKinds \ {"finished", "evidence", "checkpoint"}
      /\ Becomes(m, s, task[m].attempt, task[m].claimed, task[m].result)
      /\ Send(Event(k, m, state, task[m].attempt + 1))
      /\ (k = "job_finished" => s = "reporting") /\ s = "reporting"
      /\ s \notin Engaged /\ s \in Gone /\ s # "claiming" /\ s # "verifying" /\ s \notin Busy \ {"reporting"}
  BY <1>1, <1>2, <1>4, <1>5
<1> HIDE DEF s, k
<1> QED BY <1>3, <1>6, GoesOnAndSends

(* A task that a thread holds is the scheduler's: the worker thread has not *)
(* left its loop.                                                           *)
LEMMA BusyScheduling ==
    ASSUME BatchInv, NEW m \in Mailboxes, Stage(m) \in Busy
    PROVE  worker = "scheduling"
BY DEF BatchInv, WorkerOK

(* A loaded task waits; a fresh task has no claim. *)
LEMMA LoadTaskAdvances ==
    ASSUME BatchInv, NEW m \in Mailboxes, LoadTask(m)
    PROVE  Advance(m)
<1>1. Plain(m)
  BY DEF LoadTask, Plain, Running, BatchInv, TypeOK, controller
<1>2. Stage(m) = "unloaded" /\ UNCHANGED <<events, reply, pool>>
  BY DEF LoadTask, controller
<1>3. ~Last(m) /\ Stage(m) \notin {"reporting", "settled"}
  BY <1>2 DEF Last
<1> DEFINE s == "waiting"
<1>4. /\ s \in Stages /\ s \notin Engaged /\ s \notin Busy /\ s # "claiming" /\ s # "verifying"
  BY DEF Stages, Engaged, Busy
<1>5. Becomes(m, s, task[m].attempt, task[m].claimed, task[m].result)
  BY <1>1, <1>4, PlainTypes, MoveBecomes DEF LoadTask
<1> HIDE DEF s
<1>6. task[m].claimed => ChildStatus(m) = "running"
  BY <1>1, <1>2 DEF Plain, BatchInv, ClaimsOK, Gone
<1> QED BY <1>1, <1>2, <1>3, <1>4, <1>5, <1>6, GoesOn

(* A dispatched task has a free thread. *)
LEMMA DispatchAdvances ==
    ASSUME BatchInv, NEW m \in Mailboxes, Dispatch(m)
    PROVE  Advance(m)
<1>1. Plain(m)
  BY DEF Dispatch, Plain, Running, BatchInv, TypeOK, controller
<1>2. Stage(m) = "waiting" /\ UNCHANGED <<events, reply, pool>>
  BY DEF Dispatch, controller
<1>3. Becomes(m, "probing", task[m].attempt, task[m].claimed, task[m].result)
  BY <1>1, PlainTypes, MoveBecomes DEF Dispatch, Stages
<1>4. /\ task' \in [Mailboxes -> TaskRow] /\ task'[m].attempt = task[m].attempt
      /\ \A n \in Mailboxes : n # m => task'[n] = task[n]
      /\ Stage(m)' = "probing" /\ task'[m].claimed = task[m].claimed
  BY <1>3 DEF Becomes, Stage
<1>5. ThreadsOK'
  BY <1>1, <1>2, <1>4, PlainTypes, AtWorkMoves, ThreadsDispatch DEF Dispatch
<1>6. Queued
  BY <1>2, QueueKept DEF BatchInv
<1>7. task[m].claimed => ChildStatus(m) = "running"
  BY <1>1, <1>2 DEF Plain, BatchInv, ClaimsOK, Gone
<1>8. reply' \in [Mailboxes -> Replies] /\ pool' \in PoolRow
  BY <1>1, <1>2, PlainTypes
<1>9. ~Last(m)
  BY <1>2 DEF Last
<1> QED BY <1>1, <1>2, <1>4, <1>5, <1>6, <1>7, <1>8, <1>9 DEF Advance, Plain, Engaged

(* A cancelled task that waits is reported, and never worked on again. *)
LEMMA CancelWaitingAdvances ==
    ASSUME BatchInv, NEW m \in Mailboxes, CancelWaiting(m)
    PROVE  Advance(m)
<1>1. Plain(m)
  BY DEF CancelWaiting, Plain, Running, BatchInv, TypeOK
<1>2. "cancelled" \in ReportStates
  BY DEF ReportStates
<1> QED BY <1>1, <1>2, Reports DEF CancelWaiting

(* The checks before the claim end in a report, a retry, a claim or a launch. *)
LEMMA ProbeAdvances ==
    ASSUME BatchInv, NEW m \in Mailboxes, Probe(m)
    PROVE  Advance(m)
<1>1. Stage(m) = "probing" /\ UNCHANGED pool
  BY DEF Probe
<1>2. /\ Stage(m) \in Busy \ {"reporting"} /\ Stage(m) \notin {"reporting", "settled"}
      /\ ~Last(m) /\ Stage(m) \notin Gone
  BY <1>1 DEF Busy, Last, Gone
<1>3. failed' \in BOOLEAN
  BY DEF Probe, BatchInv, TypeOK
<1>4. Plain(m)
  BY <1>2, <1>3, BusyScheduling DEF Probe, Plain, Running, BatchInv, TypeOK
<1>5. task[m].claimed => ChildStatus(m) = "running"
  BY <1>2, <1>4 DEF Plain, BatchInv, ClaimsOK
<1>6. ASSUME NEW state \in ReportStates, Report(m, state) PROVE Advance(m)
  BY <1>1, <1>2, <1>4, <1>6, Reports
<1>7. CASE MayRetry(m) /\ RetryLater(m) /\ UNCHANGED <<failed, events, reply>>
  BY <1>1, <1>2, <1>4, <1>7, Retries
<1>8. CASE /\ ~task[m].claimed
           /\ Move(m, "claiming")
           /\ Send(Event("claim", m, "none", task[m].attempt + 1))
           /\ reply' = [reply EXCEPT ![m] = "none"]
  <2> DEFINE s == "claiming"  k == "claim"  v == "none"
  <2>1. /\ s \in Stages /\ s \notin Engaged /\ s # "reporting" /\ s # "verifying"
        /\ k \in EventKinds \ {"finished", "evidence", "checkpoint"} /\ k # "job_finished"
        /\ v \in {"none"} \cup ReportStates
    BY DEF Stages, Engaged, EventKinds
  <2>2. Becomes(m, s, task[m].attempt, task[m].claimed, task[m].result)
    BY <1>4, <1>8, <2>1, PlainTypes, MoveBecomes
  <2>3. Send(Event(k, m, v, task[m].attempt + 1))
    BY <1>8
  <2>4. /\ reply' \in [Mailboxes -> Replies] /\ reply'[m] # "claimed"
        /\ \A n \in Mailboxes : n # m => reply'[n] = reply[n]
    BY <1>4, <1>8, PlainTypes DEF Replies
  <2> HIDE DEF s, k, v
  <2>5. task[m].claimed /\ s \notin Gone => ChildStatus(m) = "running"
    BY <1>8
  <2> QED BY <1>1, <1>2, <1>4, <2>1, <2>2, <2>3, <2>4, <2>5, GoesOnAndSends
<1>9. CASE task[m].claimed /\ Move(m, "launching") /\ UNCHANGED <<failed, events, reply>>
  <2> DEFINE s == "launching"
  <2>1. s \in Stages /\ s # "claiming" /\ s # "verifying"
    BY DEF Stages
  <2>2. Becomes(m, s, task[m].attempt, task[m].claimed, task[m].result)
    BY <1>4, <1>9, <2>1, PlainTypes, MoveBecomes
  <2> HIDE DEF s
  <2> QED BY <1>1, <1>2, <1>4, <1>5, <1>9, <2>1, <2>2, GoesOn
<1>10. "cancelled" \in ReportStates /\ "failed" \in ReportStates
  BY DEF ReportStates
<1> QED BY <1>6, <1>7, <1>8, <1>9, <1>10 DEF Probe

(* The worker goes on only with a claim the controller has committed. *)
LEMMA AwaitClaimAdvances ==
    ASSUME BatchInv, NEW m \in Mailboxes, AwaitClaim(m)
    PROVE  Advance(m)
<1>1. Stage(m) = "claiming" /\ UNCHANGED pool
  BY DEF AwaitClaim
<1>2. /\ Stage(m) \in Busy \ {"reporting"} /\ Stage(m) \notin {"reporting", "settled"}
      /\ ~Last(m) /\ Stage(m) \notin Gone
  BY <1>1 DEF Busy, Last, Gone
<1>3. failed' \in BOOLEAN
  BY DEF AwaitClaim, BatchInv, TypeOK
<1>4. Plain(m)
  BY <1>2, <1>3, BusyScheduling DEF AwaitClaim, Plain, Running, BatchInv, TypeOK
<1>5. ASSUME NEW state \in ReportStates, Report(m, state) PROVE Advance(m)
  BY <1>1, <1>2, <1>4, <1>5, Reports
<1>6. CASE /\ reply[m] = "claimed"
           /\ task' = [task EXCEPT ![m] = [@ EXCEPT !.stage = "launching", !.claimed = TRUE]]
           /\ UNCHANGED <<failed, events, reply>>
  <2>1. /\ task' \in [Mailboxes -> TaskRow]
        /\ \A n \in Mailboxes : n # m => task'[n] = task[n]
        /\ task'[m].stage = "launching" /\ task'[m].attempt = task[m].attempt
        /\ task'[m].claimed
    BY <1>4, <1>6, PlainTypes, ClaimBecomes
  <2>2. Stage(m)' = "launching" /\ ChildStatus(m) = "running"
    BY <1>1, <1>6, <2>1 DEF Stage, BatchInv, ClaimsOK
  <2>3. ThreadsOK'
    BY <1>1, <1>2, <1>4, <2>1, PlainTypes, AtWorkMoves, ThreadsKept DEF BatchInv
  <2>4. Queued
    BY <1>6, QueueKept DEF BatchInv
  <2>5. reply' \in [Mailboxes -> Replies] /\ pool' \in PoolRow
    BY <1>1, <1>4, <1>6, PlainTypes
  <2> QED BY <1>2, <1>4, <1>6, <2>1, <2>2, <2>3, <2>4, <2>5 DEF Advance, Plain
<1>7. "cancelled" \in ReportStates /\ "failed" \in ReportStates /\ "held" \in ReportStates
  BY DEF ReportStates
<1> QED BY <1>5, <1>6, <1>7 DEF AwaitClaim

(* An engine's thread reports it started or ended and goes on. *)
LEMMA EngineReports ==
    ASSUME NEW m \in Mailboxes, Plain(m), NEW stage \in Engaged, NEW result,
           Stage(m) \in Engaged \ {"cleanup"},
           Becomes(m, stage, task[m].attempt, task[m].claimed, result),
           NEW kind \in {"started", "ended"},
           Send(Event(kind, m, "none", task[m].attempt + 1)),
           UNCHANGED pool, reply' \in [Mailboxes -> Replies],
           \A n \in Mailboxes : n # m => reply'[n] = reply[n],
           stage = "verifying" => result \in {"ok", "delta"}
    PROVE  Advance(m)
<1>1. /\ Stage(m) \in Busy \ {"reporting"} /\ Stage(m) \notin Gone /\ ~Last(m)
  BY DEF Engaged, Busy, Gone, Last
<1>2. task[m].claimed /\ ChildStatus(m) = "running"
  BY <1>1 DEF Plain, BatchInv, ClaimsOK
<1>3. /\ task' \in [Mailboxes -> TaskRow] /\ task'[m].attempt = task[m].attempt
      /\ \A n \in Mailboxes : n # m => task'[n] = task[n]
      /\ Stage(m)' = stage /\ task'[m].claimed /\ task'[m].result = result
  BY <1>2 DEF Becomes, Stage
<1>4. AtWork' \subseteq AtWork
  BY <1>1, <1>3, AtWorkMoves
<1>5. ThreadsOK'
  BY <1>4, PlainTypes, ThreadsKept DEF Plain, BatchInv
<1>6. PICK e : e = Event(kind, m, "none", task[m].attempt + 1)
  OBVIOUS
<1>7. e \in EventRow /\ e.kind \in {"started", "ended"} /\ e.job = m
  BY <1>6, PlainTypes DEF Event, EventRow, EventKinds
<1>8. EventOK(e)'
  BY <1>7 DEF EventOK
<1>9. Queued
  BY <1>6, <1>7, <1>8, QueueSent DEF Plain, BatchInv
<1>10. pool' \in PoolRow /\ stage # "claiming" /\ Stage(m) \notin {"reporting", "settled"}
  BY <1>1, PlainTypes DEF Engaged, Gone
<1> QED BY <1>1, <1>2, <1>3, <1>5, <1>9, <1>10 DEF Advance, Plain

(* A plan or checkpoint that does not validate ends the attempt; otherwise  *)
(* the engine starts.                                                       *)
LEMMA LaunchAdvances ==
    ASSUME BatchInv, NEW m \in Mailboxes, Launch(m)
    PROVE  Advance(m)
<1>1. Stage(m) = "launching" /\ UNCHANGED pool
  BY DEF Launch
<1>2. /\ Stage(m) \in Busy \ {"reporting"} /\ Stage(m) \notin {"reporting", "settled"}
      /\ ~Last(m) /\ Stage(m) \notin Gone /\ Stage(m) \in Engaged
  BY <1>1 DEF Busy, Last, Gone, Engaged
<1>3. Plain(m)
  BY <1>2, BusyScheduling DEF Launch, Plain, Running, BatchInv, TypeOK
<1>4. task[m].claimed /\ ChildStatus(m) = "running"
  BY <1>2, <1>3 DEF Plain, BatchInv, ClaimsOK
<1>5. ASSUME NEW result \in {"cancelled", "transient", "permanent"},
             task' = [task EXCEPT ![m] = [@ EXCEPT !.stage = "cleanup", !.result = result]],
             UNCHANGED <<events, reply>>
      PROVE  Advance(m)
  <2> DEFINE s == "cleanup"
  <2>1. s \in Stages /\ s # "claiming" /\ s # "verifying" /\ result \in Results
    BY DEF Stages, Results
  <2>2. Becomes(m, s, task[m].attempt, task[m].claimed, result)
    BY <1>3, <1>5, <2>1, PlainTypes, ResultBecomes
  <2> HIDE DEF s
  <2> QED BY <1>1, <1>2, <1>3, <1>4, <1>5, <2>1, <2>2, GoesOn
<1>6. CASE /\ Move(m, "starting")
           /\ Send(Event("started", m, "none", task[m].attempt + 1))
           /\ reply' = [reply EXCEPT ![m] = "none"]
  <2> DEFINE s == "starting"  k == "started"
  <2>1. s \in Stages /\ s \in Engaged /\ k \in {"started", "ended"} /\ s # "verifying"
        /\ Stage(m) \in Engaged \ {"cleanup"}
    BY <1>1, <1>2 DEF Stages, Engaged
  <2>2. Becomes(m, s, task[m].attempt, task[m].claimed, task[m].result)
    BY <1>3, <1>6, <2>1, PlainTypes, MoveBecomes
  <2>3. Send(Event(k, m, "none", task[m].attempt + 1))
    BY <1>6
  <2>4. /\ reply' \in [Mailboxes -> Replies]
        /\ \A n \in Mailboxes : n # m => reply'[n] = reply[n]
    BY <1>3, <1>6, PlainTypes DEF Replies
  <2> HIDE DEF s, k
  <2> QED BY <1>1, <1>3, <2>1, <2>2, <2>3, <2>4, EngineReports
<1> QED BY <1>5, <1>6 DEF Launch

(* A registered engine transfers, any other one is reported ended. *)
LEMMA AwaitRegistrationAdvances ==
    ASSUME BatchInv, NEW m \in Mailboxes, AwaitRegistration(m)
    PROVE  Advance(m)
<1>1. Stage(m) = "starting" /\ UNCHANGED pool /\ UNCHANGED reply
  BY DEF AwaitRegistration
<1>2. /\ Stage(m) \in Busy \ {"reporting"} /\ Stage(m) \notin {"reporting", "settled"}
      /\ ~Last(m) /\ Stage(m) \notin Gone /\ Stage(m) \in Engaged
  BY <1>1 DEF Busy, Last, Gone, Engaged
<1>3. cancel' \in BOOLEAN
  BY DEF AwaitRegistration, BatchInv, TypeOK
<1>4. Plain(m)
  BY <1>2, <1>3, BusyScheduling DEF AwaitRegistration, Plain, Running, BatchInv, TypeOK
<1>5. task[m].claimed /\ ChildStatus(m) = "running"
  BY <1>2, <1>4 DEF Plain, BatchInv, ClaimsOK
<1>6. CASE Move(m, "transferring") /\ UNCHANGED <<cancel, events>>
  <2> DEFINE s == "transferring"
  <2>1. s \in Stages /\ s # "claiming" /\ s # "verifying"
    BY DEF Stages
  <2>2. Becomes(m, s, task[m].attempt, task[m].claimed, task[m].result)
    BY <1>4, <1>6, <2>1, PlainTypes, MoveBecomes
  <2> HIDE DEF s
  <2> QED BY <1>1, <1>2, <1>4, <1>5, <1>6, <2>1, <2>2, GoesOn
<1>7. ASSUME NEW result \in {"cancelled", "transient", "permanent"},
             task' = [task EXCEPT ![m] = [@ EXCEPT !.stage = "cleanup", !.result = result]],
             Send(Event("ended", m, "none", task[m].attempt + 1))
      PROVE  Advance(m)
  <2> DEFINE s == "cleanup"  k == "ended"
  <2>1. s \in Stages /\ s \in Engaged /\ k \in {"started", "ended"} /\ s # "verifying"
        /\ result \in Results /\ Stage(m) \in Engaged \ {"cleanup"}
    BY <1>1, <1>2 DEF Stages, Engaged, Results
  <2>2. Becomes(m, s, task[m].attempt, task[m].claimed, result)
    BY <1>4, <1>7, <2>1, PlainTypes, ResultBecomes
  <2>3. Send(Event(k, m, "none", task[m].attempt + 1))
    BY <1>7
  <2>4. /\ reply' \in [Mailboxes -> Replies]
        /\ \A n \in Mailboxes : n # m => reply'[n] = reply[n]
    BY <1>1, <1>4, PlainTypes
  <2> HIDE DEF s, k
  <2> QED BY <1>1, <1>4, <2>1, <2>2, <2>3, <2>4, EngineReports
<1> QED BY <1>6, <1>7 DEF AwaitRegistration

(* Only a successful transfer is verified. *)
LEMMA TransferEndsAdvances ==
    ASSUME BatchInv, NEW m \in Mailboxes, TransferEnds(m)
    PROVE  Advance(m)
<1>1. Stage(m) = "transferring" /\ UNCHANGED pool /\ UNCHANGED reply
  BY DEF TransferEnds
<1>2. /\ Stage(m) \in Busy \ {"reporting"} /\ Stage(m) \notin {"reporting", "settled"}
      /\ ~Last(m) /\ Stage(m) \notin Gone /\ Stage(m) \in Engaged
  BY <1>1 DEF Busy, Last, Gone, Engaged
<1>3. Plain(m)
  BY <1>2, BusyScheduling DEF TransferEnds, Plain, Running, BatchInv, TypeOK
<1>4. task[m].claimed /\ ChildStatus(m) = "running"
  BY <1>2, <1>3 DEF Plain, BatchInv, ClaimsOK
<1>5. PICK result \in {"ok", "delta", "transient", "permanent", "cancelled"} :
          task' = [task EXCEPT ![m] =
                [@ EXCEPT !.stage = IF Live /\ result \in {"ok", "delta"}
                                    THEN "verifying" ELSE "cleanup",
                          !.result = result]]
  BY DEF TransferEnds
<1> DEFINE s == IF Live /\ result \in {"ok", "delta"} THEN "verifying" ELSE "cleanup"
           k == "ended"
<1>6. /\ s \in Stages /\ s \in Engaged /\ k \in {"started", "ended"}
      /\ result \in Results /\ Stage(m) \in Engaged \ {"cleanup"}
      /\ (s = "verifying" => result \in {"ok", "delta"})
  BY <1>1, <1>2 DEF Stages, Engaged, Results
<1>7. task' = [task EXCEPT ![m] = [@ EXCEPT !.stage = s, !.result = result]]
  BY <1>5
<1>8. Send(Event(k, m, "none", task[m].attempt + 1))
  BY DEF TransferEnds
<1>9. /\ reply' \in [Mailboxes -> Replies]
      /\ \A n \in Mailboxes : n # m => reply'[n] = reply[n]
  BY <1>1, <1>3, PlainTypes
<1> HIDE DEF s, k
<1>10. Becomes(m, s, task[m].attempt, task[m].claimed, result)
  BY <1>3, <1>6, <1>7, PlainTypes, ResultBecomes
<1> QED BY <1>1, <1>3, <1>6, <1>8, <1>9, <1>10, EngineReports

(* After its release an attempt that produced evidence or a checkpoint has  *)
(* a result that is never retried.                                          *)
LEMMA VerifyAdvances ==
    ASSUME BatchInv, NEW m \in Mailboxes, Verify(m)
    PROVE  Advance(m)
<1>1. Stage(m) = "verifying" /\ UNCHANGED <<pool, reply>>
  BY DEF Verify
<1>2. /\ Stage(m) \in Busy \ {"reporting"} /\ Stage(m) \notin {"reporting", "settled"}
      /\ ~Last(m) /\ Stage(m) \notin Gone /\ Stage(m) \in Engaged
  BY <1>1 DEF Busy, Last, Gone, Engaged
<1>3. Plain(m)
  BY <1>2, BusyScheduling DEF Verify, Plain, Running, BatchInv, TypeOK
<1>4. task[m].claimed /\ ChildStatus(m) = "running"
  BY <1>2, <1>3 DEF Plain, BatchInv, ClaimsOK
<1>5. ASSUME NEW result \in Results,
             Becomes(m, "cleanup", task[m].attempt, task[m].claimed, result), Queued
      PROVE  Advance(m)
  <2>1. /\ task' \in [Mailboxes -> TaskRow] /\ task'[m].attempt = task[m].attempt
        /\ \A n \in Mailboxes : n # m => task'[n] = task[n]
        /\ Stage(m)' = "cleanup" /\ task'[m].claimed = task[m].claimed
    BY <1>5 DEF Becomes, Stage
  <2>2. ThreadsOK'
    BY <1>1, <1>2, <1>3, <2>1, AtWorkMoves, PlainTypes, ThreadsKept DEF BatchInv
  <2>3. reply' \in [Mailboxes -> Replies] /\ pool' \in PoolRow
    BY <1>1, <1>3, PlainTypes
  <2> QED BY <1>1, <1>2, <1>3, <1>4, <1>5, <2>1, <2>2, <2>3 DEF Advance, Plain
<1> DEFINE n == task[m].attempt + 1
           cp == Event("checkpoint", m, "none", n)
           ev(kind) == Event("evidence", m, kind, n)
<1>6. PICK c : c = cp
  OBVIOUS
<1>7. /\ c \in EventRow /\ c.kind = "checkpoint" /\ c.job = m /\ c.attempt = n
  BY <1>3, <1>6, PlainTypes DEF Event, EventRow, EventKinds
<1>8. ASSUME NEW result, Becomes(m, "cleanup", task[m].attempt, task[m].claimed, result),
             result # "transient"
      PROVE  Last(m)' /\ EventOK(c)'
  <2>1. Last(m)' /\ task'[m].attempt + 1 = n
    BY <1>8 DEF Becomes, Last, Stage
  <2> QED BY <1>7, <2>1 DEF EventOK
<1>9. Move(m, "cleanup") => Becomes(m, "cleanup", task[m].attempt, task[m].claimed, task[m].result)
  BY <1>3, PlainTypes, MoveBecomes DEF Stages
<1>10. task[m].result \in Results /\ task[m].result # "transient"
  BY <1>1 DEF Results, BatchInv, ClaimsOK
<1>11. ASSUME NEW kind \in EvidenceKinds \ {"none"}, Move(m, "cleanup"),
              \/ events' = events \o <<>> \o <<ev(kind)>>
              \/ events' = events \o <<cp>> \o <<ev(kind)>>
       PROVE  Advance(m)
  <2>1. PICK e : e = ev(kind)
    OBVIOUS
  <2>2. /\ e \in EventRow /\ e.kind = "evidence" /\ e.job = m /\ e.attempt = n
        /\ e.value \in EvidenceKinds
    BY <1>3, <2>1, PlainTypes DEF Event, EventRow, EventKinds
  <2>3. Last(m)' /\ EventOK(c)' /\ task'[m].attempt + 1 = n
    BY <1>8, <1>9, <1>10, <1>11 DEF Becomes
  <2>4. EventOK(e)'
    BY <2>2, <2>3 DEF EventOK
  <2>5. CASE events' = events \o <<>> \o <<ev(kind)>>
    <3>1. Send(e)
      BY <2>1, <2>5 DEF Send, BatchInv, QueueOK
    <3>2. Queued
      BY <2>2, <2>4, <3>1, QueueSent DEF BatchInv
    <3> QED BY <1>5, <1>9, <1>10, <1>11, <3>2
  <2>6. CASE events' = events \o <<cp>> \o <<ev(kind)>>
    <3>1. events' = events \o <<c>> \o <<e>>
      BY <1>6, <2>1, <2>6
    <3>2. Queued
      BY <1>7, <2>2, <2>3, <2>4, <3>1, QueueSentTwo DEF BatchInv
    <3> QED BY <1>5, <1>9, <1>10, <1>11, <3>2
  <2> QED BY <1>11, <2>5, <2>6
<1>12. CASE Move(m, "cleanup") /\ UNCHANGED events
  <2>1. Queued
    BY <1>12, QueueKept DEF BatchInv
  <2> QED BY <1>5, <1>9, <1>10, <1>12, <2>1
<1>13. ASSUME NEW result \in {"transient", "permanent", "cancelled"},
              task' = [task EXCEPT ![m] = [@ EXCEPT !.stage = "cleanup", !.result = result]],
              \/ events' = events \o <<>>
              \/ events' = events \o <<cp>> /\ result = "permanent"
       PROVE  Advance(m)
  <2> DEFINE s == "cleanup"
  <2>1. result \in Results /\ s \in Stages
    BY DEF Results, Stages
  <2>2. Becomes(m, s, task[m].attempt, task[m].claimed, result)
    BY <1>3, <1>13, <2>1, PlainTypes, ResultBecomes
  <2>3. CASE events' = events \o <<>>
    <3>1. UNCHANGED events
      BY <2>3 DEF BatchInv, QueueOK
    <3>2. Queued
      BY <3>1, QueueKept DEF BatchInv
    <3> QED BY <1>5, <2>1, <2>2, <3>2
  <2>4. CASE events' = events \o <<cp>> /\ result = "permanent"
    <3>1. Send(c)
      BY <1>6, <2>4 DEF Send, BatchInv, QueueOK
    <3>2. EventOK(c)'
      BY <1>8, <2>2, <2>4
    <3>3. Queued
      BY <1>7, <3>1, <3>2, QueueSent DEF BatchInv
    <3> QED BY <1>5, <2>1, <2>2, <3>3
  <2> QED BY <1>13, <2>3, <2>4
<1>14. <<cp>> # <<>>
  OBVIOUS
<1>15. \/ \E kind \in EvidenceKinds \ {"none"} :
             /\ Move(m, "cleanup")
             /\ \/ events' = events \o <<>> \o <<ev(kind)>>
                \/ events' = events \o <<cp>> \o <<ev(kind)>>
       \/ Move(m, "cleanup") /\ UNCHANGED events
       \/ \E result \in {"transient", "permanent", "cancelled"} :
             /\ task' = [task EXCEPT ![m] = [@ EXCEPT !.stage = "cleanup", !.result = result]]
             /\ \/ events' = events \o <<>>
                \/ events' = events \o <<cp>> /\ result = "permanent"
  BY <1>14 DEF Verify
<1> HIDE DEF n, cp, ev
<1> QED BY <1>11, <1>12, <1>13, <1>15

(* An attempt that sent evidence or a checkpoint is not retried. *)
LEMMA EndAttemptAdvances ==
    ASSUME BatchInv, NEW m \in Mailboxes, EndAttempt(m)
    PROVE  Advance(m)
<1>1. Stage(m) = "cleanup" /\ UNCHANGED pool
  BY DEF EndAttempt
<1>2. /\ Stage(m) \in Busy \ {"reporting"} /\ Stage(m) \notin {"reporting", "settled"}
  BY <1>1 DEF Busy
<1>3. failed' \in BOOLEAN
  BY DEF EndAttempt, BatchInv, TypeOK
<1>4. Plain(m)
  BY <1>2, <1>3, BusyScheduling DEF EndAttempt, Plain, Running, BatchInv, TypeOK
<1>5. ASSUME NEW state \in ReportStates, Report(m, state) PROVE Advance(m)
  BY <1>1, <1>2, <1>4, <1>5, Reports
<1>6. ASSUME NEW removed \in BOOLEAN, CleanupResult(m, removed) = "transient",
             MayRetry(m), RetryLater(m), UNCHANGED <<failed, events, reply>>
      PROVE  Advance(m)
  <2>1. task[m].result = "transient"
    BY <1>6 DEF CleanupResult
  <2>2. ~Last(m)
    BY <1>1, <2>1 DEF Last
  <2> QED BY <1>1, <1>2, <1>4, <1>6, <2>2, Retries
<1>7. /\ "cancelled" \in ReportStates /\ "failed" \in ReportStates /\ "completed" \in ReportStates
      /\ "ready" \in ReportStates /\ "delta_required" \in ReportStates
  BY DEF ReportStates
<1> QED BY <1>5, <1>6, <1>7 DEF EndAttempt

(* A reported task settles, acknowledged or not. *)
LEMMA SettleAdvances ==
    ASSUME BatchInv, NEW m \in Mailboxes, Settle(m)
    PROVE  Advance(m)
<1>1. Stage(m) = "reporting" /\ UNCHANGED <<reply, events>>
  BY DEF Settle, controller
<1>2. Stage(m) \in Busy
  BY <1>1 DEF Busy
<1>3. Plain(m)
  BY <1>2, BusyScheduling DEF Settle, Plain, Running, BatchInv, TypeOK, controller
<1>4. Becomes(m, "settled", task[m].attempt, task[m].claimed, task[m].result)
  BY <1>3, PlainTypes, MoveBecomes DEF Settle, Stages
<1>5. /\ task' \in [Mailboxes -> TaskRow] /\ task'[m].attempt = task[m].attempt
      /\ \A n \in Mailboxes : n # m => task'[n] = task[n]
      /\ Stage(m)' = "settled"
  BY <1>4 DEF Becomes, Stage
<1>6. pool' \in PoolRow /\ pool'.alive = pool.alive
  <2>1. pool \in PoolRow
    BY <1>3, PlainTypes
  <2>2. CASE UNCHANGED pool
    BY <2>1, <2>2
  <2>3. CASE pool' = [pool EXCEPT !.terminal = @ \cup {m}]
    BY <2>1, <2>3 DEF PoolRow
  <2> QED BY <2>2, <2>3 DEF Settle
<1>7. AtWork' \subseteq AtWork
  BY <1>5, AtWorkMoves DEF Busy
<1>8. ThreadsOK'
  BY <1>3, <1>6, <1>7, PlainTypes, ThreadsKept DEF BatchInv
<1>9. Queued
  BY <1>1, QueueKept DEF BatchInv
<1>10. reply' \in [Mailboxes -> Replies] /\ Last(m)'
  BY <1>1, <1>3, <1>5, PlainTypes DEF Last
<1> QED BY <1>1, <1>3, <1>5, <1>6, <1>8, <1>9, <1>10 DEF Advance, Plain, Engaged, Gone

(* A panic ends the attempt and one living thread. *)
LEMMA WorkerPanicsAdvances ==
    ASSUME BatchInv, NEW m \in Mailboxes, WorkerPanics(m)
    PROVE  Advance(m)
<1>1. Stage(m) \in Busy \ {"reporting"} /\ UNCHANGED reply
  BY DEF WorkerPanics
<1>2. Stage(m) \notin {"reporting", "settled"}
  BY <1>1 DEF Busy
<1>3. Plain(m)
  BY <1>1, BusyScheduling DEF WorkerPanics, Plain, Running, BatchInv, TypeOK
<1>4. Becomes(m, "dead", task[m].attempt, task[m].claimed, task[m].result)
  BY <1>3, PlainTypes, MoveBecomes DEF WorkerPanics, Stages
<1>5. /\ task' \in [Mailboxes -> TaskRow] /\ task'[m].attempt = task[m].attempt
      /\ \A n \in Mailboxes : n # m => task'[n] = task[n]
      /\ Stage(m)' = "dead"
  BY <1>4 DEF Becomes, Stage
<1>6. pool \in PoolRow /\ pool' = [pool EXCEPT !.alive = @ - 1, !.panicked = TRUE]
  BY <1>3, PlainTypes DEF WorkerPanics
<1>7. m \in AtWork /\ AtWork' = AtWork \ {m}
  BY <1>1, <1>5, AtWorkMoves DEF AtWork, Busy
<1>8. pool'.alive = pool.alive - 1 /\ pool.alive \in 0..Concurrency
  BY <1>6 DEF PoolRow
<1>9. ThreadsOK' /\ pool.alive >= 1
  BY <1>7, <1>8, ThreadsPanic DEF BatchInv
<1>10. pool' \in PoolRow
  <2>1. PICK a : a = pool.alive - 1
    OBVIOUS
  <2>2. a \in 0..Concurrency
    BY <1>8, <1>9, <2>1
  <2>3. pool' = [pool EXCEPT !.alive = a, !.panicked = TRUE]
    BY <1>6, <2>1
  <2> QED BY <1>6, <2>2, <2>3 DEF PoolRow
<1>11. Queued
  <2>1. CASE UNCHANGED events
    BY <2>1, QueueKept DEF BatchInv
  <2>2. CASE Send(Event("ended", m, "none", task[m].attempt + 1))
    <3>1. PICK e : e = Event("ended", m, "none", task[m].attempt + 1)
      OBVIOUS
    <3>2. e \in EventRow /\ e.kind = "ended" /\ e.job = m
      BY <1>3, <3>1, PlainTypes DEF Event, EventRow, EventKinds
    <3>3. EventOK(e)'
      BY <3>2 DEF EventOK
    <3> QED BY <2>2, <3>1, <3>2, <3>3, QueueSent DEF BatchInv
  <2> QED BY <2>1, <2>2 DEF WorkerPanics
<1>12. reply' \in [Mailboxes -> Replies] /\ Last(m)'
  BY <1>1, <1>3, <1>5, PlainTypes DEF Last
<1> QED BY <1>1, <1>2, <1>3, <1>5, <1>9, <1>10, <1>11, <1>12 DEF Advance, Plain, Engaged, Gone

-----------------------------------------------------------------------------
(* Steps of the scheduler's thread that concern every task *)

(* What the ledger's invariants need when the ledger does not change. *)
LEMMA LedgerKept ==
    ASSUME BatchInv, UNCHANGED <<ledger, ctl>>
    PROVE  L!TypeOK' /\ RowsOK' /\ ProcessesOK' /\ \A m \in Mailboxes : ChildStatus(m)' = ChildStatus(m)
<1>1. UNCHANGED <<phase, held, mailbox, runs, processes, evidence, history, accepted, ctl>>
  BY DEF ledger
<1>2. L!TypeOK'
  BY <1>1 DEF BatchInv, TypeOK, L!TypeOK
<1>3. RowsOK'
  BY <1>1 DEF BatchInv, RowsOK, ChildStatus
<1>4. ProcessesOK'
  BY <1>1 DEF BatchInv, ProcessesOK, ChildStatus
<1> QED BY <1>1, <1>2, <1>3, <1>4 DEF ChildStatus

(* Types of the next state, part by part. *)
LEMMA TypesNext ==
    ASSUME L!TypeOK', task' \in [Mailboxes -> TaskRow], reply' \in [Mailboxes -> Replies],
           cancel' \in BOOLEAN, failed' \in BOOLEAN, pool' \in PoolRow,
           worker' \in {"scheduling", "sweeping", "done"}, QueueOK',
           pending' \in [Mailboxes -> [kind : EvidenceKinds, attempt : 0..RetryCount + 1]],
           checkpoint' \in [Mailboxes -> 0..RetryCount + 1],
           ctl' \in {"running", "advancing", "idle", "crashed"}
    PROVE  TypeOK'
<1>1. \A i \in 1..Len(events') : events'[i] \in EventRow
  BY DEF QueueOK
<1>2. \A i \in 1..Len(events') : events'[i].kind \in
        {"claim", "started", "ended", "evidence", "checkpoint", "job_finished", "finished"}
  BY <1>1 DEF EventRow, EventKinds
<1> QED BY <1>2 DEF TypeOK, TaskRow, PoolRow

(* The types of the current state, by name. *)
LEMMA Types ==
    ASSUME BatchInv
    PROVE  /\ L!TypeOK /\ task \in [Mailboxes -> TaskRow] /\ reply \in [Mailboxes -> Replies]
           /\ cancel \in BOOLEAN /\ failed \in BOOLEAN /\ pool \in PoolRow
           /\ worker \in {"scheduling", "sweeping", "done"}
           /\ pending \in [Mailboxes -> [kind : EvidenceKinds, attempt : 0..RetryCount + 1]]
           /\ checkpoint \in [Mailboxes -> 0..RetryCount + 1]
           /\ ctl \in {"running", "advancing", "idle", "crashed"}
           /\ pool.alive \in Nat
<1>1. pool \in PoolRow
  BY DEF BatchInv, TypeOK, PoolRow
<1>2. pool.alive \in Nat
  BY <1>1 DEF PoolRow
<1> QED BY <1>1, <1>2 DEF BatchInv, TypeOK, TaskRow

(* A page that cannot be loaded drops tasks no thread has seen. *)
LEMMA LoaderFailsKeeps ==
    ASSUME BatchInv, LoaderFails
    PROVE  BatchInv'
<1> DEFINE dropped(m) == [task[m] EXCEPT !.stage = "dropped"]
<1>1. /\ ctl = "running" /\ worker = "scheduling" /\ failed' = TRUE
      /\ UNCHANGED <<ledger, cancel, pool, worker, reply, events, pending, checkpoint, ctl>>
      /\ task' = [m \in Mailboxes |-> IF Stage(m) = "unloaded" THEN dropped(m) ELSE task[m]]
  BY DEF LoaderFails, Running, controller
<1>2. \A m \in Mailboxes :
         /\ dropped(m) \in TaskRow /\ dropped(m).stage = "dropped"
         /\ dropped(m).attempt = task[m].attempt
         /\ dropped(m).claimed = task[m].claimed /\ dropped(m).result = task[m].result
  <2> TAKE m \in Mailboxes
  <2>1. task[m] \in TaskRow
    BY Types
  <2> QED BY <2>1 DEF TaskRow, Stages
<1> HIDE DEF dropped
<1>3. /\ task' \in [Mailboxes -> TaskRow]
      /\ \A m \in Mailboxes : task'[m] = task[m] \/ (Stage(m) = "unloaded" /\ Stage(m)' = "dropped")
  BY <1>1, <1>2, Types DEF Stage
<1>4. Forward
  BY <1>1, <1>3 DEF Forward, Last, Over, Stage
<1>5. Queued
  BY <1>1, QueueKept DEF BatchInv
<1>6. QueueOK'
  BY <1>4, <1>5, QueueStep DEF BatchInv
<1>7. L!TypeOK' /\ RowsOK' /\ ProcessesOK' /\ \A m \in Mailboxes : ChildStatus(m)' = ChildStatus(m)
  BY <1>1, LedgerKept
<1>8. TypeOK'
  BY <1>1, <1>3, <1>6, <1>7, Types, TypesNext
<1>9. WorkerOK'
  BY <1>1 DEF BatchInv, WorkerOK
<1>10. ClaimsOK'
  BY <1>1, <1>3, <1>7 DEF BatchInv, ClaimsOK, Stage, Engaged, Gone
<1>11. PendingOK'
  BY <1>1, <1>4 DEF BatchInv, PendingOK, Forward
<1>12. AtWork' \subseteq AtWork
  BY <1>3 DEF AtWork, Stage, Busy
<1>13. ThreadsOK'
  BY <1>1, <1>12, Types, ThreadsKept DEF BatchInv
<1> QED BY <1>6, <1>7, <1>8, <1>9, <1>10, <1>11, <1>13 DEF BatchInv

(* Steps that leave every task alone while the worker thread goes on. *)
LEMMA TasksKept ==
    ASSUME BatchInv, UNCHANGED task,
           worker \in {"sweeping", "done"} => worker' \in {"sweeping", "done"},
           worker = "done" => worker' = "done"
    PROVE  /\ Forward /\ AtWork' = AtWork
           /\ \A m \in Mailboxes : Stage(m)' = Stage(m) /\ (Last(m) => Last(m)')
<1>1. \A m \in Mailboxes : Stage(m)' = Stage(m)
  BY DEF Stage
<1>2. \A m \in Mailboxes : Last(m) => Last(m)'
  BY <1>1 DEF Last
<1>3. \A m \in Mailboxes : Over(m) => Over(m)'
  BY <1>1, Types DEF Over
<1>4. AtWork' = AtWork
  BY <1>1 DEF AtWork
<1> QED BY <1>1, <1>2, <1>3, <1>4 DEF Forward

(* The scheduler ends when no thread holds a task. *)
LEMMA ScheduleEndsKeeps ==
    ASSUME BatchInv, ScheduleEnds
    PROVE  BatchInv'
<1>1. /\ ctl = "running" /\ worker = "scheduling" /\ worker' = "sweeping"
      /\ \A m \in Mailboxes : Stage(m) \notin Busy
      /\ UNCHANGED <<ledger, task, cancel, failed, pool, reply, events, pending, checkpoint, ctl>>
  BY DEF ScheduleEnds, Running, controller
<1>2. /\ Forward /\ AtWork' = AtWork
      /\ \A m \in Mailboxes : Stage(m)' = Stage(m) /\ (Last(m) => Last(m)')
  BY <1>1, TasksKept
<1>3. QueueOK'
  BY <1>1, <1>2, QueueKept, QueueStep DEF BatchInv
<1>4. L!TypeOK' /\ RowsOK' /\ ProcessesOK' /\ \A m \in Mailboxes : ChildStatus(m)' = ChildStatus(m)
  BY <1>1, LedgerKept
<1>5. TypeOK'
  BY <1>1, <1>3, <1>4, Types, TypesNext
<1>6. WorkerOK'
  BY <1>1, <1>2 DEF BatchInv, WorkerOK
<1>7. ClaimsOK'
  BY <1>1, <1>2, <1>4 DEF BatchInv, ClaimsOK
<1>8. PendingOK'
  BY <1>1, <1>2 DEF BatchInv, PendingOK
<1>9. ThreadsOK'
  BY <1>1, <1>2, Types, ThreadsKept DEF BatchInv
<1> QED BY <1>3, <1>4, <1>5, <1>6, <1>7, <1>8, <1>9 DEF BatchInv

(* The sweep and the final event: nothing is scheduled any more. *)
LEMMA SweepUnresolvedKeeps ==
    ASSUME BatchInv, NEW m \in Mailboxes, SweepUnresolved(m)
    PROVE  BatchInv'
<1>1. /\ ctl = "running" /\ worker = "sweeping" /\ worker' = worker
      /\ UNCHANGED <<ledger, task, cancel, failed, reply, pending, checkpoint, ctl>>
      /\ pool' = [pool EXCEPT !.swept = @ \cup {m}]
      /\ Send(Event("job_finished", m, "attention", task[m].attempt + 1))
  BY DEF SweepUnresolved, Running
<1>2. /\ Forward /\ AtWork' = AtWork
      /\ \A n \in Mailboxes : Stage(n)' = Stage(n) /\ (Last(n) => Last(n)')
  BY <1>1, TasksKept
<1>3. Queued
  <2>1. PICK e : e = Event("job_finished", m, "attention", task[m].attempt + 1)
    OBVIOUS
  <2>2. task[m] \in TaskRow /\ task[m].attempt \in Nat
    BY Types DEF TaskRow
  <2>3. /\ e \in EventRow /\ e.kind = "job_finished" /\ e.job = m
        /\ e.attempt = task[m].attempt + 1
    BY <2>1, <2>2 DEF Event, EventRow, EventKinds, ReportStates
  <2>4. EventOK(e)'
    BY <1>1, <2>3 DEF EventOK, Over
  <2> QED BY <1>1, <2>1, <2>3, <2>4, QueueSent DEF BatchInv
<1>4. QueueOK'
  BY <1>2, <1>3, QueueStep DEF BatchInv
<1>5. L!TypeOK' /\ RowsOK' /\ ProcessesOK' /\ \A n \in Mailboxes : ChildStatus(n)' = ChildStatus(n)
  BY <1>1, LedgerKept
<1>6. pool' \in PoolRow /\ pool'.alive = pool.alive
  BY <1>1, Types DEF PoolRow
<1>7. TypeOK'
  BY <1>1, <1>4, <1>5, <1>6, Types, TypesNext
<1>8. WorkerOK'
  BY <1>1, <1>2 DEF BatchInv, WorkerOK, ledger
<1>9. ClaimsOK'
  BY <1>1, <1>2, <1>5 DEF BatchInv, ClaimsOK
<1>10. PendingOK'
  BY <1>1, <1>2 DEF BatchInv, PendingOK
<1>11. ThreadsOK'
  BY <1>2, <1>6, Types, ThreadsKept DEF BatchInv
<1> QED BY <1>4, <1>5, <1>7, <1>8, <1>9, <1>10, <1>11 DEF BatchInv

(* The final event is sent by a thread that is done. *)
LEMMA SendFinishedKeeps ==
    ASSUME BatchInv, SendFinished
    PROVE  BatchInv'
<1> DEFINE ending == IF cancel THEN "cancelled" ELSE IF failed THEN "failed" ELSE "completed"
<1>1. /\ ctl = "running" /\ worker = "sweeping" /\ worker' = "done"
      /\ UNCHANGED <<ledger, task, cancel, failed, pool, reply, pending, checkpoint, ctl>>
      /\ Send(Event("finished", "batch", ending, 0))
  BY DEF SendFinished, Running
<1>2. /\ Forward /\ AtWork' = AtWork
      /\ \A n \in Mailboxes : Stage(n)' = Stage(n) /\ (Last(n) => Last(n)')
  BY <1>1, TasksKept
<1>3. Queued
  <2>1. ending \in Endings
    BY DEF Endings
  <2> HIDE DEF ending
  <2>2. PICK e : e = Event("finished", "batch", ending, 0)
    OBVIOUS
  <2>3. e \in EventRow /\ e.kind = "finished" /\ e.value \in Endings
    BY <2>1, <2>2 DEF Event, EventRow, EventKinds
  <2>4. EventOK(e)'
    BY <1>1, <2>3 DEF EventOK
  <2> QED BY <1>1, <2>2, <2>3, <2>4, QueueSent DEF BatchInv
<1>4. QueueOK'
  BY <1>2, <1>3, QueueStep DEF BatchInv
<1>5. L!TypeOK' /\ RowsOK' /\ ProcessesOK' /\ \A n \in Mailboxes : ChildStatus(n)' = ChildStatus(n)
  BY <1>1, LedgerKept
<1>6. TypeOK'
  BY <1>1, <1>4, <1>5, Types, TypesNext
<1>7. WorkerOK'
  BY <1>1, <1>2 DEF BatchInv, WorkerOK, ledger
<1>8. ClaimsOK'
  BY <1>1, <1>2, <1>5 DEF BatchInv, ClaimsOK
<1>9. PendingOK'
  BY <1>1, <1>2 DEF BatchInv, PendingOK
<1>10. ThreadsOK'
  BY <1>1, <1>2, Types, ThreadsKept DEF BatchInv
<1> QED BY <1>4, <1>5, <1>6, <1>7, <1>8, <1>9, <1>10 DEF BatchInv

-----------------------------------------------------------------------------
(* The controller's steps *)

(* What a poll knows: it leaves the threads alone, and the head of the      *)
(* queue is true.                                                           *)
Polled ==
    /\ BatchInv /\ ctl = "running" /\ ctl' \in {"running", "advancing"}
    /\ UNCHANGED <<task, failed, pool, worker>> /\ cancel' \in BOOLEAN
    /\ events # <<>> /\ Consume

(* What every poll keeps, and what it may use of the event it takes. *)
LEMMA PolledKeeps ==
    ASSUME Polled
    PROVE  /\ Forward /\ AtWork' = AtWork /\ QueueOK' /\ ThreadsOK'
           /\ \A m \in Mailboxes : Stage(m)' = Stage(m) /\ (Last(m) => Last(m)')
           /\ Head(events) \in EventRow /\ EventOK(Head(events))
<1>1. /\ Forward /\ AtWork' = AtWork
      /\ \A m \in Mailboxes : Stage(m)' = Stage(m) /\ (Last(m) => Last(m)')
  BY TasksKept DEF Polled
<1>2. Queued /\ Head(events) \in EventRow /\ EventOK(Head(events))
  BY QueueConsumed DEF Polled, BatchInv
<1>3. QueueOK'
  BY <1>1, <1>2, QueueStep DEF Polled, BatchInv
<1>4. ThreadsOK'
  BY <1>1, Types, ThreadsKept DEF Polled, BatchInv
<1> QED BY <1>1, <1>2, <1>3, <1>4

(* Evidence and checkpoints arrive from an attempt that is the last one. *)
LEMMA ReduceEvidenceKeeps ==
    ASSUME BatchInv, ReduceEvidence
    PROVE  BatchInv'
<1>1. PICK e : e = Head(events)
  OBVIOUS
<1>2. /\ Polled /\ e.kind = "evidence"
      /\ UNCHANGED <<ledger, reply, checkpoint, ctl, task, worker, cancel, failed, pool>>
      /\ pending' = [pending EXCEPT ![e.job] = [kind |-> e.value, attempt |-> e.attempt]]
  BY <1>1, Types DEF ReduceEvidence, Polls, Polled, workers
<1>3. /\ e \in EventRow /\ EventOK(e)
      /\ \A m \in Mailboxes : Stage(m)' = Stage(m) /\ (Last(m) => Last(m)')
      /\ QueueOK' /\ ThreadsOK'
  BY <1>1, <1>2, PolledKeeps
<1>4. /\ e.job \in Mailboxes /\ Last(e.job) /\ e.attempt = task[e.job].attempt + 1
      /\ e.value \in EvidenceKinds
  BY <1>2, <1>3 DEF EventOK
<1>5. e.attempt \in 0..RetryCount + 1
  <2>1. task[e.job] \in TaskRow
    BY <1>4, Types
  <2>2. task[e.job].attempt \in 0..RetryCount
    BY <2>1 DEF TaskRow
  <2> QED BY <1>4, <2>2
<1>6. /\ pending' \in [Mailboxes -> [kind : EvidenceKinds, attempt : 0..RetryCount + 1]]
      /\ pending'[e.job].attempt = e.attempt
      /\ \A m \in Mailboxes : m # e.job => pending'[m] = pending[m]
  BY <1>2, <1>4, <1>5, Types
<1>7. L!TypeOK' /\ RowsOK' /\ ProcessesOK' /\ \A m \in Mailboxes : ChildStatus(m)' = ChildStatus(m)
  BY <1>2, LedgerKept
<1>8. TypeOK'
  BY <1>2, <1>3, <1>6, <1>7, Types, TypesNext
<1>9. WorkerOK'
  BY <1>2, <1>3 DEF BatchInv, WorkerOK, ledger
<1>10. ClaimsOK'
  BY <1>2, <1>3, <1>7 DEF BatchInv, ClaimsOK
<1>11. PendingOK'
  BY <1>2, <1>3, <1>4, <1>6 DEF BatchInv, PendingOK
<1> QED BY <1>3, <1>7, <1>8, <1>9, <1>10, <1>11 DEF BatchInv

(* Likewise for a checkpoint. *)
LEMMA ReduceCheckpointKeeps ==
    ASSUME BatchInv, ReduceCheckpoint
    PROVE  BatchInv'
<1>1. PICK e : e = Head(events)
  OBVIOUS
<1>2. /\ Polled /\ e.kind = "checkpoint"
      /\ UNCHANGED <<ledger, reply, pending, ctl, task, worker, cancel, failed, pool>>
      /\ checkpoint' = [checkpoint EXCEPT ![e.job] = e.attempt]
  BY <1>1, Types DEF ReduceCheckpoint, Polls, Polled, workers
<1>3. /\ e \in EventRow /\ EventOK(e)
      /\ \A m \in Mailboxes : Stage(m)' = Stage(m) /\ (Last(m) => Last(m)')
      /\ QueueOK' /\ ThreadsOK'
  BY <1>1, <1>2, PolledKeeps
<1>4. e.job \in Mailboxes /\ Last(e.job) /\ e.attempt = task[e.job].attempt + 1
  BY <1>2, <1>3 DEF EventOK
<1>5. e.attempt \in 0..RetryCount + 1
  <2>1. task[e.job] \in TaskRow
    BY <1>4, Types
  <2>2. task[e.job].attempt \in 0..RetryCount
    BY <2>1 DEF TaskRow
  <2> QED BY <1>4, <2>2
<1>6. /\ checkpoint' \in [Mailboxes -> 0..RetryCount + 1]
      /\ checkpoint'[e.job] = e.attempt
      /\ \A m \in Mailboxes : m # e.job => checkpoint'[m] = checkpoint[m]
  BY <1>2, <1>4, <1>5, Types
<1>7. L!TypeOK' /\ RowsOK' /\ ProcessesOK' /\ \A m \in Mailboxes : ChildStatus(m)' = ChildStatus(m)
  BY <1>2, LedgerKept
<1>8. TypeOK'
  BY <1>2, <1>3, <1>6, <1>7, Types, TypesNext
<1>9. WorkerOK'
  BY <1>2, <1>3 DEF BatchInv, WorkerOK, ledger
<1>10. ClaimsOK'
  BY <1>2, <1>3, <1>7 DEF BatchInv, ClaimsOK
<1>11. PendingOK'
  BY <1>2, <1>3, <1>4, <1>6 DEF BatchInv, PendingOK
<1> QED BY <1>3, <1>7, <1>8, <1>9, <1>10, <1>11 DEF BatchInv

(* A claim starts the mailbox and its child together; a refused one changes *)
(* the answer only.                                                         *)
LEMMA ReduceClaimKeeps ==
    ASSUME BatchInv, ReduceClaim
    PROVE  BatchInv'
<1>1. PICK e : e = Head(events)
  OBVIOUS
<1> DEFINE m == e.job
<1>2. /\ Polled /\ e.kind = "claim"
      /\ UNCHANGED <<pending, checkpoint, ctl, task, worker, cancel, failed, pool>>
      /\ \/ L!ClaimChild(Child(m)) /\ Answer(m, "claimed")
         \/ \E v \in {"held", "refused"} : Answer(m, v) /\ UNCHANGED ledger
  <2>1. /\ Polled /\ e.kind = "claim"
        /\ UNCHANGED <<pending, checkpoint, ctl, task, worker, cancel, failed, pool>>
    BY <1>1, Types DEF ReduceClaim, Polls, Polled, workers
  <2>2. \/ L!ClaimChild(Child(m)) /\ Answer(m, "claimed")
        \/ /\ Answer(m, IF HoldRefuses(Child(m)) THEN "held" ELSE "refused")
           /\ UNCHANGED ledger
    BY <1>1 DEF ReduceClaim
  <2> QED BY <2>1, <2>2
<1>3. /\ EventOK(e) /\ QueueOK' /\ ThreadsOK'
      /\ \A n \in Mailboxes : Stage(n)' = Stage(n) /\ (Last(n) => Last(n)')
  BY <1>1, <1>2, PolledKeeps
<1>4. m \in Mailboxes
  BY <1>2, <1>3 DEF EventOK
<1> HIDE DEF m
<1>5. PendingOK'
  BY <1>2, <1>3 DEF BatchInv, PendingOK
<1>6. CASE L!ClaimChild(Child(m)) /\ Answer(m, "claimed")
  <2>1. /\ Settles(m, "running", "running") /\ processes' = processes
        /\ ChildStatus(m) = "queued" /\ runs[Parent].status = "running"
    BY <1>4, <1>6, Types, ClaimEffect DEF BatchInv
  <2>2. /\ reply' \in [Mailboxes -> Replies] /\ reply'[m] = "claimed"
        /\ \A n \in Mailboxes : n # m => reply'[n] = reply[n]
    BY <1>4, <1>6, Types DEF Answer, Replies
  <2>3. /\ runs'[Parent] = runs[Parent] /\ ChildStatus(m)' = "running"
        /\ mailbox'[m] = "running"
        /\ \A n \in Mailboxes : n # m => /\ runs'[Child(n)] = runs[Child(n)]
                                         /\ ChildStatus(n)' = ChildStatus(n)
                                         /\ mailbox'[n] = mailbox[n]
    BY <1>4, <2>1, Types, Ids DEF Settles, OnlyStatusOf, ChildStatus, L!TypeOK
  <2>4. RowsOK'
    <3>1. /\ runs'[Child(m)].kind = "child" /\ runs'[Child(m)].job = m
          /\ runs'[Child(m)].parent = Parent /\ runs'[Child(m)].project = Project
      BY <1>4, <2>1 DEF Settles, OnlyStatusOf, BatchInv, RowsOK
    <3> QED BY <1>4, <2>1, <2>3, <3>1 DEF BatchInv, RowsOK, ActiveStatuses
  <2>5. ProcessesOK'
    BY <1>2, <1>4, <2>1, <2>3, Ids DEF BatchInv, ProcessesOK, Polled
  <2>6. TypeOK'
    BY <1>2, <1>3, <2>1, <2>2, Types, TypesNext DEF Settles
  <2>7. WorkerOK'
    BY <1>2, <1>3, <2>3 DEF BatchInv, WorkerOK, Polled
  <2>8. ClaimsOK'
    BY <1>2, <1>3, <2>2, <2>3 DEF BatchInv, ClaimsOK
  <2> QED BY <1>3, <1>5, <2>4, <2>5, <2>6, <2>7, <2>8 DEF BatchInv
<1>7. ASSUME NEW v \in {"held", "refused"}, Answer(m, v), UNCHANGED ledger PROVE BatchInv'
  <2>1. /\ reply' \in [Mailboxes -> Replies] /\ reply'[m] # "claimed"
        /\ \A n \in Mailboxes : n # m => reply'[n] = reply[n]
    BY <1>4, <1>7, Types DEF Answer, Replies
  <2>2. /\ L!TypeOK' /\ RowsOK' /\ ProcessesOK'
        /\ \A n \in Mailboxes : ChildStatus(n)' = ChildStatus(n)
    BY <1>2, <1>7, LedgerKept
  <2>3. TypeOK'
    BY <1>2, <1>3, <2>1, <2>2, Types, TypesNext
  <2>4. WorkerOK'
    BY <1>2, <1>3, <1>7 DEF BatchInv, WorkerOK, ledger
  <2>5. ClaimsOK'
    BY <1>2, <1>3, <2>1, <2>2 DEF BatchInv, ClaimsOK
  <2> QED BY <1>3, <1>5, <2>2, <2>3, <2>4, <2>5 DEF BatchInv
<1> QED BY <1>2, <1>6, <1>7

(* A process is registered for a running child only. *)
LEMMA ReduceStartedKeeps ==
    ASSUME BatchInv, ReduceStarted
    PROVE  BatchInv'
<1>1. PICK e : e = Head(events)
  OBVIOUS
<1> DEFINE m == e.job
<1>2. /\ events # <<>> /\ ctl = "running" /\ e.kind = "started" /\ Consume
      /\ UNCHANGED <<pending, ctl, task, worker, failed, pool>>
      /\ \/ /\ L!RegisterProcess(Child(m))
            /\ checkpoint' = [checkpoint EXCEPT ![m] = 0]
            /\ Answer(m, "registered")
            /\ UNCHANGED cancel
         \/ /\ Answer(m, "unregistered")
            /\ cancel' = TRUE
            /\ UNCHANGED <<ledger, checkpoint>>
  BY <1>1 DEF ReduceStarted, Polls
<1>3. cancel' \in BOOLEAN
  BY <1>2, Types
<1>4. Polled
  BY <1>2, <1>3 DEF Polled
<1>5. /\ EventOK(e) /\ QueueOK' /\ ThreadsOK'
      /\ \A n \in Mailboxes : Stage(n)' = Stage(n) /\ (Last(n) => Last(n)')
  BY <1>1, <1>4, PolledKeeps
<1>6. m \in Mailboxes
  BY <1>2, <1>5 DEF EventOK
<1> HIDE DEF m
<1>7. PICK v \in {"registered", "unregistered"} : Answer(m, v)
  BY <1>2
<1>8. /\ reply' \in [Mailboxes -> Replies] /\ reply'[m] # "claimed"
      /\ \A n \in Mailboxes : n # m => reply'[n] = reply[n]
  BY <1>6, <1>7, Types DEF Answer, Replies
<1>9. /\ checkpoint' \in [Mailboxes -> 0..RetryCount + 1]
      /\ \A n \in Mailboxes : checkpoint'[n] \in {0, checkpoint[n]}
  <2>1. CASE checkpoint' = [checkpoint EXCEPT ![m] = 0]
    BY <1>6, <2>1, Types
  <2>2. CASE UNCHANGED checkpoint
    BY <2>2, Types
  <2> QED BY <1>2, <2>1, <2>2
<1>10. PendingOK'
  BY <1>2, <1>5, <1>9 DEF BatchInv, PendingOK
<1>11. /\ L!TypeOK' /\ UNCHANGED <<runs, mailbox>> /\ processes' \subseteq processes \cup {Child(m)}
       /\ Child(m) \in processes' /\ Child(m) \notin processes => ChildStatus(m) = "running"
  <2>1. CASE UNCHANGED ledger
    BY <1>2, <2>1, LedgerKept DEF ledger
  <2>2. CASE L!RegisterProcess(Child(m))
    BY <1>6, <2>2, Ids, Types DEF L!RegisterProcess, L!TypeOK, ChildStatus
  <2> QED BY <1>2, <2>1, <2>2
<1>12. RowsOK' /\ \A n \in Mailboxes : ChildStatus(n)' = ChildStatus(n)
  BY <1>11 DEF BatchInv, RowsOK, ChildStatus
<1>13. ProcessesOK'
  BY <1>2, <1>6, <1>11, <1>12 DEF BatchInv, ProcessesOK
<1>14. TypeOK'
  BY <1>2, <1>3, <1>5, <1>8, <1>9, <1>11, Types, TypesNext
<1>15. WorkerOK'
  BY <1>2, <1>5, <1>11 DEF BatchInv, WorkerOK
<1>16. ClaimsOK'
  BY <1>2, <1>5, <1>8, <1>12 DEF BatchInv, ClaimsOK
<1> QED BY <1>5, <1>10, <1>12, <1>13, <1>14, <1>15, <1>16 DEF BatchInv

(* An ended process is taken off the record. *)
LEMMA ReduceEndedKeeps ==
    ASSUME BatchInv, ReduceEnded
    PROVE  BatchInv'
<1>1. /\ Polled
      /\ UNCHANGED <<reply, pending, checkpoint, ctl, task, worker, cancel, failed, pool>>
  BY Types DEF ReduceEnded, Polls, Polled, workers
<1>2. /\ QueueOK' /\ ThreadsOK'
      /\ \A n \in Mailboxes : Stage(n)' = Stage(n) /\ (Last(n) => Last(n)')
  BY <1>1, PolledKeeps
<1>3. PICK r : L!ClearProcesses(r) \/ UNCHANGED ledger
  BY DEF ReduceEnded
<1>4. L!TypeOK' /\ UNCHANGED <<runs, mailbox>> /\ processes' \subseteq processes
  BY <1>3, Types DEF L!ClearProcesses, L!TypeOK, ledger
<1>5. RowsOK' /\ \A n \in Mailboxes : ChildStatus(n)' = ChildStatus(n)
  BY <1>4 DEF BatchInv, RowsOK, ChildStatus
<1>6. ProcessesOK'
  BY <1>1, <1>4, <1>5 DEF BatchInv, ProcessesOK
<1>7. TypeOK'
  BY <1>1, <1>2, <1>4, Types, TypesNext
<1>8. WorkerOK'
  BY <1>1, <1>2, <1>4 DEF BatchInv, WorkerOK
<1>9. ClaimsOK'
  BY <1>1, <1>2, <1>5 DEF BatchInv, ClaimsOK
<1>10. PendingOK'
  BY <1>1, <1>2 DEF BatchInv, PendingOK
<1> QED BY <1>2, <1>5, <1>6, <1>7, <1>8, <1>9, <1>10 DEF BatchInv

(* The ending of a child is committed only when nothing will work on its    *)
(* mailbox any more.                                                        *)
LEMMA ReduceJobFinishedKeeps ==
    ASSUME BatchInv, ReduceJobFinished
    PROVE  BatchInv'
<1>1. PICK e : e = Head(events)
  OBVIOUS
<1> DEFINE m == e.job
<1>2. /\ Polled /\ e.kind = "job_finished"
      /\ UNCHANGED <<ctl, task, worker, cancel, failed, pool>>
      /\ CommitChild(m, e.value) /\ Answer(m, "done")
      /\ pending' = [pending EXCEPT ![m] = NoPending]
      /\ checkpoint' = [checkpoint EXCEPT ![m] = 0]
  BY <1>1, Types DEF ReduceJobFinished, Polls, Polled, workers
<1>3. /\ EventOK(e) /\ QueueOK' /\ ThreadsOK'
      /\ \A n \in Mailboxes : Stage(n)' = Stage(n) /\ (Last(n) => Last(n)')
  BY <1>1, <1>2, PolledKeeps
<1>4. m \in Mailboxes /\ Over(m)
  BY <1>2, <1>3 DEF EventOK
<1> HIDE DEF m
<1>5. pending[m].kind \in EvidenceKinds
  BY <1>4, Types
<1>6. /\ \E status \in TerminalStatuses, final \in MailboxStates \ {"running"} :
            Settles(m, status, final)
      /\ Child(m) \notin processes'
  BY <1>2, <1>4, <1>5, Types, CommitEffect DEF BatchInv, Polled
<1>7. PICK status \in TerminalStatuses, final \in MailboxStates \ {"running"} :
         Settles(m, status, final)
  BY <1>6
<1>8. /\ reply' \in [Mailboxes -> Replies] /\ reply'[m] # "claimed"
      /\ \A n \in Mailboxes : n # m => reply'[n] = reply[n]
  BY <1>2, <1>4, Types DEF Answer, Replies
<1>9. /\ runs'[Parent] = runs[Parent] /\ ChildStatus(m)' = status /\ mailbox'[m] = final
      /\ \A n \in Mailboxes : n # m => /\ runs'[Child(n)] = runs[Child(n)]
                                       /\ ChildStatus(n)' = ChildStatus(n)
                                       /\ mailbox'[n] = mailbox[n]
  BY <1>4, <1>7, Types, Ids DEF Settles, OnlyStatusOf, ChildStatus, L!TypeOK
<1>10. RowsOK'
  <2>1. /\ runs'[Child(m)].kind = "child" /\ runs'[Child(m)].job = m
        /\ runs'[Child(m)].parent = Parent /\ runs'[Child(m)].project = Project
    BY <1>4, <1>7 DEF Settles, OnlyStatusOf, BatchInv, RowsOK
  <2> QED BY <1>4, <1>7, <1>9, <2>1 DEF BatchInv, RowsOK, ActiveStatuses, TerminalStatuses
<1>11. ProcessesOK'
  BY <1>2, <1>4, <1>6, <1>7, <1>9, Ids DEF BatchInv, ProcessesOK, Settles
<1>12. /\ pending' \in [Mailboxes -> [kind : EvidenceKinds, attempt : 0..RetryCount + 1]]
       /\ checkpoint' \in [Mailboxes -> 0..RetryCount + 1]
       /\ pending'[m].attempt = 0 /\ checkpoint'[m] = 0
       /\ \A n \in Mailboxes : n # m => pending'[n] = pending[n] /\ checkpoint'[n] = checkpoint[n]
  BY <1>2, <1>4, Types DEF NoPending, EvidenceKinds
<1>13. TypeOK'
  BY <1>2, <1>3, <1>7, <1>8, <1>12, Types, TypesNext DEF Settles
<1>14. WorkerOK'
  BY <1>2, <1>3, <1>9 DEF BatchInv, WorkerOK, Polled
<1>15. ClaimsOK'
  <2>1. Stage(m) \notin {"claiming"} /\ (worker = "scheduling" => Stage(m) \in Gone)
    BY <1>4 DEF Over, BatchInv, WorkerOK, Busy, Gone
  <2> QED BY <1>2, <1>3, <1>8, <1>9, <2>1 DEF BatchInv, ClaimsOK
<1>16. PendingOK'
  BY <1>2, <1>3, <1>12 DEF BatchInv, PendingOK
<1> QED BY <1>3, <1>10, <1>11, <1>13, <1>14, <1>15, <1>16 DEF BatchInv


(* The parent is finished after the scheduler's thread is gone and every    *)
(* child has ended, so no process is left on record.                        *)
LEMMA ReduceFinishedKeeps ==
    ASSUME BatchInv, ReduceFinished
    PROVE  BatchInv'
<1>1. PICK e : e = Head(events)
  OBVIOUS
<1>2. /\ Polled /\ e.kind = "finished" /\ ctl = "running" /\ ctl' = "advancing"
      /\ UNCHANGED <<reply, pending, checkpoint, task, worker, cancel, failed, pool>>
      /\ L!FinishRun(Parent, e.value)
  BY <1>1, Types DEF ReduceFinished, Polls, Polled, workers
<1>3. /\ EventOK(e) /\ QueueOK' /\ ThreadsOK'
      /\ \A n \in Mailboxes : Stage(n)' = Stage(n) /\ (Last(n) => Last(n)')
  BY <1>1, <1>2, PolledKeeps
<1>4. worker = "done" /\ e.value \in Endings
  BY <1>2, <1>3 DEF EventOK
<1>5. /\ L!TypeOK' /\ OnlyStatusOf(Parent, e.value)
      /\ mailbox' = mailbox /\ processes' = processes
      /\ \A m \in Mailboxes : ChildStatus(m) \in TerminalStatuses
  BY <1>2, <1>4, Types, ParentEffect DEF BatchInv
<1>6. /\ runs'[Parent].kind = runs[Parent].kind /\ runs'[Parent].status \in TerminalStatuses
      /\ \A m \in Mailboxes : runs'[Child(m)] = runs[Child(m)] /\ ChildStatus(m)' = ChildStatus(m)
  BY <1>4, <1>5, Ids DEF OnlyStatusOf, ChildStatus, Endings, TerminalStatuses
<1>7. RowsOK'
  BY <1>5, <1>6 DEF BatchInv, RowsOK, ActiveStatuses, TerminalStatuses
<1>8. processes = {}
  BY <1>2, <1>5 DEF BatchInv, ProcessesOK, TerminalStatuses
<1>9. ProcessesOK'
  BY <1>5, <1>8 DEF ProcessesOK
<1>10. TypeOK'
  BY <1>2, <1>3, <1>5, Types, TypesNext
<1>11. WorkerOK'
  BY <1>2, <1>3, <1>4, <1>6 DEF BatchInv, WorkerOK
<1>12. ClaimsOK'
  BY <1>2, <1>3, <1>6 DEF BatchInv, ClaimsOK
<1>13. PendingOK'
  BY <1>2, <1>3 DEF BatchInv, PendingOK
<1> QED BY <1>3, <1>7, <1>9, <1>10, <1>11, <1>12, <1>13 DEF BatchInv

-----------------------------------------------------------------------------
(* Steps that leave the tasks, the rows and the queue alone *)

(* What such steps keep, whatever they do to the phase, the hold and the    *)
(* flags; a batch left for good has no child that is still running.         *)
LEMMA RowsKept ==
    ASSUME BatchInv, L!TypeOK', cancel' \in BOOLEAN,
           UNCHANGED <<mailbox, runs, processes, task, failed, pool, worker, reply, events,
                       pending, checkpoint>>,
           ctl' = ctl \/ (ctl = "advancing" /\ ctl' = "idle")
    PROVE  BatchInv'
<1>1. /\ Forward /\ AtWork' = AtWork
      /\ \A m \in Mailboxes : Stage(m)' = Stage(m) /\ (Last(m) => Last(m)')
  BY TasksKept
<1>2. QueueOK'
  BY <1>1, QueueKept, QueueStep DEF BatchInv
<1>3. RowsOK' /\ \A m \in Mailboxes : ChildStatus(m)' = ChildStatus(m)
  BY DEF BatchInv, RowsOK, ChildStatus
<1>4. ProcessesOK'
  BY <1>3 DEF BatchInv, ProcessesOK
<1>5. ctl' \in {"running", "advancing", "idle", "crashed"}
  BY Types
<1>6. TypeOK'
  BY <1>2, <1>5, Types, TypesNext
<1>7. WorkerOK'
  BY <1>1 DEF BatchInv, WorkerOK
<1>8. ClaimsOK'
  BY <1>1, <1>3 DEF BatchInv, ClaimsOK
<1>9. PendingOK'
  BY <1>1 DEF BatchInv, PendingOK
<1>10. ThreadsOK'
  BY <1>1, Types, ThreadsKept DEF BatchInv
<1> QED BY <1>2, <1>3, <1>4, <1>6, <1>7, <1>8, <1>9, <1>10 DEF BatchInv

(* Cancellation, a hold, and steps that change nothing. *)
LEMMA OutsideKeeps ==
    ASSUME BatchInv, CancelBatch \/ OperatorHolds \/ UNCHANGED vars
    PROVE  BatchInv'
<1>1. CASE CancelBatch
  <2>1. /\ UNCHANGED <<phase, held, mailbox, runs, processes, evidence, history, accepted>>
        /\ UNCHANGED <<task, failed, pool, worker, reply, events, pending, checkpoint, ctl>>
        /\ cancel' \in BOOLEAN
    BY <1>1 DEF CancelBatch, ledger, controller
  <2>2. L!TypeOK'
    BY <2>1, Types DEF L!TypeOK
  <2> QED BY <2>1, <2>2, RowsKept
<1>2. CASE OperatorHolds
  <2>1. UNCHANGED <<task, cancel, failed, pool, worker, reply, events, pending, checkpoint, ctl>>
    BY <1>2 DEF OperatorHolds, workers, controller
  <2>2. /\ UNCHANGED <<phase, mailbox, runs, processes, evidence, history, accepted>>
        /\ held' \in {held \cup {Project}, held \ {Project}}
    BY <1>2 DEF OperatorHolds, L!HoldProject, L!ReleaseProjectHold
  <2>3. L!TypeOK'
    BY <2>2, Types DEF L!TypeOK
  <2>4. cancel' \in BOOLEAN
    BY <2>1, Types
  <2> QED BY <2>1, <2>2, <2>3, <2>4, RowsKept
<1>3. CASE UNCHANGED vars
  <2>1. /\ UNCHANGED <<phase, held, mailbox, runs, processes, evidence, history, accepted>>
        /\ UNCHANGED <<task, cancel, failed, pool, worker>>
        /\ UNCHANGED <<reply, events, pending, checkpoint, ctl>>
    BY <1>3 DEF vars, ledger, workers, controller
  <2>2. L!TypeOK' /\ cancel' \in BOOLEAN
    BY <2>1, Types DEF L!TypeOK
  <2> QED BY <2>1, <2>2, RowsKept
<1> QED BY <1>1, <1>2, <1>3

(* The phase a finished batch asks for is a phase. *)
LEMMA AdvancePhaseKeeps ==
    ASSUME BatchInv, AdvancePhase
    PROVE  BatchInv'
<1>1. /\ ctl = "advancing" /\ ctl' = "idle"
      /\ UNCHANGED <<held, mailbox, runs, processes, evidence, history, accepted>>
      /\ UNCHANGED <<task, cancel, failed, pool, worker, reply, events, pending, checkpoint>>
      /\ phase' = [phase EXCEPT ![Project] = NextPhase] \/ phase' = phase
  BY DEF AdvancePhase, workers
<1>2. NextPhase \in L!Phases
  BY Words DEF NextPhase, Phases
<1>3. L!TypeOK' /\ cancel' \in BOOLEAN
  BY <1>1, <1>2, Types DEF L!TypeOK
<1> QED BY <1>1, <1>3, RowsKept

-----------------------------------------------------------------------------
(* Crash and restart *)

(* Threads, queue and flags are lost with the process; the ledger stays.    *)
LEMMA CrashKeeps ==
    ASSUME BatchInv, Crash
    PROVE  BatchInv'
<1> DEFINE dead(m) == [task[m] EXCEPT !.stage = "dead"]
<1>1. /\ ctl \in {"running", "advancing"} /\ ctl' = "crashed" /\ events' = <<>>
      /\ worker' = "done" /\ task' = [m \in Mailboxes |-> dead(m)]
      /\ UNCHANGED <<ledger, cancel, failed, pool, reply, pending, checkpoint>>
  BY DEF Crash
<1>2. \A m \in Mailboxes : dead(m) \in TaskRow /\ dead(m).stage = "dead"
                           /\ dead(m).attempt = task[m].attempt
  <2> TAKE m \in Mailboxes
  <2>1. task[m] \in TaskRow
    BY Types
  <2> QED BY <2>1 DEF TaskRow, Stages
<1> HIDE DEF dead
<1>3. /\ task' \in [Mailboxes -> TaskRow]
      /\ \A m \in Mailboxes : Stage(m)' = "dead" /\ task'[m].attempt = task[m].attempt
  BY <1>1, <1>2 DEF Stage
<1>4. QueueOK'
  BY <1>1 DEF QueueOK
<1>5. /\ UNCHANGED <<phase, held, mailbox, runs, processes, evidence, history, accepted>>
      /\ UNCHANGED <<cancel, failed, pool, reply, pending, checkpoint>>
  BY <1>1 DEF ledger
<1>6. L!TypeOK' /\ RowsOK' /\ \A m \in Mailboxes : ChildStatus(m)' = ChildStatus(m)
  BY <1>5, Types DEF L!TypeOK, BatchInv, RowsOK, ChildStatus
<1>7. ProcessesOK'
  BY <1>1, <1>5, <1>6 DEF BatchInv, ProcessesOK
<1>8. TypeOK'
  BY <1>1, <1>3, <1>4, <1>5, <1>6, Types, TypesNext
<1>9. WorkerOK'
  BY <1>1, <1>3 DEF WorkerOK, Busy
<1>10. ClaimsOK'
  BY <1>1, <1>3 DEF ClaimsOK, Engaged, Gone
<1>11. PendingOK'
  BY <1>3, <1>5 DEF BatchInv, PendingOK, Last
<1>12. AtWork' \subseteq AtWork
  BY <1>3 DEF AtWork, Busy
<1>13. ThreadsOK'
  BY <1>5, <1>12, Types, ThreadsKept DEF BatchInv
<1> QED BY <1>4, <1>6, <1>7, <1>8, <1>9, <1>10, <1>11, <1>13 DEF BatchInv

(* Recovery closes every run; the identities it preserves are of children   *)
(* it has just abandoned.                                                   *)
LEMMA RestartKeeps ==
    ASSUME BatchInv, Restart
    PROVE  BatchInv'
<1>1. /\ ctl = "crashed" /\ ctl' = "idle"
      /\ UNCHANGED <<task, cancel, failed, pool, worker, reply, events, pending, checkpoint>>
  BY DEF Restart, workers
<1>2. PICK preserved : L!Recover(preserved)
  BY DEF Restart
<1>3. /\ L!TypeOK'
      /\ \A r \in RunIds :
            /\ runs'[r].kind = runs[r].kind /\ runs'[r].project = runs[r].project
            /\ runs'[r].job = runs[r].job /\ runs'[r].parent = runs[r].parent
            /\ runs'[r].status = IF runs[r].status \in ActiveStatuses
                                 THEN "abandoned" ELSE runs[r].status
      /\ \A m \in Mailboxes : mailbox'[m] # "running"
      /\ processes' \subseteq processes
  BY <1>2, Types, RecoverEffect DEF BatchInv
<1>4. worker = "done" /\ \A m \in Mailboxes : Stage(m) \notin Busy
  BY <1>1 DEF BatchInv, WorkerOK
<1>5. /\ Forward /\ AtWork' = AtWork
      /\ \A m \in Mailboxes : Stage(m)' = Stage(m) /\ (Last(m) => Last(m)')
  BY <1>1, TasksKept
<1>6. QueueOK'
  BY <1>1, <1>5, QueueKept, QueueStep DEF BatchInv
<1>7. /\ runs'[Parent].status \in TerminalStatuses
      /\ \A m \in Mailboxes :
            /\ ChildStatus(m)' \in TerminalStatuses
            /\ ChildStatus(m) = "running" => ChildStatus(m)' = "abandoned"
  BY <1>3, Ids DEF BatchInv, RowsOK, ChildStatus, ActiveStatuses, TerminalStatuses
<1>8. RowsOK'
  BY <1>3, <1>7, Ids DEF BatchInv, RowsOK, ActiveStatuses, TerminalStatuses
<1>9. ProcessesOK'
  BY <1>1, <1>3, <1>7 DEF BatchInv, ProcessesOK
<1>10. TypeOK'
  BY <1>1, <1>3, <1>6, Types, TypesNext
<1>11. WorkerOK'
  BY <1>1, <1>4, <1>5, <1>7 DEF WorkerOK
<1>12. ClaimsOK'
  BY <1>1, <1>4, <1>5 DEF BatchInv, ClaimsOK, Busy
<1>13. PendingOK'
  BY <1>1, <1>5 DEF BatchInv, PendingOK
<1>14. ThreadsOK'
  BY <1>1, <1>5, Types, ThreadsKept DEF BatchInv
<1> QED BY <1>6, <1>8, <1>9, <1>10, <1>11, <1>12, <1>13, <1>14 DEF BatchInv


-----------------------------------------------------------------------------
(* The invariant *)

(* begin_batch_run_with_children leaves a running parent, queued children   *)
(* and mailboxes that may start, none of which is running.                  *)
LEMMA BatchInvInit ==
    ASSUME Init
    PROVE  BatchInv
<1> DEFINE parentRow == [kind |-> "parent", project |-> Project, job |-> NoJob,
                         parent |-> NoRun, status |-> "running"]
           childRow(m) == [kind |-> "child", project |-> Project, job |-> m,
                           parent |-> Parent, status |-> "queued"]
           taskRow == [stage |-> "unloaded", attempt |-> 0, claimed |-> FALSE, result |-> "none"]
<1>1. /\ held = {} /\ mailbox \in [Mailboxes -> StartStates] /\ processes = {}
      /\ evidence = [m \in Mailboxes |-> L!NoEvidence]
      /\ history = [m \in Mailboxes |-> L!NoEvidence]
      /\ accepted = [m \in Mailboxes |-> NoRun]
      /\ task = [m \in Mailboxes |-> taskRow]
      /\ reply = [m \in Mailboxes |-> "none"]
      /\ cancel = FALSE /\ failed = FALSE /\ worker = "scheduling" /\ events = <<>>
      /\ pending = [m \in Mailboxes |-> NoPending]
      /\ checkpoint = [m \in Mailboxes |-> 0] /\ ctl = "running"
  BY DEF Init
<1>2. runs = [r \in RunIds |-> IF r = Parent THEN parentRow ELSE childRow(r[2])]
  BY DEF Init
<1>3. \A m \in Mailboxes : Child(m)[2] = m
  BY DEF Child
<1>4. runs[Parent] = parentRow /\ \A m \in Mailboxes : runs[Child(m)] = childRow(m)
  BY <1>2, <1>3, Ids
<1>5. runs \in [RunIds -> L!RunRow]
  <2>1. parentRow \in L!RunRow
    BY DEF L!RunRow, L!RunKinds, L!ActiveStatuses
  <2>2. \A m \in Mailboxes : childRow(m) \in L!RunRow
    BY Ids DEF L!RunRow, L!RunKinds, L!ActiveStatuses
  <2> HIDE DEF parentRow, childRow
  <2>3. runs[Parent] \in L!RunRow /\ \A m \in Mailboxes : runs[Child(m)] \in L!RunRow
    BY <1>4, <2>1, <2>2
  <2>4. \A r \in RunIds : runs[r] \in L!RunRow
    BY <2>3, Ids
  <2> QED BY <1>2, <2>4
<1>6. \A m \in Mailboxes : mailbox[m] # "running" /\ mailbox[m] \in L!MailboxStates
  BY <1>1, Words DEF MayStart
<1>7. PICK live \in LiveModes :
         /\ pool = [live |-> live, alive |-> Concurrency, panicked |-> FALSE,
                    terminal |-> {}, swept |-> {}]
         /\ phase = [p \in {Project} |-> IF live THEN "preflight" ELSE "discovery"]
  BY DEF Init
<1>8. L!TypeOK
  <2>1. L!NoEvidence \in L!EvidenceRow
    BY DEF L!NoEvidence, L!EvidenceRow
  <2>2. phase \in [{Project} -> L!Phases]
    BY <1>7 DEF L!Phases
  <2>3. mailbox \in [Mailboxes -> L!MailboxStates]
    BY <1>1, <1>6
  <2> QED BY <1>1, <1>5, <2>1, <2>2, <2>3 DEF L!TypeOK
<1>9. RowsOK
  <2>1. /\ parentRow.kind = "parent" /\ parentRow.status = "running"
        /\ \A m \in Mailboxes :
              /\ childRow(m).kind = "child" /\ childRow(m).job = m
              /\ childRow(m).parent = Parent /\ childRow(m).project = Project
              /\ childRow(m).status = "queued"
    OBVIOUS
  <2> HIDE DEF parentRow, childRow
  <2>2. /\ runs[Parent].kind = "parent" /\ runs[Parent].status = "running"
        /\ \A m \in Mailboxes :
              /\ runs[Child(m)].kind = "child" /\ runs[Child(m)].job = m
              /\ runs[Child(m)].parent = Parent /\ runs[Child(m)].project = Project
              /\ ChildStatus(m) = "queued"
    BY <1>4, <2>1 DEF ChildStatus
  <2> QED BY <1>6, <2>2 DEF RowsOK, ActiveStatuses
<1>10. ProcessesOK /\ WorkerOK
  BY <1>1 DEF ProcessesOK, WorkerOK
<1>11. \A m \in Mailboxes : Stage(m) = "unloaded" /\ ~task[m].claimed
  BY <1>1 DEF Stage
<1>12. ClaimsOK
  BY <1>11 DEF ClaimsOK, Engaged
<1>13. QueueOK
  BY <1>1 DEF QueueOK
<1>14. PendingOK
  BY <1>1 DEF PendingOK, NoPending
<1>15. ThreadsOK
  <2>1. AtWork = {}
    BY <1>11 DEF AtWork, Busy
  <2>2. Cardinality({}) = 0
    BY FS_EmptySet
  <2>3. pool.alive = Concurrency
    BY <1>7
  <2> QED BY <2>1, <2>2, <2>3 DEF ThreadsOK
<1>16. TypeOK
  <2>1. task \in [Mailboxes -> TaskRow]
    BY <1>1 DEF TaskRow, Stages, Results
  <2>2. pool \in PoolRow
    BY <1>7 DEF PoolRow
  <2>3. pending \in [Mailboxes -> [kind : EvidenceKinds, attempt : 0..RetryCount + 1]]
    BY <1>1 DEF NoPending, EvidenceKinds
  <2>4. reply \in [Mailboxes -> Replies] /\ checkpoint \in [Mailboxes -> 0..RetryCount + 1]
    BY <1>1 DEF Replies
  <2>5. 1..Len(events) = {}
    BY <1>1
  <2> HIDE DEF taskRow
  <2>6. worker = "scheduling" /\ ctl = "running" /\ cancel \in BOOLEAN /\ failed \in BOOLEAN
    BY <1>1
  <2> QED BY <1>8, <2>1, <2>2, <2>3, <2>4, <2>5, <2>6 DEF TypeOK, TaskRow, PoolRow
<1> QED BY <1>8, <1>9, <1>10, <1>12, <1>13, <1>14, <1>15, <1>16 DEF BatchInv

(* One step per action of the scheduler, the controller and the environment. *)
LEMMA BatchInvStep ==
    ASSUME BatchInv, [Next]_vars
    PROVE  BatchInv'
<1>1. ASSUME NEW m \in Mailboxes, Attempt(m) PROVE BatchInv'
  <2>1. CASE SweepUnresolved(m)
    BY <2>1, SweepUnresolvedKeeps
  <2>2. CASE ~SweepUnresolved(m)
    <3>1. Advance(m)
      BY <1>1, <2>2, LoadTaskAdvances, DispatchAdvances, CancelWaitingAdvances, ProbeAdvances,
         AwaitClaimAdvances, LaunchAdvances, AwaitRegistrationAdvances, TransferEndsAdvances,
         VerifyAdvances, EndAttemptAdvances, SettleAdvances DEF Attempt
    <3> QED BY <3>1, AdvanceKeeps
  <2> QED BY <2>1, <2>2
<1>2. CASE ScheduleEnds
  BY <1>2, ScheduleEndsKeeps
<1>3. CASE SendFinished
  BY <1>3, SendFinishedKeeps
<1>4. CASE Reduce
  BY <1>4, ReduceClaimKeeps, ReduceStartedKeeps, ReduceEndedKeeps, ReduceEvidenceKeeps,
     ReduceCheckpointKeeps, ReduceJobFinishedKeeps, ReduceFinishedKeeps, AdvancePhaseKeeps
     DEF Reduce
<1>5. CASE Environment
  <2>1. ASSUME NEW m \in Mailboxes, WorkerPanics(m) PROVE BatchInv'
    BY <2>1, WorkerPanicsAdvances, AdvanceKeeps
  <2> QED BY <1>5, <2>1, OutsideKeeps, LoaderFailsKeeps, CrashKeeps, RestartKeeps
          DEF Environment
<1>6. CASE RetryDeferred \/ Done \/ UNCHANGED vars
  BY <1>6, OutsideKeeps DEF RetryDeferred, Done
<1> QED BY <1>1, <1>2, <1>3, <1>4, <1>5, <1>6 DEF Next

(* BatchInv holds throughout every batch execution: however the scheduler,   *)
(* its threads, the polling controller, the operator and crashes interleave. *)
THEOREM BatchInvariant == Spec => []BatchInv
<1>1. Init => BatchInv
  BY BatchInvInit
<1>2. BatchInv /\ [Next]_vars => BatchInv'
  BY BatchInvStep
<1> QED BY <1>1, <1>2, PTL DEF Spec

-----------------------------------------------------------------------------
(* What follows *)

(* Every column, flag, counter and queued event keeps its type; a panicking  *)
(* attempt never takes the count of living threads below zero, and no task   *)
(* spends more than RetryCount retries (run_batch_schedule).                 *)
THEOREM BatchTypeOK == Spec => []TypeOK
<1>1. BatchInv => TypeOK
  BY DEF BatchInv
<1> QED BY <1>1, BatchInvariant, PTL

(* An engine past its release works for a child run and a mailbox that the   *)
(* ledger still has as running (run_prepared_batch_attempt): no cancelled    *)
(* claim, hold, sweep after a panic or late completion closes the run        *)
(* underneath it.                                                            *)
THEOREM EngineHasRunningChildAlways == Spec => []EngineHasRunningChild
<1>1. BatchInv => EngineHasRunningChild
  <2> SUFFICES ASSUME BatchInv, NEW m \in Mailboxes,
                      Stage(m) \in {"transferring", "verifying", "cleanup"}
               PROVE  runs[Child(m)].status = "running" /\ mailbox[m] = "running"
    BY DEF EngineHasRunningChild
  <2>1. worker = "scheduling"
    BY BusyScheduling DEF Busy
  <2>2. task[m].claimed /\ Stage(m) \notin Gone
    BY DEF BatchInv, ClaimsOK, Engaged, Gone
  <2>3. ChildStatus(m) = "running"
    BY <2>1, <2>2 DEF BatchInv, ClaimsOK
  <2> QED BY <2>3 DEF BatchInv, RowsOK, ChildStatus
<1> QED BY <1>1, BatchInvariant, PTL

(* The evidence and the checkpoint that finish_batch_child commits with a    *)
(* child's ending come from the attempt that ended it, never from one that   *)
(* failed and was retried.                                                   *)
THEOREM CommitsLastAttemptAlways == Spec => []CommitsLastAttempt
<1>1. BatchInv => CommitsLastAttempt
  <2> SUFFICES ASSUME BatchInv, Polls("job_finished")
               PROVE  CommitsLastAttempt
    BY DEF CommitsLastAttempt
  <2>1. PICK e : e = Head(events)
    OBVIOUS
  <2>2. events # <<>> /\ e.kind = "job_finished"
    BY <2>1 DEF Polls
  <2>3. events \in Seq(EventRow) /\ Len(events) > 0
    BY <2>2 DEF BatchInv, QueueOK
  <2>4. EventOK(e)
    BY <2>1, <2>3 DEF BatchInv, QueueOK
  <2>5. e.job \in Mailboxes /\ e.attempt = task[e.job].attempt + 1
    BY <2>2, <2>4 DEF EventOK
  <2>6. pending[e.job].attempt \in {0, e.attempt} /\ checkpoint[e.job] \in {0, e.attempt}
    BY <2>5 DEF BatchInv, PendingOK
  <2> QED BY <2>1, <2>6 DEF CommitsLastAttempt
<1> QED BY <1>1, BatchInvariant, PTL

(* Once the batch is over, by its own ending (finish_poll_run) or by the     *)
(* recovery of a restart (recover_abandoned_jobs_preserving), no run of it   *)
(* is unfinished, no mailbox is left running, and process identities are     *)
(* left only for runs that recovery abandoned.                               *)
THEOREM NothingLeftRunningAlways == Spec => []NothingLeftRunning
<1>1. BatchInv => NothingLeftRunning
  <2> SUFFICES ASSUME BatchInv, ctl \in {"advancing", "idle"}
               PROVE  /\ \A r \in RunIds : runs[r].status \in TerminalStatuses
                      /\ \A m \in Mailboxes : mailbox[m] # "running"
                      /\ \A r \in processes : runs[r].status = "abandoned"
    BY DEF NothingLeftRunning
  <2>1. runs[Parent].status \in TerminalStatuses
    BY DEF BatchInv, WorkerOK
  <2>2. \A m \in Mailboxes : ChildStatus(m) \in TerminalStatuses /\ ChildStatus(m) # "running"
    BY <2>1 DEF BatchInv, RowsOK, ActiveStatuses, TerminalStatuses
  <2>3. \A r \in RunIds : runs[r].status \in TerminalStatuses
    BY <2>1, <2>2, Ids DEF ChildStatus
  <2>4. \A m \in Mailboxes : mailbox[m] # "running"
    BY <2>2 DEF BatchInv, RowsOK
  <2>5. \A r \in processes : runs[r].status = "abandoned"
    BY <2>2 DEF BatchInv, ProcessesOK, ChildStatus
  <2> QED BY <2>3, <2>4, <2>5
<1> QED BY <1>1, BatchInvariant, PTL
=============================================================================
