----------------------------- MODULE FencedLease -----------------------------
(***************************************************************************)
(* Assignments of the control plane (cli/control/workers.rs) and the       *)
(* agents that execute them (cli/control/agent.rs).  The service and the   *)
(* agents exchange HTTP calls that may be lost, answered late or served    *)
(* after the agent has given up waiting.  Time advances in ticks of ten    *)
(* seconds; timers count down, so no clock value is ever compared across   *)
(* hosts, as in the code, which measures an agent's deadline with Instant. *)
(***************************************************************************)
EXTENDS Integers, FiniteSets

CONSTANTS
    Workers,        \* enrolled agents
    Assignments,    \* assignment identifiers
    Lease,          \* --lease-seconds, in ticks
    RenewEvery,     \* AgentConfig.renew_every
    HttpTimeout,    \* HTTP_TIMEOUT
    Grace,          \* REASSIGN_GRACE_SECONDS
    StopTime,       \* how long a stopped run takes to end its engine
    Retries,        \* AgentConfig.completion_retries
    MaxToken,       \* bound on the grants of one assignment
    MaxRevision,    \* bound on plan revisions
    MaxLate,        \* bound on requests served after their caller gave up
    NoWorker, NoAssignment

(* One tick of slack separates the last moment of an abandoned engine from  *)
(* the first moment at which its assignment can be handed out again.        *)
ASSUME LeaseConstants ==
    /\ {Lease, RenewEvery, HttpTimeout, Grace, StopTime, Retries, MaxLate} \subseteq Nat
    /\ {MaxToken, MaxRevision} \subseteq Nat \ {0}
    /\ RenewEvery > 0 /\ RenewEvery <= Lease
    /\ HttpTimeout + StopTime < Grace
    /\ HttpTimeout + RenewEvery + HttpTimeout + StopTime < Lease + Grace
    /\ NoWorker \notin Workers /\ NoAssignment \notin Assignments

VARIABLES
    project,  \* plan_revision and approved_revision (0 is NULL)
    asg,      \* the assignments table
    revoked,  \* workers with revoked_at
    agent,    \* one agent process per worker
    engine,   \* the engine an agent started: none, running, or orphan after a crash
    late      \* requests still to be served whose caller has given up

vars == <<project, asg, revoked, agent, engine, late>>

Outcomes == {"completed", "failed"}
AssignmentStates == {"absent", "queued", "leased", "needs_reconciliation"} \cup Outcomes

AssignmentRow == [state : AssignmentStates, token : 0..MaxToken, holder : Workers \cup {NoWorker},
                  ttl : (-Grace)..Lease, revision : 0..MaxRevision, result : 0..MaxToken]

Request == [worker : Workers, kind : {"lease", "renew", "complete"},
            on : Assignments \cup {NoAssignment}, token : 0..MaxToken, outcome : Outcomes]

Answers == {"none", "pending", "ok", "empty", "lost", "unauthorized"}

AgentRow == [at : {"idle", "leasing", "bound", "running", "returned", "reporting", "exited", "dead"},
             on : Assignments \cup {NoAssignment}, token : 0..MaxToken,
             left : 0..Lease, timer : 0..RenewEvery,
             call : {"none", "lease", "renew", "complete"}, age : 0..HttpTimeout,
             answer : Answers, lost : BOOLEAN, stopIn : 0..StopTime,
             tries : 0..Retries, outcome : Outcomes]

Idle == [at |-> "idle", on |-> NoAssignment, token |-> 0, left |-> 0, timer |-> 0,
         call |-> "none", age |-> 0, answer |-> "none", lost |-> FALSE, stopIn |-> 0,
         tries |-> 0, outcome |-> "failed"]

EngineRow == [state : {"none", "running", "orphan"}, on : Assignments \cup {NoAssignment},
              token : 0..MaxToken]

NoEngine == [state |-> "none", on |-> NoAssignment, token |-> 0]

TypeOK ==
    /\ project \in [revision : 1..MaxRevision, approved : 0..MaxRevision]
    /\ asg \in [Assignments -> AssignmentRow]
    /\ revoked \subseteq Workers
    /\ agent \in [Workers -> AgentRow]
    /\ engine \in [Workers -> EngineRow]
    /\ late \subseteq Request

Init ==
    /\ project = [revision |-> 1, approved |-> 1]
    /\ asg = [a \in Assignments |-> [state |-> "absent", token |-> 0, holder |-> NoWorker,
                                     ttl |-> 0, revision |-> 0, result |-> 0]]
    /\ revoked = {}
    /\ agent = [w \in Workers |-> Idle]
    /\ engine = [w \in Workers |-> NoEngine]
    /\ late = {}

-----------------------------------------------------------------------------
(* The service's transactions. *)

PlanStillApproved(a) ==
    /\ project.approved = project.revision
    /\ asg[a].revision = project.revision

(* A lease that expired more than the grace ago and never reported. *)
Expired(row) == row.state = "leased" /\ row.ttl <= -Grace

Reconcile(table) ==
    [a \in Assignments |->
        IF Expired(table[a])
        THEN [table[a] EXCEPT !.state = "needs_reconciliation", !.holder = NoWorker, !.ttl = 0]
        ELSE table[a]]

(* Mutant: the fencing token is not compared. *)
HoldsAnyLease(r) ==
    /\ asg[r.on].state = "leased"
    /\ asg[r.on].holder = r.worker
    /\ asg[r.on].ttl > 0
    /\ r.worker \notin revoked

(* The conditions of a fenced write: the lease is held by this worker under *)
(* this token, has not expired, and the worker is not revoked.              *)
HoldsLease(r) ==
    /\ asg[r.on].state = "leased"
    /\ asg[r.on].holder = r.worker
    /\ asg[r.on].token = r.token
    /\ asg[r.on].ttl > 0
    /\ r.worker \notin revoked

MayRenew(r) == HoldsLease(r) /\ PlanStillApproved(r.on)

(* The ways to serve a lease call: the table after it, the caller's answer  *)
(* and the assignment handed out.  Any queued assignment may be the oldest. *)
ServedLease(r) ==
    LET rows == Reconcile(asg)
        ready == {a \in Assignments : rows[a].state = "queued" /\ PlanStillApproved(a)
                                      /\ rows[a].token < MaxToken}
        granted(a) == [rows EXCEPT ![a].state = "leased", ![a].token = @ + 1,
                                   ![a].holder = r.worker, ![a].ttl = Lease]
    IN  IF r.worker \in revoked THEN {<<asg, "unauthorized", NoAssignment>>}
        ELSE IF ready = {} THEN {<<rows, "empty", NoAssignment>>}
        ELSE {<<granted(a), "ok", a>> : a \in ready}

(* Mutant: a renewal adds to the time that is left. *)
RenewAddsUp(r) ==
    IF MayRenew(r)
    THEN <<[asg EXCEPT ![r.on].ttl = @ + Lease], "ok">>
    ELSE <<asg, IF r.worker \in revoked THEN "unauthorized" ELSE "lost">>

ServedRenew(r) ==
    IF MayRenew(r)
    THEN <<[asg EXCEPT ![r.on].ttl = Lease], "ok">>
    ELSE <<asg, IF r.worker \in revoked THEN "unauthorized" ELSE "lost">>

ServedComplete(r) ==
    IF HoldsLease(r)
    THEN <<[asg EXCEPT ![r.on].state = r.outcome, ![r.on].holder = NoWorker, ![r.on].ttl = 0,
                       ![r.on].result = r.token], "ok">>
    ELSE <<asg, IF r.worker \in revoked THEN "unauthorized" ELSE "lost">>

CreateAssignment(a) ==
    /\ asg[a].state = "absent"
    /\ project.approved = project.revision
    /\ asg' = [asg EXCEPT ![a].state = "queued", ![a].revision = project.revision]
    /\ UNCHANGED <<project, revoked, agent, engine, late>>

UpdatePlan ==
    /\ project.revision < MaxRevision
    /\ project' = [revision |-> project.revision + 1, approved |-> 0]
    /\ UNCHANGED <<asg, revoked, agent, engine, late>>

ApproveProject ==
    /\ project.approved # project.revision
    /\ project' = [project EXCEPT !.approved = project.revision]
    /\ UNCHANGED <<asg, revoked, agent, engine, late>>

(* A revoked worker keeps its leases until they expire. *)
RevokeWorker(w) ==
    /\ w \notin revoked
    /\ revoked' = revoked \cup {w}
    /\ UNCHANGED <<project, asg, agent, engine, late>>

(* The operator's stated reason: a host whose agent died was checked, and   *)
(* no engine it left behind still works on the mailbox.                     *)
OperatorChecked(a) == \A w \in Workers : engine[w].state = "orphan" => engine[w].on # a

RequeueAssignment(a) ==
    LET rows == Reconcile(asg)
    IN  /\ rows[a].state = "needs_reconciliation"
        /\ OperatorChecked(a)
        /\ asg' = [rows EXCEPT ![a].state = "queued", ![a].result = 0]
        /\ UNCHANGED <<project, revoked, agent, engine, late>>

-----------------------------------------------------------------------------
(* The agent. *)

Calling(row, kind) == [row EXCEPT !.call = kind, !.age = 0, !.answer = "pending"]
Answered(row) == [row EXCEPT !.call = "none", !.age = 0, !.answer = "none"]

(* The request of w's call in progress. *)
RequestOf(w) == [worker |-> w, kind |-> agent[w].call, on |-> agent[w].on,
                 token |-> agent[w].token, outcome |-> agent[w].outcome]

(* Mutant: the local deadline starts when the answer arrives. *)
LeaseCountsFromAnswer(row) == [row EXCEPT !.left = Lease, !.timer = RenewEvery]

(* A successful renewal moves the local deadline to one lease after the     *)
(* renewal was attempted, not after it was answered.                        *)
Renewed(row) == [row EXCEPT !.left = IF Lease > row.age THEN Lease - row.age ELSE 0,
                            !.timer = RenewEvery]

(* Mutant: a refused renewal is noted but the run is not stopped. *)
ForgetsToStop(row) == [row EXCEPT !.lost = FALSE, !.timer = RenewEvery]

(* give_up: the lease is lost and the run is told to stop. *)
GiveUp(row) == [row EXCEPT !.lost = TRUE, !.stopIn = StopTime]

Reporting(row, outcome) ==
    [Idle EXCEPT !.at = "reporting", !.on = row.on, !.token = row.token, !.outcome = outcome]

(* The scope around execute ends once both the run has returned and the     *)
(* renewal thread is not in a call.  A lost lease is not reported.          *)
AfterScope(row) ==
    IF row.at # "returned" THEN row
    ELSE IF row.lost THEN Idle ELSE Reporting(row, row.outcome)

RequestLease(w) ==
    /\ agent[w].at = "idle"
    /\ agent' = [agent EXCEPT ![w] = Calling([Idle EXCEPT !.at = "leasing", !.left = Lease], "lease")]
    /\ UNCHANGED <<project, asg, revoked, engine, late>>

(* The service serves the call w waits for. *)
Serve(w) ==
    /\ agent[w].answer = "pending"
    /\ \/ /\ agent[w].call = "lease"
          /\ \E served \in ServedLease(RequestOf(w)) :
                /\ asg' = served[1]
                /\ agent' = [agent EXCEPT
                      ![w].answer = served[2], ![w].on = served[3],
                      ![w].token = IF served[2] = "ok" THEN served[1][served[3]].token ELSE 0]
       \/ /\ agent[w].call = "renew"
          /\ asg' = ServedRenew(RequestOf(w))[1]
          /\ agent' = [agent EXCEPT ![w].answer = ServedRenew(RequestOf(w))[2]]
       \/ /\ agent[w].call = "complete"
          /\ asg' = ServedComplete(RequestOf(w))[1]
          /\ agent' = [agent EXCEPT ![w].answer = ServedComplete(RequestOf(w))[2]]
    /\ UNCHANGED <<project, revoked, engine, late>>

(* The service serves a request nobody waits for any more. *)
ServeLate(r) ==
    /\ r \in late
    /\ late' = late \ {r}
    /\ \/ /\ r.kind = "lease"
          /\ \E served \in ServedLease(r) : asg' = served[1]
       \/ r.kind = "renew" /\ asg' = ServedRenew(r)[1]
       \/ r.kind = "complete" /\ asg' = ServedComplete(r)[1]
    /\ UNCHANGED <<project, revoked, agent, engine>>

(* handle_one with the answer to its lease call. *)
LeaseAnswered(w) ==
    /\ agent[w].call = "lease"
    /\ agent' = [agent EXCEPT ![w] =
          CASE @.answer = "ok" -> [Answered(@) EXCEPT !.at = "bound"]
            [] @.answer = "unauthorized" -> [Idle EXCEPT !.at = "exited"]
            [] OTHER -> Idle]
    /\ agent[w].answer \in {"ok", "empty", "unauthorized"}
    /\ UNCHANGED <<project, asg, revoked, engine, late>>

(* check_binding: the local row has the approved digest, or the assignment  *)
(* is reported as failed.  A ledger whose recorded engine still has to be   *)
(* reviewed refuses to execute.                                             *)
CheckBinding(w, matches) ==
    /\ agent[w].at = "bound"
    /\ LET runs == matches /\ engine[w].state = "none"
       IN  /\ agent' = [agent EXCEPT ![w] =
                 IF runs THEN [@ EXCEPT !.at = "running", !.timer = RenewEvery]
                 ELSE Reporting(@, "failed")]
           /\ engine' = [engine EXCEPT ![w] =
                 IF runs THEN [state |-> "running", on |-> agent[w].on, token |-> agent[w].token]
                 ELSE @]
    /\ UNCHANGED <<project, asg, revoked, late>>

(* keep_renewing wakes after renew_every. *)
RenewLease(w) ==
    /\ agent[w].at = "running"
    /\ agent[w].call = "none"
    /\ ~agent[w].lost
    /\ agent[w].timer = 0
    /\ agent' = [agent EXCEPT ![w] = Calling(@, "renew")]
    /\ UNCHANGED <<project, asg, revoked, engine, late>>

RenewAnswered(w) ==
    /\ agent[w].call = "renew"
    /\ agent[w].answer \in {"ok", "lost", "unauthorized"}
    /\ agent' = [agent EXCEPT ![w] =
          AfterScope(Answered(IF @.answer = "ok" THEN Renewed(@) ELSE GiveUp(@)))]
    /\ UNCHANGED <<project, asg, revoked, engine, late>>

(* execute returns: by itself, or because it was told to stop. *)
ExecuteReturns(w, outcome) ==
    /\ agent[w].at = "running"
    /\ agent[w].lost => outcome = "failed"
    /\ engine' = [engine EXCEPT ![w] = NoEngine]
    /\ agent' = [agent EXCEPT ![w] =
          LET row == [@ EXCEPT !.at = "returned", !.outcome = outcome]
          IN  IF row.call = "renew" THEN row ELSE AfterScope(row)]
    /\ UNCHANGED <<project, asg, revoked, late>>

Report(w) ==
    /\ agent[w].at = "reporting"
    /\ agent[w].call = "none"
    /\ agent' = [agent EXCEPT ![w] = Calling(@, "complete")]
    /\ UNCHANGED <<project, asg, revoked, engine, late>>

ReportAnswered(w) ==
    /\ agent[w].call = "complete"
    /\ agent[w].answer \in {"ok", "lost", "unauthorized"}
    /\ agent' = [agent EXCEPT ![w] =
          IF @.answer = "unauthorized" THEN [Idle EXCEPT !.at = "exited"] ELSE Idle]
    /\ UNCHANGED <<project, asg, revoked, engine, late>>

(* A renewal that got no answer is retried unless the next attempt would    *)
(* come after the local deadline.                                           *)
RenewFailed(row) ==
    IF row.left <= RenewEvery THEN GiveUp(row) ELSE [row EXCEPT !.timer = RenewEvery]

(* A call fails: the connection, the request or the answer is lost, or the  *)
(* client's timeout passes.  A request already sent may still be served.    *)
CallFails(w) ==
    /\ agent[w].call # "none"
    /\ agent' = [agent EXCEPT ![w] =
          CASE @.call = "lease" -> Idle
            [] @.call = "renew" -> AfterScope(RenewFailed(Answered(@)))
            [] @.call = "complete" ->
                 IF @.tries < Retries THEN [Answered(@) EXCEPT !.tries = @ + 1] ELSE Idle]
    /\ \/ late' = late
       \/ /\ agent[w].answer = "pending"
          /\ Cardinality(late) < MaxLate
          /\ late' = late \cup {RequestOf(w)}
    /\ UNCHANGED <<project, asg, revoked, engine>>

(* The agent's process dies and leaves its engine behind. *)
AgentDies(w) ==
    /\ agent[w].at \notin {"dead", "exited"}
    /\ agent' = [agent EXCEPT ![w] = [Idle EXCEPT !.at = "dead"]]
    /\ engine' = [engine EXCEPT ![w].state = IF @ = "running" THEN "orphan" ELSE @]
    /\ UNCHANGED <<project, asg, revoked, late>>

AgentRestarts(w) ==
    /\ agent[w].at = "dead"
    /\ agent' = [agent EXCEPT ![w] = Idle]
    /\ UNCHANGED <<project, asg, revoked, engine, late>>

OrphanEnds(w) ==
    /\ engine[w].state = "orphan"
    /\ engine' = [engine EXCEPT ![w] = NoEngine]
    /\ UNCHANGED <<project, asg, revoked, agent, late>>

(* Ten seconds pass, unless something that cannot wait is due: a call at    *)
(* its timeout, a renewal at its time, the local plan check, the end of a   *)
(* run that was told to stop.                                               *)
Tick ==
    /\ \A w \in Workers :
          /\ agent[w].call # "none" => agent[w].age < HttpTimeout
          /\ agent[w].at # "bound"
          /\ agent[w].at = "reporting" => agent[w].call # "none"
          /\ agent[w].at = "running" => IF agent[w].lost THEN agent[w].stopIn > 0
                                        ELSE agent[w].call # "none" \/ agent[w].timer > 0
    /\ agent' = [w \in Workers |->
          [agent[w] EXCEPT !.age = IF agent[w].call # "none" THEN @ + 1 ELSE @,
                           !.left = IF @ > 0 THEN @ - 1 ELSE @,
                           !.timer = IF @ > 0 /\ agent[w].call = "none" THEN @ - 1 ELSE @,
                           !.stopIn = IF @ > 0 THEN @ - 1 ELSE @]]
    /\ asg' = [a \in Assignments |->
          [asg[a] EXCEPT !.ttl = IF asg[a].state = "leased" /\ @ > -Grace THEN @ - 1 ELSE @]]
    /\ UNCHANGED <<project, revoked, engine, late>>

-----------------------------------------------------------------------------
AgentStep(w) ==
    \/ RequestLease(w) \/ LeaseAnswered(w)
    \/ \E matches \in BOOLEAN : CheckBinding(w, matches)
    \/ RenewLease(w) \/ RenewAnswered(w)
    \/ \E outcome \in Outcomes : ExecuteReturns(w, outcome)
    \/ Report(w) \/ ReportAnswered(w) \/ CallFails(w)

Next ==
    \/ \E w \in Workers : AgentStep(w) \/ Serve(w)
    \/ \E w \in Workers : AgentDies(w) \/ AgentRestarts(w) \/ OrphanEnds(w) \/ RevokeWorker(w)
    \/ \E a \in Assignments : CreateAssignment(a) \/ RequeueAssignment(a)
    \/ \E r \in late : ServeLate(r)
    \/ UpdatePlan \/ ApproveProject \/ Tick

Spec == Init /\ [][Next]_vars

-----------------------------------------------------------------------------
(* Properties. *)

(* Each assignment is executed in epochs that never overlap, although no    *)
(* IMAP server checks the fencing token: an engine of an expired, revoked   *)
(* or unreachable lease has ended before the assignment is handed out       *)
(* again, and only the newest lease records a result, once.                 *)
Exclusive == INSTANCE FencedExecution WITH
    epoch <- [a \in Assignments |-> asg[a].token],
    running <- [a \in Assignments |-> {engine[w].token : w \in {v \in Workers : engine[v].on = a}}],
    outcome <- [a \in Assignments |-> asg[a].result]

ImplementsFencedExecution == Exclusive!Spec

(* A run ends within the grace of its own lease, however its renewals fail: *)
(* as long as an agent's engine writes, the service has its assignment      *)
(* leased to it and cannot have declared the lease expired, even when the   *)
(* worker is revoked or the plan is no longer approved.                     *)
EngineEndsInGrace ==
    \A w \in Workers : engine[w].state = "running" =>
        LET row == asg[engine[w].on]
        IN  row.state = "leased" /\ row.token = engine[w].token /\ row.ttl > -Grace

(* While a run goes on under a lease the agent believes in, the service     *)
(* still has that lease: no other transaction has taken it away before its  *)
(* local deadline passes.                                                   *)
BelievedLeaseIsHeld ==
    \A w \in Workers :
        (agent[w].at = "running" /\ agent[w].left > 0) =>
            /\ asg[agent[w].on].state = "leased"
            /\ asg[agent[w].on].token = agent[w].token
            /\ asg[agent[w].on].ttl >= agent[w].left
=============================================================================
