-------------------------- MODULE FencedLeaseProofs --------------------------
(***************************************************************************)
(* Proofs about FencedLease for any number of agents and assignments, any  *)
(* lease, grace and timeouts that satisfy LeaseConstants, and any number   *)
(* of lost, late and repeated calls.  The refinement of FencedExecution    *)
(* follows from an inductive invariant about time: whatever an agent does, *)
(* its engine ends before the service may declare its lease expired.       *)
(***************************************************************************)
EXTENDS FencedLease, TLAPS

-----------------------------------------------------------------------------
(* The invariant, row by row. *)

(* An assignment that was ever handed out has a token; only a finished one  *)
(* has a result.                                                            *)
RowOK(row) ==
    /\ row.state = "leased" => row.token > 0
    /\ row.result # 0 => row.state \in Outcomes

(* Which call an agent may be in at each point of handle_one.               *)
ShapeOK(r) ==
    /\ r.at = "leasing" <=> r.call = "lease"
    /\ r.call = "renew" => r.at \in {"running", "returned"} /\ ~r.lost
    /\ r.at = "returned" => r.call = "renew"
    /\ r.call = "complete" => r.at = "reporting"
    /\ r.call = "lease" => r.answer \in {"pending", "ok", "empty", "unauthorized"}
    /\ r.call = "lease" /\ r.left > 0 => r.left + r.age <= Lease

(* The agent was granted a lease and has not finished its run.              *)
Holding(r) == r.at \in {"bound", "running"} \/ (r.at = "leasing" /\ r.answer = "ok")

(* The service agrees that the agent has the lease, and the lease lasts     *)
(* until every engine the agent may still be running under it has ended.    *)
HeldOK(w, r, table) ==
    Holding(r) =>
        LET row == table[r.on]
        IN  /\ r.on \in Assignments
            /\ row.state = "leased" /\ row.holder = w /\ row.token = r.token
            /\ r.at = "leasing" => row.ttl + r.age >= Lease
            /\ r.at = "bound" => row.ttl + HttpTimeout >= Lease
            /\ r.at # "leasing" /\ r.left > 0 => row.ttl >= r.left
            /\ r.at = "running" /\ r.lost => r.stopIn < row.ttl + Grace
            /\ r.at = "running" /\ ~r.lost /\ r.call = "none" =>
                  r.timer + HttpTimeout + StopTime < row.ttl + Grace
            /\ r.at = "running" /\ r.call = "renew" =>
                  (HttpTimeout - r.age) + StopTime < row.ttl + Grace
            /\ r.at = "running" /\ r.call = "renew" /\ r.answer = "ok" => row.ttl + r.age >= Lease

(* An engine belongs to the newest grant of its assignment, which is still  *)
(* leased to its agent or waits for an operator; it runs as long as its     *)
(* agent is in the run.                                                     *)
EngineOK(w, e, r, table) ==
    /\ e.state = "none" <=> e.on = NoAssignment
    /\ e.state # "none" =>
          /\ e.on \in Assignments
          /\ table[e.on].token = e.token
          /\ table[e.on].state \in {"leased", "needs_reconciliation"}
          /\ table[e.on].state = "leased" => table[e.on].holder = w
    /\ e.state = "running" <=> r.at = "running"
    /\ e.state = "running" => e.on = r.on /\ e.token = r.token
    /\ Holding(r) /\ r.at # "running" => e.on # r.on

(* A grant whose run is over: nobody works under it and nobody ever will.   *)
Spent(a, t) ==
    /\ a \in Assignments
    /\ t <= asg[a].token
    /\ \A w \in Workers :
          /\ ~(engine[w].on = a /\ engine[w].token = t)
          /\ ~(Holding(agent[w]) /\ agent[w].on = a /\ agent[w].token = t)

RowsOK == \A a \in Assignments : RowOK(asg[a])
AgentsOK == \A w \in Workers : ShapeOK(agent[w]) /\ HeldOK(w, agent[w], asg)
EnginesOK ==
    /\ \A w \in Workers : EngineOK(w, engine[w], agent[w], asg)
    /\ \A v, w \in Workers : v # w /\ engine[v].on = engine[w].on => engine[v].on = NoAssignment

(* Reports come from runs that are over, also the ones still on the wire.   *)
ReportsOK ==
    /\ \A w \in Workers : agent[w].at \in {"returned", "reporting"} =>
                              Spent(agent[w].on, agent[w].token)
    /\ \A r \in late : /\ r.kind = "complete" => Spent(r.on, r.token)
                       /\ r.kind = "renew" => r.on \in Assignments

LeaseInv ==
    /\ TypeOK
    /\ RowsOK
    /\ AgentsOK
    /\ EnginesOK
    /\ ReportsOK

-----------------------------------------------------------------------------
(* Types. *)

(* The timing parameters, one by one. *)
LEMMA Bounds ==
    /\ Lease \in Nat /\ RenewEvery \in Nat /\ HttpTimeout \in Nat /\ Grace \in Nat
    /\ StopTime \in Nat /\ Retries \in Nat /\ MaxToken \in Nat /\ MaxRevision \in Nat
    /\ MaxRevision > 0 /\ RenewEvery > 0 /\ RenewEvery <= Lease
    /\ HttpTimeout + StopTime < Grace
    /\ HttpTimeout + RenewEvery + HttpTimeout + StopTime < Lease + Grace
    /\ NoWorker \notin Workers /\ NoAssignment \notin Assignments
BY LeaseConstants

USE Bounds

(* Every row an agent may be put into is an agent row. *)
LEMMA AgentRows ==
    /\ 0 \in 0..Lease /\ Lease \in 0..Lease /\ 0 \in 0..HttpTimeout /\ 0 \in 0..RenewEvery
    /\ RenewEvery \in 0..RenewEvery /\ 0 \in 0..StopTime /\ StopTime \in 0..StopTime
    /\ 0 \in 0..Retries /\ 0 \in 0..MaxToken
    /\ Idle \in AgentRow
    /\ [Idle EXCEPT !.at = "exited"] \in AgentRow
    /\ [Idle EXCEPT !.at = "dead"] \in AgentRow
<1>1. /\ 0 \in 0..Lease /\ Lease \in 0..Lease /\ 0 \in 0..HttpTimeout /\ 0 \in 0..RenewEvery
      /\ RenewEvery \in 0..RenewEvery /\ 0 \in 0..StopTime /\ StopTime \in 0..StopTime
      /\ 0 \in 0..Retries /\ 0 \in 0..MaxToken
  OBVIOUS
<1>2. Idle \in AgentRow
  BY <1>1 DEF Idle, AgentRow, Answers, Outcomes
<1> QED BY <1>1, <1>2 DEF AgentRow

(* The updates of keep_renewing and handle_one keep an agent row one. *)
LEMMA AgentUpdates ==
    ASSUME NEW row \in AgentRow, NEW kind \in {"lease", "renew", "complete"},
           NEW outcome \in Outcomes
    PROVE  /\ Calling(row, kind) \in AgentRow
           /\ Answered(row) \in AgentRow
           /\ Renewed(row) \in AgentRow
           /\ GiveUp(row) \in AgentRow
           /\ RenewFailed(row) \in AgentRow
           /\ Reporting(row, outcome) \in AgentRow
           /\ AfterScope(row) \in AgentRow
           /\ [row EXCEPT !.at = "running", !.timer = RenewEvery] \in AgentRow
           /\ [row EXCEPT !.at = "returned", !.outcome = outcome] \in AgentRow
<1> USE AgentRows
<1>1. Calling(row, kind) \in AgentRow
  BY DEF Calling, AgentRow, Answers
<1>2. Answered(row) \in AgentRow
  BY DEF Answered, AgentRow, Answers
<1>3. Renewed(row) \in AgentRow
  <2>1. (IF Lease > row.age THEN Lease - row.age ELSE 0) \in 0..Lease
    BY DEF AgentRow
  <2> QED BY <2>1 DEF Renewed, AgentRow
<1>4. GiveUp(row) \in AgentRow
  BY DEF GiveUp, AgentRow
<1>5. RenewFailed(row) \in AgentRow
  BY <1>4 DEF RenewFailed, AgentRow
<1>6. \A o \in Outcomes : Reporting(row, o) \in AgentRow
  BY DEF Reporting, AgentRow
<1>7. row.outcome \in Outcomes
  BY DEF AgentRow
<1>8. [row EXCEPT !.at = "running", !.timer = RenewEvery] \in AgentRow
  BY DEF AgentRow
<1>9. [row EXCEPT !.at = "returned", !.outcome = outcome] \in AgentRow
  BY DEF AgentRow
<1> QED BY <1>1, <1>2, <1>3, <1>4, <1>5, <1>6, <1>7, <1>8, <1>9 DEF AfterScope

-----------------------------------------------------------------------------
(* What a transaction of the service may do to one assignment. *)

Kept(o, n) ==
    /\ n.state = o.state /\ n.token = o.token /\ n.holder = o.holder /\ n.result = o.result
    /\ n.ttl >= o.ttl
Reclaimed(o, n) ==
    /\ Expired(o) /\ n.state = "needs_reconciliation" /\ n.holder = NoWorker
    /\ n.token = o.token /\ n.result = o.result
Granted(w, o, n) ==
    /\ o.state = "queued" /\ n.state = "leased" /\ n.holder = w /\ n.ttl = Lease
    /\ n.token = o.token + 1 /\ n.result = o.result
Finished(t, o, n) ==
    /\ o.state = "leased" /\ o.token = t /\ n.state \in Outcomes /\ n.token = t /\ n.result = t
Queued(o, n) ==
    /\ n.state = "queued" /\ n.token = o.token
    /\ \/ o.state \in {"absent", "needs_reconciliation"}
       \/ Expired(o)
    /\ n.result \in {o.result, 0}

(* reconcile_expired_leases changes expired rows only. *)
LEMMA ReconcileEffect ==
    ASSUME asg \in [Assignments -> AssignmentRow]
    PROVE  /\ Reconcile(asg) \in [Assignments -> AssignmentRow]
           /\ \A a \in Assignments :
                 /\ Reconcile(asg)[a] = asg[a] \/ Reclaimed(asg[a], Reconcile(asg)[a])
                 /\ Reconcile(asg)[a].state = "queued" => Reconcile(asg)[a] = asg[a]
<1> DEFINE new(a) == [asg[a] EXCEPT !.state = "needs_reconciliation", !.holder = NoWorker, !.ttl = 0]
<1>1. 0 \in (-Grace)..Lease
  OBVIOUS
<1>2. ASSUME NEW a \in Assignments
      PROVE  /\ new(a) \in AssignmentRow
             /\ new(a).state = "needs_reconciliation" /\ new(a).holder = NoWorker
             /\ new(a).token = asg[a].token /\ new(a).result = asg[a].result
  BY <1>1 DEF AssignmentRow, AssignmentStates
<1>3. \A a \in Assignments : Reconcile(asg)[a] = IF Expired(asg[a]) THEN new(a) ELSE asg[a]
  BY DEF Reconcile
<1> HIDE DEF new
<1>4. Reconcile(asg) \in [Assignments -> AssignmentRow]
  BY <1>2 DEF Reconcile, new
<1> QED BY <1>2, <1>3, <1>4 DEF Reclaimed

(* A lease call grants one queued assignment, or none. *)
LEMMA LeaseEffect ==
    ASSUME asg \in [Assignments -> AssignmentRow], NEW r, r.worker \in Workers,
           NEW served \in ServedLease(r)
    PROVE  /\ served[1] \in [Assignments -> AssignmentRow]
           /\ \/ /\ served[2] \in {"empty", "unauthorized"} /\ served[3] = NoAssignment
                 /\ \A a \in Assignments :
                       served[1][a] = asg[a] \/ Reclaimed(asg[a], served[1][a])
              \/ /\ served[2] = "ok" /\ served[3] \in Assignments
                 /\ Granted(r.worker, asg[served[3]], served[1][served[3]])
                 /\ \A a \in Assignments \ {served[3]} :
                       served[1][a] = asg[a] \/ Reclaimed(asg[a], served[1][a])
<1> DEFINE rows == Reconcile(asg)
<1>1. /\ rows \in [Assignments -> AssignmentRow]
      /\ \A a \in Assignments :
            /\ rows[a] = asg[a] \/ Reclaimed(asg[a], rows[a])
            /\ rows[a].state = "queued" => rows[a] = asg[a]
  BY ReconcileEffect
<1> HIDE DEF rows
<1>2. CASE served = <<asg, "unauthorized", NoAssignment>> \/ served = <<rows, "empty", NoAssignment>>
  BY <1>1, <1>2
<1>3. ASSUME NEW b \in Assignments, rows[b].state = "queued", rows[b].token < MaxToken,
             served = <<[rows EXCEPT ![b].state = "leased", ![b].token = @ + 1,
                                     ![b].holder = r.worker, ![b].ttl = Lease], "ok", b>>
      PROVE  /\ served[1] \in [Assignments -> AssignmentRow] /\ served[2] = "ok" /\ served[3] = b
             /\ Granted(r.worker, asg[b], served[1][b])
             /\ \A a \in Assignments \ {b} :
                   served[1][a] = asg[a] \/ Reclaimed(asg[a], served[1][a])
  <2>1. rows[b].token + 1 \in 0..MaxToken /\ Lease \in (-Grace)..Lease
    BY <1>1, <1>3 DEF AssignmentRow
  <2> DEFINE new == [rows[b] EXCEPT !.state = "leased", !.token = @ + 1,
                                    !.holder = r.worker, !.ttl = Lease]
  <2>2. served[1] = [rows EXCEPT ![b] = new]
    BY <1>1, <1>3
  <2>3. new \in AssignmentRow
    BY <1>1, <2>1 DEF AssignmentRow, AssignmentStates
  <2>4. /\ new.state = "leased" /\ new.holder = r.worker /\ new.ttl = Lease
        /\ new.token = rows[b].token + 1 /\ new.result = rows[b].result
    BY <1>1 DEF AssignmentRow
  <2> HIDE DEF new
  <2>5. served[1] \in [Assignments -> AssignmentRow]
    BY <1>1, <2>2, <2>3
  <2>6. Granted(r.worker, asg[b], served[1][b])
    BY <1>1, <1>3, <2>2, <2>4 DEF Granted
  <2> QED BY <1>1, <1>3, <2>2, <2>5, <2>6
<1> QED
  BY <1>1, <1>2, <1>3 DEF ServedLease, rows

(* A renewal lengthens one lease, or changes nothing. *)
LEMMA RenewEffect ==
    ASSUME asg \in [Assignments -> AssignmentRow], NEW r, r.on \in Assignments
    PROVE  /\ ServedRenew(r)[1] \in [Assignments -> AssignmentRow]
           /\ \A a \in Assignments : Kept(asg[a], ServedRenew(r)[1][a])
           /\ \/ ServedRenew(r)[2] \in {"lost", "unauthorized"}
              \/ ServedRenew(r)[2] = "ok" /\ ServedRenew(r)[1][r.on].ttl = Lease
<1>1. Lease \in (-Grace)..Lease
  OBVIOUS
<1>2. \A a \in Assignments : asg[a].ttl \in (-Grace)..Lease /\ asg[a].ttl >= asg[a].ttl
                             /\ Lease >= asg[a].ttl
  BY DEF AssignmentRow
<1>3. \A a \in Assignments : Kept(asg[a], asg[a])
  BY <1>2 DEF Kept
<1>4. CASE ~MayRenew(r)
  BY <1>3, <1>4 DEF ServedRenew
<1>5. CASE MayRenew(r)
  <2> DEFINE new == [asg EXCEPT ![r.on].ttl = Lease]
  <2>1. ServedRenew(r)[1] = new /\ ServedRenew(r)[2] = "ok"
    BY <1>5 DEF ServedRenew
  <2>2. new \in [Assignments -> AssignmentRow]
    BY <1>1 DEF AssignmentRow
  <2>3. /\ new[r.on].ttl = Lease /\ new[r.on].state = asg[r.on].state
        /\ new[r.on].token = asg[r.on].token /\ new[r.on].holder = asg[r.on].holder
        /\ new[r.on].result = asg[r.on].result
        /\ \A a \in Assignments \ {r.on} : new[a] = asg[a]
    BY DEF AssignmentRow
  <2> HIDE DEF new
  <2>4. \A a \in Assignments : Kept(asg[a], new[a])
    BY <1>2, <1>3, <2>3 DEF Kept
  <2> QED BY <2>1, <2>2, <2>3, <2>4
<1> QED BY <1>4, <1>5

(* A report finishes the assignment of its lease, or changes nothing. *)
LEMMA CompleteEffect ==
    ASSUME asg \in [Assignments -> AssignmentRow], NEW r, r.on \in Assignments,
           r.outcome \in Outcomes, r.token \in 0..MaxToken
    PROVE  /\ ServedComplete(r)[1] \in [Assignments -> AssignmentRow]
           /\ \A a \in Assignments \ {r.on} : ServedComplete(r)[1][a] = asg[a]
           /\ \/ ServedComplete(r)[1][r.on] = asg[r.on]
              \/ Finished(r.token, asg[r.on], ServedComplete(r)[1][r.on])
           /\ ServedComplete(r)[2] \in {"ok", "lost", "unauthorized"}
<1>1. 0 \in (-Grace)..Lease
  OBVIOUS
<1>2. CASE ~HoldsLease(r)
  BY <1>2 DEF ServedComplete
<1>3. CASE HoldsLease(r)
  <2> DEFINE new == [asg[r.on] EXCEPT !.state = r.outcome, !.holder = NoWorker, !.ttl = 0,
                                      !.result = r.token]
  <2>1. ServedComplete(r)[1] = [asg EXCEPT ![r.on] = new] /\ ServedComplete(r)[2] = "ok"
    BY <1>3 DEF ServedComplete
  <2>2. new \in AssignmentRow
    BY <1>1 DEF AssignmentRow, AssignmentStates
  <2>3. new.state = r.outcome /\ new.result = r.token /\ new.token = asg[r.on].token
    BY DEF AssignmentRow
  <2> HIDE DEF new
  <2> QED BY <1>3, <2>1, <2>2, <2>3 DEF Finished, HoldsLease
<1> QED BY <1>2, <1>3

-----------------------------------------------------------------------------
(* Type correctness. *)

(* Every request an agent has under way is a request. *)
LEMMA RequestType ==
    ASSUME TypeOK, AgentsOK, NEW w \in Workers, agent[w].call # "none"
    PROVE  RequestOf(w) \in Request
BY DEF TypeOK, AgentRow, Request, RequestOf

(* The assignment of a renewal or a report exists. *)
LEMMA RequestOn ==
    ASSUME TypeOK, AgentsOK, ReportsOK, NEW w \in Workers, agent[w].call \in {"renew", "complete"}
    PROVE  agent[w].on \in Assignments
<1>1. agent[w].at \in {"running", "returned", "reporting"}
  BY DEF AgentsOK, ShapeOK
<1> QED BY <1>1 DEF AgentsOK, HeldOK, Holding, ReportsOK, Spent

(* Every step keeps every column and every local in its domain. *)
LEMMA TypeStep == LeaseInv /\ [Next]_vars => TypeOK'
<1> SUFFICES ASSUME LeaseInv, [Next]_vars PROVE TypeOK'
  OBVIOUS
<1>a. /\ TypeOK /\ AgentsOK /\ ReportsOK
      /\ asg \in [Assignments -> AssignmentRow] /\ agent \in [Workers -> AgentRow]
      /\ engine \in [Workers -> EngineRow] /\ late \subseteq Request
  BY DEF LeaseInv, TypeOK
<1>b. ASSUME NEW w \in Workers, NEW row \in AgentRow, agent' = [agent EXCEPT ![w] = row],
             UNCHANGED <<project, asg, revoked, engine, late>>
      PROVE  TypeOK'
  BY <1>a, <1>b DEF TypeOK
<1>c. NoEngine \in EngineRow
  BY DEF NoEngine, EngineRow
<1> USE AgentRows
<1>1. ASSUME NEW w \in Workers, RequestLease(w) PROVE TypeOK'
  <2>1. [Idle EXCEPT !.at = "leasing", !.left = Lease] \in AgentRow
    BY DEF AgentRow
  <2> QED BY <1>b, <1>1, <2>1, AgentUpdates DEF RequestLease, Outcomes
<1>2. ASSUME NEW w \in Workers, LeaseAnswered(w) PROVE TypeOK'
  <2>1. [Answered(agent[w]) EXCEPT !.at = "bound"] \in AgentRow
    <3>1. Answered(agent[w]) \in AgentRow
      BY <1>a, AgentUpdates DEF Outcomes
    <3> QED BY <3>1 DEF AgentRow
  <2>2. \/ agent' = [agent EXCEPT ![w] = [Answered(agent[w]) EXCEPT !.at = "bound"]]
        \/ agent' = [agent EXCEPT ![w] = [Idle EXCEPT !.at = "exited"]]
        \/ agent' = [agent EXCEPT ![w] = Idle]
    BY <1>a, <1>2 DEF LeaseAnswered
  <2> QED BY <1>b, <1>2, <2>1, <2>2 DEF LeaseAnswered
<1>3. ASSUME NEW w \in Workers, NEW matches \in BOOLEAN, CheckBinding(w, matches) PROVE TypeOK'
  <2>1. [agent[w] EXCEPT !.at = "running", !.timer = RenewEvery] \in AgentRow
    BY <1>a, AgentUpdates DEF Outcomes
  <2>2. Reporting(agent[w], "failed") \in AgentRow
    BY <1>a, AgentUpdates DEF Outcomes
  <2>3. [state |-> "running", on |-> agent[w].on, token |-> agent[w].token] \in EngineRow
    BY <1>a DEF EngineRow, AgentRow
  <2>4. agent' \in [Workers -> AgentRow] /\ engine' \in [Workers -> EngineRow]
    BY <1>a, <1>3, <2>1, <2>2, <2>3 DEF CheckBinding
  <2> QED BY <1>a, <1>3, <2>4 DEF CheckBinding, TypeOK
<1>4. ASSUME NEW w \in Workers, RenewLease(w) PROVE TypeOK'
  <2>1. Calling(agent[w], "renew") \in AgentRow
    BY <1>a, AgentUpdates DEF Outcomes
  <2> QED BY <1>b, <1>4, <2>1 DEF RenewLease
<1>5. ASSUME NEW w \in Workers, RenewAnswered(w) PROVE TypeOK'
  <2> DEFINE new == AfterScope(Answered(IF agent[w].answer = "ok" THEN Renewed(agent[w])
                                        ELSE GiveUp(agent[w])))
  <2>1. Renewed(agent[w]) \in AgentRow /\ GiveUp(agent[w]) \in AgentRow
    BY <1>a, AgentUpdates DEF Outcomes
  <2>2. new \in AgentRow
    BY <2>1, AgentUpdates DEF Outcomes
  <2>3. agent' = [agent EXCEPT ![w] = new]
    BY <1>a, <1>5 DEF RenewAnswered
  <2> QED BY <1>b, <1>5, <2>2, <2>3 DEF RenewAnswered
<1>6. ASSUME NEW w \in Workers, NEW outcome \in Outcomes, ExecuteReturns(w, outcome) PROVE TypeOK'
  <2> DEFINE row == [agent[w] EXCEPT !.at = "returned", !.outcome = outcome]
  <2>1. row \in AgentRow
    BY <1>a, AgentUpdates
  <2>2. AfterScope(row) \in AgentRow
    BY <2>1, AgentUpdates
  <2>3. agent' \in [Workers -> AgentRow] /\ engine' \in [Workers -> EngineRow]
    BY <1>a, <1>c, <1>6, <2>1, <2>2 DEF ExecuteReturns
  <2> QED BY <1>a, <1>6, <2>3 DEF ExecuteReturns, TypeOK
<1>7. ASSUME NEW w \in Workers, Report(w) PROVE TypeOK'
  <2>1. Calling(agent[w], "complete") \in AgentRow
    BY <1>a, AgentUpdates DEF Outcomes
  <2> QED BY <1>b, <1>7, <2>1 DEF Report
<1>8. ASSUME NEW w \in Workers, ReportAnswered(w) PROVE TypeOK'
  BY <1>b, <1>8 DEF ReportAnswered
<1>9. ASSUME NEW w \in Workers, CallFails(w) PROVE TypeOK'
  <2>1. Answered(agent[w]) \in AgentRow
    BY <1>a, AgentUpdates DEF Outcomes
  <2>2. RenewFailed(Answered(agent[w])) \in AgentRow
    BY <2>1, AgentUpdates DEF Outcomes
  <2>3. AfterScope(RenewFailed(Answered(agent[w]))) \in AgentRow
    BY <2>2, AgentUpdates DEF Outcomes
  <2>4. agent[w].tries < Retries => [Answered(agent[w]) EXCEPT !.tries = @ + 1] \in AgentRow
    <3>1. Answered(agent[w]).tries = agent[w].tries
      BY <1>a DEF Answered, AgentRow
    <3>2. agent[w].tries < Retries => agent[w].tries + 1 \in 0..Retries
      BY <1>a DEF AgentRow
    <3> QED BY <2>1, <3>1, <3>2 DEF AgentRow
  <2>5. agent[w].call \in {"lease", "renew", "complete"}
    BY <1>a, <1>9 DEF CallFails, AgentRow
  <2>6. agent' \in [Workers -> AgentRow]
    <3> DEFINE fails(r) ==
                 CASE r.call = "lease" -> Idle
                   [] r.call = "renew" -> AfterScope(RenewFailed(Answered(r)))
                   [] r.call = "complete" ->
                        IF r.tries < Retries THEN [Answered(r) EXCEPT !.tries = @ + 1] ELSE Idle
    <3>1. fails(agent[w]) \in AgentRow
      BY <2>3, <2>4, <2>5
    <3>2. agent' = [agent EXCEPT ![w] = fails(agent[w])]
      BY <1>a, <1>9 DEF CallFails
    <3> HIDE DEF fails
    <3> QED BY <1>a, <3>1, <3>2
  <2>7. late' \subseteq Request
    BY <1>a, <1>9, RequestType DEF CallFails
  <2> QED BY <1>a, <1>9, <2>6, <2>7 DEF CallFails, TypeOK
<1>10. ASSUME NEW w \in Workers, Serve(w) PROVE TypeOK'
  <2>0. agent[w].call # "none" /\ RequestOf(w).worker = w /\ RequestOf(w).on = agent[w].on
        /\ RequestOf(w).outcome = agent[w].outcome /\ RequestOf(w).token = agent[w].token
    BY <1>10 DEF Serve, RequestOf
  <2>1. ASSUME NEW served \in ServedLease(RequestOf(w)), asg' = served[1],
               agent' = [agent EXCEPT
                      ![w].answer = served[2], ![w].on = served[3],
                      ![w].token = IF served[2] = "ok" THEN served[1][served[3]].token ELSE 0]
        PROVE  TypeOK'
    <3>1. /\ served[1] \in [Assignments -> AssignmentRow]
          /\ served[2] \in {"ok", "empty", "unauthorized"}
          /\ served[3] \in Assignments \cup {NoAssignment}
          /\ served[2] = "ok" => served[3] \in Assignments
      BY <1>a, <2>0, LeaseEffect
    <3>2. (IF served[2] = "ok" THEN served[1][served[3]].token ELSE 0) \in 0..MaxToken
      BY <3>1 DEF AssignmentRow
    <3> DEFINE t == IF served[2] = "ok" THEN served[1][served[3]].token ELSE 0
               new == [agent[w] EXCEPT !.answer = served[2], !.on = served[3], !.token = t]
    <3> HIDE DEF t
    <3>3. new \in AgentRow
      <4>1. agent[w] \in AgentRow /\ t \in 0..MaxToken
        BY <1>a, <3>2 DEF t
      <4>2. served[2] \in Answers
        BY <3>1 DEF Answers
      <4> QED BY <3>1, <4>1, <4>2 DEF AgentRow
    <3>4. agent' = [agent EXCEPT ![w] = new]
      BY <1>a, <2>1 DEF t
    <3> HIDE DEF new
    <3>5. agent' \in [Workers -> AgentRow]
      BY <1>a, <3>3, <3>4
    <3> QED BY <1>a, <1>10, <2>1, <3>1, <3>5 DEF TypeOK, Serve
  <2>2. CASE agent[w].call = "renew"
    <3>1. /\ asg' = ServedRenew(RequestOf(w))[1]
          /\ agent' = [agent EXCEPT ![w].answer = ServedRenew(RequestOf(w))[2]]
      BY <1>10, <2>2 DEF Serve
    <3>2. /\ ServedRenew(RequestOf(w))[1] \in [Assignments -> AssignmentRow]
          /\ ServedRenew(RequestOf(w))[2] \in {"ok", "lost", "unauthorized"}
      BY <1>a, <2>0, <2>2, RequestOn, RenewEffect
    <3>3. agent' \in [Workers -> AgentRow]
      BY <1>a, <3>1, <3>2 DEF AgentRow, Answers
    <3> QED BY <1>a, <1>10, <3>1, <3>2, <3>3 DEF TypeOK, Serve
  <2>3. CASE agent[w].call = "complete"
    <3>1. /\ asg' = ServedComplete(RequestOf(w))[1]
          /\ agent' = [agent EXCEPT ![w].answer = ServedComplete(RequestOf(w))[2]]
      BY <1>10, <2>3 DEF Serve
    <3>2. agent[w].outcome \in Outcomes /\ agent[w].token \in 0..MaxToken
      BY <1>a DEF AgentRow
    <3>3. /\ ServedComplete(RequestOf(w))[1] \in [Assignments -> AssignmentRow]
          /\ ServedComplete(RequestOf(w))[2] \in {"ok", "lost", "unauthorized"}
      BY <1>a, <2>0, <2>3, <3>2, RequestOn, CompleteEffect
    <3>4. agent' \in [Workers -> AgentRow]
      BY <1>a, <3>1, <3>3 DEF AgentRow, Answers
    <3> QED BY <1>a, <1>10, <3>1, <3>3, <3>4 DEF TypeOK, Serve
  <2> QED BY <1>10, <2>1, <2>2, <2>3 DEF Serve
<1>11. ASSUME NEW r \in late, ServeLate(r) PROVE TypeOK'
  <2>1. /\ r.worker \in Workers /\ r.outcome \in Outcomes /\ r.token \in 0..MaxToken
    BY <1>a DEF Request
  <2>2. r.kind \in {"renew", "complete"} => r.on \in Assignments
    BY <1>a DEF ReportsOK, Spent
  <2>3. asg' \in [Assignments -> AssignmentRow]
    BY <1>a, <1>11, <2>1, <2>2, LeaseEffect, RenewEffect, CompleteEffect DEF ServeLate
  <2> QED BY <1>a, <1>11, <2>3 DEF TypeOK, ServeLate
<1>12. ASSUME NEW w \in Workers, AgentDies(w) PROVE TypeOK'
  <2>1. engine' \in [Workers -> EngineRow]
    BY <1>a, <1>12 DEF AgentDies, EngineRow
  <2>2. agent' \in [Workers -> AgentRow]
    BY <1>a, <1>12 DEF AgentDies
  <2> QED BY <1>a, <1>12, <2>1, <2>2 DEF AgentDies, TypeOK
<1>13. ASSUME NEW w \in Workers, AgentRestarts(w) PROVE TypeOK'
  BY <1>b, <1>13 DEF AgentRestarts
<1>14. ASSUME NEW w \in Workers, OrphanEnds(w) PROVE TypeOK'
  BY <1>a, <1>c, <1>14 DEF OrphanEnds, TypeOK
<1>15. ASSUME NEW w \in Workers, RevokeWorker(w) PROVE TypeOK'
  BY <1>a, <1>15 DEF RevokeWorker, TypeOK
<1>16. ASSUME NEW a \in Assignments, CreateAssignment(a) PROVE TypeOK'
  <2>1. project.revision \in 0..MaxRevision
    BY <1>a DEF TypeOK
  <2>2. asg' \in [Assignments -> AssignmentRow]
    <3> DEFINE new == [asg[a] EXCEPT !.state = "queued", !.revision = project.revision]
    <3>1. new \in AssignmentRow
      BY <1>a, <2>1 DEF AssignmentRow, AssignmentStates
    <3>2. asg' = [asg EXCEPT ![a] = new]
      BY <1>a, <1>16 DEF CreateAssignment
    <3> QED BY <1>a, <3>1, <3>2
  <2> QED BY <1>a, <1>16, <2>2 DEF CreateAssignment, TypeOK
<1>17. ASSUME NEW a \in Assignments, RequeueAssignment(a) PROVE TypeOK'
  <2> DEFINE rows == Reconcile(asg)
             new == [rows[a] EXCEPT !.state = "queued", !.result = 0]
  <2>1. rows \in [Assignments -> AssignmentRow]
    BY <1>a, ReconcileEffect
  <2>2. asg' = [rows EXCEPT ![a].state = "queued", ![a].result = 0]
    BY <1>17 DEF RequeueAssignment
  <2> HIDE DEF rows
  <2>3. new \in AssignmentRow
    BY <2>1 DEF AssignmentRow, AssignmentStates
  <2>4. asg' = [rows EXCEPT ![a] = new]
    BY <2>1, <2>2
  <2>5. asg' \in [Assignments -> AssignmentRow]
    BY <2>1, <2>3, <2>4
  <2> QED BY <1>a, <1>17, <2>5 DEF RequeueAssignment, TypeOK
<1>18. CASE UpdatePlan \/ ApproveProject
  <2>1. project.revision \in 1..MaxRevision /\ project.revision \in 0..MaxRevision
    BY <1>a DEF TypeOK
  <2>2. project' \in [revision : 1..MaxRevision, approved : 0..MaxRevision]
    BY <1>a, <1>18, <2>1 DEF UpdatePlan, ApproveProject, TypeOK
  <2> QED BY <1>a, <1>18, <2>2 DEF UpdatePlan, ApproveProject, TypeOK
<1>19. CASE Tick
  <2>1. agent' \in [Workers -> AgentRow]
    <3> SUFFICES ASSUME NEW w \in Workers PROVE agent'[w] \in AgentRow
      BY <1>19 DEF Tick
    <3> DEFINE r == agent[w]
               age == IF r.call # "none" THEN r.age + 1 ELSE r.age
               left == IF r.left > 0 THEN r.left - 1 ELSE r.left
               timer == IF r.timer > 0 /\ r.call = "none" THEN r.timer - 1 ELSE r.timer
               stopIn == IF r.stopIn > 0 THEN r.stopIn - 1 ELSE r.stopIn
    <3>1. r \in AgentRow
      BY <1>a
    <3>2. r.call # "none" => r.age < HttpTimeout
      BY <1>19 DEF Tick
    <3>3. age \in 0..HttpTimeout /\ left \in 0..Lease /\ timer \in 0..RenewEvery
          /\ stopIn \in 0..StopTime
      BY <3>1, <3>2 DEF AgentRow
    <3>4. agent'[w] = [r EXCEPT !.age = age, !.left = left, !.timer = timer, !.stopIn = stopIn]
      BY <1>19 DEF Tick
    <3> HIDE DEF age, left, timer, stopIn
    <3> QED BY <3>1, <3>3, <3>4 DEF AgentRow
  <2>2. asg' \in [Assignments -> AssignmentRow]
    <3> SUFFICES ASSUME NEW a \in Assignments PROVE asg'[a] \in AssignmentRow
      BY <1>19 DEF Tick
    <3> DEFINE ttl == IF asg[a].state = "leased" /\ asg[a].ttl > -Grace
                      THEN asg[a].ttl - 1 ELSE asg[a].ttl
    <3>1. asg'[a] = [asg[a] EXCEPT !.ttl = ttl]
      BY <1>19 DEF Tick
    <3>2. ttl \in (-Grace)..Lease
      BY <1>a DEF AssignmentRow
    <3> HIDE DEF ttl
    <3> QED BY <1>a, <3>1, <3>2 DEF AssignmentRow
  <2> QED BY <1>a, <1>19, <2>1, <2>2 DEF Tick, TypeOK
<1>20. CASE UNCHANGED vars
  BY <1>a, <1>20 DEF vars, TypeOK
<1> QED
  BY <1>1, <1>2, <1>3, <1>4, <1>5, <1>6, <1>7, <1>8, <1>9, <1>10, <1>11, <1>12, <1>13, <1>14,
     <1>15, <1>16, <1>17, <1>18, <1>19, <1>20 DEF Next, AgentStep

-----------------------------------------------------------------------------
(* What the service's transactions preserve. *)

(* A transaction changes one row in one of these ways; it finishes only a   *)
(* grant that is spent and requeues only an assignment nobody works on.     *)
Change(a, o, n) ==
    \/ Kept(o, n)
    \/ Reclaimed(o, n)
    \/ \E w \in Workers : Granted(w, o, n)
    \/ Finished(o.token, o, n) /\ Spent(a, o.token)
    \/ Queued(o, n) /\ \A w \in Workers : engine[w].on # a

(* The grace is longer than what any run can take to end: a lease somebody  *)
(* works under is never declared expired.                                   *)
LEMMA NotExpired ==
    ASSUME TypeOK, AgentsOK, NEW w \in Workers, Holding(agent[w])
    PROVE  /\ agent[w].on \in Assignments
           /\ asg[agent[w].on].ttl > -Grace
           /\ ~Expired(asg[agent[w].on])
<1> DEFINE r == agent[w]
           row == asg[agent[w].on]
<1>1. r \in AgentRow /\ ShapeOK(r) /\ HeldOK(w, r, asg)
  BY DEF TypeOK, AgentsOK
<1>2. r.on \in Assignments /\ row \in AssignmentRow
  BY <1>1 DEF HeldOK, TypeOK
<1>3. /\ r.age \in 0..HttpTimeout /\ r.stopIn \in 0..StopTime /\ r.timer \in 0..RenewEvery
      /\ row.ttl \in Int
  BY <1>1, <1>2 DEF AgentRow, AssignmentRow
<1>4. r.at = "running" => r.call \in {"none", "renew"}
  BY <1>1 DEF AgentRow, ShapeOK
<1>5. \/ row.ttl + r.age >= Lease
      \/ row.ttl + HttpTimeout >= Lease
      \/ r.stopIn < row.ttl + Grace
      \/ r.timer + HttpTimeout + StopTime < row.ttl + Grace
      \/ (HttpTimeout - r.age) + StopTime < row.ttl + Grace
  BY <1>1, <1>4 DEF HeldOK, Holding
<1> HIDE DEF r, row
<1>6. row.ttl > -Grace
  BY <1>3, <1>5
<1>7. ~(row.ttl <= -Grace)
  BY <1>3, <1>6
<1> QED BY <1>2, <1>6, <1>7 DEF r, row, Expired

(* A lease that is kept, or lengthened, covers what it covered. *)
LEMMA HeldKept ==
    ASSUME NEW w \in Workers, NEW r \in AgentRow, NEW old \in [Assignments -> AssignmentRow],
           NEW new \in [Assignments -> AssignmentRow], HeldOK(w, r, old),
           Holding(r) => Kept(old[r.on], new[r.on])
    PROVE  HeldOK(w, r, new)
<1> SUFFICES ASSUME Holding(r) PROVE HeldOK(w, r, new)
  BY DEF HeldOK
<1>1. r.on \in Assignments
  BY DEF HeldOK
<1>2. old[r.on] \in AssignmentRow /\ new[r.on] \in AssignmentRow
  BY <1>1
<1>3. old[r.on].ttl \in Int /\ new[r.on].ttl \in Int /\ new[r.on].ttl >= old[r.on].ttl
  BY <1>2 DEF AssignmentRow, Kept
<1>4. /\ r.age \in Nat /\ r.left \in Nat /\ r.stopIn \in Nat /\ r.timer \in Nat
  BY DEF AgentRow
<1> DEFINE x == old[r.on].ttl
           y == new[r.on].ttl
<1>5. /\ x + r.age >= Lease => y + r.age >= Lease
      /\ x + HttpTimeout >= Lease => y + HttpTimeout >= Lease
      /\ x >= r.left => y >= r.left
      /\ r.stopIn < x + Grace => r.stopIn < y + Grace
      /\ r.timer + HttpTimeout + StopTime < x + Grace =>
            r.timer + HttpTimeout + StopTime < y + Grace
      /\ (HttpTimeout - r.age) + StopTime < x + Grace =>
            (HttpTimeout - r.age) + StopTime < y + Grace
  BY <1>3, <1>4
<1> QED BY <1>1, <1>5 DEF HeldOK, Kept

(* Whatever rows a transaction changes, agents that wait for nothing keep   *)
(* their leases, engines stay those of the newest grants, and tokens grow.  *)
LEMMA ServiceKeeps ==
    ASSUME LeaseInv, asg' \in [Assignments -> AssignmentRow],
           \A a \in Assignments : Change(a, asg[a], asg'[a])
    PROVE  /\ RowsOK'
           /\ \A w \in Workers : HeldOK(w, agent[w], asg')
           /\ \A w \in Workers : EngineOK(w, engine[w], agent[w], asg')
           /\ \A a \in Assignments : asg'[a].token >= asg[a].token
<1>a. /\ TypeOK /\ AgentsOK /\ agent \in [Workers -> AgentRow]
      /\ asg \in [Assignments -> AssignmentRow]
  BY DEF LeaseInv, TypeOK
<1>b. \A a \in Assignments : /\ asg[a].token \in Nat /\ asg[a].result \in Nat
                             /\ asg[a].token + 1 > 0 /\ asg[a].token + 1 >= asg[a].token
                             /\ asg[a].token >= asg[a].token
  BY <1>a DEF AssignmentRow
<1>1. RowsOK'
  <2> SUFFICES ASSUME NEW a \in Assignments PROVE RowOK(asg'[a])
    BY DEF RowsOK
  <2>1. RowOK(asg[a]) /\ Change(a, asg[a], asg'[a])
    BY DEF LeaseInv, RowsOK
  <2> QED BY <1>b, <2>1 DEF Change, Kept, Reclaimed, Granted, Finished, Queued, RowOK, Outcomes,
                            Expired
<1>2. ASSUME NEW w \in Workers PROVE HeldOK(w, agent[w], asg')
  <2> DEFINE b == agent[w].on
  <2>1. ASSUME Holding(agent[w]) PROVE Kept(asg[b], asg'[b])
    <3>1. b \in Assignments /\ ~Expired(asg[b])
      BY <1>a, <2>1, NotExpired
    <3>2. asg[b].state = "leased" /\ asg[b].token = agent[w].token
      BY <1>a, <2>1 DEF AgentsOK, HeldOK
    <3>3. ~Spent(b, asg[b].token)
      BY <2>1, <3>2 DEF Spent
    <3>4. Change(b, asg[b], asg'[b])
      BY <3>1
    <3> QED BY <3>1, <3>2, <3>3, <3>4 DEF Change, Reclaimed, Granted, Queued
  <2> QED BY <1>a, <2>1, HeldKept DEF AgentsOK
<1>3. ASSUME NEW w \in Workers PROVE EngineOK(w, engine[w], agent[w], asg')
  <2> DEFINE e == engine[w]
  <2>1. EngineOK(w, e, agent[w], asg)
    BY DEF LeaseInv, EnginesOK
  <2>2. ASSUME e.state # "none"
        PROVE  /\ asg'[e.on].token = e.token
               /\ asg'[e.on].state \in {"leased", "needs_reconciliation"}
               /\ asg'[e.on].state = "leased" => asg'[e.on].holder = w
    <3>1. /\ e.on \in Assignments /\ asg[e.on].token = e.token
          /\ asg[e.on].state \in {"leased", "needs_reconciliation"}
          /\ asg[e.on].state = "leased" => asg[e.on].holder = w
      BY <2>1, <2>2 DEF EngineOK
    <3>2. ~Spent(e.on, asg[e.on].token)
      BY <3>1 DEF Spent
    <3>3. Change(e.on, asg[e.on], asg'[e.on])
      BY <3>1
    <3> QED BY <3>1, <3>2, <3>3 DEF Change, Kept, Reclaimed, Granted
  <2> QED BY <2>1, <2>2 DEF EngineOK
<1>4. ASSUME NEW a \in Assignments PROVE asg'[a].token >= asg[a].token
  <2>1. Change(a, asg[a], asg'[a])
    OBVIOUS
  <2> QED BY <1>b, <2>1 DEF Change, Kept, Reclaimed, Granted, Finished, Queued
<1> QED BY <1>1, <1>2, <1>3, <1>4

(* A spent grant stays spent: new work is done under new tokens. *)
LEMMA SpentKept ==
    ASSUME TypeOK, TypeOK', NEW a, NEW t \in 0..MaxToken, Spent(a, t),
           asg'[a].token >= asg[a].token,
           \A w \in Workers : engine'[w].on = a /\ engine'[w].token = t =>
              \/ engine[w].on = a /\ engine[w].token = t
              \/ Holding(agent[w]) /\ agent[w].on = a /\ agent[w].token = t,
           \A w \in Workers : Holding(agent'[w]) /\ agent'[w].on = a /\ agent'[w].token = t =>
              Holding(agent[w]) /\ agent[w].on = a /\ agent[w].token = t
    PROVE  Spent(a, t)'
<1>1. a \in Assignments /\ t <= asg[a].token
  BY DEF Spent
<1>2. asg[a].token \in Nat /\ asg'[a].token \in Nat
  BY <1>1 DEF TypeOK, AssignmentRow
<1>3. t <= asg'[a].token
  BY <1>1, <1>2
<1> QED BY <1>1, <1>3 DEF Spent, Holding

-----------------------------------------------------------------------------
(* The steps. *)

Rest == RowsOK /\ AgentsOK /\ EnginesOK /\ ReportsOK

(* Spent grants are those of finished runs and of their requests. *)
LEMMA ReportsKept ==
    ASSUME LeaseInv, TypeOK', \A a \in Assignments : asg'[a].token >= asg[a].token,
           \A w \in Workers : engine'[w].on # NoAssignment =>
              \/ engine'[w].on = engine[w].on /\ engine'[w].token = engine[w].token
              \/ /\ Holding(agent[w])
                 /\ engine'[w].on = agent[w].on /\ engine'[w].token = agent[w].token,
           \A w \in Workers : Holding(agent'[w]) =>
              \/ /\ Holding(agent[w])
                 /\ agent'[w].on = agent[w].on /\ agent'[w].token = agent[w].token
              \/ /\ agent'[w].on \in Assignments
                 /\ agent'[w].token > asg[agent'[w].on].token,
           \A w \in Workers : agent'[w].at \in {"returned", "reporting"} =>
              \/ /\ agent[w].at \in {"returned", "reporting"}
                 /\ agent'[w].on = agent[w].on /\ agent'[w].token = agent[w].token
              \/ Spent(agent[w].on, agent[w].token)',
           \A r \in late' :
              \/ r \in late
              \/ /\ r.kind = "complete" => \E w \in Workers :
                       agent[w].at = "reporting" /\ r.on = agent[w].on /\ r.token = agent[w].token
                 /\ r.kind = "renew" => r.on \in Assignments
    PROVE  ReportsOK'
<1>a. TypeOK /\ ReportsOK /\ agent \in [Workers -> AgentRow] /\ late \subseteq Request
  BY DEF LeaseInv, TypeOK
<1>b. ASSUME NEW a, NEW t \in 0..MaxToken, Spent(a, t) PROVE Spent(a, t)'
  <2>1. a \in Assignments /\ t <= asg[a].token /\ asg[a].token \in Nat
    BY <1>a, <1>b DEF Spent, TypeOK, AssignmentRow
  <2>2. ~(t > asg[a].token)
    BY <2>1
  <2>3. \A w \in Workers : engine'[w].on = a /\ engine'[w].token = t =>
              \/ engine[w].on = a /\ engine[w].token = t
              \/ Holding(agent[w]) /\ agent[w].on = a /\ agent[w].token = t
    BY <2>1
  <2>4. \A w \in Workers : Holding(agent'[w]) /\ agent'[w].on = a /\ agent'[w].token = t =>
              Holding(agent[w]) /\ agent[w].on = a /\ agent[w].token = t
    BY <2>2
  <2> QED BY <1>a, <1>b, <2>1, <2>3, <2>4, SpentKept
<1>1. ASSUME NEW w \in Workers, agent'[w].at \in {"returned", "reporting"}
      PROVE  Spent(agent[w].on, agent[w].token)'
  <2>1. CASE /\ agent[w].at \in {"returned", "reporting"}
             /\ agent'[w].on = agent[w].on /\ agent'[w].token = agent[w].token
    <3>1. agent[w].token \in 0..MaxToken
      BY <1>a DEF AgentRow
    <3>2. Spent(agent[w].on, agent[w].token)
      BY <1>a, <2>1 DEF ReportsOK
    <3>3. ASSUME NEW a, NEW t, a = agent'[w].on, t = agent'[w].token
          PROVE  Spent(a, t)'
      BY <1>b, <2>1, <3>1, <3>2, <3>3
    <3> QED BY <3>3 DEF Spent
  <2> QED BY <1>1, <2>1
<1>2. ASSUME NEW r \in late', r.kind = "complete" PROVE Spent(r.on, r.token)'
  <2>1. CASE r \in late
    BY <1>a, <1>b, <1>2, <2>1 DEF ReportsOK, Request
  <2>2. ASSUME NEW w \in Workers, agent[w].at = "reporting", r.on = agent[w].on,
               r.token = agent[w].token
        PROVE  Spent(r.on, r.token)'
    <3>1. r.token \in 0..MaxToken
      BY <1>a, <2>2 DEF AgentRow
    <3> QED BY <1>a, <1>b, <2>2, <3>1 DEF ReportsOK
  <2> QED BY <1>2, <2>1, <2>2
<1>3. ASSUME NEW r \in late', r.kind = "renew" PROVE r.on \in Assignments
  BY <1>a, <1>3 DEF ReportsOK
<1> QED BY <1>1, <1>2, <1>3 DEF ReportsOK


(* A step of one agent that neither starts nor ends an engine. *)
LEMMA AgentFrame ==
    ASSUME LeaseInv, TypeOK', NEW w \in Workers, NEW new, agent' = [agent EXCEPT ![w] = new],
           UNCHANGED <<asg, engine>>,
           ShapeOK(new), HeldOK(w, new, asg),
           new.at = "running" <=> agent[w].at = "running",
           Holding(new) => /\ Holding(agent[w])
                           /\ new.on = agent[w].on /\ new.token = agent[w].token,
           new.at \in {"returned", "reporting"} =>
                   /\ agent[w].at \in {"returned", "reporting"}
                   /\ new.on = agent[w].on /\ new.token = agent[w].token,
           \A r \in late' :
              \/ r \in late
              \/ /\ r.kind = "complete" =>
                       agent[w].at = "reporting" /\ r.on = agent[w].on /\ r.token = agent[w].token
                 /\ r.kind = "renew" => r.on \in Assignments
    PROVE  Rest'
<1>a. /\ TypeOK /\ AgentsOK /\ EnginesOK /\ RowsOK /\ agent \in [Workers -> AgentRow]
      /\ asg \in [Assignments -> AssignmentRow]
  BY DEF LeaseInv, TypeOK
<1>b. agent'[w] = new /\ \A v \in Workers \ {w} : agent'[v] = agent[v]
  BY <1>a
<1>1. RowsOK'
  BY <1>a DEF RowsOK
<1>2. AgentsOK'
  BY <1>a, <1>b DEF AgentsOK
<1>3. EnginesOK'
  <2>1. EngineOK(w, engine[w], agent[w], asg)
    BY <1>a DEF EnginesOK
  <2>2. EngineOK(w, engine[w], new, asg)
    BY <2>1 DEF EngineOK, Holding
  <2> QED BY <1>a, <1>b, <2>2 DEF EnginesOK
<1>4. ReportsOK'
  <2>1. \A a \in Assignments : asg'[a].token >= asg[a].token
    BY <1>a DEF AssignmentRow
  <2>2. \A v \in Workers : engine'[v].on = engine[v].on /\ engine'[v].token = engine[v].token
    OBVIOUS
  <2>3. \A v \in Workers : Holding(agent'[v]) =>
              /\ Holding(agent[v])
              /\ agent'[v].on = agent[v].on /\ agent'[v].token = agent[v].token
    BY <1>b
  <2>4. \A v \in Workers : agent'[v].at \in {"returned", "reporting"} =>
              /\ agent[v].at \in {"returned", "reporting"}
              /\ agent'[v].on = agent[v].on /\ agent'[v].token = agent[v].token
    BY <1>b
  <2> QED BY <2>1, <2>2, <2>3, <2>4, ReportsKept
<1> QED BY <1>1, <1>2, <1>3, <1>4 DEF Rest

(* An agent without an assignment satisfies everything. *)
LEMMA IdleOK ==
    ASSUME NEW w \in Workers, NEW r, r \in {Idle, [Idle EXCEPT !.at = "exited"], [Idle EXCEPT !.at = "dead"]}
    PROVE  /\ ShapeOK(r) /\ HeldOK(w, r, asg) /\ ~Holding(r)
           /\ r.at \in {"idle", "exited", "dead"}
BY DEF Idle, ShapeOK, HeldOK, Holding

(* An agent that reports has no lease to keep. *)
LEMMA ReportingOK ==
    ASSUME NEW w \in Workers, NEW row, NEW outcome
    PROVE  LET r == Reporting(row, outcome)
           IN  /\ ShapeOK(r) /\ HeldOK(w, r, asg) /\ ~Holding(r)
               /\ r.at = "reporting" /\ r.on = row.on /\ r.token = row.token
BY DEF Reporting, Idle, ShapeOK, HeldOK, Holding

(* The steps of handle_one outside a run, and the end of the agent. *)
LEMMA QuietSteps ==
    ASSUME LeaseInv, TypeOK', NEW w \in Workers,
           RequestLease(w) \/ LeaseAnswered(w) \/ Report(w) \/ ReportAnswered(w) \/ AgentRestarts(w)
    PROVE  Rest'
<1>a. /\ agent \in [Workers -> AgentRow] /\ asg \in [Assignments -> AssignmentRow]
      /\ ShapeOK(agent[w]) /\ HeldOK(w, agent[w], asg)
  BY DEF LeaseInv, TypeOK, AgentsOK
<1>b. agent[w] \in AgentRow
  BY <1>a
<1>c. agent[w].age \in 0..HttpTimeout /\ agent[w].left \in 0..Lease
  BY <1>b DEF AgentRow
<1>d. ASSUME NEW new \in {Idle, [Idle EXCEPT !.at = "exited"]}, agent' = [agent EXCEPT ![w] = new],
             UNCHANGED <<asg, engine, late>>, agent[w].at # "running"
      PROVE  Rest'
  <2>1. /\ ShapeOK(new) /\ HeldOK(w, new, asg) /\ ~Holding(new)
        /\ new.at \in {"idle", "exited", "dead"}
    BY IdleOK
  <2> QED BY <1>d, <2>1, AgentFrame
<1>1. CASE RequestLease(w)
  <2> DEFINE new == Calling([Idle EXCEPT !.at = "leasing", !.left = Lease], "lease")
  <2>1. /\ new.at = "leasing" /\ new.call = "lease" /\ new.answer = "pending"
        /\ new.left = Lease /\ new.age = 0
    BY DEF Calling, Idle
  <2>2. agent' = [agent EXCEPT ![w] = new] /\ UNCHANGED <<asg, engine, late>>
        /\ agent[w].at = "idle"
    BY <1>1 DEF RequestLease
  <2> HIDE DEF new
  <2>3. ShapeOK(new) /\ HeldOK(w, new, asg) /\ ~Holding(new)
    BY <2>1 DEF ShapeOK, HeldOK, Holding
  <2> QED BY <2>1, <2>2, <2>3, AgentFrame
<1>2. CASE LeaseAnswered(w)
  <2>1. agent[w].at = "leasing" /\ UNCHANGED <<asg, engine, late>>
    BY <1>a, <1>2 DEF LeaseAnswered, ShapeOK
  <2>2. CASE agent[w].answer = "ok"
    <3> DEFINE new == [Answered(agent[w]) EXCEPT !.at = "bound"]
    <3>1. /\ new.at = "bound" /\ new.call = "none" /\ new.on = agent[w].on
          /\ new.token = agent[w].token /\ new.left = agent[w].left
      BY <1>b DEF Answered, AgentRow
    <3>2. agent' = [agent EXCEPT ![w] = new]
      BY <1>a, <1>2, <2>2 DEF LeaseAnswered
    <3> HIDE DEF new
    <3>3. Holding(agent[w])
      BY <2>1, <2>2 DEF Holding
    <3> DEFINE row == asg[agent[w].on]
    <3>4. /\ agent[w].on \in Assignments /\ row.state = "leased" /\ row.holder = w
          /\ row.token = agent[w].token /\ row.ttl + agent[w].age >= Lease
      BY <1>a, <2>1, <3>3 DEF HeldOK
    <3>5. row.ttl \in Int
      BY <1>a, <3>4 DEF AssignmentRow
    <3>6. agent[w].left > 0 => agent[w].left + agent[w].age <= Lease
      BY <1>a, <2>1 DEF ShapeOK
    <3>7. row.ttl + HttpTimeout >= Lease /\ (agent[w].left > 0 => row.ttl >= agent[w].left)
      BY <1>c, <3>4, <3>5, <3>6
    <3>8. ShapeOK(new)
      BY <3>1 DEF ShapeOK
    <3>9. HeldOK(w, new, asg)
      BY <3>1, <3>4, <3>7 DEF HeldOK
    <3> QED BY <2>1, <3>1, <3>2, <3>3, <3>8, <3>9, AgentFrame
  <2>3. CASE agent[w].answer # "ok"
    <3>1. \E new \in {Idle, [Idle EXCEPT !.at = "exited"]} : agent' = [agent EXCEPT ![w] = new]
      BY <1>a, <1>2, <2>3 DEF LeaseAnswered
    <3> QED BY <1>d, <2>1, <3>1
  <2> QED BY <2>2, <2>3
<1>3. CASE Report(w)
  <2> DEFINE new == Calling(agent[w], "complete")
  <2>1. /\ new.at = agent[w].at /\ new.call = "complete" /\ new.on = agent[w].on
        /\ new.token = agent[w].token
    BY <1>b DEF Calling, AgentRow
  <2>2. agent' = [agent EXCEPT ![w] = new] /\ UNCHANGED <<asg, engine, late>>
        /\ agent[w].at = "reporting"
    BY <1>a, <1>3 DEF Report
  <2> HIDE DEF new
  <2>3. ShapeOK(new) /\ HeldOK(w, new, asg) /\ ~Holding(new)
    BY <2>1, <2>2 DEF ShapeOK, HeldOK, Holding
  <2> QED BY <2>1, <2>2, <2>3, AgentFrame
<1>4. CASE ReportAnswered(w)
  <2>1. agent[w].at # "running" /\ UNCHANGED <<asg, engine, late>>
    BY <1>a, <1>4 DEF ReportAnswered, ShapeOK
  <2>2. \E new \in {Idle, [Idle EXCEPT !.at = "exited"]} : agent' = [agent EXCEPT ![w] = new]
    BY <1>a, <1>4 DEF ReportAnswered
  <2> QED BY <1>d, <2>1, <2>2
<1>5. CASE AgentRestarts(w)
  BY <1>d, <1>5 DEF AgentRestarts
<1> QED BY <1>1, <1>2, <1>3, <1>4, <1>5


(* keep_renewing never lets the run outlast the grace: not when it starts a *)
(* renewal, and not when the renewal is granted, refused or lost.           *)
LEMMA RenewSteps ==
    ASSUME LeaseInv, TypeOK', NEW w \in Workers,
           \/ RenewLease(w) \/ RenewAnswered(w)
           \/ CallFails(w) /\ agent[w].call = "renew"
    PROVE  Rest'
<1> DEFINE r == agent[w]
           row == asg[agent[w].on]
<1>a. /\ agent \in [Workers -> AgentRow] /\ asg \in [Assignments -> AssignmentRow]
      /\ ShapeOK(r) /\ HeldOK(w, r, asg) /\ TypeOK /\ AgentsOK /\ ReportsOK
  BY DEF LeaseInv, TypeOK, AgentsOK
<1>b. r \in AgentRow
  BY <1>a
<1>c. /\ r.age \in 0..HttpTimeout /\ r.left \in 0..Lease /\ r.timer \in 0..RenewEvery
      /\ r.stopIn \in 0..StopTime
  BY <1>b DEF AgentRow
<1>d. r.at = "running" => row.ttl \in Int /\ Holding(r) /\ r.on \in Assignments
  BY <1>a DEF HeldOK, Holding, AssignmentRow
<1>1. CASE RenewLease(w)
  <2> DEFINE new == Calling(r, "renew")
  <2>1. /\ new.at = "running" /\ new.call = "renew" /\ new.on = r.on /\ new.token = r.token
        /\ new.left = r.left /\ new.age = 0 /\ new.answer = "pending" /\ new.lost = r.lost
        /\ ~r.lost /\ r.timer = 0 /\ r.at = "running" /\ r.call = "none"
    BY <1>b, <1>1 DEF Calling, AgentRow, RenewLease
  <2>2. agent' = [agent EXCEPT ![w] = new] /\ UNCHANGED <<asg, engine, late>>
    BY <1>a, <1>1 DEF RenewLease
  <2> HIDE DEF new
  <2>3. r.timer + HttpTimeout + StopTime < row.ttl + Grace
    BY <1>a, <1>d, <2>1 DEF HeldOK
  <2>4. (HttpTimeout - new.age) + StopTime < row.ttl + Grace
    BY <1>d, <2>1, <2>3
  <2>5. ShapeOK(new) /\ Holding(new)
    BY <2>1 DEF ShapeOK, Holding
  <2>6. HeldOK(w, new, asg)
    BY <1>a, <1>d, <2>1, <2>4 DEF HeldOK
  <2> QED BY <1>d, <2>1, <2>2, <2>5, <2>6, AgentFrame
<1>2. (* after a renewal the row before AfterScope is in order *)
      ASSUME NEW new \in AgentRow, new.call = "none", new.at = r.at, new.on = r.on,
             new.token = r.token, r.call = "renew",
             r.at = "running" => HeldOK(w, new, asg),
             agent' = [agent EXCEPT ![w] = AfterScope(new)], UNCHANGED <<asg, engine>>,
             \A q \in late' : q \in late \/ (q.kind = "renew" /\ q.on \in Assignments)
      PROVE  Rest'
  <2>1. r.at \in {"running", "returned"}
    BY <1>a, <1>2 DEF ShapeOK
  <2>2. CASE r.at = "running"
    <3>1. AfterScope(new) = new
      BY <1>2, <2>2 DEF AfterScope
    <3>2. ShapeOK(new) /\ Holding(new)
      BY <1>2, <2>2 DEF ShapeOK, Holding
    <3> QED BY <1>2, <1>d, <2>2, <3>1, <3>2, AgentFrame
  <2>3. CASE r.at = "returned" /\ new.lost
    <3>1. AfterScope(new) = Idle
      BY <1>2, <2>3 DEF AfterScope
    <3>2. /\ ShapeOK(Idle) /\ HeldOK(w, Idle, asg) /\ ~Holding(Idle)
          /\ Idle.at \in {"idle", "exited", "dead"}
      BY IdleOK
    <3> HIDE DEF r
    <3> QED BY <1>2, <2>3, <3>1, <3>2, AgentFrame DEF r
  <2>4. CASE r.at = "returned" /\ ~new.lost
    <3> DEFINE rep == Reporting(new, new.outcome)
    <3>1. AfterScope(new) = rep
      BY <1>2, <2>4 DEF AfterScope
    <3>2. /\ ShapeOK(rep) /\ HeldOK(w, rep, asg) /\ ~Holding(rep)
          /\ rep.at = "reporting" /\ rep.on = new.on /\ rep.token = new.token
      BY ReportingOK
    <3> HIDE DEF rep
    <3> QED BY <1>2, <2>4, <3>1, <3>2, AgentFrame
  <2> QED BY <2>1, <2>2, <2>3, <2>4
<1>3. CASE RenewAnswered(w)
  <2>1. r.call = "renew" /\ UNCHANGED <<asg, engine, late>>
    BY <1>3 DEF RenewAnswered
  <2>2. ~r.lost
    BY <1>a, <2>1 DEF ShapeOK
  <2>3. CASE r.answer = "ok"
    <3> DEFINE left == IF Lease > r.age THEN Lease - r.age ELSE 0
               new == Answered(Renewed(r))
    <3>1. new \in AgentRow
      BY <1>b, AgentUpdates DEF Outcomes
    <3>2. /\ new.call = "none" /\ new.at = r.at /\ new.on = r.on /\ new.token = r.token
          /\ new.left = left /\ new.timer = RenewEvery /\ new.lost = r.lost
      BY <1>b DEF Answered, Renewed, AgentRow
    <3>3. agent' = [agent EXCEPT ![w] = AfterScope(new)]
      BY <1>a, <1>3, <2>3 DEF RenewAnswered
    <3> HIDE DEF new
    <3>4. ASSUME r.at = "running" PROVE HeldOK(w, new, asg)
      <4>1. row.ttl + r.age >= Lease /\ row.ttl \in Int
        BY <1>a, <1>d, <2>1, <2>3, <3>4 DEF HeldOK
      <4>2. left > 0 => row.ttl >= left
        BY <1>c, <4>1
      <4>3. RenewEvery + HttpTimeout + StopTime < row.ttl + Grace
        BY <1>c, <4>1
      <4> HIDE DEF left
      <4> QED BY <1>a, <1>d, <2>2, <3>2, <3>4, <4>2, <4>3 DEF HeldOK
    <3> QED BY <1>2, <2>1, <3>1, <3>2, <3>3, <3>4
  <2>4. CASE r.answer # "ok"
    <3> DEFINE new == Answered(GiveUp(r))
    <3>1. new \in AgentRow
      BY <1>b, AgentUpdates DEF Outcomes
    <3>2. /\ new.call = "none" /\ new.at = r.at /\ new.on = r.on /\ new.token = r.token
          /\ new.left = r.left /\ new.stopIn = StopTime /\ new.lost
      BY <1>b DEF Answered, GiveUp, AgentRow
    <3>3. agent' = [agent EXCEPT ![w] = AfterScope(new)]
      BY <1>a, <1>3, <2>4 DEF RenewAnswered
    <3> HIDE DEF new
    <3>4. ASSUME r.at = "running" PROVE HeldOK(w, new, asg)
      <4>1. (HttpTimeout - r.age) + StopTime < row.ttl + Grace
        BY <1>a, <1>d, <2>1, <3>4 DEF HeldOK
      <4>2. StopTime < row.ttl + Grace
        BY <1>c, <1>d, <3>4, <4>1
      <4> QED BY <1>a, <1>d, <3>2, <3>4, <4>2 DEF HeldOK
    <3> QED BY <1>2, <2>1, <3>1, <3>2, <3>3, <3>4
  <2> QED BY <2>3, <2>4
<1>4. CASE CallFails(w) /\ r.call = "renew"
  <2> DEFINE new == RenewFailed(Answered(r))
  <2>0. ~r.lost
    BY <1>a, <1>4 DEF ShapeOK
  <2>1. new \in AgentRow
    <3>1. Answered(r) \in AgentRow
      BY <1>b, AgentUpdates DEF Outcomes
    <3> QED BY <3>1, AgentUpdates DEF Outcomes
  <2>2. /\ new.call = "none" /\ new.at = r.at /\ new.on = r.on /\ new.token = r.token
        /\ new.left = r.left
        /\ \/ new.lost /\ new.stopIn = StopTime
           \/ ~new.lost /\ new.timer = RenewEvery /\ ~(r.left <= RenewEvery)
    BY <1>b, <2>0 DEF RenewFailed, Answered, GiveUp, AgentRow
  <2>3. agent' = [agent EXCEPT ![w] = AfterScope(new)]
    BY <1>a, <1>4 DEF CallFails
  <2> HIDE DEF new
  <2>4. ASSUME r.at = "running" PROVE HeldOK(w, new, asg)
    <3>1. /\ (HttpTimeout - r.age) + StopTime < row.ttl + Grace
          /\ r.left > 0 => row.ttl >= r.left
      BY <1>a, <1>d, <1>4, <2>4 DEF HeldOK
    <3>2. StopTime < row.ttl + Grace
      BY <1>c, <1>d, <2>4, <3>1
    <3>3. ~(r.left <= RenewEvery) => RenewEvery + HttpTimeout + StopTime < row.ttl + Grace
      BY <1>c, <1>d, <2>4, <3>1
    <3> QED BY <1>a, <1>d, <2>2, <2>4, <3>2, <3>3 DEF HeldOK
  <2>5. \A q \in late' : q \in late \/ (q.kind = "renew" /\ q.on \in Assignments)
    <3>1. RequestOf(w).kind = "renew" /\ RequestOf(w).on \in Assignments
      BY <1>a, <1>4, RequestOn DEF RequestOf
    <3> QED BY <1>4, <3>1 DEF CallFails
  <2>6. UNCHANGED <<asg, engine>>
    BY <1>4 DEF CallFails
  <2> QED BY <1>2, <1>4, <2>1, <2>2, <2>3, <2>4, <2>5, <2>6
<1> QED BY <1>1, <1>3, <1>4

(* A lease call or a report that fails is given up or repeated. *)
LEMMA FailSteps ==
    ASSUME LeaseInv, TypeOK', NEW w \in Workers, CallFails(w), agent[w].call # "renew"
    PROVE  Rest'
<1> DEFINE r == agent[w]
<1>a. /\ agent \in [Workers -> AgentRow] /\ ShapeOK(r) /\ r \in AgentRow
  BY DEF LeaseInv, TypeOK, AgentsOK
<1>b. UNCHANGED <<asg, engine>> /\ r.call \in {"lease", "complete"}
  BY <1>a DEF CallFails, AgentRow
<1>c. \A q \in late' : q \in late \/ (q.kind = r.call /\ q.on = r.on /\ q.token = r.token)
  BY DEF CallFails, RequestOf
<1>d. r.at # "running" /\ (r.call = "complete" => r.at = "reporting")
  BY <1>a, <1>b DEF ShapeOK
<1>1. CASE agent' = [agent EXCEPT ![w] = Idle]
  <2>1. /\ ShapeOK(Idle) /\ HeldOK(w, Idle, asg) /\ ~Holding(Idle)
        /\ Idle.at \in {"idle", "exited", "dead"}
    BY IdleOK
  <2> QED BY <1>b, <1>c, <1>d, <1>1, <2>1, AgentFrame
<1>2. CASE r.call = "complete" /\ agent' = [agent EXCEPT ![w] = [Answered(r) EXCEPT !.tries = @ + 1]]
  <2> DEFINE new == [Answered(r) EXCEPT !.tries = @ + 1]
  <2>1. new.at = "reporting" /\ new.call = "none" /\ new.on = r.on /\ new.token = r.token
    BY <1>a, <1>d, <1>2 DEF Answered, AgentRow
  <2> HIDE DEF new
  <2>2. ShapeOK(new) /\ HeldOK(w, new, asg) /\ ~Holding(new)
    BY <2>1 DEF ShapeOK, HeldOK, Holding
  <2>3. agent' = [agent EXCEPT ![w] = new]
    BY <1>2 DEF new
  <2> QED BY <1>b, <1>c, <1>d, <1>2, <2>1, <2>2, <2>3, AgentFrame
<1>3. r.call = "lease" => agent' = [agent EXCEPT ![w] = Idle]
  BY <1>a DEF CallFails
<1>4. r.call = "complete" =>
         agent' = [agent EXCEPT ![w] =
                     IF r.tries < Retries THEN [Answered(r) EXCEPT !.tries = @ + 1] ELSE Idle]
  <2> DEFINE fails(q) ==
               CASE q.call = "lease" -> Idle
                 [] q.call = "renew" -> AfterScope(RenewFailed(Answered(q)))
                 [] q.call = "complete" ->
                      IF q.tries < Retries THEN [Answered(q) EXCEPT !.tries = @ + 1] ELSE Idle
  <2>1. agent' = [agent EXCEPT ![w] = fails(agent[w])]
    BY <1>a DEF CallFails
  <2> QED BY <2>1
<1> QED BY <1>b, <1>1, <1>2, <1>3, <1>4


(* check_binding starts an engine only where none works on the assignment;  *)
(* without one the grant is spent.                                          *)
LEMMA BindingStep ==
    ASSUME LeaseInv, TypeOK', NEW w \in Workers, NEW matches \in BOOLEAN, CheckBinding(w, matches)
    PROVE  Rest'
<1> DEFINE r == agent[w]
           row == asg[agent[w].on]
<1>a. /\ agent \in [Workers -> AgentRow] /\ asg \in [Assignments -> AssignmentRow]
      /\ engine \in [Workers -> EngineRow] /\ TypeOK /\ RowsOK /\ AgentsOK /\ EnginesOK
      /\ ShapeOK(r) /\ HeldOK(w, r, asg) /\ r \in AgentRow /\ r.at = "bound" /\ Holding(r)
  BY DEF LeaseInv, TypeOK, AgentsOK, CheckBinding, Holding
<1>b. UNCHANGED <<asg, late>>
  BY DEF CheckBinding
<1>c. /\ r.on \in Assignments /\ row.state = "leased" /\ row.holder = w /\ row.token = r.token
      /\ row.ttl + HttpTimeout >= Lease /\ (r.left > 0 => row.ttl >= r.left)
      /\ r.token \in 0..MaxToken
  BY <1>a DEF HeldOK, AgentRow
<1>d. \A v \in Workers : engine[v].on # r.on
  <2> SUFFICES ASSUME NEW v \in Workers, engine[v].on = r.on PROVE FALSE
    OBVIOUS
  <2>1. EngineOK(v, engine[v], agent[v], asg) /\ EngineOK(w, engine[w], r, asg)
    BY <1>a DEF EnginesOK
  <2>2. v = w
    BY <1>c, <2>1 DEF EngineOK
  <2> QED BY <1>a, <2>1, <2>2 DEF EngineOK
<1>e. \A v \in Workers \ {w} : ~(Holding(agent[v]) /\ agent[v].on = r.on)
  <2> SUFFICES ASSUME NEW v \in Workers \ {w}, Holding(agent[v]), agent[v].on = r.on PROVE FALSE
    OBVIOUS
  <2>1. HeldOK(v, agent[v], asg)
    BY <1>a DEF AgentsOK
  <2> QED BY <1>c, <2>1 DEF HeldOK
<1>f. \A a \in Assignments : asg'[a].token >= asg[a].token
  BY <1>a, <1>b DEF AssignmentRow
<1>1. CASE matches /\ engine[w].state = "none"
  <2> DEFINE new == [r EXCEPT !.at = "running", !.timer = RenewEvery]
             eng == [state |-> "running", on |-> r.on, token |-> r.token]
  <2>1. agent' = [agent EXCEPT ![w] = new] /\ engine' = [engine EXCEPT ![w] = eng]
    BY <1>a, <1>1 DEF CheckBinding
  <2>2. /\ new.at = "running" /\ new.timer = RenewEvery /\ new.on = r.on /\ new.token = r.token
        /\ new.left = r.left /\ new.call = r.call /\ new.lost = r.lost /\ new.stopIn = r.stopIn
        /\ r.call = "none" /\ r.stopIn \in 0..StopTime /\ r.left \in 0..Lease
    BY <1>a DEF AgentRow, ShapeOK
  <2>3. eng.state = "running" /\ eng.on = r.on /\ eng.token = r.token
    OBVIOUS
  <2> HIDE DEF new, eng
  <2>4. /\ agent'[w] = new /\ engine'[w] = eng
        /\ \A v \in Workers \ {w} : agent'[v] = agent[v] /\ engine'[v] = engine[v]
    BY <1>a, <2>1
  <2>5. ShapeOK(new) /\ Holding(new)
    BY <2>2 DEF ShapeOK, Holding
  <2>6. row.ttl \in Int
    BY <1>a, <1>c DEF AssignmentRow
  <2>7. RenewEvery + HttpTimeout + StopTime < row.ttl + Grace /\ r.stopIn < row.ttl + Grace
    BY <1>c, <2>2, <2>6
  <2>8. HeldOK(w, new, asg)
    BY <1>c, <2>2, <2>7 DEF HeldOK
  <2>9. AgentsOK'
    BY <1>a, <1>b, <2>4, <2>5, <2>8 DEF AgentsOK
  <2>10. EngineOK(w, eng, new, asg)
    BY <1>c, <2>2, <2>3 DEF EngineOK
  <2>11. EnginesOK'
    BY <1>a, <1>b, <1>d, <2>3, <2>4, <2>10 DEF EnginesOK
  <2>12. ReportsOK'
    <3>1. \A v \in Workers : engine'[v].on # NoAssignment =>
              \/ engine'[v].on = engine[v].on /\ engine'[v].token = engine[v].token
              \/ Holding(agent[v]) /\ engine'[v].on = agent[v].on /\ engine'[v].token = agent[v].token
      BY <1>a, <2>3, <2>4
    <3>2. \A v \in Workers : Holding(agent'[v]) =>
              /\ Holding(agent[v])
              /\ agent'[v].on = agent[v].on /\ agent'[v].token = agent[v].token
      BY <1>a, <2>2, <2>4
    <3>3. \A v \in Workers : agent'[v].at \in {"returned", "reporting"} =>
              /\ agent[v].at \in {"returned", "reporting"}
              /\ agent'[v].on = agent[v].on /\ agent'[v].token = agent[v].token
      BY <2>2, <2>4
    <3> QED BY <1>b, <1>f, <3>1, <3>2, <3>3, ReportsKept
  <2> QED BY <1>a, <1>b, <2>9, <2>11, <2>12 DEF Rest, RowsOK
<1>2. CASE ~(matches /\ engine[w].state = "none")
  <2> DEFINE new == Reporting(r, "failed")
  <2>1. agent' = [agent EXCEPT ![w] = new] /\ engine' = engine
    BY <1>a, <1>2 DEF CheckBinding
  <2>2. /\ ShapeOK(new) /\ HeldOK(w, new, asg) /\ ~Holding(new)
        /\ new.at = "reporting" /\ new.on = r.on /\ new.token = r.token
    BY ReportingOK
  <2> HIDE DEF new
  <2>4. /\ agent'[w] = new /\ \A v \in Workers \ {w} : agent'[v] = agent[v]
    BY <1>a, <2>1
  <2>5. AgentsOK'
    BY <1>a, <1>b, <2>2, <2>4 DEF AgentsOK
  <2>6. EngineOK(w, engine[w], new, asg)
    <3>1. EngineOK(w, engine[w], r, asg)
      BY <1>a DEF EnginesOK
    <3> QED BY <1>a, <2>2, <3>1 DEF EngineOK
  <2>7. EnginesOK'
    BY <1>a, <1>b, <2>1, <2>4, <2>6 DEF EnginesOK
  <2>8. Spent(agent[w].on, agent[w].token)'
    <3>1. r.token <= asg[r.on].token
      BY <1>c
    <3> QED BY <1>b, <1>c, <1>d, <1>e, <2>1, <2>2, <2>4, <3>1 DEF Spent
  <2>9. ReportsOK'
    <3>2. \A v \in Workers : Holding(agent'[v]) =>
              /\ Holding(agent[v])
              /\ agent'[v].on = agent[v].on /\ agent'[v].token = agent[v].token
      BY <2>2, <2>4
    <3>3. \A v \in Workers : agent'[v].at \in {"returned", "reporting"} =>
              \/ /\ agent[v].at \in {"returned", "reporting"}
                 /\ agent'[v].on = agent[v].on /\ agent'[v].token = agent[v].token
              \/ Spent(agent[v].on, agent[v].token)'
      BY <2>4, <2>8
    <3> QED BY <1>b, <1>f, <2>1, <3>2, <3>3, ReportsKept
  <2> QED BY <1>a, <1>b, <2>5, <2>7, <2>9 DEF Rest, RowsOK
<1> QED BY <1>1, <1>2

(* A run that returns has no engine left: its grant is spent, and reported  *)
(* unless the lease was lost.                                               *)
LEMMA ReturnStep ==
    ASSUME LeaseInv, TypeOK', NEW w \in Workers, NEW outcome \in Outcomes,
           ExecuteReturns(w, outcome)
    PROVE  Rest'
<1> DEFINE r == agent[w]
           row == asg[agent[w].on]
           ret == [r EXCEPT !.at = "returned", !.outcome = outcome]
<1>a. /\ agent \in [Workers -> AgentRow] /\ asg \in [Assignments -> AssignmentRow]
      /\ engine \in [Workers -> EngineRow] /\ TypeOK /\ RowsOK /\ AgentsOK /\ EnginesOK
      /\ ShapeOK(r) /\ HeldOK(w, r, asg) /\ r \in AgentRow /\ r.at = "running" /\ Holding(r)
  BY DEF LeaseInv, TypeOK, AgentsOK, ExecuteReturns, Holding
<1>b. UNCHANGED <<asg, late>> /\ engine' = [engine EXCEPT ![w] = NoEngine]
  BY DEF ExecuteReturns
<1>c. /\ r.on \in Assignments /\ row.state = "leased" /\ row.holder = w /\ row.token = r.token
      /\ r.token \in 0..MaxToken
  BY <1>a DEF HeldOK, AgentRow
<1>d. /\ EngineOK(w, engine[w], r, asg) /\ engine[w].on = r.on /\ engine[w].token = r.token
      /\ \A v \in Workers \ {w} : engine[v].on # r.on
  BY <1>a, <1>c DEF EnginesOK, EngineOK
<1>e. \A v \in Workers \ {w} : ~(Holding(agent[v]) /\ agent[v].on = r.on)
  <2> SUFFICES ASSUME NEW v \in Workers \ {w}, Holding(agent[v]), agent[v].on = r.on PROVE FALSE
    OBVIOUS
  <2>1. HeldOK(v, agent[v], asg)
    BY <1>a DEF AgentsOK
  <2> QED BY <1>c, <2>1 DEF HeldOK
<1>f. \A a \in Assignments : asg'[a].token >= asg[a].token
  BY <1>a, <1>b DEF AssignmentRow
<1>g. /\ ret.at = "returned" /\ ret.on = r.on /\ ret.token = r.token /\ ret.call = r.call
      /\ ret.lost = r.lost
  BY <1>a DEF AgentRow
<1> HIDE DEF ret
<1>1. ASSUME NEW new, agent' = [agent EXCEPT ![w] = new], ShapeOK(new), ~Holding(new),
             new.at # "running",
             new.at \in {"returned", "reporting"} => new.on = r.on /\ new.token = r.token
      PROVE  Rest'
  <2>1. /\ agent'[w] = new /\ \A v \in Workers \ {w} : agent'[v] = agent[v]
        /\ engine'[w] = NoEngine /\ \A v \in Workers \ {w} : engine'[v] = engine[v]
    BY <1>a, <1>b, <1>1
  <2>2. AgentsOK'
    <3>1. HeldOK(w, new, asg)
      BY <1>1 DEF HeldOK
    <3> QED BY <1>a, <1>b, <1>1, <2>1, <3>1 DEF AgentsOK
  <2>3. EnginesOK'
    <3>1. EngineOK(w, NoEngine, new, asg)
      BY <1>1 DEF EngineOK, NoEngine
    <3>2. NoEngine.on = NoAssignment
      BY DEF NoEngine
    <3> QED BY <1>a, <1>b, <2>1, <3>1, <3>2 DEF EnginesOK
  <2>4. new.at \in {"returned", "reporting"} => Spent(agent[w].on, agent[w].token)'
    <3>1. r.token <= asg[r.on].token /\ NoEngine.on # r.on
      BY <1>c DEF NoEngine
    <3> QED BY <1>b, <1>c, <1>d, <1>e, <1>1, <2>1, <3>1 DEF Spent
  <2>5. ReportsOK'
    <3>1. \A v \in Workers : engine'[v].on # NoAssignment =>
              engine'[v].on = engine[v].on /\ engine'[v].token = engine[v].token
      BY <2>1 DEF NoEngine
    <3>2. \A v \in Workers : Holding(agent'[v]) =>
              /\ Holding(agent[v])
              /\ agent'[v].on = agent[v].on /\ agent'[v].token = agent[v].token
      BY <1>1, <2>1
    <3>3. \A v \in Workers : agent'[v].at \in {"returned", "reporting"} =>
              \/ /\ agent[v].at \in {"returned", "reporting"}
                 /\ agent'[v].on = agent[v].on /\ agent'[v].token = agent[v].token
              \/ Spent(agent[v].on, agent[v].token)'
      BY <2>1, <2>4
    <3> QED BY <1>b, <1>f, <3>1, <3>2, <3>3, ReportsKept
  <2> QED BY <1>a, <1>b, <2>2, <2>3, <2>5 DEF Rest, RowsOK
<1>2. agent' = [agent EXCEPT ![w] = IF ret.call = "renew" THEN ret ELSE AfterScope(ret)]
  BY <1>a DEF ExecuteReturns, ret
<1>3. CASE ret.call = "renew"
  <2>1. ShapeOK(ret) /\ ~Holding(ret)
    BY <1>a, <1>g, <1>3 DEF ShapeOK, Holding
  <2> QED BY <1>1, <1>2, <1>3, <1>g, <2>1
<1>4. CASE ret.call # "renew" /\ ret.lost
  <2>1. AfterScope(ret) = Idle
    BY <1>g, <1>4 DEF AfterScope
  <2>2. ShapeOK(Idle) /\ ~Holding(Idle) /\ Idle.at \in {"idle", "exited", "dead"}
    BY IdleOK
  <2> QED BY <1>1, <1>2, <1>4, <2>1, <2>2
<1>5. CASE ret.call # "renew" /\ ~ret.lost
  <2> DEFINE rep == Reporting(ret, ret.outcome)
  <2>1. AfterScope(ret) = rep
    BY <1>g, <1>5 DEF AfterScope
  <2>2. /\ ShapeOK(rep) /\ ~Holding(rep)
        /\ rep.at = "reporting" /\ rep.on = ret.on /\ rep.token = ret.token
    BY ReportingOK
  <2> HIDE DEF rep
  <2> QED BY <1>1, <1>2, <1>5, <1>g, <2>1, <2>2
<1> QED BY <1>3, <1>4, <1>5


(* An agent that dies leaves its engine behind as an orphan. *)
LEMMA DeathStep ==
    ASSUME LeaseInv, TypeOK', NEW w \in Workers, AgentDies(w) \/ OrphanEnds(w)
    PROVE  Rest'
<1>a. /\ agent \in [Workers -> AgentRow] /\ asg \in [Assignments -> AssignmentRow]
      /\ engine \in [Workers -> EngineRow] /\ TypeOK /\ RowsOK /\ AgentsOK /\ EnginesOK
      /\ EngineOK(w, engine[w], agent[w], asg)
  BY DEF LeaseInv, TypeOK, EnginesOK
<1>b. UNCHANGED <<asg, late>>
  BY DEF AgentDies, OrphanEnds
<1>c. \A v \in Workers \ {w} : agent'[v] = agent[v] /\ engine'[v] = engine[v]
  BY <1>a DEF AgentDies, OrphanEnds
<1>d. \A a \in Assignments : asg'[a].token >= asg[a].token
  BY <1>a, <1>b DEF AssignmentRow
<1>1. /\ ShapeOK(agent'[w]) /\ HeldOK(w, agent'[w], asg)
      /\ \/ agent'[w] = agent[w]
         \/ ~Holding(agent'[w]) /\ agent'[w].at \notin {"returned", "reporting"}
      /\ EngineOK(w, engine'[w], agent'[w], asg)
      /\ engine'[w].on # NoAssignment =>
            engine'[w].on = engine[w].on /\ engine'[w].token = engine[w].token
  <2>1. CASE AgentDies(w)
    <3>1. agent'[w] = [Idle EXCEPT !.at = "dead"]
      BY <1>a, <2>1 DEF AgentDies
    <3>2. /\ engine'[w].on = engine[w].on /\ engine'[w].token = engine[w].token
          /\ engine'[w].state = IF engine[w].state = "running" THEN "orphan" ELSE engine[w].state
      BY <1>a, <2>1 DEF AgentDies, EngineRow
    <3>3. /\ ShapeOK(agent'[w]) /\ HeldOK(w, agent'[w], asg) /\ ~Holding(agent'[w])
          /\ agent'[w].at \in {"idle", "exited", "dead"}
      BY <3>1, IdleOK
    <3>4. EngineOK(w, engine'[w], agent'[w], asg)
      BY <1>a, <3>2, <3>3 DEF EngineOK
    <3> QED BY <3>2, <3>3, <3>4
  <2>2. CASE OrphanEnds(w)
    <3>1. agent' = agent /\ engine'[w] = NoEngine /\ engine[w].state = "orphan"
      BY <1>a, <2>2 DEF OrphanEnds
    <3>2. ShapeOK(agent[w]) /\ HeldOK(w, agent[w], asg)
      BY <1>a DEF AgentsOK
    <3>3. Holding(agent[w]) => agent[w].on # NoAssignment
      BY <3>2 DEF HeldOK
    <3>4. EngineOK(w, NoEngine, agent[w], asg)
      BY <1>a, <3>1, <3>3 DEF EngineOK, NoEngine
    <3> QED BY <3>1, <3>2, <3>4 DEF NoEngine
  <2> QED BY <2>1, <2>2
<1>2. AgentsOK'
  BY <1>a, <1>b, <1>c, <1>1 DEF AgentsOK
<1>3. EnginesOK'
  BY <1>a, <1>b, <1>c, <1>1 DEF EnginesOK
<1>4. ReportsOK'
  <2>1. \A v \in Workers : engine'[v].on # NoAssignment =>
            engine'[v].on = engine[v].on /\ engine'[v].token = engine[v].token
    BY <1>c, <1>1
  <2>2. \A v \in Workers : Holding(agent'[v]) =>
            /\ Holding(agent[v])
            /\ agent'[v].on = agent[v].on /\ agent'[v].token = agent[v].token
    BY <1>c, <1>1
  <2>3. \A v \in Workers : agent'[v].at \in {"returned", "reporting"} =>
            /\ agent[v].at \in {"returned", "reporting"}
            /\ agent'[v].on = agent[v].on /\ agent'[v].token = agent[v].token
    BY <1>c, <1>1
  <2> QED BY <1>b, <1>d, <2>1, <2>2, <2>3, ReportsKept
<1> QED BY <1>a, <1>b, <1>2, <1>3, <1>4 DEF Rest, RowsOK

(* A transaction nobody waits for. *)
LEMMA TableFrame ==
    ASSUME LeaseInv, TypeOK', \A a \in Assignments : Change(a, asg[a], asg'[a]),
           UNCHANGED <<agent, engine>>, late' \subseteq late
    PROVE  Rest'
<1>1. asg' \in [Assignments -> AssignmentRow]
  BY DEF TypeOK
<1>2. /\ RowsOK'
      /\ \A w \in Workers : HeldOK(w, agent[w], asg')
      /\ \A w \in Workers : EngineOK(w, engine[w], agent[w], asg')
      /\ \A a \in Assignments : asg'[a].token >= asg[a].token
  BY <1>1, ServiceKeeps
<1>3. AgentsOK' /\ EnginesOK'
  BY <1>2 DEF LeaseInv, AgentsOK, EnginesOK
<1>4. ReportsOK'
  <2>1. \A r \in late' : r \in late
    OBVIOUS
  <2> QED BY <1>2, <2>1, ReportsKept
<1> QED BY <1>2, <1>3, <1>4 DEF Rest

(* An unchanged row is a kept row. *)
LEMMA SameRow == TypeOK => \A a \in Assignments : Kept(asg[a], asg[a])
BY DEF TypeOK, AssignmentRow, Kept

(* Requests served after their caller gave up change what they may change.  *)
LEMMA LateStep ==
    ASSUME LeaseInv, TypeOK', NEW r \in late, ServeLate(r)
    PROVE  Rest'
<1>a. asg \in [Assignments -> AssignmentRow] /\ r \in Request /\ ReportsOK
      /\ UNCHANGED <<agent, engine>> /\ late' \subseteq late
  BY DEF LeaseInv, TypeOK, ServeLate
<1>b. /\ r.worker \in Workers /\ r.outcome \in Outcomes /\ r.token \in 0..MaxToken
      /\ \A a \in Assignments : Kept(asg[a], asg[a])
  BY <1>a, SameRow DEF Request, LeaseInv
<1>1. CASE r.kind = "lease"
  <2>1. PICK served \in ServedLease(r) : asg' = served[1]
    BY <1>1 DEF ServeLate
  <2>2. \A a \in Assignments : \/ asg'[a] = asg[a] \/ Reclaimed(asg[a], asg'[a])
                               \/ Granted(r.worker, asg[a], asg'[a])
    BY <1>a, <1>b, <2>1, LeaseEffect
  <2>3. \A a \in Assignments : Change(a, asg[a], asg'[a])
    BY <1>b, <2>2 DEF Change
  <2> QED BY <1>a, <2>3, TableFrame
<1>2. CASE r.kind = "renew"
  <2>1. r.on \in Assignments /\ asg' = ServedRenew(r)[1]
    BY <1>a, <1>2 DEF ReportsOK, ServeLate
  <2>2. \A a \in Assignments : Change(a, asg[a], asg'[a])
    BY <1>a, <2>1, RenewEffect DEF Change
  <2> QED BY <1>a, <2>2, TableFrame
<1>3. CASE r.kind = "complete"
  <2>1. Spent(r.on, r.token) /\ r.on \in Assignments /\ asg' = ServedComplete(r)[1]
    BY <1>a, <1>3 DEF ReportsOK, ServeLate, Spent
  <2>2. \A a \in Assignments : asg'[a] = asg[a] \/ (a = r.on /\ Finished(r.token, asg[a], asg'[a]))
    BY <1>a, <1>b, <2>1, CompleteEffect
  <2>3. \A a \in Assignments : Change(a, asg[a], asg'[a])
    BY <1>b, <2>1, <2>2 DEF Change, Finished
  <2> QED BY <1>a, <2>3, TableFrame
<1> QED BY <1>1, <1>2, <1>3 DEF ServeLate

(* create_assignment and requeue_assignment queue only what nobody runs. *)
LEMMA QueueSteps ==
    ASSUME LeaseInv, TypeOK', NEW a \in Assignments, CreateAssignment(a) \/ RequeueAssignment(a)
    PROVE  Rest' /\ \A b \in Assignments : asg'[b].token = asg[b].token /\ asg'[b].result = asg[b].result
<1>a. /\ asg \in [Assignments -> AssignmentRow] /\ EnginesOK /\ TypeOK /\ AgentsOK /\ RowsOK
      /\ \A b \in Assignments : Kept(asg[b], asg[b])
  BY SameRow DEF LeaseInv, TypeOK
<1>b. UNCHANGED <<agent, engine, late>>
  BY DEF CreateAssignment, RequeueAssignment
<1>1. CASE CreateAssignment(a)
  <2>1. /\ asg[a].state = "absent" /\ asg'[a].state = "queued" /\ asg'[a].token = asg[a].token
        /\ asg'[a].result = asg[a].result
        /\ \A b \in Assignments \ {a} : asg'[b] = asg[b]
    BY <1>a, <1>1 DEF CreateAssignment, AssignmentRow
  <2>2. \A w \in Workers : engine[w].on # a
    BY <1>a, <2>1 DEF EnginesOK, EngineOK
  <2>3. \A b \in Assignments : Change(b, asg[b], asg'[b])
    BY <1>a, <2>1, <2>2 DEF Change, Queued
  <2> QED BY <1>b, <2>1, <2>3, TableFrame
<1>2. CASE RequeueAssignment(a)
  <2> DEFINE rows == Reconcile(asg)
  <2>1. /\ rows \in [Assignments -> AssignmentRow]
        /\ \A b \in Assignments : rows[b] = asg[b] \/ Reclaimed(asg[b], rows[b])
    BY <1>a, ReconcileEffect
  <2>2. /\ asg' = [rows EXCEPT ![a].state = "queued", ![a].result = 0]
        /\ rows[a].state = "needs_reconciliation" /\ OperatorChecked(a)
    BY <1>2 DEF RequeueAssignment
  <2> HIDE DEF rows
  <2>3. /\ asg'[a].state = "queued" /\ asg'[a].result = 0 /\ asg'[a].token = rows[a].token
        /\ \A b \in Assignments \ {a} : asg'[b] = rows[b]
    BY <2>1, <2>2 DEF AssignmentRow
  <2>4. asg[a].state = "needs_reconciliation" \/ Expired(asg[a])
    BY <2>1, <2>2 DEF Reclaimed
  <2>5. \A w \in Workers : engine[w].on # a
    <3> SUFFICES ASSUME NEW w \in Workers, engine[w].on = a PROVE FALSE
      OBVIOUS
    <3>1. EngineOK(w, engine[w], agent[w], asg) /\ engine[w].state # "orphan"
      BY <1>a, <2>2 DEF EnginesOK, OperatorChecked
    <3>2. engine[w].state = "running" /\ agent[w].on = a /\ Holding(agent[w])
      BY <1>a, <3>1 DEF EngineOK, Holding, LeaseInv, TypeOK, EngineRow
    <3>3. asg[a].state = "leased" /\ ~Expired(asg[a])
      BY <1>a, <3>2, NotExpired DEF AgentsOK, HeldOK
    <3> QED BY <2>4, <3>3
  <2>6. asg'[a].token = asg[a].token
    BY <2>1, <2>3 DEF Reclaimed
  <2>7. Queued(asg[a], asg'[a])
    BY <2>3, <2>4, <2>6 DEF Queued
  <2>8. \A b \in Assignments : Change(b, asg[b], asg'[b])
    BY <1>a, <2>1, <2>3, <2>5, <2>7 DEF Change
  <2>9. asg[a].result = 0
    BY <1>a, <2>4 DEF RowsOK, RowOK, Expired, Outcomes
  <2>10. \A b \in Assignments : asg'[b].token = asg[b].token /\ asg'[b].result = asg[b].result
    BY <2>1, <2>3, <2>6, <2>9 DEF Reclaimed
  <2> QED BY <1>b, <2>8, <2>10, TableFrame
<1> QED BY <1>1, <1>2


(* A call is served while its agent waits. *)
LEMMA ServeStep ==
    ASSUME LeaseInv, TypeOK', NEW w \in Workers, Serve(w)
    PROVE  Rest'
<1> DEFINE r == agent[w]
           q == RequestOf(w)
<1>a. /\ agent \in [Workers -> AgentRow] /\ asg \in [Assignments -> AssignmentRow]
      /\ asg' \in [Assignments -> AssignmentRow]
      /\ TypeOK /\ RowsOK /\ AgentsOK /\ EnginesOK /\ ReportsOK
      /\ ShapeOK(r) /\ HeldOK(w, r, asg) /\ EngineOK(w, engine[w], r, asg) /\ r \in AgentRow
      /\ \A a \in Assignments : Kept(asg[a], asg[a])
  BY SameRow DEF LeaseInv, TypeOK, AgentsOK, EnginesOK
<1>b. UNCHANGED <<engine, late>> /\ r.answer = "pending" /\ r.call # "none"
  BY DEF Serve
<1>c. /\ q.worker = w /\ q.on = r.on /\ q.token = r.token /\ q.outcome = r.outcome
      /\ r.token \in 0..MaxToken /\ r.outcome \in Outcomes
      /\ r.age \in 0..HttpTimeout /\ r.left \in 0..Lease
  BY <1>a DEF RequestOf, AgentRow
<1> HIDE DEF q
<1>1. ASSUME NEW new, agent' = [agent EXCEPT ![w] = new],
             \A a \in Assignments : Change(a, asg[a], asg'[a]),
             ShapeOK(new), HeldOK(w, new, asg'), EngineOK(w, engine[w], new, asg'),
             Holding(new) => \/ Holding(r) /\ new.on = r.on /\ new.token = r.token
                             \/ new.on \in Assignments /\ new.token > asg[new.on].token,
             new.at = r.at,
             new.at \in {"returned", "reporting"} => new.on = r.on /\ new.token = r.token
      PROVE  Rest'
  <2>1. /\ RowsOK'
        /\ \A v \in Workers : HeldOK(v, agent[v], asg')
        /\ \A v \in Workers : EngineOK(v, engine[v], agent[v], asg')
        /\ \A a \in Assignments : asg'[a].token >= asg[a].token
    BY <1>a, <1>1, ServiceKeeps
  <2>2. /\ agent'[w] = new /\ \A v \in Workers \ {w} : agent'[v] = agent[v]
    BY <1>a, <1>1
  <2>3. AgentsOK'
    BY <1>a, <1>1, <2>1, <2>2 DEF AgentsOK
  <2>4. EnginesOK'
    BY <1>a, <1>b, <1>1, <2>1, <2>2 DEF EnginesOK
  <2>5. ReportsOK'
    <3>1. \A v \in Workers : Holding(agent'[v]) =>
              \/ /\ Holding(agent[v])
                 /\ agent'[v].on = agent[v].on /\ agent'[v].token = agent[v].token
              \/ /\ agent'[v].on \in Assignments
                 /\ agent'[v].token > asg[agent'[v].on].token
      BY <1>1, <2>2
    <3>2. \A v \in Workers : agent'[v].at \in {"returned", "reporting"} =>
              /\ agent[v].at \in {"returned", "reporting"}
              /\ agent'[v].on = agent[v].on /\ agent'[v].token = agent[v].token
      BY <1>1, <2>2
    <3> QED BY <1>b, <2>1, <3>1, <3>2, ReportsKept
  <2> QED BY <2>1, <2>3, <2>4, <2>5 DEF Rest
<1>2. ASSUME r.call = "lease", NEW served \in ServedLease(q), asg' = served[1],
             agent' = [agent EXCEPT
                      ![w].answer = served[2], ![w].on = served[3],
                      ![w].token = IF served[2] = "ok" THEN served[1][served[3]].token ELSE 0]
      PROVE  Rest'
  <2> DEFINE t == IF served[2] = "ok" THEN served[1][served[3]].token ELSE 0
             new == [r EXCEPT !.answer = served[2], !.on = served[3], !.token = t]
  <2>1. \/ /\ served[2] \in {"empty", "unauthorized"} /\ served[3] = NoAssignment
           /\ \A a \in Assignments : asg'[a] = asg[a] \/ Reclaimed(asg[a], asg'[a])
        \/ /\ served[2] = "ok" /\ served[3] \in Assignments
           /\ Granted(w, asg[served[3]], asg'[served[3]])
           /\ \A a \in Assignments \ {served[3]} : asg'[a] = asg[a] \/ Reclaimed(asg[a], asg'[a])
    BY <1>a, <1>c, <1>2, LeaseEffect
  <2>2. \A a \in Assignments : Change(a, asg[a], asg'[a])
    BY <1>a, <2>1 DEF Change
  <2> HIDE DEF t
  <2>3. agent' = [agent EXCEPT ![w] = new]
    BY <1>a, <1>2 DEF t
  <2>4. /\ new.answer = served[2] /\ new.on = served[3] /\ new.token = t /\ new.at = r.at
        /\ new.call = r.call /\ new.left = r.left /\ new.age = r.age /\ new.lost = r.lost
    BY <1>a DEF AgentRow
  <2> HIDE DEF new
  <2>5. new.at = "leasing"
    BY <1>a, <1>2, <2>4 DEF ShapeOK
  <2>6. ShapeOK(new)
    BY <1>a, <2>1, <2>4, <2>5 DEF ShapeOK
  <2>7. ASSUME Holding(new)
        PROVE  /\ new.on \in Assignments /\ asg'[new.on].state = "leased"
               /\ asg'[new.on].holder = w /\ asg'[new.on].token = new.token
               /\ asg'[new.on].ttl = Lease /\ new.token = asg[new.on].token + 1
               /\ asg[new.on].state = "queued"
    <3>1. served[2] = "ok"
      BY <2>4, <2>5, <2>7 DEF Holding
    <3> QED BY <1>2, <2>1, <2>4, <3>1 DEF Granted, t
  <2>8. HeldOK(w, new, asg')
    <3>1. Lease + r.age >= Lease
      BY <1>c
    <3> QED BY <2>4, <2>5, <2>7, <3>1 DEF HeldOK
  <2>9. EngineOK(w, engine[w], new, asg')
    <3>1. EngineOK(w, engine[w], r, asg')
      BY <1>a, <2>2, ServiceKeeps
    <3>2. Holding(new) => engine[w].on # new.on
      BY <1>a, <2>7 DEF EngineOK
    <3> QED BY <2>4, <2>5, <3>1, <3>2 DEF EngineOK
  <2>10. Holding(new) => new.on \in Assignments /\ new.token > asg[new.on].token
    <3>1. \A a \in Assignments : asg[a].token + 1 > asg[a].token
      BY <1>a DEF AssignmentRow
    <3> QED BY <2>7, <3>1
  <2> QED BY <1>1, <2>2, <2>3, <2>4, <2>5, <2>6, <2>8, <2>9, <2>10
<1>3. (* the answer to a renewal or a report leaves the rest of the row alone *)
      ASSUME NEW answer, agent' = [agent EXCEPT ![w].answer = answer],
             r.call \in {"renew", "complete"},
             r.call = "renew" /\ answer = "ok" => asg'[r.on].ttl = Lease,
             \A a \in Assignments : Change(a, asg[a], asg'[a])
      PROVE  Rest'
  <2> DEFINE new == [r EXCEPT !.answer = answer]
  <2>1. agent' = [agent EXCEPT ![w] = new]
    BY <1>a, <1>3
  <2>2. /\ new.answer = answer /\ new.on = r.on /\ new.token = r.token /\ new.at = r.at
        /\ new.call = r.call /\ new.left = r.left /\ new.age = r.age /\ new.lost = r.lost
        /\ new.stopIn = r.stopIn /\ new.timer = r.timer
    BY <1>a DEF AgentRow
  <2> HIDE DEF new
  <2>3. r.at \in {"running", "returned", "reporting"}
    BY <1>a, <1>3 DEF ShapeOK
  <2>4. ShapeOK(new)
    BY <1>a, <1>3, <2>2, <2>3 DEF ShapeOK
  <2>5. Holding(new) <=> Holding(r)
    BY <2>2, <2>3 DEF Holding
  <2>6. HeldOK(w, r, asg') /\ EngineOK(w, engine[w], r, asg')
    BY <1>a, <1>3, ServiceKeeps
  <2>7. HeldOK(w, new, asg')
    <3>1. Lease + r.age >= Lease
      BY <1>c
    <3>2. r.at = "running" => r.call = "renew"
      BY <1>a, <1>3 DEF ShapeOK
    <3> QED BY <1>3, <2>2, <2>3, <2>5, <2>6, <3>1, <3>2 DEF HeldOK
  <2>8. EngineOK(w, engine[w], new, asg')
    BY <2>2, <2>5, <2>6 DEF EngineOK
  <2> QED BY <1>1, <1>3, <2>1, <2>2, <2>4, <2>5, <2>7, <2>8
<1>4. CASE r.call = "renew"
  <2>1. r.on \in Assignments
    BY <1>a, <1>4, RequestOn
  <2>2. asg' = ServedRenew(q)[1] /\ agent' = [agent EXCEPT ![w].answer = ServedRenew(q)[2]]
    BY <1>4 DEF Serve, q
  <2>3. /\ \A a \in Assignments : Kept(asg[a], asg'[a])
        /\ ServedRenew(q)[2] = "ok" => asg'[r.on].ttl = Lease
    BY <1>a, <1>c, <2>1, <2>2, RenewEffect
  <2>4. \A a \in Assignments : Change(a, asg[a], asg'[a])
    BY <2>3 DEF Change
  <2> QED BY <1>3, <1>4, <2>2, <2>3, <2>4
<1>5. CASE r.call = "complete"
  <2>1. r.on \in Assignments /\ Spent(r.on, r.token)
    BY <1>a, <1>5 DEF ReportsOK, Spent, ShapeOK
  <2>2. asg' = ServedComplete(q)[1] /\ agent' = [agent EXCEPT ![w].answer = ServedComplete(q)[2]]
    BY <1>5 DEF Serve, q
  <2>3. \A a \in Assignments : asg'[a] = asg[a] \/ (a = r.on /\ Finished(r.token, asg[a], asg'[a]))
    BY <1>a, <1>c, <2>1, <2>2, CompleteEffect
  <2>4. \A a \in Assignments : Change(a, asg[a], asg'[a])
    BY <1>a, <2>1, <2>3 DEF Change, Finished
  <2> QED BY <1>3, <1>5, <2>2, <2>4
<1> QED BY <1>2, <1>4, <1>5 DEF Serve, q

(* Time runs against the agent and the service alike: the agent's timers,   *)
(* the age of its call and the lease lose one tick together.                *)
LEMMA TickStep == ASSUME LeaseInv, TypeOK', Tick PROVE Rest'
<1>a. /\ agent \in [Workers -> AgentRow] /\ asg \in [Assignments -> AssignmentRow]
      /\ TypeOK /\ RowsOK /\ AgentsOK /\ EnginesOK
  BY DEF LeaseInv, TypeOK
<1>b. UNCHANGED <<engine, late>>
  BY DEF Tick
<1>c. ASSUME NEW a \in Assignments
      PROVE  /\ asg'[a].state = asg[a].state /\ asg'[a].token = asg[a].token
             /\ asg'[a].holder = asg[a].holder /\ asg'[a].result = asg[a].result
             /\ asg'[a].ttl = IF asg[a].state = "leased" /\ asg[a].ttl > -Grace
                              THEN asg[a].ttl - 1 ELSE asg[a].ttl
  BY <1>a DEF Tick, AssignmentRow
<1>d. ASSUME NEW w \in Workers
      PROVE  LET r == agent[w]
                 n == agent'[w]
             IN  /\ n.at = r.at /\ n.on = r.on /\ n.token = r.token /\ n.call = r.call
                 /\ n.answer = r.answer /\ n.lost = r.lost
                 /\ n.age = IF r.call # "none" THEN r.age + 1 ELSE r.age
                 /\ n.left = IF r.left > 0 THEN r.left - 1 ELSE r.left
                 /\ n.timer = IF r.timer > 0 /\ r.call = "none" THEN r.timer - 1 ELSE r.timer
                 /\ n.stopIn = IF r.stopIn > 0 THEN r.stopIn - 1 ELSE r.stopIn
  <2> DEFINE r == agent[w]
             age == IF r.call # "none" THEN r.age + 1 ELSE r.age
             left == IF r.left > 0 THEN r.left - 1 ELSE r.left
             timer == IF r.timer > 0 /\ r.call = "none" THEN r.timer - 1 ELSE r.timer
             stopIn == IF r.stopIn > 0 THEN r.stopIn - 1 ELSE r.stopIn
  <2>1. r \in AgentRow
    BY <1>a
  <2>2. agent'[w] = [r EXCEPT !.age = age, !.left = left, !.timer = timer, !.stopIn = stopIn]
    BY DEF Tick
  <2> HIDE DEF age, left, timer, stopIn
  <2>3. /\ agent'[w].at = r.at /\ agent'[w].on = r.on /\ agent'[w].token = r.token
        /\ agent'[w].call = r.call /\ agent'[w].answer = r.answer /\ agent'[w].lost = r.lost
        /\ agent'[w].age = age /\ agent'[w].left = left /\ agent'[w].timer = timer
        /\ agent'[w].stopIn = stopIn
    BY <2>1, <2>2 DEF AgentRow
  <2> QED BY <2>3 DEF age, left, timer, stopIn
<1>e. \A w \in Workers : Holding(agent'[w]) <=> Holding(agent[w])
  BY <1>d DEF Holding
<1>1. RowsOK'
  BY <1>a, <1>c DEF RowsOK, RowOK
<1>2. ASSUME NEW w \in Workers PROVE ShapeOK(agent'[w])
  <2> DEFINE r == agent[w]
             n == agent'[w]
  <2>1. r.age \in Nat /\ r.left \in Nat /\ ShapeOK(r)
    BY <1>a DEF AgentsOK, AgentRow
  <2>2. r.call = "lease" /\ n.left > 0 => n.left + n.age <= Lease
    BY <1>d, <2>1 DEF ShapeOK
  <2> QED BY <1>d, <2>1, <2>2 DEF ShapeOK
<1>3. ASSUME NEW w \in Workers, Holding(agent[w]) PROVE HeldOK(w, agent'[w], asg')
  <2> DEFINE r == agent[w]
             n == agent'[w]
             x == asg[agent[w].on].ttl
             y == asg'[agent[w].on].ttl
  <2>1. r.on \in Assignments /\ x > -Grace
    BY <1>a, <1>3, NotExpired
  <2>2. HeldOK(w, r, asg) /\ ShapeOK(r) /\ r \in AgentRow
    BY <1>a DEF AgentsOK
  <2>3. asg[r.on].state = "leased" /\ asg[r.on].holder = w /\ asg[r.on].token = r.token
    BY <1>3, <2>2 DEF HeldOK
  <2>4. x \in Int /\ y = x - 1
    BY <1>a, <1>c, <2>1, <2>3 DEF AssignmentRow
  <2>5. /\ r.age \in Nat /\ r.left \in Nat /\ r.timer \in Nat /\ r.stopIn \in Nat
    BY <2>2 DEF AgentRow
  <2>6. /\ r.at # "bound"
        /\ r.at = "running" => IF r.lost THEN r.stopIn > 0 ELSE r.call # "none" \/ r.timer > 0
    BY DEF Tick
  <2>7. /\ r.at = "leasing" => r.call = "lease"
        /\ r.call = "renew" => ~r.lost
    BY <2>2 DEF ShapeOK
  <2>8. /\ n.at = r.at /\ n.on = r.on /\ n.token = r.token /\ n.call = r.call
        /\ n.answer = r.answer /\ n.lost = r.lost
        /\ n.age = IF r.call # "none" THEN r.age + 1 ELSE r.age
        /\ n.left = IF r.left > 0 THEN r.left - 1 ELSE r.left
        /\ n.timer = IF r.timer > 0 /\ r.call = "none" THEN r.timer - 1 ELSE r.timer
        /\ n.stopIn = IF r.stopIn > 0 THEN r.stopIn - 1 ELSE r.stopIn
    BY <1>d
  <2>9. /\ r.at = "leasing" => x + r.age >= Lease
        /\ r.at # "leasing" /\ r.left > 0 => x >= r.left
        /\ r.at = "running" /\ r.lost => r.stopIn < x + Grace
        /\ r.at = "running" /\ ~r.lost /\ r.call = "none" =>
              r.timer + HttpTimeout + StopTime < x + Grace
        /\ r.at = "running" /\ r.call = "renew" => (HttpTimeout - r.age) + StopTime < x + Grace
        /\ r.at = "running" /\ r.call = "renew" /\ r.answer = "ok" => x + r.age >= Lease
    BY <1>3, <2>2 DEF HeldOK
  <2>10. asg'[r.on].state = "leased" /\ asg'[r.on].holder = w /\ asg'[r.on].token = n.token
    BY <1>c, <2>1, <2>3, <2>8
  <2>11. n.at = "leasing" => y + n.age >= Lease
    BY <2>4, <2>5, <2>7, <2>8, <2>9
  <2>12. n.at # "leasing" /\ n.left > 0 => y >= n.left
    BY <2>4, <2>5, <2>8, <2>9
  <2>13. n.at = "running" /\ n.lost => n.stopIn < y + Grace
    BY <2>4, <2>5, <2>6, <2>8, <2>9
  <2>14. n.at = "running" /\ ~n.lost /\ n.call = "none" =>
            n.timer + HttpTimeout + StopTime < y + Grace
    BY <2>4, <2>5, <2>6, <2>8, <2>9
  <2>15. n.at = "running" /\ n.call = "renew" => (HttpTimeout - n.age) + StopTime < y + Grace
    BY <2>4, <2>5, <2>8, <2>9
  <2>16. n.at = "running" /\ n.call = "renew" /\ n.answer = "ok" => y + n.age >= Lease
    BY <2>4, <2>5, <2>8, <2>9
  <2> QED BY <2>1, <2>6, <2>8, <2>10, <2>11, <2>12, <2>13, <2>14, <2>15, <2>16 DEF HeldOK
<1>4. AgentsOK'
  <2>1. \A w \in Workers : HeldOK(w, agent'[w], asg')
    BY <1>3, <1>e DEF HeldOK
  <2> QED BY <1>2, <2>1 DEF AgentsOK
<1>5. EnginesOK'
  <2>1. ASSUME NEW w \in Workers PROVE EngineOK(w, engine[w], agent'[w], asg')
    <3>1. EngineOK(w, engine[w], agent[w], asg)
      BY <1>a DEF EnginesOK
    <3>2. agent'[w].at = agent[w].at /\ agent'[w].on = agent[w].on
          /\ agent'[w].token = agent[w].token
      BY <1>d
    <3> QED BY <1>c, <1>e, <3>1, <3>2 DEF EngineOK
  <2> QED BY <1>a, <1>b, <2>1 DEF EnginesOK
<1>6. ReportsOK'
  <2>1. \A a \in Assignments : asg'[a].token >= asg[a].token
    BY <1>a, <1>c DEF AssignmentRow
  <2>2. \A w \in Workers : agent'[w].at = agent[w].at /\ agent'[w].on = agent[w].on
                           /\ agent'[w].token = agent[w].token
    BY <1>d
  <2> QED BY <1>b, <1>e, <2>1, <2>2, ReportsKept
<1> QED BY <1>1, <1>4, <1>5, <1>6 DEF Rest

-----------------------------------------------------------------------------
(* The inductive invariant. *)

(* The invariant holds throughout. *)
LEMMA LeaseInvariant == Spec => []LeaseInv
<1>1. Init => LeaseInv
  <2> SUFFICES ASSUME Init PROVE LeaseInv
    OBVIOUS
  <2> DEFINE first == [state |-> "absent", token |-> 0, holder |-> NoWorker,
                       ttl |-> 0, revision |-> 0, result |-> 0]
  <2>1. 0 \in 0..MaxToken /\ 0 \in (-Grace)..Lease /\ 0 \in 0..MaxRevision
        /\ 1 \in 1..MaxRevision /\ 1 \in 0..MaxRevision
    OBVIOUS
  <2>2. first \in AssignmentRow /\ NoEngine \in EngineRow
    BY <2>1 DEF AssignmentRow, AssignmentStates, NoEngine, EngineRow
  <2>3. TypeOK
    BY <2>1, <2>2, AgentRows DEF Init, TypeOK
  <2>4. RowsOK /\ AgentsOK
    BY IdleOK DEF Init, RowsOK, RowOK, AgentsOK
  <2>5. EnginesOK /\ ReportsOK
    BY DEF Init, EnginesOK, EngineOK, NoEngine, Idle, Holding, ReportsOK
  <2> QED BY <2>3, <2>4, <2>5 DEF LeaseInv
<1>2. LeaseInv /\ [Next]_vars => LeaseInv'
  <2> SUFFICES ASSUME LeaseInv, [Next]_vars PROVE LeaseInv'
    OBVIOUS
  <2>1. TypeOK'
    BY TypeStep
  <2>2. CASE UNCHANGED <<asg, agent, engine, late>>
    BY <2>1, <2>2 DEF LeaseInv, RowsOK, AgentsOK, EnginesOK, ReportsOK, Spent
  <2>3. CASE Tick
    BY <2>1, <2>3, TickStep DEF LeaseInv, Rest
  <2>4. ASSUME NEW w \in Workers, AgentStep(w) \/ Serve(w) PROVE LeaseInv'
    BY <2>1, <2>4, QuietSteps, RenewSteps, FailSteps, BindingStep, ReturnStep, ServeStep
    DEF AgentStep, LeaseInv, Rest
  <2>5. ASSUME NEW w \in Workers, AgentDies(w) \/ AgentRestarts(w) \/ OrphanEnds(w) PROVE LeaseInv'
    BY <2>1, <2>5, DeathStep, QuietSteps DEF LeaseInv, Rest
  <2>6. ASSUME NEW a \in Assignments, CreateAssignment(a) \/ RequeueAssignment(a) PROVE LeaseInv'
    BY <2>1, <2>6, QueueSteps DEF LeaseInv, Rest
  <2>7. ASSUME NEW r \in late, ServeLate(r) PROVE LeaseInv'
    BY <2>1, <2>7, LateStep DEF LeaseInv, Rest
  <2> QED
    BY <2>2, <2>3, <2>4, <2>5, <2>6, <2>7
    DEF Next, RevokeWorker, UpdatePlan, ApproveProject, vars
<1> QED BY <1>1, <1>2, PTL DEF Spec

(* Every column of the assignments table, every local of an agent and every *)
(* request on the wire stays in its domain.                                 *)
THEOREM LeaseTypeOK == Spec => []TypeOK
BY LeaseInvariant, PTL DEF LeaseInv

(* keep_renewing's local deadline is sound: as long as it has not passed,   *)
(* the service has the lease, under the agent's token, for at least as long.*)
THEOREM BelievedLeaseIsHeldAlways == Spec => []BelievedLeaseIsHeld
<1>1. LeaseInv => BelievedLeaseIsHeld
  BY DEF LeaseInv, AgentsOK, HeldOK, Holding, BelievedLeaseIsHeld
<1> QED BY <1>1, LeaseInvariant, PTL

(* REASSIGN_GRACE_SECONDS is long enough: an engine whose agent lives has   *)
(* ended before reconcile_expired_leases may touch its assignment.          *)
THEOREM EngineEndsInGraceAlways == Spec => []EngineEndsInGrace
<1>1. LeaseInv => EngineEndsInGrace
  <2> SUFFICES ASSUME LeaseInv, NEW w \in Workers, engine[w].state = "running"
               PROVE  /\ asg[engine[w].on].state = "leased"
                      /\ asg[engine[w].on].token = engine[w].token
                      /\ asg[engine[w].on].ttl > -Grace
    BY DEF EngineEndsInGrace
  <2>1. TypeOK /\ AgentsOK /\ EngineOK(w, engine[w], agent[w], asg)
    BY DEF LeaseInv, EnginesOK
  <2>2. Holding(agent[w]) /\ engine[w].on = agent[w].on /\ engine[w].token = agent[w].token
    BY <2>1 DEF EngineOK, Holding
  <2>3. asg[agent[w].on].state = "leased" /\ asg[agent[w].on].token = agent[w].token
    BY <2>1, <2>2 DEF AgentsOK, HeldOK
  <2> QED BY <2>1, <2>2, <2>3, NotExpired
<1> QED BY <1>1, LeaseInvariant, PTL

-----------------------------------------------------------------------------
(* The refinement. *)

Same(b) == asg'[b].token = asg[b].token /\ asg'[b].result = asg[b].result
EnginesSame == \A w \in Workers : engine'[w].on = engine[w].on /\ engine'[w].token = engine[w].token

(* Steps the abstract specification does not see. *)
LEMMA Stutters ==
    ASSUME \A b \in Assignments : Same(b), EnginesSame
    PROVE  UNCHANGED Exclusive!fenced
<1>1. [a \in Assignments |-> asg[a].token]' = [a \in Assignments |-> asg[a].token]
      /\ [a \in Assignments |-> asg[a].result]' = [a \in Assignments |-> asg[a].result]
  BY DEF Same
<1>2. ASSUME NEW a \in Assignments
      PROVE  {engine'[w].token : w \in {v \in Workers : engine'[v].on = a}}
               = {engine[w].token : w \in {v \in Workers : engine[v].on = a}}
  BY DEF EnginesSame
<1> QED BY <1>1, <1>2 DEF Exclusive!fenced

(* A transaction of the service is a grant, a record or invisible. *)
LEMMA ServiceRefines ==
    ASSUME LeaseInv, EnginesSame, NEW b \in Assignments,
           \A a \in Assignments \ {b} : Same(a),
           \/ Same(b)
           \/ \E w \in Workers : Granted(w, asg[b], asg'[b])
           \/ Spent(b, asg[b].token) /\ Finished(asg[b].token, asg[b], asg'[b])
    PROVE  [Exclusive!Next]_(Exclusive!fenced)
<1>a. /\ RowOK(asg[b]) /\ \A w \in Workers : EngineOK(w, engine[w], agent[w], asg)
  BY DEF LeaseInv, RowsOK, EnginesOK
<1> DEFINE running == [a \in Assignments |-> {engine[w].token : w \in {v \in Workers : engine[v].on = a}}]
<1>b. running' = running
  BY DEF EnginesSame
<1>c. (\A w \in Workers : engine[w].on # b) => running[b] = {}
  OBVIOUS
<1>1. CASE Same(b)
  BY <1>1, Stutters
<1>2. ASSUME NEW w \in Workers, Granted(w, asg[b], asg'[b])
      PROVE  Exclusive!Grant(b)
  <2>1. running[b] = {} /\ asg[b].result = 0
    BY <1>a, <1>c, <1>2 DEF EngineOK, Granted, RowOK, Outcomes
  <2>2. /\ [a \in Assignments |-> asg[a].token]'
             = [[a \in Assignments |-> asg[a].token] EXCEPT ![b] = @ + 1]
        /\ [a \in Assignments |-> asg[a].result]' = [a \in Assignments |-> asg[a].result]
    BY <1>2 DEF Granted, Same
  <2> QED BY <1>b, <2>1, <2>2 DEF Exclusive!Grant
<1>3. ASSUME Spent(b, asg[b].token), Finished(asg[b].token, asg[b], asg'[b])
      PROVE  Exclusive!Record(b)
  <2>1. /\ running[b] = {} /\ asg[b].result = 0 /\ asg[b].token > 0
    BY <1>a, <1>c, <1>3 DEF EngineOK, Finished, RowOK, Outcomes, Spent
  <2>2. /\ [a \in Assignments |-> asg[a].token]' = [a \in Assignments |-> asg[a].token]
        /\ [a \in Assignments |-> asg[a].result]'
             = [[a \in Assignments |-> asg[a].result] EXCEPT ![b] = asg[b].token]
    BY <1>3 DEF Finished, Same
  <2> QED BY <1>b, <2>1, <2>2 DEF Exclusive!Record
<1> QED BY <1>1, <1>2, <1>3 DEF Exclusive!Next


(* An engine starts alone, under the newest token. *)
LEMMA StartRefines ==
    ASSUME LeaseInv, NEW w \in Workers, NEW matches \in BOOLEAN, CheckBinding(w, matches)
    PROVE  [Exclusive!Next]_(Exclusive!fenced)
<1> DEFINE b == agent[w].on
           running == [a \in Assignments |-> {engine[v].token : v \in {u \in Workers : engine[u].on = a}}]
<1>a. /\ engine \in [Workers -> EngineRow] /\ asg \in [Assignments -> AssignmentRow]
      /\ AgentsOK /\ RowsOK /\ \A v \in Workers : EngineOK(v, engine[v], agent[v], asg)
  BY DEF LeaseInv, TypeOK, EnginesOK
<1>b. agent[w].at = "bound" /\ Holding(agent[w]) /\ asg' = asg
  BY DEF CheckBinding, Holding
<1>c. /\ b \in Assignments /\ asg[b].state = "leased" /\ asg[b].holder = w
      /\ asg[b].token = agent[w].token /\ asg[b].token > 0
  BY <1>a, <1>b DEF AgentsOK, HeldOK, RowsOK, RowOK
<1>d. \A v \in Workers : engine[v].on # b
  <2> SUFFICES ASSUME NEW v \in Workers, engine[v].on = b PROVE FALSE
    OBVIOUS
  <2>1. v = w
    BY <1>a, <1>c DEF EngineOK
  <2> QED BY <1>a, <1>b, <2>1 DEF EngineOK
<1>1. CASE matches /\ engine[w].state = "none"
  <2> DEFINE eng == [state |-> "running", on |-> b, token |-> agent[w].token]
  <2>1. engine'[w] = eng /\ \A v \in Workers \ {w} : engine'[v] = engine[v]
    BY <1>a, <1>1 DEF CheckBinding
  <2>2. eng.on = b /\ eng.token = asg[b].token
    BY <1>c
  <2>3. engine[w].on = NoAssignment
    BY <1>a, <1>1 DEF EngineOK
  <2> HIDE DEF eng
  <2>4. ASSUME NEW a \in Assignments, a # b
        PROVE  {engine'[v].token : v \in {u \in Workers : engine'[u].on = a}}
                 = {engine[v].token : v \in {u \in Workers : engine[u].on = a}}
    <3>1. \A v \in Workers : engine'[v].on = a <=> engine[v].on = a
      BY <2>1, <2>2, <2>3, <2>4
    <3>2. \A v \in Workers : engine[v].on = a => engine'[v].token = engine[v].token
      BY <2>1, <2>3
    <3> QED BY <3>1, <3>2
  <2>5. {engine'[v].token : v \in {u \in Workers : engine'[u].on = b}} = {asg[b].token}
    BY <1>d, <2>1, <2>2
  <2>6. running' = [running EXCEPT ![b] = {asg[b].token}]
    BY <1>c, <2>4, <2>5
  <2>7. running[b] = {}
    BY <1>c, <1>d
  <2>8. ASSUME NEW c \in Assignments, c = b PROVE Exclusive!Start(c)
    BY <1>b, <1>c, <2>6, <2>7, <2>8 DEF Exclusive!Start
  <2> QED BY <1>c, <2>8 DEF Exclusive!Next
<1>2. CASE ~(matches /\ engine[w].state = "none")
  <2>1. EnginesSame /\ \A a \in Assignments : Same(a)
    BY <1>a, <1>b, <1>2 DEF CheckBinding, EnginesSame, Same
  <2> QED BY <2>1, Stutters
<1> QED BY <1>1, <1>2

(* An engine that ends was the only one of its assignment. *)
LEMMA StopRefines ==
    ASSUME LeaseInv, NEW w \in Workers, engine[w].state # "none", asg' = asg,
           engine' = [engine EXCEPT ![w] = NoEngine]
    PROVE  [Exclusive!Next]_(Exclusive!fenced)
<1> DEFINE b == engine[w].on
           running == [a \in Assignments |-> {engine[v].token : v \in {u \in Workers : engine[u].on = a}}]
<1>a. /\ engine \in [Workers -> EngineRow] /\ EngineOK(w, engine[w], agent[w], asg) /\ EnginesOK
  BY DEF LeaseInv, TypeOK, EnginesOK
<1>b. b \in Assignments
  BY <1>a DEF EngineOK
<1>1. /\ engine'[w].on = NoAssignment /\ \A v \in Workers \ {w} : engine'[v] = engine[v]
  BY <1>a DEF NoEngine
<1>2. \A v \in Workers \ {w} : engine[v].on # b
  BY <1>a, <1>b DEF EnginesOK
<1>3. ASSUME NEW a \in Assignments, a # b
      PROVE  {engine'[v].token : v \in {u \in Workers : engine'[u].on = a}}
               = {engine[v].token : v \in {u \in Workers : engine[u].on = a}}
  <2>1. \A v \in Workers : engine'[v].on = a <=> engine[v].on = a
    BY <1>1, <1>3
  <2>2. \A v \in Workers : engine[v].on = a => engine'[v].token = engine[v].token
    BY <1>1, <1>3
  <2> QED BY <2>1, <2>2
<1>4. {engine'[v].token : v \in {u \in Workers : engine'[u].on = b}} = {}
  BY <1>b, <1>1, <1>2
<1>5. running' = [running EXCEPT ![b] = {}]
  BY <1>b, <1>3, <1>4
<1>6. running[b] # {}
  BY <1>b
<1>7. ASSUME NEW c \in Assignments, c = b PROVE Exclusive!Stop(c)
  BY <1>5, <1>6, <1>7 DEF Exclusive!Stop
<1> QED BY <1>b, <1>7 DEF Exclusive!Next

(* Whatever table a lease call leaves, one row at most is granted. *)
LEMMA ServedRefines ==
    ASSUME LeaseInv, NEW r, EnginesSame,
           \/ r.worker \in Workers /\ \E served \in ServedLease(r) : asg' = served[1]
           \/ r.on \in Assignments /\ asg' = ServedRenew(r)[1]
           \/ /\ Spent(r.on, r.token) /\ r.outcome \in Outcomes /\ r.token \in 0..MaxToken
              /\ asg' = ServedComplete(r)[1]
    PROVE  [Exclusive!Next]_(Exclusive!fenced)
<1>a. asg \in [Assignments -> AssignmentRow]
  BY DEF LeaseInv, TypeOK
<1>b. \A a \in Assignments : asg'[a] = asg[a] \/ Reclaimed(asg[a], asg'[a]) \/ Kept(asg[a], asg'[a])
                               => Same(a)
  BY DEF Same, Reclaimed, Kept
<1>1. ASSUME r.worker \in Workers, NEW served \in ServedLease(r), asg' = served[1]
      PROVE  [Exclusive!Next]_(Exclusive!fenced)
  <2>1. CASE \A a \in Assignments : asg'[a] = asg[a] \/ Reclaimed(asg[a], asg'[a])
    BY <1>b, <2>1, Stutters
  <2>2. CASE /\ served[3] \in Assignments
             /\ Granted(r.worker, asg[served[3]], asg'[served[3]])
             /\ \A a \in Assignments \ {served[3]} : asg'[a] = asg[a] \/ Reclaimed(asg[a], asg'[a])
    BY <1>b, <1>1, <2>2, ServiceRefines
  <2> QED BY <1>a, <1>1, <2>1, <2>2, LeaseEffect
<1>2. CASE r.on \in Assignments /\ asg' = ServedRenew(r)[1]
  <2>1. \A a \in Assignments : Kept(asg[a], asg'[a])
    BY <1>a, <1>2, RenewEffect
  <2> QED BY <1>b, <2>1, Stutters
<1>3. CASE /\ Spent(r.on, r.token) /\ r.outcome \in Outcomes /\ r.token \in 0..MaxToken
           /\ asg' = ServedComplete(r)[1]
  <2>1. r.on \in Assignments
    BY <1>3 DEF Spent
  <2>2. /\ \A a \in Assignments \ {r.on} : asg'[a] = asg[a]
        /\ asg'[r.on] = asg[r.on] \/ Finished(r.token, asg[r.on], asg'[r.on])
    BY <1>a, <1>3, <2>1, CompleteEffect
  <2>3. asg'[r.on] # asg[r.on] =>
           Spent(r.on, asg[r.on].token) /\ Finished(asg[r.on].token, asg[r.on], asg'[r.on])
    BY <1>3, <2>2 DEF Finished
  <2> QED BY <1>b, <2>1, <2>2, <2>3, ServiceRefines
<1> QED BY <1>1, <1>2, <1>3

(* The control plane executes each assignment in epochs that never overlap: *)
(* an engine of a lost, expired or revoked lease has ended before the       *)
(* assignment is handed out again, and a result is recorded once, by the    *)
(* newest lease, for any timing that satisfies LeaseConstants.              *)
THEOREM FencedExecutionImplemented == Spec => ImplementsFencedExecution
<1>1. Init => Exclusive!Init
  <2> SUFFICES ASSUME Init PROVE Exclusive!Init
    OBVIOUS
  <2>1. ASSUME NEW a \in Assignments
        PROVE  {engine[w].token : w \in {v \in Workers : engine[v].on = a}} = {}
    BY DEF Init, NoEngine
  <2>2. /\ [a \in Assignments |-> asg[a].token] = [a \in Assignments |-> 0]
        /\ [a \in Assignments |-> asg[a].result] = [a \in Assignments |-> 0]
    BY DEF Init
  <2> QED BY <2>1, <2>2 DEF Exclusive!Init
<1>2. LeaseInv /\ LeaseInv' /\ [Next]_vars => [Exclusive!Next]_(Exclusive!fenced)
  <2> SUFFICES ASSUME LeaseInv, LeaseInv', [Next]_vars PROVE [Exclusive!Next]_(Exclusive!fenced)
    OBVIOUS
  <2>a. /\ TypeOK /\ TypeOK' /\ AgentsOK /\ ReportsOK /\ agent \in [Workers -> AgentRow]
        /\ engine \in [Workers -> EngineRow] /\ late \subseteq Request
        /\ asg \in [Assignments -> AssignmentRow]
        /\ \A w \in Workers : EngineOK(w, engine[w], agent[w], asg)
    BY DEF LeaseInv, TypeOK, EnginesOK
  <2>b. ASSUME asg' = asg, engine' = engine PROVE [Exclusive!Next]_(Exclusive!fenced)
    BY <2>b, Stutters DEF Same, EnginesSame
  <2>1. ASSUME NEW w \in Workers, AgentStep(w) PROVE [Exclusive!Next]_(Exclusive!fenced)
    <3>1. ASSUME NEW outcome \in Outcomes, ExecuteReturns(w, outcome)
          PROVE  [Exclusive!Next]_(Exclusive!fenced)
      <4>1. engine[w].state # "none" /\ asg' = asg /\ engine' = [engine EXCEPT ![w] = NoEngine]
        BY <2>a, <3>1 DEF ExecuteReturns, EngineOK
      <4> QED BY <4>1, StopRefines
    <3> QED
      BY <2>1, <2>b, <3>1, StartRefines
      DEF AgentStep, RequestLease, LeaseAnswered, RenewLease, RenewAnswered, Report, ReportAnswered,
          CallFails
  <2>2. ASSUME NEW w \in Workers, Serve(w) PROVE [Exclusive!Next]_(Exclusive!fenced)
    <3> DEFINE q == RequestOf(w)
    <3>1. /\ q.worker = w /\ q.on = agent[w].on /\ q.token = agent[w].token
          /\ q.outcome = agent[w].outcome /\ agent[w].token \in 0..MaxToken
          /\ agent[w].outcome \in Outcomes
      BY <2>a DEF RequestOf, AgentRow
    <3>2. agent[w].call = "complete" => Spent(q.on, q.token)
      BY <2>a, <3>1 DEF ReportsOK, AgentsOK, ShapeOK
    <3>3. agent[w].call = "renew" => q.on \in Assignments
      BY <2>a, <3>1, RequestOn
    <3>4. EnginesSame
      BY <2>2 DEF Serve, EnginesSame
    <3>5. \/ \E served \in ServedLease(q) : asg' = served[1]
          \/ agent[w].call = "renew" /\ asg' = ServedRenew(q)[1]
          \/ agent[w].call = "complete" /\ asg' = ServedComplete(q)[1]
      BY <2>2 DEF Serve
    <3> HIDE DEF q
    <3> QED BY <3>1, <3>2, <3>3, <3>4, <3>5, ServedRefines
  <2>3. ASSUME NEW r \in late, ServeLate(r) PROVE [Exclusive!Next]_(Exclusive!fenced)
    <3>1. r.worker \in Workers /\ r.outcome \in Outcomes /\ r.token \in 0..MaxToken
      BY <2>a DEF Request
    <3>2. /\ r.kind = "renew" => r.on \in Assignments
          /\ r.kind = "complete" => Spent(r.on, r.token)
      BY <2>a DEF ReportsOK
    <3>3. EnginesSame
      BY <2>3 DEF ServeLate, EnginesSame
    <3> QED BY <2>3, <3>1, <3>2, <3>3, ServedRefines DEF ServeLate
  <2>4. ASSUME NEW w \in Workers, AgentDies(w) PROVE [Exclusive!Next]_(Exclusive!fenced)
    <3>1. EnginesSame
      BY <2>a, <2>4 DEF AgentDies, EnginesSame, EngineRow
    <3> QED BY <2>4, <3>1, Stutters DEF AgentDies, Same
  <2>5. ASSUME NEW w \in Workers, OrphanEnds(w) PROVE [Exclusive!Next]_(Exclusive!fenced)
    BY <2>5, StopRefines DEF OrphanEnds
  <2>6. ASSUME NEW a \in Assignments, CreateAssignment(a) \/ RequeueAssignment(a)
        PROVE  [Exclusive!Next]_(Exclusive!fenced)
    <3>1. \A b \in Assignments : Same(b)
      BY <2>a, <2>6, QueueSteps DEF Same
    <3> QED BY <2>6, <3>1, Stutters DEF CreateAssignment, RequeueAssignment, EnginesSame
  <2>7. CASE Tick
    <3>1. \A b \in Assignments : Same(b)
      BY <2>a, <2>7 DEF Tick, Same, AssignmentRow
    <3> QED BY <2>7, <3>1, Stutters DEF Tick, EnginesSame
  <2> QED
    BY <2>b, <2>1, <2>2, <2>3, <2>4, <2>5, <2>6, <2>7
    DEF Next, AgentRestarts, RevokeWorker, UpdatePlan, ApproveProject, vars
<1> QED BY <1>1, <1>2, LeaseInvariant, PTL DEF Spec, ImplementsFencedExecution, Exclusive!Spec
=============================================================================
