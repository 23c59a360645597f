---------------------------- MODULE OutboxProofs ----------------------------
(***************************************************************************)
(* Proofs about Outbox for every set of events, endpoints and deliverers   *)
(* and every number of attempts.  The safety properties follow from one    *)
(* inductive invariant: who posts a delivery holds an unexpired lease on   *)
(* it, and every request beyond the counted attempts is the one in flight. *)
(***************************************************************************)
EXTENDS Outbox, TLAPS

InFlight == {"posting", "marking"}

(* A round works for an endpoint, and its URL resolves to that endpoint or  *)
(* to one the URL file was given since; before it binds, it enqueues a      *)
(* snapshot.                                                                *)
RoundOK ==
    \A d \in Deliverers :
        /\ worker[d].at # "idle" =>
              /\ worker[d].to \in Endpoints /\ worker[d].url \in Endpoints
              /\ worker[d].url = worker[d].to \/ <<worker[d].to, worker[d].url>> \in rotated
        /\ worker[d].at = "enqueueing" => worker[d].on \in Ids

(* A process that posts, or is about to record the outcome, owns the lease  *)
(* of its delivery, and the lease has counted down no more than the request *)
(* has aged.                                                                *)
LeaseHeld ==
    \A d \in Deliverers : worker[d].at \in InFlight =>
        /\ worker[d].on \in Ids
        /\ rows[worker[d].on].state = "delivering"
        /\ rows[worker[d].on].owner = d
        /\ rows[worker[d].on].endpoint = worker[d].to
        /\ rows[worker[d].on].lease + worker[d].age >= Lease

(* A positive answer is on its way into the ledger only when the delivery   *)
(* was accepted.                                                            *)
AcceptedOK ==
    \A d \in Deliverers : worker[d].at = "marking" /\ worker[d].ok =>
        received[worker[d].on] # {}

(* Every request but the one of the current lease is a counted attempt.     *)
CountOK ==
    \A i \in Ids :
        /\ rows[i].state = "absent" => rows[i].endpoint = None
        /\ rows[i].state # "dead_letter" => rows[i].attempts < MaxAttempts
        /\ posts[i] <= rows[i].attempts
                          + (IF rows[i].state \in {"delivering", "delivered"} THEN 1 ELSE 0)

OutboxInv ==
    /\ TypeOK
    /\ RoundOK
    /\ LeaseHeld
    /\ AcceptedOK
    /\ CountOK
    /\ StraysOnlyByRotation

(* The bounds, one by one. *)
LEMMA Bounds ==
    /\ MaxAttempts \in Nat /\ MaxAttempts > 0 /\ Lease \in Nat /\ PostBudget \in Nat
    /\ MaxBackoff \in Nat /\ PostBudget < Lease /\ MaxFaults \in Nat
    /\ None \notin Endpoints /\ None \notin Deliverers
BY OutboxConstants

USE Bounds

RowType == [state : RowStates, endpoint : Endpoints \cup {None}, attempts : 0..MaxAttempts,
            owner : Deliverers \cup {None}, lease : 0..Lease, wait : 0..MaxBackoff]
WorkerType == [at : {"idle", "enqueueing", "binding", "claiming", "posting", "marking"},
               to : Endpoints \cup {None}, url : Endpoints \cup {None},
               on : Ids \cup {None}, ok : BOOLEAN, age : 0..PostBudget]

(* A failed attempt is counted, keeps the row's endpoint, and gives the     *)
(* delivery up when it was the last one.                                    *)
LEMMA FailedRow ==
    ASSUME NEW row \in RowType, row.attempts < MaxAttempts, NEW delay \in 0..MaxBackoff
    PROVE  /\ Failed(row, delay) \in RowType
           /\ Failed(row, delay).attempts = row.attempts + 1
           /\ Failed(row, delay).endpoint = row.endpoint
           /\ Failed(row, delay).owner = None
           /\ Failed(row, delay).state \in {"queued", "dead_letter"}
           /\ Failed(row, delay).state = "queued" => row.attempts + 1 < MaxAttempts
<1>1. row.attempts + 1 \in 0..MaxAttempts /\ 0 \in 0..Lease
  BY DEF RowType
<1>2. Failed(row, delay) \in RowType
  BY <1>1 DEF Failed, RowType, RowStates
<1> QED BY <1>1, <1>2 DEF Failed, RowType

(* The reclaiming statement touches expired leases only: every other row,   *)
(* in particular one that is being posted, stays as it is.                  *)
LEMMA ReclaimedRows ==
    ASSUME TypeOK, CountOK, NEW e
    PROVE  /\ Reclaimed(e) \in [Ids -> RowType]
           /\ \A i \in Ids :
                 \/ Reclaimed(e)[i] = rows[i]
                 \/ /\ rows[i].state = "delivering" /\ rows[i].lease = 0
                    /\ Reclaimed(e)[i] = Failed(rows[i], 0)
<1>1. \A i \in Ids : rows[i] \in RowType
  BY DEF TypeOK, RowType
<1>2. \A i \in Ids : rows[i].state = "delivering" => Failed(rows[i], 0) \in RowType
  BY <1>1, FailedRow DEF CountOK
<1> QED BY <1>1, <1>2 DEF Reclaimed

(* Every step keeps every column and every local in its domain. *)
LEMMA TypeStep == TypeOK /\ RoundOK /\ CountOK /\ LeaseHeld /\ [Next]_vars => TypeOK'
<1> SUFFICES ASSUME TypeOK, RoundOK, CountOK, LeaseHeld, [Next]_vars PROVE TypeOK'
  OBVIOUS
<1> DEFINE Typed == /\ rows \in [Ids -> RowType] /\ worker \in [Deliverers -> WorkerType]
                    /\ received \in [Ids -> SUBSET Endpoints] /\ posts \in [Ids -> Nat]
                    /\ faults \in 0..MaxFaults /\ rotated \subseteq Endpoints \X Endpoints
<1>a. Typed
  BY DEF TypeOK, RowType, WorkerType
<1>b. SUFFICES Typed'
  BY DEF TypeOK, RowType, WorkerType
<1>c. IdleWorker \in WorkerType /\ 0 \in 0..PostBudget /\ Lease \in 0..Lease
  BY DEF IdleWorker, WorkerType
<1>1. ASSUME NEW e \in Events, Emit(e) PROVE Typed'
  <2>1. rows' \in [Ids -> RowType]
    BY <1>a, <1>1 DEF Emit, Ids, RowType, RowStates
  <2> QED BY <1>a, <1>1, <2>1 DEF Emit
<1>2. ASSUME NEW d \in Deliverers, NEW e \in Endpoints, NEW s \in Statuses, ReadStatus(d, e, s)
      PROVE Typed'
  <2>1. <<e, s>> \in Ids
    BY DEF Ids, Snapshots
  <2>2. worker' \in [Deliverers -> WorkerType]
    <3>1. [worker[d] EXCEPT !.at = "enqueueing", !.to = e, !.url = e, !.on = <<e, s>>] \in WorkerType
      BY <1>a, <2>1 DEF WorkerType
    <3>2. worker' = [worker EXCEPT ![d] =
                       [worker[d] EXCEPT !.at = "enqueueing", !.to = e, !.url = e, !.on = <<e, s>>]]
      BY <1>a, <1>2 DEF ReadStatus
    <3> QED BY <1>a, <3>1, <3>2
  <2> QED BY <1>a, <1>2, <2>2 DEF ReadStatus
<1>3. ASSUME NEW d \in Deliverers, Enqueue(d) PROVE Typed'
  <2>1. worker[d].on \in Ids /\ worker[d].to \in Endpoints
    BY <1>3 DEF RoundOK, Enqueue
  <2>2. rows[worker[d].on] \in RowType
    BY <1>a, <2>1
  <2>3. [rows[worker[d].on] EXCEPT !.state = "queued", !.endpoint = worker[d].to] \in RowType
    BY <2>1, <2>2 DEF RowType, RowStates
  <2>4. rows' \in [Ids -> RowType]
    BY <1>a, <1>3, <2>1, <2>2, <2>3 DEF Enqueue
  <2>5. worker' \in [Deliverers -> WorkerType]
    <3>1. [worker[d] EXCEPT !.at = "binding", !.on = None] \in WorkerType
      BY <1>a DEF WorkerType
    <3>2. worker' = [worker EXCEPT ![d] = [worker[d] EXCEPT !.at = "binding", !.on = None]]
      BY <1>a, <1>3 DEF Enqueue
    <3> QED BY <1>a, <3>1, <3>2
  <2> QED BY <1>a, <1>3, <2>4, <2>5 DEF Enqueue
<1>4. ASSUME NEW d \in Deliverers, Bind(d) PROVE Typed'
  <2>1. worker[d].to \in Endpoints
    BY <1>4 DEF RoundOK, Bind
  <2>2. \A i \in Ids : [rows[i] EXCEPT !.endpoint = worker[d].to] \in RowType
    BY <1>a, <2>1 DEF RowType
  <2>3. rows' \in [Ids -> RowType]
    BY <1>a, <1>4, <2>2 DEF Bind
  <2>4. worker' \in [Deliverers -> WorkerType]
    BY <1>a, <1>4 DEF Bind, WorkerType
  <2> QED BY <1>a, <1>4, <2>3, <2>4 DEF Bind
<1>5. ASSUME NEW d \in Deliverers, Claim(d) PROVE Typed'
  <2> DEFINE rec == Reclaimed(worker[d].to)
  <2>1. rec \in [Ids -> RowType]
    BY ReclaimedRows
  <2>2. CASE rows' = rec /\ worker' = [worker EXCEPT ![d] = IdleWorker]
             /\ UNCHANGED <<posts, received, faults, rotated>>
    BY <1>a, <1>c, <2>1, <2>2
  <2>3. ASSUME NEW i \in Ids,
               rows' = [rec EXCEPT ![i].state = "delivering", ![i].owner = d, ![i].lease = Lease],
               worker' = [worker EXCEPT ![d].at = "posting", ![d].on = i, ![d].age = 0],
               posts' = [posts EXCEPT ![i] = @ + 1], UNCHANGED <<received, faults, rotated>>
        PROVE Typed'
    <3> HIDE DEF rec
    <3>1. rows' \in [Ids -> RowType]
      <4>1. [rec[i] EXCEPT !.state = "delivering", !.owner = d, !.lease = Lease] \in RowType
        BY <1>c, <2>1 DEF RowType, RowStates
      <4>2. rows' = [rec EXCEPT ![i] =
                       [rec[i] EXCEPT !.state = "delivering", !.owner = d, !.lease = Lease]]
        BY <2>1, <2>3
      <4> QED BY <2>1, <4>1, <4>2
    <3>2. worker' \in [Deliverers -> WorkerType]
      BY <1>a, <1>c, <2>3 DEF WorkerType
    <3>3. posts' \in [Ids -> Nat]
      BY <1>a, <2>3
    <3> QED BY <1>a, <2>3, <3>1, <3>2, <3>3
  <2> QED BY <1>5, <2>2, <2>3 DEF Claim
<1>6. ASSUME NEW d \in Deliverers, NEW accepted \in BOOLEAN, NEW answered \in BOOLEAN,
             Post(d, accepted, answered)
      PROVE Typed'
  <2>1. worker[d].on \in Ids /\ worker[d].url \in Endpoints
    BY <1>6 DEF Post, RoundOK, LeaseHeld, InFlight
  <2>2. received' \in [Ids -> SUBSET Endpoints]
    BY <1>a, <1>6, <2>1 DEF Post
  <2>3. worker' \in [Deliverers -> WorkerType]
    <3>a. worker[d] \in WorkerType
      BY <1>a
    <3>1. [worker[d] EXCEPT !.at = "marking", !.ok = answered] \in WorkerType
      BY <3>a DEF WorkerType
    <3>2. worker' = [worker EXCEPT ![d] = [worker[d] EXCEPT !.at = "marking", !.ok = answered]]
      BY <1>a, <1>6 DEF Post
    <3> QED BY <1>a, <3>1, <3>2
  <2>4. faults' \in 0..MaxFaults
    BY <1>a, <1>6 DEF Post
  <2> QED BY <1>a, <1>6, <2>2, <2>3, <2>4 DEF Post
<1>7. ASSUME NEW d \in Deliverers, NEW delay \in 1..MaxBackoff, Mark(d, delay) PROVE Typed'
  <2> DEFINE i == worker[d].on
  <2>1. i \in Ids /\ worker[d].to \in Endpoints /\ rows[i].attempts < MaxAttempts
    BY <1>7 DEF Mark, RoundOK, LeaseHeld, InFlight, CountOK
  <2>2. rows[i] \in RowType /\ 0 \in 0..Lease /\ delay \in 0..MaxBackoff
    BY <1>a, <2>1
  <2>3. [rows[i] EXCEPT !.state = "delivered", !.owner = None, !.lease = 0] \in RowType
    BY <2>2 DEF RowType, RowStates
  <2>4. Failed(rows[i], delay) \in RowType
    BY <2>1, <2>2, FailedRow
  <2>5. rows' \in [Ids -> RowType]
    BY <1>a, <1>7, <2>1, <2>3, <2>4 DEF Mark
  <2>a. worker[d] \in WorkerType
    BY <1>a
  <2>6. [worker[d] EXCEPT !.at = "claiming", !.on = None, !.ok = FALSE, !.age = 0] \in WorkerType
    BY <1>c, <2>a DEF WorkerType
  <2>7. worker' \in [Deliverers -> WorkerType]
    BY <1>a, <1>c, <1>7, <2>6 DEF Mark
  <2> QED BY <1>a, <1>7, <2>5, <2>7 DEF Mark
<1>8. ASSUME NEW d \in Deliverers, Crash(d) PROVE Typed'
  <2>1. worker' \in [Deliverers -> WorkerType]
    BY <1>a, <1>c, <1>8 DEF Crash
  <2>2. faults' \in 0..MaxFaults
    BY <1>a, <1>8 DEF Crash
  <2> QED BY <1>a, <1>8, <2>1, <2>2 DEF Crash
<1>9. CASE Tick
  <2>1. \A n \in Nat : /\ \A l \in 0..n : (IF l > 0 THEN l - 1 ELSE 0) \in 0..n
                       /\ \A l \in 0..n : l < n => l + 1 \in 0..n
    OBVIOUS
  <2>2. rows' \in [Ids -> RowType]
    <3> SUFFICES ASSUME NEW i \in Ids
                 PROVE  [rows[i] EXCEPT !.lease = IF @ > 0 THEN @ - 1 ELSE 0,
                                        !.wait = IF @ > 0 THEN @ - 1 ELSE 0] \in RowType
      BY <1>9 DEF Tick
    <3>1. rows[i] \in RowType
      BY <1>a
    <3>2. /\ (IF rows[i].lease > 0 THEN rows[i].lease - 1 ELSE 0) \in 0..Lease
          /\ (IF rows[i].wait > 0 THEN rows[i].wait - 1 ELSE 0) \in 0..MaxBackoff
      BY <2>1, <3>1 DEF RowType
    <3> QED BY <3>1, <3>2 DEF RowType
  <2>3. worker' \in [Deliverers -> WorkerType]
    <3> SUFFICES ASSUME NEW d \in Deliverers, worker[d].at = "posting"
                 PROVE  [worker[d] EXCEPT !.age = @ + 1] \in WorkerType
      BY <1>a, <1>9 DEF Tick
    <3>1. worker[d] \in WorkerType
      BY <1>a
    <3>2. worker[d].age + 1 \in 0..PostBudget
      BY <1>9, <2>1, <3>1 DEF Tick, WorkerType
    <3> QED BY <3>1, <3>2 DEF WorkerType
  <2> QED BY <1>a, <1>9, <2>2, <2>3 DEF Tick
<1>10. CASE UNCHANGED vars
  BY <1>a, <1>10 DEF vars
<1>11. ASSUME NEW d \in Deliverers, NEW e \in Endpoints, Rotate(d, e) PROVE Typed'
  <2>1. worker[d].to \in Endpoints
    BY <1>11 DEF RoundOK, Rotate
  <2>2. [worker[d] EXCEPT !.url = e] \in WorkerType
    BY <1>a DEF WorkerType
  <2>3. worker' = [worker EXCEPT ![d] = [worker[d] EXCEPT !.url = e]]
    BY <1>a, <1>11 DEF Rotate
  <2>4. worker' \in [Deliverers -> WorkerType]
    BY <1>a, <2>2, <2>3
  <2>5. faults' \in 0..MaxFaults /\ rotated' \subseteq Endpoints \X Endpoints
    BY <1>a, <1>11, <2>1 DEF Rotate
  <2> QED BY <1>a, <1>11, <2>4, <2>5 DEF Rotate
<1> QED
  BY <1>1, <1>2, <1>3, <1>4, <1>5, <1>6, <1>7, <1>8, <1>9, <1>10, <1>11
  DEF Next, BeginRound, DelivererStep

(* The two tables, with the types of their entries. *)
LEMMA Tables == TypeOK => /\ rows \in [Ids -> RowType] /\ worker \in [Deliverers -> WorkerType]
                          /\ received \in [Ids -> SUBSET Endpoints] /\ posts \in [Ids -> Nat]
                          /\ rotated \subseteq Endpoints \X Endpoints
BY DEF TypeOK, RowType, WorkerType

(* What RoundOK says of one process. *)
RoundOf(w, rot) ==
    /\ w.at # "idle" => /\ w.to \in Endpoints /\ w.url \in Endpoints
                        /\ w.url = w.to \/ <<w.to, w.url>> \in rot
    /\ w.at = "enqueueing" => w.on \in Ids

(* A round keeps the endpoint it was started for, and a URL it did not      *)
(* start with was put into its file during the round.                       *)
LEMMA RoundStep == TypeOK /\ RoundOK /\ [Next]_vars => RoundOK'
<1> SUFFICES ASSUME TypeOK, RoundOK, [Next]_vars, NEW f \in Deliverers
             PROVE  RoundOf(worker'[f], rotated')
  BY DEF RoundOK, RoundOf
<1> DEFINE Goal == RoundOf(worker[f], rotated)
<1>a. Goal /\ worker \in [Deliverers -> WorkerType]
  BY Tables DEF RoundOK, RoundOf
<1>0. ASSUME rotated' = rotated,
             \/ worker'[f] = worker[f]
             \/ worker'[f].at = "idle"
             \/ /\ worker[f].at # "idle" /\ worker'[f].at # "enqueueing"
                /\ worker'[f].to = worker[f].to /\ worker'[f].url = worker[f].url
      PROVE Goal'
  BY <1>a, <1>0 DEF RoundOf
<1>1. ASSUME NEW d \in Deliverers, NEW e \in Endpoints, NEW s \in Statuses, ReadStatus(d, e, s)
      PROVE Goal'
  <2>1. <<e, s>> \in Ids
    BY DEF Ids, Snapshots
  <2>2. CASE d = f
    <3>1. worker'[f].to = e /\ worker'[f].url = e /\ worker'[f].on = <<e, s>>
      BY <1>a, <1>1, <2>2 DEF ReadStatus, WorkerType
    <3> QED BY <2>1, <3>1 DEF RoundOf
  <2>3. CASE d # f
    BY <1>a, <1>0, <1>1, <2>3 DEF ReadStatus
  <2> QED BY <2>2, <2>3
<1>2. ASSUME NEW d \in Deliverers, Enqueue(d) PROVE Goal'
  BY <1>a, <1>0, <1>2 DEF Enqueue, WorkerType
<1>3. ASSUME NEW d \in Deliverers, Bind(d) PROVE Goal'
  BY <1>a, <1>0, <1>3 DEF Bind, WorkerType
<1>4. ASSUME NEW d \in Deliverers, Claim(d) PROVE Goal'
  <2>1. CASE worker' = [worker EXCEPT ![d] = IdleWorker]
    BY <1>a, <1>0, <1>4, <2>1 DEF IdleWorker, Claim
  <2>2. ASSUME NEW i \in Ids,
               worker' = [worker EXCEPT ![d].at = "posting", ![d].on = i, ![d].age = 0]
        PROVE Goal'
    BY <1>a, <1>0, <1>4, <2>2 DEF Claim, WorkerType
  <2> QED BY <1>4, <2>1, <2>2 DEF Claim
<1>5. ASSUME NEW d \in Deliverers, NEW accepted \in BOOLEAN, NEW answered \in BOOLEAN,
             Post(d, accepted, answered)
      PROVE Goal'
  BY <1>a, <1>0, <1>5 DEF Post, WorkerType
<1>6. ASSUME NEW d \in Deliverers, NEW delay \in 1..MaxBackoff, Mark(d, delay) PROVE Goal'
  <2> DEFINE next == [worker[d] EXCEPT !.at = "claiming", !.on = None, !.ok = FALSE, !.age = 0]
  <2>1. next.at = "claiming" /\ next.to = worker[d].to /\ next.url = worker[d].url
    BY <1>a DEF WorkerType
  <2>2. /\ rotated' = rotated /\ worker[d].at = "marking"
        /\ worker'[f] = worker[f] \/ (d = f /\ worker'[f] \in {next, IdleWorker})
    BY <1>a, <1>6 DEF Mark
  <2> HIDE DEF next
  <2> QED BY <1>0, <2>1, <2>2 DEF IdleWorker
<1>7. ASSUME NEW d \in Deliverers, Crash(d) PROVE Goal'
  BY <1>a, <1>0, <1>7 DEF Crash, IdleWorker
<1>8. CASE Tick
  BY <1>a, <1>0, <1>8 DEF Tick, WorkerType
<1>9. CASE UNCHANGED <<worker, rotated>>
  BY <1>0, <1>9
<1>10. ASSUME NEW d \in Deliverers, NEW e \in Endpoints, Rotate(d, e) PROVE Goal'
  <2>1. worker'[d] = [worker[d] EXCEPT !.url = e] /\ rotated' = rotated \cup {<<worker[d].to, e>>}
    BY <1>a, <1>10 DEF Rotate
  <2>2. CASE d = f
    <3>1. /\ worker'[f].at = worker[f].at /\ worker'[f].to = worker[f].to
          /\ worker'[f].url = e /\ worker'[f].on = worker[f].on
      BY <1>a, <2>1, <2>2 DEF WorkerType
    <3> QED BY <1>a, <2>1, <2>2, <3>1 DEF RoundOf
  <2>3. CASE d # f
    <3>1. worker'[f] = worker[f]
      BY <1>a, <1>10, <2>3 DEF Rotate
    <3> QED BY <1>a, <2>1, <3>1 DEF RoundOf
  <2> QED BY <2>2, <2>3
<1> QED
  BY <1>1, <1>2, <1>3, <1>4, <1>5, <1>6, <1>7, <1>8, <1>9, <1>10
  DEF Next, BeginRound, DelivererStep, Emit, vars

(* What a claim does: it ends the round, or it leases one delivery that is  *)
(* due for its endpoint; besides that it only reclaims.                     *)
Claims(d) ==
    LET rec == Reclaimed(worker[d].to)
    IN  /\ \A f \in Deliverers \ {d} : worker'[f] = worker[f]
        /\ received' = received /\ rotated' = rotated
        /\ \/ rows' = rec /\ posts' = posts /\ worker'[d].at = "idle"
           \/ \E i \in Ids :
                 /\ rec[i].state = "queued" /\ rec[i].endpoint = worker[d].to
                 /\ \A j \in Ids \ {i} : rows'[j] = rec[j] /\ posts'[j] = posts[j]
                 /\ rows'[i] = [rec[i] EXCEPT !.state = "delivering", !.owner = d, !.lease = Lease]
                 /\ posts'[i] = posts[i] + 1
                 /\ worker'[d] = [worker[d] EXCEPT !.at = "posting", !.on = i, !.age = 0]

(* Claim has no other effect than Claims states. *)
LEMMA ClaimEffect ==
    ASSUME TypeOK, CountOK, NEW d \in Deliverers, Claim(d)
    PROVE  Claims(d)
<1> DEFINE rec == Reclaimed(worker[d].to)
<1>a. /\ rec \in [Ids -> RowType] /\ worker \in [Deliverers -> WorkerType]
      /\ posts \in [Ids -> Nat]
  BY ReclaimedRows, Tables
<1> HIDE DEF rec
<1>1. CASE rows' = rec /\ worker' = [worker EXCEPT ![d] = IdleWorker] /\ posts' = posts
           /\ received' = received /\ rotated' = rotated
  BY <1>a, <1>1 DEF IdleWorker, rec, Claims
<1>2. ASSUME NEW i \in Ids, Due(rec[i], worker[d].to),
             rows' = [rec EXCEPT ![i].state = "delivering", ![i].owner = d, ![i].lease = Lease],
             worker' = [worker EXCEPT ![d].at = "posting", ![d].on = i, ![d].age = 0],
             posts' = [posts EXCEPT ![i] = @ + 1], received' = received
      PROVE  /\ rec[i].state = "queued" /\ rec[i].endpoint = worker[d].to
             /\ \A j \in Ids \ {i} : rows'[j] = rec[j] /\ posts'[j] = posts[j]
             /\ rows'[i] = [rec[i] EXCEPT !.state = "delivering", !.owner = d, !.lease = Lease]
             /\ posts'[i] = posts[i] + 1
             /\ worker'[d] = [worker[d] EXCEPT !.at = "posting", !.on = i, !.age = 0]
             /\ \A f \in Deliverers \ {d} : worker'[f] = worker[f]
  <2>1. /\ rows'[i] = [rec[i] EXCEPT !.state = "delivering", !.owner = d, !.lease = Lease]
        /\ \A j \in Ids \ {i} : rows'[j] = rec[j]
    BY <1>a, <1>2
  <2>2. /\ worker'[d] = [worker[d] EXCEPT !.at = "posting", !.on = i, !.age = 0]
        /\ \A f \in Deliverers \ {d} : worker'[f] = worker[f]
    BY <1>a, <1>2
  <2>3. posts'[i] = posts[i] + 1 /\ \A j \in Ids \ {i} : posts'[j] = posts[j]
    BY <1>a, <1>2
  <2> QED BY <1>2, <2>1, <2>2, <2>3 DEF Due
<1> QED
  BY <1>1, <1>2, Claim(d) DEF Claim, rec, Claims

(* A lease covers its request: nobody but its owner moves the row of a      *)
(* delivery that is being posted, because the lease cannot run out first.   *)
LEMMA LeaseStep == TypeOK /\ RoundOK /\ CountOK /\ LeaseHeld /\ [Next]_vars => LeaseHeld'
<1> SUFFICES ASSUME TypeOK, RoundOK, CountOK, LeaseHeld, [Next]_vars, NEW f \in Deliverers,
                    worker'[f].at \in InFlight
             PROVE  /\ worker'[f].on \in Ids
                    /\ rows'[worker'[f].on].state = "delivering"
                    /\ rows'[worker'[f].on].owner = f
                    /\ rows'[worker'[f].on].endpoint = worker'[f].to
                    /\ rows'[worker'[f].on].lease + worker'[f].age >= Lease
  BY DEF LeaseHeld
<1> DEFINE Held == /\ worker[f].on \in Ids
                   /\ rows[worker[f].on].state = "delivering"
                   /\ rows[worker[f].on].owner = f
                   /\ rows[worker[f].on].endpoint = worker[f].to
                   /\ rows[worker[f].on].lease + worker[f].age >= Lease
<1>a. worker[f].at \in InFlight => Held
  BY DEF LeaseHeld
<1>b. worker \in [Deliverers -> WorkerType] /\ rows \in [Ids -> RowType]
  BY Tables
<1>c. worker[f].at \in InFlight => rows[worker[f].on].lease > 0
  BY <1>a, <1>b DEF WorkerType, RowType
<1>d. (* a step that leaves the process and the row of its delivery alone *)
      ASSUME worker'[f] = worker[f], worker[f].at \in InFlight => rows'[worker[f].on] = rows[worker[f].on]
      PROVE  Held'
  BY <1>a, <1>d
<1>1. ASSUME NEW e \in Events, Emit(e) PROVE Held'
  <2>1. worker[f].at \in InFlight => worker[f].on # e
    BY <1>a, <1>1 DEF Emit
  <2>2. \A i \in Ids \ {e} : rows'[i] = rows[i]
    BY <1>b, <1>1 DEF Emit
  <2> QED BY <1>a, <1>d, <1>1, <2>1, <2>2 DEF Emit
<1>2. ASSUME NEW d \in Deliverers, NEW e \in Endpoints, NEW s \in Statuses, ReadStatus(d, e, s)
      PROVE Held'
  <2>1. d # f
    BY <1>b, <1>2 DEF ReadStatus, InFlight, WorkerType
  <2>2. worker'[f] = worker[f] /\ rows' = rows
    BY <1>b, <1>2, <2>1 DEF ReadStatus
  <2> QED BY <1>d, <2>2
<1>3. ASSUME NEW d \in Deliverers, Enqueue(d) PROVE Held'
  <2>1. d # f
    BY <1>b, <1>3 DEF Enqueue, InFlight, WorkerType
  <2>2. worker'[f] = worker[f]
    BY <1>b, <1>3, <2>1 DEF Enqueue
  <2>3. \A i \in Ids : rows[i].state # "absent" => rows'[i] = rows[i]
    BY <1>b, <1>3 DEF Enqueue, RoundOK
  <2> QED BY <1>a, <1>d, <2>2, <2>3
<1>4. ASSUME NEW d \in Deliverers, Bind(d) PROVE Held'
  <2>1. d # f
    BY <1>b, <1>4 DEF Bind, InFlight, WorkerType
  <2>2. worker'[f] = worker[f]
    BY <1>b, <1>4, <2>1 DEF Bind
  <2>3. \A i \in Ids : rows[i].state # "queued" => rows'[i] = rows[i]
    BY <1>b, <1>4 DEF Bind
  <2> QED BY <1>a, <1>d, <2>2, <2>3
<1>5. ASSUME NEW d \in Deliverers, Claim(d) PROVE Held'
  <2> DEFINE rec == Reclaimed(worker[d].to)
  <2>1. /\ \A g \in Deliverers \ {d} : worker'[g] = worker[g]
        /\ \/ rows' = rec /\ worker'[d].at = "idle"
           \/ \E i \in Ids :
                 /\ rec[i].state = "queued" /\ rec[i].endpoint = worker[d].to
                 /\ \A j \in Ids \ {i} : rows'[j] = rec[j]
                 /\ rows'[i] = [rec[i] EXCEPT !.state = "delivering", !.owner = d, !.lease = Lease]
                 /\ worker'[d] = [worker[d] EXCEPT !.at = "posting", !.on = i, !.age = 0]
    <3>1. Claims(d)
      BY <1>5, ClaimEffect
    <3> QED BY <3>1 DEF Claims
  <2>2. rec \in [Ids -> RowType]
    BY ReclaimedRows
  <2>3. worker[f].at \in InFlight => rec[worker[f].on] = rows[worker[f].on]
    BY <1>a, <1>b, <1>c, ReclaimedRows
  <2> HIDE DEF rec
  <2>4. CASE d # f
    <3>1. worker'[f] = worker[f]
      BY <2>1, <2>4
    <3>2. worker[f].at \in InFlight => rows'[worker[f].on] = rows[worker[f].on]
      BY <1>a, <2>1, <2>3
    <3> QED BY <1>d, <3>1, <3>2
  <2>5. CASE d = f
    <3>1. PICK i \in Ids :
             /\ rec[i].endpoint = worker[d].to
             /\ rows'[i] = [rec[i] EXCEPT !.state = "delivering", !.owner = d, !.lease = Lease]
             /\ worker'[d] = [worker[d] EXCEPT !.at = "posting", !.on = i, !.age = 0]
      BY <2>1, <2>5 DEF InFlight
    <3>2. worker'[f].on = i /\ worker'[f].to = worker[f].to /\ worker'[f].age = 0
      BY <1>b, <2>5, <3>1 DEF WorkerType
    <3>3. /\ rows'[i].state = "delivering" /\ rows'[i].owner = f
          /\ rows'[i].lease = Lease /\ rows'[i].endpoint = worker[f].to
      BY <2>2, <2>5, <3>1 DEF RowType
    <3> QED BY <3>2, <3>3
  <2> QED BY <2>4, <2>5
<1>6. ASSUME NEW d \in Deliverers, NEW accepted \in BOOLEAN, NEW answered \in BOOLEAN,
             Post(d, accepted, answered)
      PROVE Held'
  <2>1. /\ rows' = rows /\ worker'[f].on = worker[f].on /\ worker'[f].to = worker[f].to
        /\ worker'[f].age = worker[f].age
    BY <1>b, <1>6 DEF Post, WorkerType
  <2>2. worker[f].at \in InFlight
    BY <1>b, <1>6 DEF Post, WorkerType, InFlight
  <2> QED BY <1>a, <2>1, <2>2
<1>7. ASSUME NEW d \in Deliverers, NEW delay \in 1..MaxBackoff, Mark(d, delay) PROVE Held'
  <2>1. d # f
    BY <1>b, <1>7 DEF Mark, InFlight, IdleWorker
  <2>2. worker'[f] = worker[f]
    BY <1>b, <1>7, <2>1 DEF Mark
  <2>3. worker[d].on \in Ids /\ rows[worker[d].on].owner = d
    BY <1>7 DEF Mark, LeaseHeld, InFlight
  <2>4. \A i \in Ids \ {worker[d].on} : rows'[i] = rows[i]
    BY <1>b, <1>7 DEF Mark
  <2> QED BY <1>a, <1>d, <2>1, <2>2, <2>3, <2>4
<1>8. ASSUME NEW d \in Deliverers, Crash(d) PROVE Held'
  <2>1. d # f
    BY <1>b, <1>8 DEF Crash, InFlight, IdleWorker
  <2>2. worker'[f] = worker[f] /\ rows' = rows
    BY <1>b, <1>8, <2>1 DEF Crash
  <2> QED BY <1>d, <2>2
<1>9. CASE Tick
  <2>1. worker[f].at = "posting"
    BY <1>b, <1>9 DEF Tick, InFlight, WorkerType
  <2>2. Held
    BY <1>a, <2>1 DEF InFlight
  <2>3. worker'[f] = [worker[f] EXCEPT !.age = @ + 1]
    BY <1>9, <2>1 DEF Tick
  <2>4. /\ worker'[f].on = worker[f].on /\ worker'[f].to = worker[f].to
        /\ worker'[f].age = worker[f].age + 1
    BY <1>b, <2>3 DEF WorkerType
  <2> DEFINE i == worker[f].on
  <2>5. rows'[i] = [rows[i] EXCEPT !.lease = IF @ > 0 THEN @ - 1 ELSE 0,
                                   !.wait = IF @ > 0 THEN @ - 1 ELSE 0]
    BY <1>9, <2>2 DEF Tick
  <2>6. /\ rows'[i].state = rows[i].state /\ rows'[i].owner = rows[i].owner
        /\ rows'[i].endpoint = rows[i].endpoint
        /\ rows'[i].lease = IF rows[i].lease > 0 THEN rows[i].lease - 1 ELSE 0
    BY <1>b, <2>2, <2>5 DEF RowType
  <2>7. rows[i].lease \in 0..Lease /\ worker[f].age \in 0..PostBudget
    BY <1>b, <2>2 DEF RowType, WorkerType
  <2>8. rows'[i].lease + worker'[f].age >= Lease
    BY <2>2, <2>4, <2>6, <2>7
  <2> QED BY <2>2, <2>4, <2>6, <2>8
<1>10. CASE UNCHANGED vars
  BY <1>d, <1>10 DEF vars
<1>11. ASSUME NEW d \in Deliverers, NEW e \in Endpoints, Rotate(d, e) PROVE Held'
  <2>1. /\ rows' = rows /\ worker'[f].at = worker[f].at /\ worker'[f].on = worker[f].on
        /\ worker'[f].to = worker[f].to /\ worker'[f].age = worker[f].age
    BY <1>b, <1>11 DEF Rotate, WorkerType
  <2> QED BY <1>a, <2>1
<1> QED
  BY <1>1, <1>2, <1>3, <1>4, <1>5, <1>6, <1>7, <1>8, <1>9, <1>10, <1>11
  DEF Next, BeginRound, DelivererStep

(* An acceptance is never forgotten, and only post_json reports one. *)
LEMMA AcceptedStep == TypeOK /\ CountOK /\ LeaseHeld /\ AcceptedOK /\ [Next]_vars => AcceptedOK'
<1> SUFFICES ASSUME TypeOK, CountOK, LeaseHeld, AcceptedOK, [Next]_vars, NEW f \in Deliverers,
                    worker'[f].at = "marking", worker'[f].ok
             PROVE  received'[worker'[f].on] # {}
  BY DEF AcceptedOK
<1> DEFINE Goal == received[worker[f].on] # {}
<1>b. worker \in [Deliverers -> WorkerType] /\ received \in [Ids -> SUBSET Endpoints]
  BY Tables
<1>c. ASSUME worker'[f] = worker[f], received' = received PROVE Goal'
  BY <1>c DEF AcceptedOK
<1>1. ASSUME NEW d \in Deliverers, NEW e \in Endpoints, NEW s \in Statuses, ReadStatus(d, e, s)
      PROVE Goal'
  <2>1. d # f
    BY <1>b, <1>1 DEF ReadStatus, WorkerType
  <2> QED BY <1>b, <1>c, <1>1, <2>1 DEF ReadStatus
<1>2. ASSUME NEW d \in Deliverers, Enqueue(d) PROVE Goal'
  <2>1. d # f
    BY <1>b, <1>2 DEF Enqueue, WorkerType
  <2> QED BY <1>b, <1>c, <1>2, <2>1 DEF Enqueue
<1>3. ASSUME NEW d \in Deliverers, Bind(d) PROVE Goal'
  <2>1. d # f
    BY <1>b, <1>3 DEF Bind, WorkerType
  <2> QED BY <1>b, <1>c, <1>3, <2>1 DEF Bind
<1>4. ASSUME NEW d \in Deliverers, Claim(d) PROVE Goal'
  <2>1. Claims(d)
    BY <1>4, ClaimEffect
  <2>2. worker'[d].at \in {"idle", "posting"}
    <3>1. ASSUME NEW i \in Ids,
                 worker'[d] = [worker[d] EXCEPT !.at = "posting", !.on = i, !.age = 0]
          PROVE  worker'[d].at = "posting"
      BY <1>b, <3>1 DEF WorkerType
    <3> QED BY <2>1, <3>1 DEF Claims
  <2> QED BY <1>c, <2>1, <2>2 DEF Claims
<1>5. ASSUME NEW d \in Deliverers, NEW accepted \in BOOLEAN, NEW answered \in BOOLEAN,
             Post(d, accepted, answered)
      PROVE Goal'
  <2>1. worker[d].on \in Ids
    BY <1>5 DEF Post, LeaseHeld, InFlight
  <2>2. \A i \in Ids : received[i] \subseteq received'[i]
    BY <1>b, <1>5 DEF Post
  <2>3. CASE d # f
    <3>1. worker'[f] = worker[f]
      BY <1>b, <1>5, <2>3 DEF Post
    <3>2. received[worker[f].on] # {} /\ worker[f].on \in Ids
      BY <3>1 DEF AcceptedOK, LeaseHeld, InFlight
    <3> QED BY <2>2, <3>1, <3>2
  <2>4. CASE d = f
    <3>1. worker'[f].ok = answered /\ worker'[f].on = worker[f].on
      BY <1>b, <1>5, <2>4 DEF Post, WorkerType
    <3>2. accepted
      BY <1>5, <3>1 DEF Post
    <3>3. worker[f].url \in received'[worker[f].on]
      BY <1>b, <1>5, <2>1, <2>4, <3>2 DEF Post
    <3> QED BY <3>1, <3>3
  <2> QED BY <2>3, <2>4
<1>6. ASSUME NEW d \in Deliverers, NEW delay \in 1..MaxBackoff, Mark(d, delay) PROVE Goal'
  <2>1. d # f
    BY <1>b, <1>6 DEF Mark, IdleWorker
  <2> QED BY <1>b, <1>c, <1>6, <2>1 DEF Mark
<1>7. ASSUME NEW d \in Deliverers, Crash(d) PROVE Goal'
  <2>1. d # f
    BY <1>b, <1>7 DEF Crash, IdleWorker
  <2> QED BY <1>b, <1>c, <1>7, <2>1 DEF Crash
<1>8. CASE Tick
  <2>1. worker'[f] = worker[f]
    BY <1>b, <1>8 DEF Tick, WorkerType
  <2> QED BY <1>c, <1>8, <2>1 DEF Tick
<1>9. CASE UNCHANGED <<worker, received>>
  BY <1>c, <1>9
<1>10. ASSUME NEW d \in Deliverers, NEW e \in Endpoints, Rotate(d, e) PROVE Goal'
  <2>1. /\ received' = received /\ worker'[f].at = worker[f].at
        /\ worker'[f].on = worker[f].on /\ worker'[f].ok = worker[f].ok
    BY <1>b, <1>10 DEF Rotate, WorkerType
  <2> QED BY <2>1 DEF AcceptedOK
<1> QED
  BY <1>1, <1>2, <1>3, <1>4, <1>5, <1>6, <1>7, <1>8, <1>9, <1>10
  DEF Next, BeginRound, DelivererStep, Emit, vars

(* What the counting and the binding say of one row. *)
RowOK(row, n, got, rot) ==
    /\ row.state = "absent" => row.endpoint = None
    /\ row.state # "dead_letter" => row.attempts < MaxAttempts
    /\ n <= row.attempts + (IF row.state \in {"delivering", "delivered"} THEN 1 ELSE 0)
    /\ \A u \in got : u = row.endpoint \/ <<row.endpoint, u>> \in rot
    /\ row.state = "delivered" => got # {}

(* Both invariants of the table speak of its rows one at a time. *)
LEMMA RowsOK ==
    CountOK /\ StraysOnlyByRotation <=> \A i \in Ids : RowOK(rows[i], posts[i], received[i], rotated)
BY DEF CountOK, StraysOnlyByRotation, RowOK

(* A reclaimed lease turns the request in flight into a counted attempt.    *)
LEMMA FailedOK ==
    ASSUME NEW row \in RowType, NEW n \in Nat, NEW got, NEW rot, RowOK(row, n, got, rot),
           row.state = "delivering", NEW delay \in 0..MaxBackoff
    PROVE  RowOK(Failed(row, delay), n, got, rot)
<1>1. row.attempts < MaxAttempts
  BY DEF RowOK
<1> DEFINE new == Failed(row, delay)
<1>2. /\ new.attempts = row.attempts + 1 /\ new.endpoint = row.endpoint
      /\ new.state \in {"queued", "dead_letter"}
      /\ new.state = "queued" => row.attempts + 1 < MaxAttempts
  BY <1>1, FailedRow
<1> HIDE DEF new
<1>3. row.attempts \in Nat /\ n <= row.attempts + 1
  BY DEF RowOK, RowType
<1>4. n <= new.attempts /\ (new.state # "dead_letter" => new.attempts < MaxAttempts)
  BY <1>2, <1>3
<1>5. RowOK(new, n, got, rot)
  BY <1>2, <1>3, <1>4 DEF RowOK
<1> QED BY <1>5 DEF new

(* The request of a lease is counted when the lease ends, and a delivery is *)
(* bound once.                                                              *)
LEMMA RowStep == OutboxInv /\ [Next]_vars => (CountOK /\ StraysOnlyByRotation)'
<1> SUFFICES ASSUME OutboxInv, [Next]_vars, NEW i \in Ids
             PROVE  RowOK(rows'[i], posts'[i], received'[i], rotated')
  BY DEF CountOK, StraysOnlyByRotation, RowOK
<1> DEFINE Goal == RowOK(rows[i], posts[i], received[i], rotated)
<1>a. \A j \in Ids : RowOK(rows[j], posts[j], received[j], rotated)
  BY RowsOK DEF OutboxInv
<1>b. /\ rows \in [Ids -> RowType] /\ worker \in [Deliverers -> WorkerType]
      /\ received \in [Ids -> SUBSET Endpoints] /\ posts \in [Ids -> Nat]
      /\ rotated \subseteq Endpoints \X Endpoints
      /\ TypeOK /\ CountOK /\ LeaseHeld /\ RoundOK /\ AcceptedOK
  BY Tables DEF OutboxInv
<1>c. ASSUME rows'[i] = rows[i], posts' = posts, received' = received, rotated' = rotated PROVE Goal'
  BY <1>a, <1>c
<1>d. rows[i].endpoint = None => received[i] = {}
  <2>1. \A u \in received[i] : u # None /\ <<None, u>> \notin rotated
    BY <1>b
  <2> QED BY <1>a, <2>1 DEF RowOK
<1>1. ASSUME NEW e \in Events, Emit(e) PROVE Goal'
  <2>1. CASE i = e
    <3>1. rows'[i] = [rows[i] EXCEPT !.state = "queued"]
      BY <1>b, <1>1, <2>1 DEF Emit
    <3>2. /\ rows'[i].state = "queued" /\ rows'[i].endpoint = rows[i].endpoint
          /\ rows'[i].attempts = rows[i].attempts
      BY <1>b, <3>1 DEF RowType
    <3> QED BY <1>a, <1>1, <2>1, <3>2 DEF RowOK, Emit
  <2>2. CASE i # e
    BY <1>b, <1>c, <1>1, <2>2 DEF Emit
  <2> QED BY <2>1, <2>2
<1>2. ASSUME NEW d \in Deliverers, Enqueue(d) PROVE Goal'
  <2>1. CASE i = worker[d].on /\ rows[i].state = "absent"
    <3>1. rows'[i] = [rows[i] EXCEPT !.state = "queued", !.endpoint = worker[d].to]
      BY <1>b, <1>2, <2>1 DEF Enqueue
    <3>2. rows'[i].state = "queued" /\ rows'[i].attempts = rows[i].attempts
      BY <1>b, <3>1 DEF RowType
    <3>3. received[i] = {}
      BY <1>a, <1>d, <2>1 DEF RowOK
    <3> QED BY <1>a, <1>2, <2>1, <3>2, <3>3 DEF RowOK, Enqueue
  <2>2. CASE i # worker[d].on \/ rows[i].state # "absent"
    BY <1>b, <1>c, <1>2, <2>2 DEF Enqueue
  <2> QED BY <2>1, <2>2
<1>3. ASSUME NEW d \in Deliverers, Bind(d) PROVE Goal'
  <2>1. CASE rows[i].state = "queued" /\ rows[i].endpoint = None
    <3>1. rows'[i] = [rows[i] EXCEPT !.endpoint = worker[d].to]
      BY <1>3, <2>1 DEF Bind
    <3>2. rows'[i].state = "queued" /\ rows'[i].attempts = rows[i].attempts
      BY <1>b, <2>1, <3>1 DEF RowType
    <3> QED BY <1>a, <1>d, <1>3, <2>1, <3>2 DEF RowOK, Bind
  <2>2. CASE ~(rows[i].state = "queued" /\ rows[i].endpoint = None)
    BY <1>c, <1>3, <2>2 DEF Bind
  <2> QED BY <2>1, <2>2
<1>4. ASSUME NEW d \in Deliverers, Claim(d) PROVE Goal'
  <2> DEFINE rec == Reclaimed(worker[d].to)
  <2>1. rec[i] \in RowType /\ RowOK(rec[i], posts[i], received[i], rotated)
    BY <1>a, <1>b, ReclaimedRows, FailedOK
  <2>2. Claims(d)
    BY <1>b, <1>4, ClaimEffect
  <2>3. \/ rows'[i] = rec[i] /\ posts'[i] = posts[i] /\ received' = received /\ rotated' = rotated
        \/ /\ rec[i].state = "queued" /\ posts'[i] = posts[i] + 1 /\ received' = received /\ rotated' = rotated
           /\ rows'[i] = [rec[i] EXCEPT !.state = "delivering", !.owner = d, !.lease = Lease]
    BY <2>2 DEF Claims
  <2> HIDE DEF rec
  <2>4. CASE rows'[i] = rec[i] /\ posts'[i] = posts[i] /\ received' = received /\ rotated' = rotated
    BY <2>1, <2>4
  <2>5. CASE /\ rec[i].state = "queued" /\ posts'[i] = posts[i] + 1 /\ received' = received /\ rotated' = rotated
             /\ rows'[i] = [rec[i] EXCEPT !.state = "delivering", !.owner = d, !.lease = Lease]
    <3>1. /\ rows'[i].state = "delivering" /\ rows'[i].attempts = rec[i].attempts
          /\ rows'[i].endpoint = rec[i].endpoint
      BY <2>1, <2>5 DEF RowType
    <3>2. rec[i].attempts \in Nat /\ posts[i] \in Nat
      BY <1>b, <2>1 DEF RowType
    <3> QED BY <2>1, <2>5, <3>1, <3>2 DEF RowOK
  <2> QED BY <2>3, <2>4, <2>5
<1>5. ASSUME NEW d \in Deliverers, NEW accepted \in BOOLEAN, NEW answered \in BOOLEAN,
             Post(d, accepted, answered)
      PROVE Goal'
  <2>1. /\ rows[worker[d].on].endpoint = worker[d].to
        /\ rows[worker[d].on].state = "delivering"
        /\ worker[d].url = worker[d].to \/ <<worker[d].to, worker[d].url>> \in rotated
    BY <1>b, <1>5 DEF Post, LeaseHeld, RoundOK, InFlight
  <2>2. rows' = rows /\ posts' = posts /\ rotated' = rotated
    BY <1>5 DEF Post
  <2>3. received'[i] = received[i] \/ (i = worker[d].on /\ received'[i] = received[i] \cup {worker[d].url})
    BY <1>b, <1>5 DEF Post
  <2> QED BY <1>a, <2>1, <2>2, <2>3 DEF RowOK
<1>6. ASSUME NEW d \in Deliverers, NEW delay \in 1..MaxBackoff, Mark(d, delay) PROVE Goal'
  <2>1. CASE i # worker[d].on \/ rows[i].state # "delivering" \/ rows[i].owner # d
    BY <1>b, <1>c, <1>6, <2>1 DEF Mark
  <2>2. CASE i = worker[d].on /\ rows[i].state = "delivering" /\ rows[i].owner = d /\ ~worker[d].ok
    <3>1. rows'[i] = Failed(rows[i], delay) /\ posts' = posts /\ received' = received /\ rotated' = rotated
      BY <1>b, <1>6, <2>2 DEF Mark
    <3>2. delay \in 0..MaxBackoff
      OBVIOUS
    <3> QED BY <1>a, <1>b, <2>2, <3>1, <3>2, FailedOK
  <2>3. CASE i = worker[d].on /\ rows[i].state = "delivering" /\ rows[i].owner = d /\ worker[d].ok
    <3>1. rows'[i] = [rows[i] EXCEPT !.state = "delivered", !.owner = None, !.lease = 0]
      BY <1>b, <1>6, <2>3 DEF Mark
    <3>2. /\ rows'[i].state = "delivered" /\ rows'[i].attempts = rows[i].attempts
          /\ rows'[i].endpoint = rows[i].endpoint
      BY <1>b, <3>1 DEF RowType
    <3>3. received[i] # {}
      BY <1>b, <1>6, <2>3 DEF AcceptedOK, Mark
    <3> QED BY <1>a, <1>6, <2>3, <3>2, <3>3 DEF RowOK, Mark
  <2> QED BY <2>1, <2>2, <2>3
<1>7. CASE Tick
  <2>1. rows'[i] = [rows[i] EXCEPT !.lease = IF @ > 0 THEN @ - 1 ELSE 0,
                                   !.wait = IF @ > 0 THEN @ - 1 ELSE 0]
    BY <1>7 DEF Tick
  <2>2. /\ rows'[i].state = rows[i].state /\ rows'[i].attempts = rows[i].attempts
        /\ rows'[i].endpoint = rows[i].endpoint
    BY <1>b, <2>1 DEF RowType
  <2>3. posts' = posts /\ received' = received /\ rotated' = rotated
    BY <1>7 DEF Tick
  <2> HIDE DEF Goal
  <2>4. RowOK(rows[i], posts[i], received[i], rotated)
    BY <1>a
  <2>5. RowOK(rows'[i], posts[i], received[i], rotated)
    BY <2>2, <2>4 DEF RowOK
  <2> QED BY <2>3, <2>5 DEF Goal
<1>8. CASE UNCHANGED <<rows, posts, received>> /\ rotated \subseteq rotated'
  BY <1>a, <1>8 DEF RowOK
<1> QED
  BY <1>1, <1>2, <1>3, <1>4, <1>5, <1>6, <1>7, <1>8
  DEF Next, BeginRound, DelivererStep, ReadStatus, Crash, Rotate, vars

(* The inductive invariant. *)
LEMMA OutboxInvariant == Spec => []OutboxInv
<1>1. Init => OutboxInv
  <2> SUFFICES ASSUME Init PROVE OutboxInv
    OBVIOUS
  <2>1. TypeOK
    <3>1. AbsentRow \in RowType /\ IdleWorker \in WorkerType /\ 0 \in 0..MaxFaults
      BY DEF AbsentRow, IdleWorker, RowType, RowStates, WorkerType
    <3> QED BY <3>1 DEF Init, TypeOK, RowType, WorkerType
  <2>2. RoundOK /\ LeaseHeld /\ AcceptedOK
    BY DEF Init, RoundOK, LeaseHeld, AcceptedOK, IdleWorker, InFlight
  <2>3. CountOK /\ StraysOnlyByRotation
    BY DEF Init, CountOK, StraysOnlyByRotation, AbsentRow
  <2> QED BY <2>1, <2>2, <2>3 DEF OutboxInv
<1>2. OutboxInv /\ [Next]_vars => OutboxInv'
  BY TypeStep, RoundStep, LeaseStep, AcceptedStep, RowStep DEF OutboxInv
<1> QED BY <1>1, <1>2, PTL DEF Spec

(* Every column of the delivery table and every local of a notify-webhook   *)
(* process stays in its domain.                                             *)
THEOREM OutboxTypeOK == Spec => []TypeOK
BY OutboxInvariant, PTL DEF OutboxInv

(* However many processes drain the outbox, claim_webhook_deliveries never  *)
(* leases a delivery whose POST is still in flight.                         *)
THEOREM OnePostAtATimeAlways == Spec => []OnePostAtATime
<1>1. OutboxInv => OnePostAtATime
  BY DEF OutboxInv, LeaseHeld, InFlight, OnePostAtATime
<1> QED BY <1>1, OutboxInvariant, PTL

(* A delivery reaches the endpoint bind_unbound_webhook_deliveries bound it *)
(* to, or one its URL file was changed to during a round for that endpoint, *)
(* and mark_webhook_delivered records it only after it was accepted.        *)
THEOREM StraysOnlyByRotationAlways == Spec => []StraysOnlyByRotation
BY OutboxInvariant, PTL DEF OutboxInv

(* No delivery is posted more than MAX_WEBHOOK_ATTEMPTS times, whatever     *)
(* processes die with its lease.                                            *)
THEOREM PostsBoundedAlways == Spec => []PostsBounded
<1>1. OutboxInv => PostsBounded
  <2> SUFFICES ASSUME OutboxInv, NEW i \in Ids PROVE posts[i] <= MaxAttempts
    BY DEF PostsBounded
  <2>1. rows[i] \in RowType /\ posts[i] \in Nat
    BY Tables DEF OutboxInv
  <2>2. rows[i].attempts \in 0..MaxAttempts
    BY <2>1 DEF RowType
  <2> QED BY <2>1, <2>2 DEF OutboxInv, CountOK
<1> QED BY <1>1, OutboxInvariant, PTL
=============================================================================
