-------------------------------- MODULE Outbox --------------------------------
(***************************************************************************)
(* The durable webhook outbox (core/webhook_outbox.rs), the trigger that   *)
(* fills it (core/database.rs), and the notify-webhook processes that      *)
(* drain it (cli/maintenance.rs, webhook.rs).  Deliverers are separate     *)
(* processes on one ledger; each statement is one transaction, the POST in *)
(* between is not.  Endpoints are known to the outbox only by digest, taken *)
(* once per round; the URL that is posted to is looked up at every POST.   *)
(* Time advances in ticks of ten seconds.                                  *)
(***************************************************************************)
EXTENDS Naturals, FiniteSets

CONSTANTS
    Events,        \* ledger events the trigger turns into deliveries
    Statuses,      \* distinct bodies of a status snapshot
    Endpoints,
    Deliverers,    \* notify-webhook invocations that may run at the same time
    MaxAttempts,   \* MAX_WEBHOOK_ATTEMPTS
    Lease,         \* WEBHOOK_DELIVERY_LEASE_SECONDS, in ticks
    PostBudget,    \* WEBHOOK_TOTAL_BUDGET, in ticks
    MaxBackoff,    \* cap of the retry delay, in ticks
    MaxFaults,     \* bound: POSTs that fail, processes that die, URL files replaced
    None

ASSUME OutboxConstants ==
    /\ {MaxAttempts, Lease, PostBudget, MaxBackoff} \subseteq Nat \ {0}
    /\ PostBudget < Lease
    /\ MaxFaults \in Nat
    /\ None \notin Endpoints \cup Deliverers \cup Statuses

(* A snapshot's event identifier is a digest of the endpoint and the body.  *)
Snapshots == {<<e, s>> : e \in Endpoints, s \in Statuses}
Ids == Events \cup Snapshots

VARIABLES
    rows,      \* the webhook_deliveries table
    worker,    \* the deliverers
    received,  \* endpoints that accepted each delivery
    posts,     \* how often each delivery was handed to the network
    faults,    \* POSTs that failed, processes that died, URL files replaced, so far
    rotated    \* history: <<endpoint of a round, URL its file was given during it>>

vars == <<rows, worker, received, posts, faults, rotated>>

RowStates == {"absent", "queued", "delivering", "delivered", "dead_letter"}

TypeOK ==
    /\ rows \in [Ids -> [state : RowStates, endpoint : Endpoints \cup {None}, attempts : 0..MaxAttempts,
                         owner : Deliverers \cup {None}, lease : 0..Lease, wait : 0..MaxBackoff]]
    /\ worker \in [Deliverers -> [at : {"idle", "enqueueing", "binding", "claiming", "posting", "marking"},
                                  to : Endpoints \cup {None}, url : Endpoints \cup {None},
                                  on : Ids \cup {None},
                                  ok : BOOLEAN, age : 0..PostBudget]]
    /\ received \in [Ids -> SUBSET Endpoints]
    /\ posts \in [Ids -> Nat]
    /\ faults \in 0..MaxFaults
    /\ rotated \subseteq Endpoints \X Endpoints

AbsentRow == [state |-> "absent", endpoint |-> None, attempts |-> 0, owner |-> None,
              lease |-> 0, wait |-> 0]
(* A process between rounds; `to' is the endpoint digest of its round, `url'  *)
(* what the URL argument, or the URL file, now resolves to.                 *)
IdleWorker == [at |-> "idle", to |-> None, url |-> None, on |-> None, ok |-> FALSE, age |-> 0]

Init ==
    /\ rows = [i \in Ids |-> AbsentRow]
    /\ worker = [d \in Deliverers |-> IdleWorker]
    /\ received = [i \in Ids |-> {}]
    /\ posts = [i \in Ids |-> 0]
    /\ faults = 0
    /\ rotated = {}

-----------------------------------------------------------------------------
(* The ledger *)

(* An event is committed; the trigger queues its delivery unbound.          *)
Emit(e) ==
    /\ rows[e].state = "absent"
    /\ rows' = [rows EXCEPT ![e].state = "queued"]
    /\ UNCHANGED <<worker, received, posts, faults, rotated>>

-----------------------------------------------------------------------------
(* deliver_webhook_once *)

(* A round is started: the body of its snapshot, whatever the status is by  *)
(* then, and the digest of the endpoint the URL resolves to are read.       *)
ReadStatus(d, e, s) ==
    /\ worker[d].at = "idle"
    /\ worker' = [worker EXCEPT ![d].at = "enqueueing", ![d].to = e, ![d].url = e,
                                    ![d].on = <<e, s>>]
    /\ UNCHANGED <<rows, received, posts, faults, rotated>>

(* enqueue_webhook_delivery: a snapshot already on record stays as it is.   *)
Enqueue(d) ==
    /\ worker[d].at = "enqueueing"
    /\ rows' = [rows EXCEPT ![worker[d].on] =
                   IF @.state = "absent"
                   THEN [@ EXCEPT !.state = "queued", !.endpoint = worker[d].to] ELSE @]
    /\ worker' = [worker EXCEPT ![d].at = "binding", ![d].on = None]
    /\ UNCHANGED <<received, posts, faults, rotated>>

(* Mutant: every queued delivery is bound to this endpoint. *)
BindAnyQueued(d) ==
    /\ worker[d].at = "binding"
    /\ rows' = [i \in Ids |-> IF rows[i].state = "queued"
                              THEN [rows[i] EXCEPT !.endpoint = worker[d].to] ELSE rows[i]]
    /\ worker' = [worker EXCEPT ![d].at = "claiming"]
    /\ UNCHANGED <<received, posts, faults, rotated>>

(* bind_unbound_webhook_deliveries *)
Bind(d) ==
    /\ worker[d].at = "binding"
    /\ rows' = [i \in Ids |-> IF rows[i].state = "queued" /\ rows[i].endpoint = None
                              THEN [rows[i] EXCEPT !.endpoint = worker[d].to] ELSE rows[i]]
    /\ worker' = [worker EXCEPT ![d].at = "claiming"]
    /\ UNCHANGED <<received, posts, faults, rotated>>

(* Mutant: the delay grows with every attempt and is not capped. *)
FailedUncapped(row, delay) ==
    [row EXCEPT !.attempts = @ + 1, !.owner = None, !.lease = 0, !.wait = delay * (row.attempts + 1),
                !.state = IF row.attempts + 1 >= MaxAttempts THEN "dead_letter" ELSE "queued"]

(* A failed or lost attempt: retried after a delay, or given up.            *)
Failed(row, delay) ==
    [row EXCEPT !.attempts = @ + 1, !.owner = None, !.lease = 0, !.wait = delay,
                !.state = IF row.attempts + 1 >= MaxAttempts THEN "dead_letter" ELSE "queued"]

(* Mutant: a lease that ran out is given to the next process uncounted. *)
ReclaimedUncounted(e) ==
    [i \in Ids |-> IF rows[i].state = "delivering" /\ rows[i].endpoint = e /\ rows[i].lease = 0
                   THEN [rows[i] EXCEPT !.state = "queued", !.owner = None, !.wait = 0]
                   ELSE rows[i]]

(* Mutant: leases of dead processes are not reclaimed. *)
NeverReclaimed(e) == rows

(* The lease of a crashed or hung process ran out: a failed attempt.        *)
Reclaimed(e) ==
    [i \in Ids |-> IF rows[i].state = "delivering" /\ rows[i].endpoint = e /\ rows[i].lease = 0
                   THEN Failed(rows[i], 0) ELSE rows[i]]

(* Mutant: a delivery another process holds the lease of is due as well. *)
DueThoughLeased(row, e) ==
    row.state \in {"queued", "delivering"} /\ row.endpoint = e /\ row.wait = 0

Due(row, e) == row.state = "queued" /\ row.endpoint = e /\ row.wait = 0

(* claim_webhook_deliveries: expired leases become failed attempts, then    *)
(* one due delivery is leased; with none due the process ends its round.    *)
(* Deliveries committed within one second have no order.                    *)
Claim(d) ==
    LET e == worker[d].to
        due == {i \in Ids : Due(Reclaimed(e)[i], e)}
    IN  /\ worker[d].at = "claiming"
        /\ \/ \E i \in due :
                 /\ rows' = [Reclaimed(e) EXCEPT ![i].state = "delivering", ![i].owner = d,
                                                 ![i].lease = Lease]
                 /\ worker' = [worker EXCEPT ![d].at = "posting", ![d].on = i, ![d].age = 0]
                 /\ posts' = [posts EXCEPT ![i] = @ + 1]
           \/ /\ due = {}
              /\ rows' = Reclaimed(e)
              /\ worker' = [worker EXCEPT ![d] = IdleWorker]
              /\ UNCHANGED posts
        /\ UNCHANGED <<received, faults, rotated>>

(* load_webhook_url reads the URL file anew at every call: the operator, or *)
(* whoever manages the secret, replaces it while a round is under way.      *)
Rotate(d, e) ==
    /\ worker[d].at # "idle" /\ worker[d].url # e
    /\ faults < MaxFaults
    /\ faults' = faults + 1
    /\ worker' = [worker EXCEPT ![d].url = e]
    /\ rotated' = rotated \cup {<<worker[d].to, e>>}
    /\ UNCHANGED <<rows, received, posts>>

(* post_json resolves the URL again and ends: accepted there; accepted but  *)
(* the answer lost; or never accepted.                                      *)
Post(d, accepted, answered) ==
    LET i == worker[d].on
    IN  /\ worker[d].at = "posting"
        /\ answered => accepted
        /\ answered \/ faults < MaxFaults
        /\ faults' = IF answered THEN faults ELSE faults + 1
        /\ received' = IF accepted THEN [received EXCEPT ![i] = @ \cup {worker[d].url}] ELSE received
        /\ worker' = [worker EXCEPT ![d].at = "marking", ![d].ok = answered]
        /\ UNCHANGED <<rows, posts, rotated>>

(* mark_webhook_delivered and mark_webhook_failed: only the owner of the    *)
(* lease records an outcome; anyone else stops with an error.               *)
Mark(d, delay) ==
    LET i == worker[d].on
        owns == rows[i].state = "delivering" /\ rows[i].owner = d
    IN  /\ worker[d].at = "marking"
        /\ rows' = IF ~owns THEN rows
                   ELSE [rows EXCEPT ![i] =
                           IF worker[d].ok
                           THEN [@ EXCEPT !.state = "delivered", !.owner = None, !.lease = 0]
                           ELSE Failed(@, delay)]
        /\ worker' = [worker EXCEPT ![d] =
                        IF owns THEN [@ EXCEPT !.at = "claiming", !.on = None, !.ok = FALSE, !.age = 0]
                        ELSE IdleWorker]
        /\ UNCHANGED <<received, posts, faults, rotated>>

Crash(d) ==
    /\ worker[d].at # "idle"
    /\ faults < MaxFaults
    /\ faults' = faults + 1
    /\ worker' = [worker EXCEPT ![d] = IdleWorker]
    /\ UNCHANGED <<rows, received, posts, rotated>>

(* Ten seconds pass; a POST ends within its budget and its outcome is       *)
(* recorded at once.                                                        *)
Tick ==
    /\ \A d \in Deliverers : /\ worker[d].at # "marking"
                             /\ worker[d].at = "posting" => worker[d].age < PostBudget
    /\ \E i \in Ids : rows[i].lease > 0 \/ rows[i].wait > 0
    /\ rows' = [i \in Ids |->
          [rows[i] EXCEPT !.lease = IF @ > 0 THEN @ - 1 ELSE 0,
                          !.wait = IF @ > 0 THEN @ - 1 ELSE 0]]
    /\ worker' = [d \in Deliverers |->
          IF worker[d].at = "posting" THEN [worker[d] EXCEPT !.age = @ + 1] ELSE worker[d]]
    /\ UNCHANGED <<received, posts, faults, rotated>>

-----------------------------------------------------------------------------
BeginRound(d, e) == \E s \in Statuses : ReadStatus(d, e, s)

DelivererStep(d) ==
    \/ Enqueue(d) \/ Bind(d) \/ Claim(d)
    \/ \E accepted, answered \in BOOLEAN : Post(d, accepted, answered)
    \/ \E delay \in 1..MaxBackoff : Mark(d, delay)

Next ==
    \/ \E e \in Events : Emit(e)
    \/ \E d \in Deliverers, e \in Endpoints : BeginRound(d, e) \/ Rotate(d, e)
    \/ \E d \in Deliverers : DelivererStep(d) \/ Crash(d)
    \/ Tick

(* notify-webhook --watch, or a timer that starts it, for every endpoint:   *)
(* its next round begins, the steps of a round are taken, and time passes.  *)
Spec ==
    /\ Init /\ [][Next]_vars
    /\ WF_vars(Tick)
    /\ \A d \in Deliverers : WF_vars(DelivererStep(d))
    /\ \A e \in Endpoints : SF_vars(\E d \in Deliverers : BeginRound(d, e))

-----------------------------------------------------------------------------
(* Properties *)

(* Two processes never have a POST of the same delivery in flight at the    *)
(* same time: a lease outlives the request it covers.                       *)
OnePostAtATime ==
    \A d, f \in Deliverers :
        d # f /\ worker[d].at = "posting" /\ worker[f].at = "posting" => worker[d].on # worker[f].on

(* Through all retries, faults and reclaimed leases a delivery reaches the  *)
(* endpoint it is bound to, or one that the URL file was changed to in the  *)
(* middle of a round for that endpoint, and no other; it is recorded as     *)
(* delivered only after it was accepted.                                    *)
StraysOnlyByRotation ==
    \A i \in Ids :
        /\ \A u \in received[i] : u = rows[i].endpoint \/ <<rows[i].endpoint, u>> \in rotated
        /\ rows[i].state = "delivered" => received[i] # {}

(* A delivery is posted at most MaxAttempts times, even when every process  *)
(* that tries it dies before it can record an outcome.                      *)
PostsBounded == \A i \in Ids : posts[i] <= MaxAttempts

(* The outbox drains: once no new event is committed, every delivery is     *)
(* delivered or dead-lettered, whoever died holding its lease.              *)
OutboxDrains ==
    <>[](\A i \in Ids : rows[i].state \in {"absent", "delivered", "dead_letter"})
=============================================================================
