-------------------------- MODULE SupervisionProofs --------------------------
(***************************************************************************)
(* Proofs about Supervision for any number of pids, processes, crashes and *)
(* any queue bound.  What lives without a record and what is signalled     *)
(* without being ours is excluded by one inductive invariant: a gatekeeper *)
(* is let go only after everything queued before its registration, and the *)
(* registration itself, has reached the ledger.                            *)
(***************************************************************************)
EXTENDS Supervision, TLAPS

(* The engine runs, or its gatekeeper has been told to become it. *)
Live(p) == leader[p].image = "engine" \/ (leader[p].image = "gate" /\ pipe[p] = "go")

(* A start time that is not the one of another program's process. *)
OurStart(s) ==
    /\ s <= starts
    /\ \A p \in Pids : leader[p].image = "foreign" => leader[p].start # s

StartsOK ==
    /\ \A p \in Pids : leader[p].start <= starts
    /\ worker.at # "idle" => OurStart(worker.start)
    /\ \A i \in 1..Len(events) : OurStart(events[i].start)
    /\ record.start # Unknown => record.pid \in Pids /\ OurStart(record.start)

(* Until the attempt has ended, nobody else has the pid the worker named;   *)
(* before GO the gatekeeper waits at an open pipe.                          *)
WorkerOK ==
    /\ worker.at = "idle" => worker.pid = NoPid
    /\ worker.at # "idle" =>
          /\ worker.pid \in Pids
          /\ leader[worker.pid].image # "foreign"
          /\ leader[worker.pid].image # "none" => leader[worker.pid].start = worker.start
    /\ worker.at \in {"spawned", "awaiting", "registered"} =>
          pipe[worker.pid] = "open" /\ leader[worker.pid].image \notin Engines
    /\ worker.at # "idle" /\ ~worker.durable => leader[worker.pid].image \notin {"gate", "engine"}
    /\ worker.at = "ended" => leader[worker.pid].image = "none"

Registered ==
    /\ worker.durable
    /\ worker.at \in {"registered", "waiting"} \/ (worker.at = "awaiting" /\ ack = "ok")

(* Events are reduced in order: an attempt's own registration is the last   *)
(* one queued, and nothing is left in the queue once it was answered.       *)
QueueOK ==
    /\ worker.at = "spawned" => ack = "none" /\ \A i \in 1..Len(events) : events[i].start # worker.start
    /\ worker.at = "awaiting" => \A i \in 1..Len(events) :
          events[i].start = worker.start => i = Len(events) /\ events[i].pid = worker.pid
    /\ Registered => /\ events = <<>>
                     /\ record.pid = worker.pid /\ record.start \in {worker.start, Unknown}

(* What lives is on record, has no event behind it, and is supervised or    *)
(* under review.                                                            *)
LiveOK ==
    \A p \in Pids : Live(p) =>
        /\ record.pid = p /\ record.start \in {leader[p].start, Unknown}
        /\ events = <<>>
        /\ ctl = "ready" => worker.pid = p \/ review

(* A probe has no record; it is its worker's until the controller crashes.  *)
ProbeOK ==
    \A p \in Pids : leader[p].image \in {"probegate", "probe"} => worker.pid = p \/ crashes > 0

(* While recovery or a review is pending nothing is started. *)
ControlOK ==
    /\ ctl # "ready" \/ review => worker.at = "idle" /\ events = <<>>
    /\ ctl = "ready" /\ review => run = "none"
    /\ ctl = "escalating" => record # NoRecord /\ record.start # Unknown

SupervisionInv ==
    /\ TypeOK
    /\ StartsOK
    /\ WorkerOK
    /\ QueueOK
    /\ LiveOK
    /\ ProbeOK
    /\ ControlOK
    /\ RecordHasRun
    /\ ForeignUntouched

-----------------------------------------------------------------------------
(* Types. *)

(* The bounds, one by one. *)
LEMMA Bounds ==
    MaxStarts \in Nat /\ QueueBound \in Nat /\ QueueBound > 0 /\ MaxCrashes \in Nat /\ NoPid \notin Pids
BY SupervisionConstants

USE Bounds

Process == [image : Images, start : 0..MaxStarts]
Event == [kind : {"started", "ended"}, pid : Pids, start : 0..MaxStarts, known : BOOLEAN]
WorkerRow == [at : {"idle", "spawned", "awaiting", "registered", "waiting", "grace", "ended"},
              pid : Pids \cup {NoPid}, start : 0..MaxStarts, durable : BOOLEAN]
RecordRow == [pid : Pids \cup {NoPid}, start : 0..MaxStarts]

(* The typed state, component by component. *)
LEMMA Typed ==
    TypeOK <=>
    /\ parentDeath \in BOOLEAN /\ leader \in [Pids -> Process] /\ helper \in SUBSET Pids
    /\ pipe \in [Pids -> {"open", "go", "closed"}] /\ starts \in 0..MaxStarts
    /\ ctl \in {"down", "terminating", "escalating", "ready"}
    /\ review \in BOOLEAN /\ cancel \in BOOLEAN /\ hit \in BOOLEAN /\ run \in {"none", "running"}
    /\ worker \in WorkerRow /\ events \in Seq(Event) /\ Len(events) <= QueueBound
    /\ ack \in {"none", "ok", "refused"} /\ record \in RecordRow /\ crashes \in 0..MaxCrashes
BY DEF TypeOK, Process, WorkerRow, Event, RecordRow

(* The constants of the model have their types. *)
LEMMA Constants ==
    /\ Free \in Process /\ IdleWorker \in WorkerRow /\ NoRecord \in RecordRow
    /\ Free.image = "none" /\ IdleWorker.at = "idle" /\ IdleWorker.pid = NoPid
    /\ NoRecord.pid = NoPid /\ NoRecord.start = Unknown /\ Unknown \in 0..MaxStarts
BY DEF Free, IdleWorker, NoRecord, Process, WorkerRow, RecordRow, Images, Gates, Engines, Unknown

(* A process that ends becomes a zombie or is gone. *)
LEMMA DeadProcess ==
    ASSUME TypeOK, NEW p \in Pids, NEW reaper \in BOOLEAN
    PROVE  /\ Dead(p, reaper) \in Process
           /\ \/ Dead(p, reaper) = Free
              \/ /\ Dead(p, reaper).image = "zombie" /\ Dead(p, reaper).start = leader[p].start
BY Typed, Constants DEF Dead, Process, Images

(* What remains of the leaders after a step that ends processes. *)
Fades ==
    \A q \in Pids : \/ leader'[q] = leader[q]
                    \/ leader'[q] = Free
                    \/ /\ leader[q].image \in Gates \cup Engines
                       /\ leader'[q].image = "zombie" /\ leader'[q].start = leader[q].start

(* A signal to a group ends processes and, when the group is ours, hits     *)
(* nobody else.                                                             *)
LEMMA Signals ==
    ASSUME TypeOK, NEW p \in Pids, NEW reaper \in BOOLEAN, Terminate(p, reaper) \/ Kill(p, reaper)
    PROVE  /\ leader' \in [Pids -> Process] /\ helper' \in SUBSET Pids
           /\ Fades /\ pipe' = pipe /\ starts' = starts
           /\ leader[p].image # "foreign" => hit' = hit
           /\ hit' \in BOOLEAN
<1>a. leader \in [Pids -> Process] /\ helper \in SUBSET Pids /\ hit \in BOOLEAN
  BY Typed
<1>1. leader' = leader \/ (Runs(p) /\ leader' = [leader EXCEPT ![p] = Dead(p, reaper)])
  BY DEF Terminate, Kill
<1>2. /\ helper' \in SUBSET Pids /\ pipe' = pipe /\ starts' = starts
      /\ hit' = (hit \/ leader[p].image = "foreign")
  BY <1>a DEF Terminate, Kill
<1>3. leader' \in [Pids -> Process] /\ Fades
  BY <1>a, <1>1, DeadProcess DEF Fades, Runs
<1> QED BY <1>a, <1>2, <1>3


(* The group a worker or a record names. *)
Signalled ==
    /\ worker.at # "idle" => worker.pid \in Pids /\ leader[worker.pid].image # "foreign"
    /\ Matches(record, leader) => record.pid \in Pids /\ leader[record.pid].image # "foreign"

(* Only processes of ours are signalled, since a start time names one. *)
LEMMA SignalsOurs == TypeOK /\ WorkerOK /\ StartsOK => Signalled
<1> SUFFICES ASSUME TypeOK, WorkerOK, StartsOK, Matches(record, leader)
             PROVE  record.pid \in Pids /\ leader[record.pid].image # "foreign"
  BY DEF Signalled, WorkerOK
<1> QED BY DEF Matches, StartsOK, OurStart


(* Every step keeps every part of the state in its domain. *)
LEMMA TypeStep == SupervisionInv /\ [Next]_vars => TypeOK'
<1> SUFFICES ASSUME SupervisionInv, [Next]_vars PROVE TypeOK'
  OBVIOUS
<1> DEFINE T ==
        /\ parentDeath \in BOOLEAN /\ leader \in [Pids -> Process] /\ helper \in SUBSET Pids
        /\ pipe \in [Pids -> {"open", "go", "closed"}] /\ starts \in 0..MaxStarts
        /\ ctl \in {"down", "terminating", "escalating", "ready"}
        /\ review \in BOOLEAN /\ cancel \in BOOLEAN /\ hit \in BOOLEAN /\ run \in {"none", "running"}
        /\ worker \in WorkerRow /\ events \in Seq(Event) /\ Len(events) <= QueueBound
        /\ ack \in {"none", "ok", "refused"} /\ record \in RecordRow /\ crashes \in 0..MaxCrashes
<1>a. T /\ TypeOK /\ Signalled
  BY Typed, SignalsOurs DEF SupervisionInv
<1>b. SUFFICES T'
  BY DEF TypeOK, Process, WorkerRow, Event, RecordRow
<1>c. (* a step of the host that only concerns leaders and helpers *)
      ASSUME leader' \in [Pids -> Process], helper' \in SUBSET Pids, starts' \in 0..MaxStarts,
             UNCHANGED <<parentDeath, pipe, ctl, review, run, cancel, worker, events, ack, record,
                         crashes, hit>>
      PROVE  T'
  BY <1>a, <1>c
<1>d. worker.at # "idle" => worker.pid \in Pids
  BY <1>a DEF Signalled
<1>e. \A at \in {"spawned", "awaiting", "registered", "waiting", "grace", "ended"} :
         [worker EXCEPT !.at = at] \in WorkerRow
  BY <1>a DEF WorkerRow
<1> USE Constants
<1>1. CASE BeginRun \/ Cancel
  BY <1>a, <1>1 DEF BeginRun, Cancel, host
<1>2. CASE FinishRun
  BY <1>a, <1>2 DEF FinishRun, host
<1>3. ASSUME NEW p \in Pids, NEW durable \in BOOLEAN, Spawn(p, durable) PROVE T'
  <2>1. starts + 1 \in 0..MaxStarts /\ starts' = starts + 1
    BY <1>a, <1>3 DEF Spawn
  <2>2. [image |-> IF durable THEN "gate" ELSE "probegate", start |-> starts + 1] \in Process
    BY <2>1 DEF Process, Images, Gates
  <2>3. leader' \in [Pids -> Process]
    BY <1>a, <1>3, <2>2 DEF Spawn
  <2>4. worker' \in WorkerRow
    BY <1>3, <2>1 DEF Spawn, WorkerRow
  <2>5. pipe' \in [Pids -> {"open", "go", "closed"}]
    BY <1>a, <1>3 DEF Spawn
  <2> QED BY <1>a, <1>3, <2>1, <2>3, <2>4, <2>5 DEF Spawn
<1>4. ASSUME Stop, UNCHANGED <<parentDeath, ctl, review, run, events, ack, record, crashes>>,
             worker.at # "idle"
      PROVE  T'
  <2>1. leader' \in [Pids -> Process] /\ helper' \in SUBSET Pids /\ pipe' = pipe
        /\ starts' = starts /\ hit' \in BOOLEAN
    BY <1>a, <1>d, <1>4, Signals DEF Stop
  <2>2. worker' \in WorkerRow /\ cancel' \in BOOLEAN
    BY <1>a, <1>e, <1>4 DEF Stop
  <2> QED BY <1>a, <1>4, <2>1, <2>2
<1>5. CASE SendStarted
  <2>1. ASSUME NEW known \in BOOLEAN, Len(events) < QueueBound, worker.at = "spawned",
               events' = Append(events, [kind |-> "started", pid |-> worker.pid,
                                         start |-> worker.start, known |-> known]),
               worker' = [worker EXCEPT !.at = "awaiting"],
               UNCHANGED <<host, cancel, parentDeath, ctl, review, run, ack, record, crashes>>
        PROVE  T'
    <3>1. [kind |-> "started", pid |-> worker.pid, start |-> worker.start, known |-> known] \in Event
      BY <1>a, <1>d, <2>1 DEF Event, WorkerRow
    <3>2. events' \in Seq(Event) /\ Len(events') <= QueueBound
      BY <1>a, <2>1, <3>1
    <3> QED BY <1>a, <1>e, <2>1, <3>2 DEF host
  <2> QED BY <1>4, <1>5, <2>1 DEF SendStarted
<1>6. CASE AwaitRegistration
  <2>1. CASE /\ worker' = [worker EXCEPT !.at = "registered"]
             /\ UNCHANGED <<host, cancel, parentDeath, ctl, review, run, events, ack, record, crashes>>
    BY <1>a, <1>e, <2>1 DEF host
  <2> QED BY <1>4, <1>6, <2>1 DEF AwaitRegistration
<1>7. CASE Release
  <2>1. CASE /\ pipe' = [pipe EXCEPT ![worker.pid] = "go"]
             /\ worker' = [worker EXCEPT !.at = "waiting"]
             /\ UNCHANGED <<leader, helper, starts, hit, cancel, parentDeath, ctl, review, run,
                            events, ack, record, crashes>>
    <3>1. pipe' \in [Pids -> {"open", "go", "closed"}]
      BY <1>a, <2>1
    <3> QED BY <1>a, <1>e, <2>1, <3>1
  <2> QED BY <1>4, <1>7, <2>1 DEF Release
<1>8. CASE LeaderEnded
  <2>1. leader' \in [Pids -> Process]
    BY <1>a, <1>8 DEF LeaderEnded
  <2>2. worker' \in WorkerRow /\ helper' \in SUBSET Pids
    BY <1>a, <1>e, <1>8 DEF LeaderEnded
  <2> QED BY <1>a, <1>8, <2>1, <2>2 DEF LeaderEnded
<1>9. CASE StopWaiting
  <2>1. leader' \in [Pids -> Process] /\ helper' \in SUBSET Pids /\ pipe' = pipe
        /\ starts' = starts /\ hit' \in BOOLEAN
    BY <1>a, <1>d, <1>9, Signals DEF StopWaiting
  <2> QED BY <1>a, <1>e, <1>9, <2>1 DEF StopWaiting
<1>10. CASE GraceEnds
  <2>1. leader' \in [Pids -> Process] /\ helper' \in SUBSET Pids
    BY <1>a, <1>10 DEF GraceEnds
  <2> QED BY <1>a, <1>e, <1>10, <2>1 DEF GraceEnds
<1>11. CASE SendEnded
  <2>1. [kind |-> "ended", pid |-> worker.pid, start |-> worker.start, known |-> FALSE] \in Event
    BY <1>a, <1>d, <1>11 DEF Event, WorkerRow, SendEnded
  <2>2. events' \in Seq(Event) /\ Len(events') <= QueueBound
    BY <1>a, <1>11, <2>1 DEF SendEnded
  <2>3. pipe' \in [Pids -> {"open", "go", "closed"}]
    BY <1>a, <1>11 DEF SendEnded
  <2> QED BY <1>a, <1>11, <2>2, <2>3 DEF SendEnded
<1>12. CASE WorkerPanics
  <2>1. leader' \in [Pids -> Process] /\ helper' \in SUBSET Pids
        /\ pipe' \in [Pids -> {"open", "go", "closed"}]
    BY <1>a, <1>12 DEF WorkerPanics
  <2>2. [kind |-> "ended", pid |-> worker.pid, start |-> worker.start, known |-> FALSE] \in Event
    BY <1>a, <1>d, <1>12 DEF Event, WorkerRow, WorkerPanics
  <2>3. events' \in Seq(Event) /\ Len(events') <= QueueBound
    BY <1>a, <1>12, <2>2 DEF WorkerPanics
  <2> QED BY <1>a, <1>12, <2>1, <2>3 DEF WorkerPanics
<1>13. CASE ReduceStarted
  <2>1. events # <<>> /\ events' = Tail(events)
    BY <1>13 DEF ReduceStarted
  <2>2. Head(events) \in Event /\ events' \in Seq(Event) /\ Len(events') <= QueueBound
    BY <1>a, <2>1
  <2>3. /\ record' \in {record, [pid |-> Head(events).pid,
                                 start |-> IF Head(events).known THEN Head(events).start ELSE Unknown]}
        /\ ack' \in {ack, "ok", "refused"}
    BY <1>13 DEF ReduceStarted
  <2>4. record' \in RecordRow
    BY <1>a, <2>2, <2>3 DEF RecordRow, Event
  <2> QED BY <1>a, <1>13, <2>2, <2>3, <2>4 DEF ReduceStarted, host
<1>14. CASE ReduceEnded
  <2>1. events' \in Seq(Event) /\ Len(events') <= QueueBound
    BY <1>a, <1>14 DEF ReduceEnded
  <2> QED BY <1>a, <1>14, <2>1 DEF ReduceEnded, host
<1>15. CASE Crash
  <2>1. leader' \in [Pids -> Process] /\ pipe' \in [Pids -> {"open", "go", "closed"}]
    BY <1>a, <1>15 DEF Crash
  <2>2. crashes' \in 0..MaxCrashes
    BY <1>a, <1>15 DEF Crash
  <2>3. events' \in Seq(Event) /\ Len(events') <= QueueBound
    BY <1>15 DEF Crash
  <2> QED BY <1>a, <1>15, <2>1, <2>2, <2>3 DEF Crash
<1>16. CASE Restart
  BY <1>a, <1>16 DEF Restart, host
<1>17. CASE TerminateRecorded
  <2>1. leader' \in [Pids -> Process] /\ helper' \in SUBSET Pids /\ pipe' = pipe
        /\ starts' = starts /\ hit' \in BOOLEAN
    BY <1>a, <1>17, Signals DEF TerminateRecorded, host, Signalled
  <2>2. /\ ctl' \in {"escalating", "ready"} /\ review' \in BOOLEAN /\ run' \in {"none", "running"}
        /\ record' \in RecordRow
    BY <1>a, <1>17 DEF TerminateRecorded, Reconciled
  <2> QED BY <1>a, <1>17, <2>1, <2>2 DEF TerminateRecorded
<1>18. CASE EscalateRecorded
  <2>1. leader' \in [Pids -> Process] /\ helper' \in SUBSET Pids /\ pipe' = pipe
        /\ starts' = starts /\ hit' \in BOOLEAN
    BY <1>a, <1>18, Signals DEF EscalateRecorded, host, Signalled
  <2>2. /\ ctl' = "ready" /\ review' \in BOOLEAN /\ run' = "none" /\ record' \in RecordRow
    BY <1>a, <1>18 DEF EscalateRecorded, Reconciled, Matches
  <2> QED BY <1>a, <1>18, <2>1, <2>2 DEF EscalateRecorded
<1>19. CASE AcknowledgeReview
  BY <1>a, <1>19 DEF AcknowledgeReview, host
<1>20. ASSUME NEW p \in Pids, HostStep(p) PROVE T'
  <2>1. CASE ForeignStarts(p)
    <3>1. starts + 1 \in 0..MaxStarts /\ starts' = starts + 1
      BY <1>a, <2>1 DEF ForeignStarts
    <3>2. [image |-> "foreign", start |-> starts + 1] \in Process
      BY <3>1 DEF Process, Images
    <3>3. leader' \in [Pids -> Process] /\ helper' = helper
      BY <1>a, <2>1, <3>2 DEF ForeignStarts
    <3> QED BY <1>a, <1>c, <2>1, <3>1, <3>3 DEF ForeignStarts
  <2>2. CASE ForeignEnds(p) \/ EngineExits(p)
    <3>1. leader' \in [Pids -> Process]
      BY <1>a, <2>2, DeadProcess DEF ForeignEnds, EngineExits
    <3> QED BY <1>a, <1>c, <2>2, <3>1 DEF ForeignEnds, EngineExits
  <2>3. CASE GateProceeds(p)
    <3>1. \A image \in Images : [leader[p] EXCEPT !.image = image] \in Process
      BY <1>a DEF Process
    <3>2. leader[p] \in Process /\ "engine" \in Images /\ "probe" \in Images
      BY <1>a DEF Images, Engines
    <3>3. ASSUME leader' = [leader EXCEPT ![p].image = IF @ = "gate" THEN "engine" ELSE "probe"]
          PROVE  leader' \in [Pids -> Process]
      <4>1. PICK image \in Images : leader' = [leader EXCEPT ![p] = [leader[p] EXCEPT !.image = image]]
        BY <3>2, <3>3
      <4> QED BY <1>a, <3>1, <4>1
    <3>4. ASSUME leader' = [leader EXCEPT ![p] = Dead(p, ctl = "ready" /\ worker.pid = p)]
          PROVE  leader' \in [Pids -> Process]
      BY <1>a, <3>4, DeadProcess
    <3>5. leader' \in [Pids -> Process]
      BY <2>3, <3>3, <3>4 DEF GateProceeds
    <3> QED BY <1>a, <1>c, <2>3, <3>5 DEF GateProceeds
  <2>4. CASE EngineForks(p) \/ HelperExits(p)
    BY <1>a, <1>c, <2>4 DEF EngineForks, HelperExits
  <2> QED BY <1>20, <2>1, <2>2, <2>3, <2>4 DEF HostStep
<1>21. CASE UNCHANGED vars
  BY <1>a, <1>21 DEF vars
<1> QED
  BY <1>1, <1>2, <1>3, <1>5, <1>6, <1>7, <1>8, <1>9, <1>10, <1>11, <1>12, <1>13, <1>14, <1>15,
     <1>16, <1>17, <1>18, <1>19, <1>20, <1>21 DEF Next, WorkerStep, Reduce, Recovery

-----------------------------------------------------------------------------
(* What a step does to the processes. *)

(* A gatekeeper that has its GO becomes the engine or the probe. *)
Becomes(p) ==
    /\ leader[p].image \in Gates /\ pipe[p] = "go"
    /\ leader' = [leader EXCEPT ![p].image = IF @ = "gate" THEN "engine" ELSE "probe"]
    /\ starts' = starts /\ pipe' = pipe

(* A worker lives only under a controller that is ready, with no review. *)
LEMMA Working ==
    SupervisionInv /\ worker.at # "idle" =>
        ctl = "ready" /\ ~review /\ worker.pid \in Pids /\ leader[worker.pid].image # "foreign"
BY DEF SupervisionInv, ControlOK, WorkerOK

(* Processes end, or exactly one starts or becomes an engine. *)
LEMMA LeaderEffect ==
    SupervisionInv /\ [Next]_vars =>
        \/ Fades /\ starts' = starts
        \/ \E p \in Pids : ForeignStarts(p) \/ Becomes(p) \/ \E d \in BOOLEAN : Spawn(p, d)
<1> SUFFICES ASSUME SupervisionInv, [Next]_vars
             PROVE  \/ Fades /\ starts' = starts
                    \/ \E p \in Pids : ForeignStarts(p) \/ Becomes(p) \/ \E d \in BOOLEAN : Spawn(p, d)
  OBVIOUS
<1>a. TypeOK /\ Signalled /\ leader \in [Pids -> Process]
  BY Typed, SignalsOurs DEF SupervisionInv
<1>b. worker.at # "idle" => worker.pid \in Pids
  BY <1>a DEF Signalled
<1>1. CASE leader' = leader /\ starts' = starts
  BY <1>1 DEF Fades
<1>2. ASSUME NEW p \in Pids, leader' = [leader EXCEPT ![p] = Free], starts' = starts
      PROVE  Fades
  BY <1>a, <1>2 DEF Fades
<1>3. CASE BeginRun \/ FinishRun \/ Cancel \/ SendEnded \/ ReduceStarted \/ ReduceEnded
           \/ Restart \/ AcknowledgeReview \/ UNCHANGED vars
  BY <1>1, <1>3 DEF BeginRun, FinishRun, Cancel, SendEnded, ReduceStarted, ReduceEnded, Restart,
                    AcknowledgeReview, vars, host
<1>4. CASE worker.at # "idle" /\ Terminate(worker.pid, TRUE)
  BY <1>a, <1>b, <1>4, Signals
<1>5. CASE SendStarted \/ AwaitRegistration \/ Release \/ StopWaiting
  BY <1>1, <1>4, <1>5 DEF SendStarted, AwaitRegistration, Release, StopWaiting, Stop, host
<1>6. CASE LeaderEnded \/ GraceEnds \/ WorkerPanics
  BY <1>b, <1>2, <1>6 DEF LeaderEnded, GraceEnds, WorkerPanics
<1>7. CASE Crash
  BY <1>7 DEF Crash, Fades
<1>8. CASE TerminateRecorded \/ EscalateRecorded
  BY <1>a, <1>1, <1>8, Signals DEF TerminateRecorded, EscalateRecorded, Signalled, host
<1>9. ASSUME NEW p \in Pids, HostStep(p)
      PROVE  (Fades /\ starts' = starts) \/ ForeignStarts(p) \/ Becomes(p)
  <2>1. CASE ForeignEnds(p)
    BY <1>2, <2>1 DEF ForeignEnds
  <2>2. ASSUME NEW reaper \in BOOLEAN, Runs(p), leader' = [leader EXCEPT ![p] = Dead(p, reaper)],
               starts' = starts
        PROVE  Fades
    BY <1>a, <2>2, DeadProcess DEF Fades, Runs
  <2>3. CASE GateProceeds(p)
    BY <2>2, <2>3 DEF GateProceeds, Runs, Becomes
  <2>4. CASE EngineExits(p)
    BY <2>2, <2>4 DEF EngineExits, Runs
  <2>5. CASE EngineForks(p) \/ HelperExits(p)
    BY <1>1, <2>5 DEF EngineForks, HelperExits, Fades
  <2> QED BY <1>9, <2>1, <2>3, <2>4, <2>5 DEF HostStep
<1> QED
  BY <1>3, <1>5, <1>6, <1>7, <1>8, <1>9 DEF Next, WorkerStep, Reduce, Recovery

(* A start time that named no other program's process never will. *)
LEMMA OurStartKept ==
    ASSUME SupervisionInv, [Next]_vars
    PROVE  /\ \A p \in Pids : leader'[p].start <= starts'
           /\ starts \in Nat /\ starts' \in Nat /\ starts <= starts'
           /\ \A s \in Nat : OurStart(s) => OurStart(s)'
<1>a. leader \in [Pids -> Process] /\ starts \in 0..MaxStarts
  BY Typed DEF SupervisionInv
<1>b. \A p \in Pids : leader[p].start \in Nat /\ leader[p].start <= starts
  BY <1>a DEF SupervisionInv, StartsOK, Process
<1>c. Free.start = 0 /\ Free.image = "none"
  BY DEF Free, Unknown
<1>1. CASE Fades /\ starts' = starts
  <2>1. \A p \in Pids : leader'[p].start <= starts'
    BY <1>a, <1>b, <1>c, <1>1 DEF Fades
  <2>2. \A p \in Pids : leader'[p].image = "foreign" => leader'[p] = leader[p]
    BY <1>c, <1>1 DEF Fades
  <2> QED BY <1>a, <1>1, <2>1, <2>2 DEF OurStart
<1>2. ASSUME NEW p \in Pids, ForeignStarts(p) \/ Becomes(p) \/ \E d \in BOOLEAN : Spawn(p, d)
      PROVE  /\ \A q \in Pids : leader'[q].start <= starts'
             /\ starts' \in Nat /\ starts <= starts'
             /\ \A s \in Nat : OurStart(s) => OurStart(s)'
  <2>1. \A q \in Pids : \/ leader'[q] = leader[q] \/ leader'[q].start = starts'
                        \/ leader'[q].start = leader[q].start
    BY <1>a, <1>2 DEF ForeignStarts, Spawn, Becomes, Process
  <2>2. starts' \in Nat /\ starts <= starts'
    BY <1>a, <1>2 DEF ForeignStarts, Spawn, Becomes
  <2>3. \A q \in Pids : leader'[q].image = "foreign" =>
            leader'[q] = leader[q] \/ (leader'[q].start = starts + 1)
    BY <1>a, <1>2 DEF ForeignStarts, Spawn, Becomes, Process
  <2>4. \A q \in Pids : leader'[q].start <= starts'
    BY <1>a, <1>b, <2>1, <2>2
  <2> QED BY <1>a, <1>b, <2>2, <2>3, <2>4 DEF OurStart
<1> QED BY <1>a, <1>1, <1>2, LeaderEffect

-----------------------------------------------------------------------------
(* Start times. *)

(* Every start time kept by the program is the one of a process of ours. *)
LEMMA StartsStep == SupervisionInv /\ [Next]_vars => StartsOK'
<1> SUFFICES ASSUME SupervisionInv, [Next]_vars PROVE StartsOK'
  OBVIOUS
<1> DEFINE Still(s) == s <= starts' /\ \A p \in Pids : leader'[p].image = "foreign" => leader'[p].start # s
<1>a. /\ \A p \in Pids : leader'[p].start <= starts'
      /\ starts \in Nat /\ starts' \in Nat /\ starts <= starts'
      /\ \A s \in Nat : OurStart(s) => Still(s)
  BY OurStartKept DEF OurStart
<1>b. /\ worker \in WorkerRow /\ events \in Seq(Event) /\ record \in RecordRow
      /\ leader \in [Pids -> Process]
  BY Typed DEF SupervisionInv
<1>c. worker.start \in Nat /\ record.start \in Nat /\ \A i \in 1..Len(events) : events[i].start \in Nat
  <2>1. worker.start \in Nat /\ record.start \in Nat
    BY <1>b DEF WorkerRow, RecordRow
  <2>2. \A i \in 1..Len(events) : events[i] \in Event
    BY <1>b
  <2>3. \A e \in Event : e.start \in Nat
    BY DEF Event
  <2> QED BY <2>1, <2>2, <2>3
<1>d. /\ worker.at # "idle" => Still(worker.start)
      /\ \A i \in 1..Len(events) : Still(events[i].start)
      /\ record.start # Unknown => record.pid \in Pids /\ Still(record.start)
  BY <1>a, <1>c DEF SupervisionInv, StartsOK
<1>e. SUFFICES /\ worker'.at # "idle" => Still(worker'.start)
               /\ \A i \in 1..Len(events') : Still(events'[i].start)
               /\ record'.start # Unknown => record'.pid \in Pids /\ Still(record'.start)
  BY <1>a DEF StartsOK, OurStart
<1>f. \A p \in Pids : leader[p].start \in Nat /\ leader[p].start <= starts
  BY <1>b DEF SupervisionInv, StartsOK, Process
<1>g. IdleWorker.at = "idle" /\ NoRecord.start = Unknown
  BY Constants
<1>1. ASSUME NEW p \in Pids, NEW d \in BOOLEAN, Spawn(p, d)
      PROVE  Still(worker'.start) /\ events' = events /\ record' = record
  <2>1. worker'.start = starts + 1 /\ starts' = starts + 1
    BY <1>1 DEF Spawn
  <2>2. \A q \in Pids : leader'[q].image = "foreign" => leader'[q] = leader[q]
    BY <1>b, <1>1 DEF Spawn
  <2> QED BY <1>a, <1>f, <1>1, <2>1, <2>2 DEF Spawn
<1> HIDE DEF Still
<1>2. ASSUME NEW e, e.start = worker.start, events' = Append(events, e), worker.at # "idle"
      PROVE  \A i \in 1..Len(events') : Still(events'[i].start)
  <2>1. \A i \in 1..Len(events') : \/ i \in 1..Len(events) /\ events'[i] = events[i]
                                   \/ events'[i] = e
    BY <1>b, <1>2
  <2> QED BY <1>d, <1>2, <2>1
<1>3. ASSUME events # <<>>, events' = Tail(events)
      PROVE  /\ \A i \in 1..Len(events') : Still(events'[i].start)
             /\ Still(Head(events).start) /\ Head(events).pid \in Pids
  <2>1. \A i \in 1..Len(events') : i + 1 \in 1..Len(events) /\ events'[i] = events[i + 1]
    BY <1>b, <1>3
  <2>2. Head(events) = events[1] /\ 1 \in 1..Len(events) /\ Head(events) \in Event
    BY <1>b, <1>3
  <2> QED BY <1>d, <2>1, <2>2 DEF Event
<1>4. CASE worker'.at # "idle" => worker'.start = worker.start /\ worker.at # "idle"
  <2>1. CASE events' = events /\ record' \in {record, NoRecord}
    BY <1>d, <1>g, <1>4, <2>1
  <2>2. CASE events' = <<>> /\ record' = record
    BY <1>d, <1>4, <2>2
  <2>3. CASE SendStarted
    <3>1. CASE events' = events
      BY <2>1, <2>3, <3>1 DEF SendStarted
    <3>2. CASE events' # events
      <4>1. PICK known \in BOOLEAN :
              events' = Append(events, [kind |-> "started", pid |-> worker.pid,
                                        start |-> worker.start, known |-> known])
        BY <2>3, <3>2 DEF SendStarted
      <4> QED BY <1>2, <1>d, <1>4, <2>3, <4>1 DEF SendStarted
    <3> QED BY <3>1, <3>2
  <2>4. CASE SendEnded
    <3>1. CASE events' = events
      BY <2>1, <2>4, <3>1 DEF SendEnded
    <3>2. CASE events' # events
      BY <1>2, <1>d, <1>4, <2>4, <3>2 DEF SendEnded
    <3> QED BY <3>1, <3>2
  <2>13. CASE WorkerPanics
    <3>1. CASE events' = events
      BY <2>1, <2>13, <3>1 DEF WorkerPanics
    <3>2. CASE events' # events
      BY <1>2, <1>d, <1>4, <2>13, <3>2 DEF WorkerPanics
    <3> QED BY <3>1, <3>2
  <2>5. CASE ReduceStarted
    <3>1. record' \in {record, [pid |-> Head(events).pid,
                       start |-> IF Head(events).known THEN Head(events).start ELSE Unknown]}
      BY <2>5 DEF ReduceStarted
    <3>2. events # <<>> /\ events' = Tail(events)
      BY <2>5 DEF ReduceStarted
    <3> QED BY <1>3, <1>d, <1>4, <3>1, <3>2
  <2>6. CASE ReduceEnded
    BY <1>3, <1>d, <1>g, <1>4, <2>6 DEF ReduceEnded
  <2>7. CASE Crash
    BY <2>2, <2>7 DEF Crash
  <2>8. CASE TerminateRecorded \/ EscalateRecorded
    BY <2>1, <2>8 DEF TerminateRecorded, EscalateRecorded, Reconciled
  <2>9. CASE BeginRun \/ FinishRun \/ Cancel \/ AwaitRegistration \/ Release \/ LeaderEnded
             \/ StopWaiting \/ GraceEnds \/ Restart \/ AcknowledgeReview
    BY <2>1, <2>9 DEF BeginRun, FinishRun, Cancel, AwaitRegistration, Release, LeaderEnded,
                      StopWaiting, GraceEnds, Restart, AcknowledgeReview
  <2>10. ASSUME NEW p \in Pids, HostStep(p) PROVE events' = events /\ record' = record
    BY <2>10 DEF HostStep, ForeignStarts, ForeignEnds, GateProceeds, EngineForks, EngineExits,
                 HelperExits
  <2>11. CASE UNCHANGED vars
    BY <2>1, <2>11 DEF vars
  <2>12. ASSUME NEW p \in Pids, NEW d \in BOOLEAN, Spawn(p, d) PROVE events' = events /\ record' = record
    BY <1>1, <2>12
  <2> QED BY <2>1, <2>3, <2>4, <2>5, <2>6, <2>7, <2>8, <2>9, <2>10, <2>11, <2>12, <2>13
            DEF Next, WorkerStep, Reduce, Recovery
<1>5. \/ worker'.at # "idle" => worker'.start = worker.start /\ worker.at # "idle"
      \/ \E p \in Pids, d \in BOOLEAN : Spawn(p, d)
  <2>1. CASE worker' = worker \/ worker' = IdleWorker
    BY <1>g, <2>1
  <2>2. CASE WorkerStep
    BY <1>b, <1>g, <2>2 DEF WorkerStep, SendStarted, AwaitRegistration, Release, LeaderEnded, StopWaiting,
                      GraceEnds, SendEnded, Stop, WorkerRow
  <2>3. ASSUME NEW p \in Pids, HostStep(p) PROVE worker' = worker
    BY <2>3 DEF HostStep, ForeignStarts, ForeignEnds, GateProceeds, EngineForks, EngineExits,
                 HelperExits
  <2>4. CASE Next /\ ~WorkerStep /\ \A p \in Pids : ~HostStep(p) /\ \A d \in BOOLEAN : ~Spawn(p, d)
    BY <2>1, <2>4 DEF Next, BeginRun, FinishRun, Cancel, WorkerPanics, Reduce, ReduceStarted,
       ReduceEnded, Crash, Recovery, Restart, TerminateRecorded, EscalateRecorded, AcknowledgeReview
  <2>5. CASE UNCHANGED vars
    BY <2>1, <2>5 DEF vars
  <2> QED BY <2>1, <2>2, <2>3, <2>4, <2>5
<1> QED BY <1>1, <1>4, <1>5, <1>d

-----------------------------------------------------------------------------
(* The worker's process. *)

(* The pid a worker named stays its own until the attempt has ended. *)
LEMMA WorkerKept == SupervisionInv /\ [Next]_vars => WorkerOK'
<1> SUFFICES ASSUME SupervisionInv, [Next]_vars PROVE WorkerOK'
  OBVIOUS
<1>a. /\ leader \in [Pids -> Process] /\ pipe \in [Pids -> {"open", "go", "closed"}]
      /\ worker \in WorkerRow /\ WorkerOK /\ TypeOK
  BY Typed DEF SupervisionInv
<1>b. worker.at # "idle" => ctl = "ready" /\ ~review /\ worker.pid \in Pids
  BY Working
<1>c. Free.image = "none" /\ IdleWorker.at = "idle" /\ IdleWorker.pid = NoPid
  BY Constants
<1>1. CASE worker' = IdleWorker
  BY <1>c, <1>1 DEF WorkerOK
<1>2. CASE worker' = worker /\ leader' = leader /\ pipe' = pipe
  BY <1>a, <1>2 DEF WorkerOK
<1>3. CASE worker' = worker /\ worker.at = "idle"
  BY <1>a, <1>3 DEF WorkerOK
<1>4. (* a worker that gives up, or whose leader ended *)
      ASSUME worker.at # "idle", Fades, NEW at \in {"grace", "ended"},
             worker' = [worker EXCEPT !.at = at],
             at = "ended" => leader'[worker.pid] = Free
      PROVE  WorkerOK'
  <2>1. /\ worker'.at = at /\ worker'.pid = worker.pid /\ worker'.start = worker.start
        /\ worker'.durable = worker.durable
    BY <1>a, <1>4 DEF WorkerRow
  <2>2. /\ leader'[worker.pid].image # "foreign"
        /\ leader'[worker.pid].image # "none" => leader'[worker.pid].start = worker.start
        /\ ~worker.durable => leader'[worker.pid].image \notin {"gate", "engine"}
    BY <1>a, <1>b, <1>c, <1>4 DEF Fades, WorkerOK, Gates, Engines
  <2> QED BY <1>b, <1>c, <1>4, <2>1, <2>2 DEF WorkerOK
<1>5. ASSUME Stop, worker.at # "idle" PROVE WorkerOK'
  <2>1. Fades
    BY <1>a, <1>b, <1>5, Signals DEF Stop
  <2> QED BY <1>4, <1>5, <2>1 DEF Stop
<1>6. (* a step of the attempt that leaves the process alone *)
      ASSUME NEW at \in {"awaiting", "registered"}, worker.at \in {"spawned", "awaiting"},
             worker' = [worker EXCEPT !.at = at], leader' = leader, pipe' = pipe
      PROVE  WorkerOK'
  <2>1. /\ worker'.at = at /\ worker'.pid = worker.pid /\ worker'.start = worker.start
        /\ worker'.durable = worker.durable
    BY <1>a, <1>6 DEF WorkerRow
  <2> QED BY <1>a, <1>6, <2>1 DEF WorkerOK
<1>7. ASSUME NEW p \in Pids, NEW d \in BOOLEAN, Spawn(p, d) PROVE WorkerOK'
  <2>1. /\ worker'.at \in {"spawned", "registered"} /\ worker'.pid = p
        /\ worker'.start = starts + 1 /\ worker'.durable = d
    BY <1>7 DEF Spawn
  <2>2. leader'[p].image = (IF d THEN "gate" ELSE "probegate") /\ leader'[p].start = starts + 1 /\ pipe'[p] = "open"
    BY <1>a, <1>7 DEF Spawn
  <2> QED BY <2>1, <2>2 DEF WorkerOK, Engines
<1>8. CASE SendStarted \/ AwaitRegistration
  BY <1>5, <1>6, <1>8 DEF SendStarted, AwaitRegistration, host
<1>9. CASE Release
  <2>1. CASE /\ worker' = [worker EXCEPT !.at = "waiting"] /\ leader' = leader
    <3>1. /\ worker'.at = "waiting" /\ worker'.pid = worker.pid /\ worker'.start = worker.start
          /\ worker'.durable = worker.durable
      BY <1>a, <2>1 DEF WorkerRow
    <3> QED BY <1>a, <1>9, <2>1, <3>1 DEF WorkerOK, Release
  <2> QED BY <1>5, <1>9, <2>1 DEF Release
<1>10. CASE LeaderEnded
  <2>1. Fades /\ leader'[worker.pid] = Free
    BY <1>a, <1>b, <1>10 DEF LeaderEnded, Fades
  <2> QED BY <1>4, <1>10, <2>1 DEF LeaderEnded
<1>11. CASE StopWaiting
  <2>1. Fades
    BY <1>a, <1>b, <1>11, Signals DEF StopWaiting
  <2> QED BY <1>4, <1>11, <2>1 DEF StopWaiting
<1>12. CASE GraceEnds
  <2>1. Fades /\ leader'[worker.pid] = Free
    BY <1>a, <1>b, <1>12 DEF GraceEnds, Fades
  <2> QED BY <1>4, <1>12, <2>1 DEF GraceEnds
<1>13. CASE SendEnded \/ WorkerPanics \/ Crash
  BY <1>1, <1>13 DEF SendEnded, WorkerPanics, Crash
<1>14. CASE BeginRun \/ FinishRun \/ Cancel \/ ReduceStarted \/ ReduceEnded \/ Restart
            \/ AcknowledgeReview \/ UNCHANGED vars
  BY <1>2, <1>14 DEF BeginRun, FinishRun, Cancel, ReduceStarted, ReduceEnded, Restart,
                     AcknowledgeReview, vars, host
<1>15. CASE TerminateRecorded \/ EscalateRecorded
  BY <1>3, <1>b, <1>15 DEF TerminateRecorded, EscalateRecorded
<1>16. ASSUME NEW p \in Pids, HostStep(p) PROVE WorkerOK'
  <2>1. worker' = worker /\ pipe' = pipe
    BY <1>16 DEF HostStep, ForeignStarts, ForeignEnds, GateProceeds, EngineForks, EngineExits,
                 HelperExits
  <2>2. CASE leader' = leader
    BY <1>2, <2>1, <2>2
  <2>3. CASE worker.at # "idle" => leader'[worker.pid] = leader[worker.pid]
    BY <1>a, <2>1, <2>3 DEF WorkerOK
  <2>4. CASE ForeignStarts(p) \/ ForeignEnds(p)
    BY <1>a, <1>b, <2>3, <2>4 DEF ForeignStarts, ForeignEnds, WorkerOK
  <2>5. ASSUME NEW row, leader' = [leader EXCEPT ![p] = row], Runs(p),
               pipe[p] # "open" \/ leader[p].image \in Engines,
               row.image \in {"none", "zombie", "probe"} \/ (row.image = "engine" /\ leader[p].image = "gate"),
               row.image # "none" => row.start = leader[p].start
        PROVE  WorkerOK'
    <3>1. CASE worker.at # "idle" /\ worker.pid = p
      <4>1. leader'[p] = row /\ worker.at \notin {"spawned", "awaiting", "registered", "ended"}
        BY <1>a, <2>5, <3>1 DEF WorkerOK, Runs, Gates, Engines
      <4>2. row.image # "none" => row.start = worker.start
        BY <1>a, <2>5, <3>1 DEF WorkerOK, Runs, Gates, Engines
      <4>3. ~worker.durable => row.image \notin {"gate", "engine"}
        BY <1>a, <2>5, <3>1 DEF WorkerOK
      <4> QED BY <2>1, <2>5, <3>1, <4>1, <4>2, <4>3 DEF WorkerOK
    <3>2. CASE worker.at = "idle" \/ worker.pid # p
      BY <1>a, <1>b, <2>3, <2>5, <3>2
    <3> QED BY <3>1, <3>2
  <2>6. ASSUME NEW reaper \in BOOLEAN, leader' = [leader EXCEPT ![p] = Dead(p, reaper)], Runs(p),
               pipe[p] # "open" \/ leader[p].image \in Engines
        PROVE  WorkerOK'
    BY <1>a, <1>c, <2>5, <2>6, DeadProcess
  <2>7. CASE GateProceeds(p)
    <3>1. ASSUME pipe[p] = "go", NEW image, image = IF leader[p].image = "gate" THEN "engine" ELSE "probe",
                 leader' = [leader EXCEPT ![p] = [leader[p] EXCEPT !.image = image]]
          PROVE  WorkerOK'
      <4> DEFINE row == [leader[p] EXCEPT !.image = image]
      <4>1. row.image = image /\ row.start = leader[p].start
        BY <1>a DEF Process
      <4> HIDE DEF row
      <4>2. leader' = [leader EXCEPT ![p] = row]
        BY <3>1 DEF row
      <4> QED BY <2>5, <2>7, <3>1, <4>1, <4>2 DEF GateProceeds, Runs
    <3> QED BY <1>a, <2>6, <2>7, <3>1 DEF GateProceeds, Runs
  <2>8. CASE EngineExits(p)
    BY <2>6, <2>8 DEF EngineExits, Runs
  <2>9. CASE EngineForks(p) \/ HelperExits(p)
    BY <2>2, <2>9 DEF EngineForks, HelperExits
  <2> QED BY <1>16, <2>4, <2>7, <2>8, <2>9 DEF HostStep
<1> QED
  BY <1>7, <1>8, <1>9, <1>10, <1>11, <1>12, <1>13, <1>14, <1>15, <1>16
     DEF Next, WorkerStep, Reduce, Recovery

-----------------------------------------------------------------------------
(* The event queue. *)

(* An attempt's registration is the last event queued while it waits for    *)
(* the answer, so everything queued before it is reduced first.             *)
LEMMA QueueKept == SupervisionInv /\ [Next]_vars => QueueOK'
<1> SUFFICES ASSUME SupervisionInv, [Next]_vars PROVE QueueOK'
  OBVIOUS
<1>a. /\ worker \in WorkerRow /\ events \in Seq(Event) /\ record \in RecordRow /\ QueueOK
      /\ starts \in Nat
  BY Typed DEF SupervisionInv
<1>b. worker.at # "idle" => ctl = "ready" /\ ~review /\ worker.pid \in Pids
  BY Working
<1>c. IdleWorker.at = "idle"
  BY Constants
<1>1. CASE worker'.at \in {"idle", "grace", "ended"}
  BY <1>1 DEF QueueOK, Registered
<1>2. CASE UNCHANGED <<worker, events, ack, record>>
  BY <1>a, <1>2 DEF QueueOK, Registered
<1>3. ASSUME NEW p \in Pids, NEW d \in BOOLEAN, Spawn(p, d) PROVE QueueOK'
  <2>1. /\ worker'.start = starts + 1 /\ ack' = "none" /\ events' = events
        /\ worker'.at = "spawned" \/ (worker'.at = "registered" /\ ~worker'.durable)
    BY <1>3 DEF Spawn
  <2>2. \A i \in 1..Len(events) : events[i].start \in Nat /\ events[i].start <= starts
    <3>1. \A i \in 1..Len(events) : events[i] \in Event
      BY <1>a
    <3>2. \A e \in Event : e.start \in Nat
      BY DEF Event
    <3> QED BY <3>1, <3>2 DEF SupervisionInv, StartsOK, OurStart
  <2>3. \A i \in 1..Len(events) : events[i].start # starts + 1
    BY <1>a, <2>2
  <2> QED BY <2>1, <2>3 DEF QueueOK, Registered
<1>4. CASE worker.at # "idle" /\ worker' = [worker EXCEPT !.at = "grace"]
  BY <1>a, <1>1, <1>4 DEF WorkerRow
<1>5. CASE SendStarted
  <2>1. ASSUME NEW known \in BOOLEAN, worker.at = "spawned",
               events' = Append(events, [kind |-> "started", pid |-> worker.pid,
                                         start |-> worker.start, known |-> known]),
               worker' = [worker EXCEPT !.at = "awaiting"], ack' = ack
        PROVE  QueueOK'
    <3>1. worker'.at = "awaiting" /\ worker'.pid = worker.pid /\ worker'.start = worker.start
      BY <1>a, <2>1 DEF WorkerRow
    <3>2. /\ Len(events') = Len(events) + 1 /\ events'[Len(events')].pid = worker.pid
          /\ \A i \in 1..Len(events') : i # Len(events') =>
                 i \in 1..Len(events) /\ events'[i] = events[i]
      BY <1>a, <2>1
    <3>3. \A i \in 1..Len(events') : i # Len(events') => events'[i].start # worker.start
      BY <1>a, <2>1, <3>2 DEF QueueOK
    <3>4. ack' = "none"
      BY <1>a, <2>1 DEF QueueOK
    <3> QED BY <3>1, <3>2, <3>3, <3>4 DEF QueueOK, Registered
  <2> QED BY <1>4, <1>5, <2>1 DEF SendStarted, Stop
<1>6. CASE AwaitRegistration
  <2>1. CASE worker' = [worker EXCEPT !.at = "registered"] /\ ack = "ok"
             /\ UNCHANGED <<events, record>> /\ worker.at = "awaiting"
    <3>1. /\ worker'.at = "registered" /\ worker'.pid = worker.pid /\ worker'.start = worker.start
          /\ worker'.durable = worker.durable
      BY <1>a, <2>1 DEF WorkerRow
    <3> QED BY <1>a, <2>1, <3>1 DEF QueueOK, Registered
  <2> QED BY <1>4, <1>6, <2>1 DEF AwaitRegistration, Stop
<1>7. CASE Release
  <2>1. CASE worker' = [worker EXCEPT !.at = "waiting"]
             /\ UNCHANGED <<events, record>> /\ worker.at = "registered"
    <3>1. /\ worker'.at = "waiting" /\ worker'.pid = worker.pid /\ worker'.start = worker.start
          /\ worker'.durable = worker.durable
      BY <1>a, <2>1 DEF WorkerRow
    <3> QED BY <1>a, <2>1, <3>1 DEF QueueOK, Registered
  <2> QED BY <1>4, <1>7, <2>1 DEF Release, Stop
<1>8. CASE LeaderEnded \/ StopWaiting \/ GraceEnds
  BY <1>1, <1>a, <1>8 DEF LeaderEnded, StopWaiting, GraceEnds, WorkerRow
<1>9. CASE SendEnded \/ WorkerPanics \/ Crash
  BY <1>1, <1>c, <1>9 DEF SendEnded, WorkerPanics, Crash
<1>10. ASSUME events # <<>>, events' = Tail(events), worker' = worker
       PROVE  /\ ~Registered
              /\ worker.at = "spawned" => \A i \in 1..Len(events') : events'[i].start # worker.start
              /\ worker.at = "awaiting" => \A i \in 1..Len(events') :
                    events'[i].start = worker.start => i = Len(events') /\ events'[i].pid = worker.pid
              /\ worker.at = "awaiting" /\ Head(events).start = worker.start =>
                    events' = <<>> /\ Head(events).pid = worker.pid
  <2>1. /\ Len(events') = Len(events) - 1 /\ Len(events) \in Nat
        /\ \A i \in 1..Len(events') : i + 1 \in 1..Len(events) /\ events'[i] = events[i + 1]
    BY <1>a, <1>10
  <2>2. Head(events) = events[1] /\ 1 \in 1..Len(events)
    BY <1>a, <1>10
  <2>3. Len(events) = 1 => events' = <<>>
    BY <1>a, <1>10
  <2>4. ~Registered
    BY <1>a, <1>10 DEF QueueOK
  <2>5. worker.at = "spawned" => \A i \in 1..Len(events') : events'[i].start # worker.start
    BY <1>a, <2>1 DEF QueueOK
  <2>6. worker.at = "awaiting" => \A i \in 1..Len(events') :
                    events'[i].start = worker.start => i = Len(events') /\ events'[i].pid = worker.pid
    BY <1>a, <2>1 DEF QueueOK
  <2>7. worker.at = "awaiting" /\ Head(events).start = worker.start =>
            events' = <<>> /\ Head(events).pid = worker.pid
    BY <1>a, <2>2, <2>3 DEF QueueOK
  <2> QED BY <2>4, <2>5, <2>6, <2>7
<1>11. CASE ReduceStarted
  <2> DEFINE e == Head(events)
  <2>1. events # <<>> /\ events' = Tail(events) /\ worker' = worker
    BY <1>11 DEF ReduceStarted
  <2>2. ~Registered
    BY <1>10, <2>1
  <2>3. ack' # ack => worker.at = "awaiting" /\ worker.start = e.start
    BY <1>11 DEF ReduceStarted
  <2>4. ack' = "ok" => \/ ack = "ok"
                       \/ record' = [pid |-> e.pid, start |-> IF e.known THEN e.start ELSE Unknown]
    BY <1>11 DEF ReduceStarted
  <2>5. Registered' => worker.at = "awaiting" /\ ack' = "ok" /\ ack # "ok"
    BY <2>1, <2>2 DEF Registered
  <2>6. Registered' => /\ events' = <<>>
                       /\ record'.pid = worker.pid /\ record'.start \in {worker.start, Unknown}
    <3>1. SUFFICES ASSUME Registered'
                   PROVE  events' = <<>> /\ record'.pid = worker.pid
                          /\ record'.start \in {worker.start, Unknown}
      OBVIOUS
    <3>2. worker.at = "awaiting" /\ worker.start = e.start
      BY <2>3, <2>5, <3>1
    <3>3. events' = <<>> /\ e.pid = worker.pid
      BY <1>10, <2>1, <3>2
    <3> QED BY <2>4, <2>5, <3>1, <3>2, <3>3
  <2>7. worker.at = "spawned" => ack' = "none"
    BY <1>a, <2>3 DEF QueueOK
  <2> QED BY <1>10, <2>1, <2>6, <2>7 DEF QueueOK
<1>12. CASE ReduceEnded
  <2>1. events # <<>> /\ events' = Tail(events) /\ worker' = worker /\ ack' = ack
    BY <1>12 DEF ReduceEnded
  <2>2. ~Registered'
    BY <1>10, <2>1 DEF Registered
  <2> QED BY <1>a, <1>10, <2>1, <2>2 DEF QueueOK
<1>13. CASE worker' = worker /\ worker.at = "idle"
  BY <1>1, <1>13
<1>14. CASE FinishRun \/ TerminateRecorded \/ EscalateRecorded \/ AcknowledgeReview
  <2>1. worker' = worker
    BY <1>14 DEF FinishRun, TerminateRecorded, EscalateRecorded, AcknowledgeReview
  <2>2. worker.at = "idle"
    BY <1>b, <1>14 DEF FinishRun, TerminateRecorded, EscalateRecorded, AcknowledgeReview
  <2> QED BY <1>13, <2>1, <2>2
<1>15. CASE BeginRun \/ Cancel \/ Restart \/ UNCHANGED vars
  BY <1>2, <1>15 DEF BeginRun, Cancel, Restart, vars
<1>16. ASSUME NEW p \in Pids, HostStep(p) PROVE QueueOK'
  BY <1>2, <1>16 DEF HostStep, ForeignStarts, ForeignEnds, GateProceeds, EngineForks, EngineExits,
                     HelperExits
<1> QED
  BY <1>3, <1>5, <1>6, <1>7, <1>8, <1>9, <1>11, <1>12, <1>14, <1>15, <1>16
     DEF Next, WorkerStep, Reduce, Recovery

-----------------------------------------------------------------------------
(* What lives is on record. *)

(* A process comes to life only when its worker releases it, or when its    *)
(* gatekeeper takes the GO it was given.                                    *)
LEMMA LiveEffect ==
    ASSUME SupervisionInv, [Next]_vars, NEW p \in Pids, Live(p)'
    PROVE  /\ leader'[p].start = leader[p].start
           /\ \/ Live(p)
              \/ /\ worker.at = "registered" /\ worker.pid = p /\ leader[p].image = "gate"
                 /\ worker' = [worker EXCEPT !.at = "waiting"]
                 /\ UNCHANGED <<ctl, review, events, record>>
<1>a. /\ leader \in [Pids -> Process] /\ pipe \in [Pids -> {"open", "go", "closed"}]
  BY Typed DEF SupervisionInv
<1>b. Free.image = "none" /\ IdleWorker.at = "idle"
  BY Constants
<1>c. leader'[p].image \in {"gate", "engine"} /\ (leader'[p].image = "gate" => pipe'[p] = "go")
  BY DEF Live
<1>d. worker.at # "idle" => worker.pid \in Pids
  BY Working
<1>1. ASSUME NEW q \in Pids, NEW d \in BOOLEAN, Spawn(q, d)
      PROVE  leader'[p] = leader[p] /\ pipe'[p] = pipe[p]
  BY <1>a, <1>c, <1>1 DEF Spawn
<1>2. CASE pipe'[p] = "go" => pipe[p] = "go"
  <2>1. CASE leader'[p] = leader[p]
    BY <1>c, <1>2, <2>1 DEF Live
  <2>2. CASE Fades
    BY <1>b, <1>c, <2>1, <2>2 DEF Fades
  <2>3. ASSUME NEW q \in Pids, ForeignStarts(q) PROVE leader'[p] = leader[p]
    BY <1>a, <1>c, <2>3 DEF ForeignStarts
  <2>4. ASSUME NEW q \in Pids, Becomes(q)
        PROVE  leader'[p].start = leader[p].start /\ Live(p)
    <3>1. CASE q = p
      <4> DEFINE row == [leader[p] EXCEPT !.image = IF @ = "gate" THEN "engine" ELSE "probe"]
      <4>1. /\ row.start = leader[p].start
            /\ row.image = IF leader[p].image = "gate" THEN "engine" ELSE "probe"
        BY <1>a DEF Process
      <4>2. leader'[p] = row /\ pipe[p] = "go"
        BY <1>a, <2>4, <3>1 DEF Becomes
      <4> HIDE DEF row
      <4> QED BY <1>c, <4>1, <4>2 DEF Live
    <3>2. CASE q # p
      BY <1>a, <1>c, <2>4, <3>2 DEF Becomes, Live
    <3> QED BY <3>1, <3>2
  <2> QED BY <1>1, <2>1, <2>2, <2>3, <2>4, LeaderEffect
<1>3. CASE pipe'[p] = "go" /\ pipe[p] # "go"
  <2>1. pipe' # pipe
    BY <1>3
  <2>2. ASSUME SendEnded \/ WorkerPanics \/ Crash PROVE FALSE
    BY <1>a, <1>d, <1>3, <2>2 DEF SendEnded, WorkerPanics, Crash
  <2>3. ASSUME NEW q \in Pids, HostStep(q) PROVE FALSE
    BY <2>1, <2>3 DEF HostStep, ForeignStarts, ForeignEnds, GateProceeds, EngineForks, EngineExits,
                      HelperExits
  <2>4. ASSUME NEW q \in Pids, NEW d \in BOOLEAN, Spawn(q, d) PROVE FALSE
    BY <1>1, <1>3, <2>4
  <2>5. ASSUME BeginRun \/ FinishRun \/ Cancel \/ SendStarted \/ AwaitRegistration \/ LeaderEnded
               \/ StopWaiting \/ GraceEnds \/ ReduceStarted \/ ReduceEnded \/ Restart
               \/ TerminateRecorded \/ EscalateRecorded \/ AcknowledgeReview \/ UNCHANGED vars
        PROVE  FALSE
    BY <2>1, <2>5 DEF BeginRun, FinishRun, Cancel, SendStarted, AwaitRegistration, LeaderEnded,
         StopWaiting, GraceEnds, ReduceStarted, ReduceEnded, Restart, TerminateRecorded,
         EscalateRecorded, AcknowledgeReview, Stop, Terminate, Kill, vars, host
  <2>6. Release
    BY <2>2, <2>3, <2>4, <2>5 DEF Next, WorkerStep, Reduce, Recovery
  <2>7. /\ worker.at = "registered" /\ pipe' = [pipe EXCEPT ![worker.pid] = "go"]
        /\ leader' = leader /\ worker' = [worker EXCEPT !.at = "waiting"]
        /\ UNCHANGED <<ctl, review, events, record>>
    BY <2>1, <2>6 DEF Release, Stop, Terminate
  <2>8. worker.pid = p
    BY <1>a, <1>3, <2>7
  <2>9. leader[p].image # "engine"
    BY <2>7, <2>8 DEF SupervisionInv, WorkerOK, Engines
  <2> QED BY <1>c, <2>7, <2>8, <2>9
<1> QED BY <1>2, <1>3

(* A live process is supervised, under review, or the controller is away. *)
LEMMA LiveKept == SupervisionInv /\ [Next]_vars => LiveOK'
<1> SUFFICES ASSUME SupervisionInv, [Next]_vars, NEW p \in Pids, Live(p)'
             PROVE  /\ record'.pid = p /\ record'.start \in {leader'[p].start, Unknown}
                    /\ events' = <<>>
                    /\ ctl' = "ready" => worker'.pid = p \/ review'
  BY DEF LiveOK
<1>a. /\ worker \in WorkerRow /\ review \in BOOLEAN /\ record \in RecordRow /\ TypeOK /\ LiveOK
      /\ leader \in [Pids -> Process]
  BY Typed DEF SupervisionInv
<1>b. worker.at # "idle" => ctl = "ready" /\ ~review
  BY Working
<1>c. leader'[p].start = leader[p].start /\ leader'[p].image \in {"gate", "engine"}
  BY LiveEffect DEF Live
<1>1. CASE ~Live(p)
  <2>1. /\ worker.at = "registered" /\ worker.pid = p /\ leader[p].image = "gate"
        /\ worker' = [worker EXCEPT !.at = "waiting"] /\ UNCHANGED <<ctl, review, events, record>>
    BY <1>1, LiveEffect
  <2>2. /\ events = <<>> /\ record.pid = worker.pid /\ record.start \in {worker.start, Unknown}
    BY <1>a, <2>1 DEF SupervisionInv, QueueOK, WorkerOK, Registered
  <2>3. leader[p].start = worker.start
    BY <2>1 DEF SupervisionInv, WorkerOK
  <2>4. worker'.pid = worker.pid
    BY <1>a, <2>1 DEF WorkerRow
  <2> QED BY <1>c, <2>1, <2>2, <2>3, <2>4
<1>2. CASE Live(p)
  <2>a. /\ record.pid = p /\ record.start \in {leader[p].start, Unknown} /\ events = <<>>
        /\ ctl = "ready" => worker.pid = p \/ review
    BY <1>a, <1>2 DEF LiveOK
  <2>b. worker.at = "idle" => worker.pid = NoPid
    BY DEF SupervisionInv, WorkerOK
  <2>c. worker.at = "idle" /\ ctl = "ready" => review /\ run = "none"
    BY <2>a, <2>b DEF SupervisionInv, ControlOK
  <2>d. worker.at # "idle" => worker.pid = p
    BY <1>b, <2>a
  <2>e. record # NoRecord /\ leader[p].image \in {"gate", "engine"}
    BY <1>2, <2>a, Constants DEF Live
  <2>1. CASE UNCHANGED <<record, events, ctl, review>> /\ worker'.pid = worker.pid
    BY <1>c, <2>a, <2>1
  <2>2. CASE BeginRun \/ Cancel \/ Restart \/ UNCHANGED vars
    BY <1>c, <2>a, <2>1, <2>2 DEF BeginRun, Cancel, Restart, vars
  <2>3. ASSUME FinishRun \/ ReduceStarted \/ ReduceEnded PROVE FALSE
    BY <2>a, <2>c, <2>3 DEF FinishRun, ReduceStarted, ReduceEnded
  <2>4. ASSUME NEW q \in Pids, NEW d \in BOOLEAN, Spawn(q, d) PROVE FALSE
    BY <2>c, <2>4 DEF Spawn
  <2>5. ASSUME SendStarted \/ SendEnded PROVE FALSE
    <3>1. worker.at \in {"spawned", "ended"} /\ worker.pid = p
      BY <2>d, <2>5 DEF SendStarted, SendEnded
    <3> QED BY <1>2, <3>1 DEF SupervisionInv, WorkerOK, Live, Engines
  <2>6. CASE AwaitRegistration \/ Release \/ LeaderEnded \/ StopWaiting \/ GraceEnds
    BY <1>a, <2>1, <2>6 DEF AwaitRegistration, Release, LeaderEnded, StopWaiting, GraceEnds, Stop,
                            WorkerRow
  <2>7. ASSUME WorkerPanics PROVE FALSE
    <3>1. worker.pid = p /\ leader' = [leader EXCEPT ![p] = Free]
      BY <2>7, <2>d DEF WorkerPanics
    <3> QED BY <1>a, <1>c, <3>1, Constants
  <2>8. CASE Crash
    BY <1>c, <2>a, <2>8 DEF Crash
  <2>9. CASE TerminateRecorded
    <3>1. CASE ctl' = "escalating" /\ UNCHANGED <<record, events>>
      BY <1>c, <2>a, <3>1
    <3>2. CASE ~Matches(record, leader) /\ events' = events
               /\ Reconciled(record # NoRecord /\ ~Gone(record, leader))
      <4>1. record # NoRecord /\ ~Gone(record, leader)
        BY <2>a, <2>e DEF Gone
      <4> QED BY <1>c, <2>a, <3>2, <4>1 DEF Reconciled
    <3> QED BY <2>9, <3>1, <3>2 DEF TerminateRecorded
  <2>10. CASE EscalateRecorded
    <3>1. record.start # Unknown
      BY <2>10 DEF EscalateRecorded, SupervisionInv, ControlOK
    <3>2. Matches(record, leader')
      BY <1>c, <2>a, <2>e, <3>1 DEF Matches
    <3>3. Reconciled(Matches(record, leader')) /\ events' = events
      BY <2>10 DEF EscalateRecorded
    <3> QED BY <1>c, <2>a, <3>2, <3>3 DEF Reconciled
  <2>11. ASSUME AcknowledgeReview PROVE FALSE
    BY <2>e, <2>11 DEF AcknowledgeReview, OurGroup, Runs, Gates, Engines
  <2>12. ASSUME NEW q \in Pids, HostStep(q)
         PROVE  UNCHANGED <<record, events, ctl, review>> /\ worker' = worker
    BY <2>12 DEF HostStep, ForeignStarts, ForeignEnds, GateProceeds, EngineForks, EngineExits,
                 HelperExits
  <2> QED
    BY <2>1, <2>2, <2>3, <2>4, <2>5, <2>6, <2>7, <2>8, <2>9, <2>10, <2>11, <2>12
       DEF Next, WorkerStep, Reduce, Recovery
<1> QED BY <1>1, <1>2

(* A probe ends before its worker, or the controller has crashed. *)
LEMMA ProbeKept == SupervisionInv /\ [Next]_vars => ProbeOK'
<1> SUFFICES ASSUME SupervisionInv, [Next]_vars, NEW p \in Pids,
                    leader'[p].image \in {"probegate", "probe"}, ~(crashes' > 0)
             PROVE  worker'.pid = p
  BY DEF ProbeOK
<1>a. /\ leader \in [Pids -> Process] /\ worker \in WorkerRow /\ crashes \in Nat
  BY Typed DEF SupervisionInv
<1>b. Free.image = "none"
  BY Constants
<1>c. worker.at = "idle" => worker.pid = NoPid
  BY DEF SupervisionInv, WorkerOK
<1>1. ASSUME Crash PROVE FALSE
  BY <1>a, <1>1 DEF Crash
<1>2. crashes' = crashes
  BY <1>1 DEF Next, vars, BeginRun, FinishRun, Cancel, WorkerStep, SendStarted, AwaitRegistration,
       Release, LeaderEnded, StopWaiting, GraceEnds, SendEnded, WorkerPanics, Reduce, ReduceStarted,
       ReduceEnded, Recovery, Restart, TerminateRecorded, EscalateRecorded, AcknowledgeReview,
       HostStep, ForeignStarts, ForeignEnds, GateProceeds, EngineForks, EngineExits, HelperExits, Spawn
<1>3. ASSUME NEW q \in Pids, NEW d \in BOOLEAN, Spawn(q, d) PROVE worker'.pid = p
  <2>1. CASE q = p
    BY <1>3, <2>1 DEF Spawn
  <2>2. CASE q # p
    <3>1. leader'[p] = leader[p] /\ worker.at = "idle"
      BY <1>a, <1>3, <2>2 DEF Spawn
    <3> QED BY <1>2, <1>c, <3>1, Bounds DEF SupervisionInv, ProbeOK
  <2> QED BY <2>1, <2>2
<1>4. CASE \A q \in Pids, d \in BOOLEAN : ~Spawn(q, d)
  <2>1. leader[p].image \in {"probegate", "probe"}
    <3>1. CASE Fades
      BY <1>b, <3>1 DEF Fades
    <3>2. ASSUME NEW q \in Pids, ForeignStarts(q) PROVE leader[p].image \in {"probegate", "probe"}
      BY <1>a, <3>2 DEF ForeignStarts
    <3>3. ASSUME NEW q \in Pids, Becomes(q) PROVE leader[p].image \in {"probegate", "probe"}
      BY <1>a, <3>3 DEF Becomes, Gates, Process
    <3> QED BY <1>4, <3>1, <3>2, <3>3, LeaderEffect
  <2>2. worker.pid = p /\ worker.at # "idle"
    BY <1>2, <1>c, <2>1, Bounds DEF SupervisionInv, ProbeOK
  <2>3. ASSUME SendEnded PROVE FALSE
    BY <2>1, <2>2, <2>3 DEF SendEnded, SupervisionInv, WorkerOK
  <2>4. ASSUME WorkerPanics PROVE FALSE
    BY <1>a, <1>b, <2>2, <2>4 DEF WorkerPanics
  <2>5. CASE SendStarted \/ AwaitRegistration \/ Release \/ LeaderEnded \/ StopWaiting \/ GraceEnds
    BY <1>a, <2>2, <2>5 DEF SendStarted, AwaitRegistration, Release, LeaderEnded, StopWaiting,
                            GraceEnds, Stop, WorkerRow
  <2>6. CASE worker' = worker
    BY <2>2, <2>6
  <2>7. CASE BeginRun \/ FinishRun \/ Cancel \/ Reduce \/ Recovery \/ AcknowledgeReview \/ UNCHANGED vars
    BY <2>6, <2>7 DEF BeginRun, FinishRun, Cancel, Reduce, ReduceStarted, ReduceEnded, Recovery,
       Restart, TerminateRecorded, EscalateRecorded, AcknowledgeReview, vars
  <2>8. ASSUME NEW q \in Pids, HostStep(q) PROVE worker' = worker
    BY <2>8 DEF HostStep, ForeignStarts, ForeignEnds, GateProceeds, EngineForks, EngineExits,
                HelperExits
  <2> QED BY <1>1, <1>4, <2>3, <2>4, <2>5, <2>6, <2>7, <2>8 DEF Next, WorkerStep
<1> QED BY <1>3, <1>4

-----------------------------------------------------------------------------
(* The controller and its signals. *)

(* Nothing is started while recovery or a review is pending, and a row      *)
(* never outlives its run unnoticed.                                        *)
LEMMA ControlKept == SupervisionInv /\ [Next]_vars => ControlOK' /\ RecordHasRun'
<1> SUFFICES ASSUME SupervisionInv, [Next]_vars PROVE ControlOK' /\ RecordHasRun'
  OBVIOUS
<1>a. ControlOK /\ RecordHasRun
  BY DEF SupervisionInv
<1>c. IdleWorker.at = "idle" /\ NoRecord.start = Unknown
  BY Constants
<1>1. CASE UNCHANGED <<ctl, review, run, worker, events, record>>
  BY <1>a, <1>1 DEF ControlOK, RecordHasRun
<1>2. CASE ctl' = "ready" /\ ctl = "ready" /\ ~review' /\ run' = run /\ record' = record /\ ~review
  BY <1>a, <1>2 DEF ControlOK, RecordHasRun
<1>3. CASE ctl' = "ready" /\ ~review' /\ (record' = NoRecord \/ run' = "running")
  BY <1>3 DEF ControlOK, RecordHasRun
<1>4. CASE BeginRun \/ FinishRun
  BY <1>a, <1>3, <1>4 DEF BeginRun, FinishRun, ControlOK
<1>5. ASSUME NEW p \in Pids, NEW d \in BOOLEAN, Spawn(p, d) PROVE ControlOK' /\ RecordHasRun'
  BY <1>a, <1>3, <1>5 DEF Spawn, ControlOK
<1>6. CASE WorkerStep \/ WorkerPanics
  <2>1. worker.at # "idle" /\ UNCHANGED <<ctl, review, run, record>>
    BY <1>6 DEF WorkerStep, WorkerPanics, SendStarted, AwaitRegistration, Release, LeaderEnded,
                StopWaiting, GraceEnds, SendEnded
  <2> QED BY <1>2, <2>1, Working
<1>7. CASE ReduceStarted \/ ReduceEnded
  <2>1. ctl = "ready" /\ events # <<>> /\ UNCHANGED <<ctl, review, run>>
    BY <1>7 DEF ReduceStarted, ReduceEnded
  <2>2. ~review
    BY <1>a, <2>1 DEF ControlOK
  <2>3. record' = record \/ record' = NoRecord \/ run = "running"
    BY <1>7 DEF ReduceStarted, ReduceEnded
  <2> QED BY <1>2, <1>3, <2>1, <2>2, <2>3
<1>8. CASE Crash
  BY <1>c, <1>8 DEF Crash, ControlOK, RecordHasRun
<1>9. CASE Restart
  BY <1>a, <1>9 DEF Restart, ControlOK, RecordHasRun
<1>10. (* recovery is over *)
       ASSUME ctl # "ready", NEW keep \in BOOLEAN, Reconciled(keep), UNCHANGED <<worker, events>>
       PROVE  ControlOK' /\ RecordHasRun'
  BY <1>a, <1>10 DEF Reconciled, ControlOK, RecordHasRun
<1>11. CASE TerminateRecorded
  <2>1. CASE Matches(record, leader) /\ ctl' = "escalating" /\ UNCHANGED <<review, run, record>>
    BY <1>a, <1>11, <2>1 DEF TerminateRecorded, ControlOK, RecordHasRun, Matches
  <2>2. CASE Reconciled(record # NoRecord /\ ~Gone(record, leader))
    BY <1>10, <1>11, <2>2 DEF TerminateRecorded
  <2> QED BY <1>11, <2>1, <2>2 DEF TerminateRecorded
<1>12. CASE EscalateRecorded
  <2>1. Matches(record, leader') \in BOOLEAN
    BY DEF Matches
  <2> QED BY <1>10, <1>12, <2>1 DEF EscalateRecorded
<1>13. CASE AcknowledgeReview
  BY <1>3, <1>13 DEF AcknowledgeReview
<1>14. CASE Cancel \/ UNCHANGED vars
  BY <1>1, <1>14 DEF Cancel, vars
<1>15. ASSUME NEW p \in Pids, HostStep(p) PROVE ControlOK' /\ RecordHasRun'
  BY <1>1, <1>15 DEF HostStep, ForeignStarts, ForeignEnds, GateProceeds, EngineForks, EngineExits,
                     HelperExits
<1> QED
  BY <1>4, <1>5, <1>6, <1>7, <1>8, <1>9, <1>11, <1>12, <1>13, <1>14, <1>15
     DEF Next, Reduce, Recovery

(* Every signal goes to a group of ours. *)
LEMMA NoForeignHit == SupervisionInv /\ [Next]_vars => ForeignUntouched'
<1> SUFFICES ASSUME SupervisionInv, [Next]_vars PROVE ~hit'
  BY DEF ForeignUntouched
<1>a. TypeOK /\ Signalled /\ ~hit
  BY SignalsOurs DEF SupervisionInv, ForeignUntouched
<1>1. CASE hit' = hit
  BY <1>a, <1>1
<1>2. ASSUME worker.at # "idle", Terminate(worker.pid, TRUE) PROVE ~hit'
  BY <1>a, <1>2, Signals DEF Signalled
<1>3. ASSUME Matches(record, leader), Terminate(record.pid, FALSE) \/ Kill(record.pid, FALSE)
      PROVE  ~hit'
  BY <1>a, <1>3, Signals DEF Signalled
<1>4. CASE SendStarted \/ AwaitRegistration \/ Release \/ StopWaiting
  BY <1>1, <1>2, <1>4 DEF SendStarted, AwaitRegistration, Release, StopWaiting, Stop, host
<1>5. CASE TerminateRecorded \/ EscalateRecorded
  BY <1>1, <1>3, <1>5 DEF TerminateRecorded, EscalateRecorded, host
<1>6. ASSUME NEW p \in Pids, NEW d \in BOOLEAN, Spawn(p, d) \/ HostStep(p) PROVE hit' = hit
  BY <1>6 DEF Spawn, HostStep, ForeignStarts, ForeignEnds, GateProceeds, EngineForks, EngineExits,
              HelperExits
<1>7. CASE BeginRun \/ FinishRun \/ Cancel \/ LeaderEnded \/ GraceEnds \/ SendEnded \/ WorkerPanics
           \/ ReduceStarted \/ ReduceEnded \/ Crash \/ Restart \/ AcknowledgeReview \/ UNCHANGED vars
  BY <1>1, <1>7 DEF BeginRun, FinishRun, Cancel, LeaderEnded, GraceEnds, SendEnded, WorkerPanics,
                    ReduceStarted, ReduceEnded, Crash, Restart, AcknowledgeReview, vars, host
<1> QED BY <1>1, <1>4, <1>5, <1>6, <1>7 DEF Next, WorkerStep, Reduce, Recovery

-----------------------------------------------------------------------------
(* Results. *)

(* The inductive invariant: whatever is late, lost or killed, what lives is *)
(* on record and what is signalled is ours.                                 *)
THEOREM SupervisionInvariant == Spec => []SupervisionInv
<1>1. Init => SupervisionInv
  <2> SUFFICES ASSUME Init PROVE SupervisionInv
    OBVIOUS
  <2> USE Constants DEF Init
  <2>1. TypeOK
    <3>1. leader \in [Pids -> Process] /\ pipe \in [Pids -> {"open", "go", "closed"}]
      OBVIOUS
    <3>2. events \in Seq(Event) /\ Len(events) <= QueueBound
      OBVIOUS
    <3>3. /\ ctl \in {"down", "terminating", "escalating", "ready"} /\ run \in {"none", "running"}
          /\ ack \in {"none", "ok", "refused"} /\ starts \in 0..MaxStarts /\ crashes \in 0..MaxCrashes
      OBVIOUS
    <3>5. review \in BOOLEAN /\ cancel \in BOOLEAN /\ hit \in BOOLEAN
      OBVIOUS
    <3>4. /\ parentDeath \in BOOLEAN /\ helper \in SUBSET Pids
          /\ worker \in WorkerRow /\ record \in RecordRow
      OBVIOUS
    <3> QED BY <3>1, <3>2, <3>3, <3>4, <3>5, Typed
  <2>2. \A p \in Pids : leader[p].image = "none" /\ leader[p].start = 0
    BY DEF Free, Unknown
  <2>3. StartsOK
    BY <2>2 DEF StartsOK
  <2>4. WorkerOK /\ QueueOK
    BY DEF WorkerOK, QueueOK, Registered
  <2>5. LiveOK /\ ProbeOK
    BY <2>2 DEF LiveOK, Live, ProbeOK
  <2>6. ControlOK /\ RecordHasRun /\ ForeignUntouched
    BY DEF ControlOK, RecordHasRun, ForeignUntouched
  <2> QED BY <2>1, <2>3, <2>4, <2>5, <2>6 DEF SupervisionInv
<1>2. SupervisionInv /\ [Next]_vars => SupervisionInv'
  BY TypeStep, StartsStep, WorkerKept, QueueKept, LiveKept, ProbeKept, ControlKept, NoForeignHit
     DEF SupervisionInv
<1> QED BY <1>1, <1>2, PTL DEF Spec

(* The state of supervision keeps its types and the event queue its bound.  *)
THEOREM SupervisionTypeOK == Spec => []TypeOK
<1>1. SupervisionInv => TypeOK
  BY DEF SupervisionInv
<1> QED BY <1>1, SupervisionInvariant, PTL

(* An engine never runs without its identity in the ledger; a version probe *)
(* or destination preflight, which is never recorded, never outlives its    *)
(* worker unless the controller crashed.                                    *)
THEOREM EngineOnRecordAlways == Spec => []EngineOnRecord
<1>1. SupervisionInv => EngineOnRecord
  BY DEF SupervisionInv, LiveOK, Live, ProbeOK, EngineOnRecord
<1> QED BY <1>1, SupervisionInvariant, PTL

(* No process of another program is ever signalled, however pids are reused. *)
THEOREM ForeignUntouchedAlways == Spec => []ForeignUntouched
<1>1. SupervisionInv => ForeignUntouched
  BY DEF SupervisionInv
<1> QED BY <1>1, SupervisionInvariant, PTL

(* A row outlives its run only under a pending review. *)
THEOREM RecordHasRunAlways == Spec => []RecordHasRun
<1>1. SupervisionInv => RecordHasRun
  BY DEF SupervisionInv
<1> QED BY <1>1, SupervisionInvariant, PTL
=============================================================================
