--------------------------- MODULE FencedExecution ---------------------------
(***************************************************************************)
(* What the control plane promises about one assignment, whatever happens  *)
(* to workers, messages and clocks: work on it happens in epochs.  An      *)
(* epoch is granted only when no engine of an earlier epoch runs, engines  *)
(* run only in the newest epoch, and a result is recorded at most once, by *)
(* the newest epoch.                                                       *)
(***************************************************************************)
EXTENDS Naturals

CONSTANT Assignments

VARIABLES epoch,    \* the number of grants so far
          running,  \* the epochs of which an engine may be writing
          outcome   \* the epoch whose result is recorded, 0 when there is none

fenced == <<epoch, running, outcome>>

Init ==
    /\ epoch = [a \in Assignments |-> 0]
    /\ running = [a \in Assignments |-> {}]
    /\ outcome = [a \in Assignments |-> 0]

Grant(a) ==
    /\ running[a] = {}
    /\ outcome[a] = 0
    /\ epoch' = [epoch EXCEPT ![a] = @ + 1]
    /\ UNCHANGED <<running, outcome>>

Start(a) ==
    /\ running[a] = {}
    /\ epoch[a] > 0
    /\ running' = [running EXCEPT ![a] = {epoch[a]}]
    /\ UNCHANGED <<epoch, outcome>>

Stop(a) ==
    /\ running[a] # {}
    /\ running' = [running EXCEPT ![a] = {}]
    /\ UNCHANGED <<epoch, outcome>>

Record(a) ==
    /\ running[a] = {}
    /\ epoch[a] > 0
    /\ outcome[a] = 0
    /\ outcome' = [outcome EXCEPT ![a] = epoch[a]]
    /\ UNCHANGED <<epoch, running>>

Next == \E a \in Assignments : Grant(a) \/ Start(a) \/ Stop(a) \/ Record(a)

Spec == Init /\ [][Next]_fenced
=============================================================================
