---------------------------- MODULE LedgerPolicy ----------------------------
(***************************************************************************)
(* The state vocabulary of the durable ledger and the pure decisions that  *)
(* every writer of the ledger shares: which mailbox-state edges are legal, *)
(* which (run status, mailbox state) pairs may end a run, how project      *)
(* phases are ordered, and how a batch child's reported state becomes a    *)
(* run status and a mailbox state.                                         *)
(***************************************************************************)
EXTENDS Naturals

(* MailboxState in core/state.rs. *)
MailboxStates ==
    {"queued", "preflight", "ready", "running", "completed", "verified",
     "verified_with_exceptions", "failed", "cancelled", "attention",
     "delta_required", "verification_difference"}

VerifiedStates == {"verified", "verified_with_exceptions"}

ActiveStatuses == {"queued", "running"}

TerminalStatuses ==
    {"completed", "failed", "cancelled", "abandoned", "verification_failed"}

Phases == {"discovery", "preflight", "pilot", "seed", "catch_up",
           "final_delta", "verification", "complete", "attention"}

(* The only legal durable mailbox-state edges. *)
ValidMailboxTransition(current, next) ==
    \/ /\ current = "queued"
       /\ next \in {"preflight", "ready", "running", "failed", "cancelled",
                    "attention"}
    \/ /\ current = "preflight"
       /\ next \in {"ready", "running", "failed", "cancelled"}
    \/ /\ current = "ready"
       /\ next \in {"running", "failed", "cancelled"}
    \/ /\ current = "running"
       /\ next \in {"ready", "completed", "delta_required",
                    "verification_difference", "failed", "cancelled",
                    "attention"}
    \/ /\ current \in {"delta_required", "verification_difference"}
       /\ next \in {"running", "failed", "cancelled", "attention",
                    "verified_with_exceptions"}
    \/ /\ current = "completed"
       /\ next \in {"verified", "delta_required", "verification_difference",
                    "running", "attention"}
    \/ /\ current \in {"failed", "cancelled"}
       /\ next \in {"running", "attention"}
    \/ /\ current \in VerifiedStates
       /\ next \in {"ready", "delta_required", "running", "attention"}
    \/ /\ current = "attention"
       /\ next = "running"

(* A run starts from any state with an edge to running; running itself is   *)
(* refused so that a mailbox never has two owners.                          *)
MayStart(current) ==
    current # "running" /\ ValidMailboxTransition(current, "running")

(* The pairs with which a run may end outside the evidence path.            *)
TerminalPair(status, state) ==
    \/ /\ status = "completed"
       /\ state \in {"ready", "completed", "delta_required",
                     "verification_difference", "attention"}
    \/ status = "failed" /\ state \in {"failed", "attention"}
    \/ status = "cancelled" /\ state \in {"cancelled", "attention"}
    \/ /\ status = "verification_failed"
       /\ state \in {"attention", "verification_difference"}

(* Ending a run may leave the mailbox state alone or follow a legal edge.   *)
MaySettle(current, state) ==
    current = state \/ ValidMailboxTransition(current, state)

(* The evidence path also lets a running mailbox jump to an evidence-backed *)
(* state, because evidence and transition commit in one transaction.        *)
MaySettleWithEvidence(current, state) ==
    \/ MaySettle(current, state)
    \/ /\ current = "running"
       /\ state \in {"verified", "delta_required", "verification_difference"}

PhaseRank(phase) ==
    CASE phase = "discovery"    -> 0
      [] phase = "preflight"    -> 1
      [] phase = "pilot"        -> 2
      [] phase = "seed"         -> 3
      [] phase = "catch_up"     -> 4
      [] phase = "final_delta"  -> 5
      [] phase = "verification" -> 6
      [] phase = "complete"     -> 7
      [] phase = "attention"    -> 255

(* The phase edges StateStore::transition accepts, before the extra         *)
(* conditions on entering complete.                                         *)
PhaseEdge(current, next) ==
    \/ current = next
    \/ /\ current # "complete"
       /\ current = "attention" => next \in {"preflight", "verification"}
       /\ \/ current = "attention"
          \/ next = "attention"
          \/ PhaseRank(next) >= PhaseRank(current)
       /\ ~(next = "verification" /\ current = "discovery")

(* Mutant: a cancelled child is recorded as a failed run. *)
BatchRunStatusTwoWay(state) ==
    IF state \in {"ready", "completed", "attention", "delta_required"}
    THEN "completed" ELSE "failed"

(* The run status a batch child's reported state stands for.                *)
BatchRunStatus(state) ==
    IF state \in {"ready", "completed", "attention", "delta_required"}
    THEN "completed"
    ELSE IF state = "cancelled" THEN "cancelled" ELSE "failed"

(* The mailbox state a batch child's reported state and evidence stand for; *)
(* evidence is "none", "exact" or "difference", and meetsPolicy says        *)
(* whether exact evidence reaches the assurance the run requires.           *)
BatchMailboxState(state, evidence, meetsPolicy) ==
    IF state \notin {"ready", "completed", "delta_required"} THEN state
    ELSE IF evidence = "none"
         THEN (IF state = "completed" THEN "attention" ELSE state)
    ELSE IF state = "delta_required" THEN state
    ELSE IF evidence = "exact"
         THEN (IF meetsPolicy THEN "verified" ELSE "attention")
    ELSE "verification_difference"
=============================================================================
