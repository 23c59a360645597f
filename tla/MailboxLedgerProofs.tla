------------------------ MODULE MailboxLedgerProofs ------------------------
(***************************************************************************)
(* Proofs about MailboxLedger for every set of projects, mailboxes and run *)
(* identifiers.  The safety properties are proved from one inductive       *)
(* invariant, LedgerInv, each conjunct by a lemma with one step per store  *)
(* transaction.                                                            *)
(***************************************************************************)
EXTENDS MailboxLedger, TLAPS

(* How the columns of a run row fit together. *)
RowsOK ==
    \A r \in RunIds : ~Absent(r) =>
        /\ runs[r].kind \in RunKinds
        /\ runs[r].project \in Projects
        /\ runs[r].kind = "parent" => runs[r].job = NoJob
        /\ runs[r].kind # "parent" => /\ runs[r].job \in Mailboxes
                                      /\ runs[r].project = ProjectOf[runs[r].job]
        /\ runs[r].kind # "child" => runs[r].status # "queued"
        /\ runs[r].kind = "child" => /\ runs[r].parent \in RunIds
                                     /\ ~Absent(runs[r].parent)
                                     /\ runs[runs[r].parent].kind = "parent"

(* Only transfer runs register a process. *)
ProcessIsTransfer ==
    \A r \in processes : ~Absent(r) /\ runs[r].kind \in {"single", "child"}

ProcessOwned == ProcessIsTransfer /\ ProcessHasOwner

LedgerInv ==
    /\ TypeOK
    /\ RowsOK
    /\ ProcessOwned
    /\ OneOwner
    /\ NoOrphanChild
    /\ VerifiedIsProven
    /\ CompleteIsVerified

USE LedgerConstants

Statuses == ActiveStatuses \cup TerminalStatuses \cup {"absent"}

(* Runs of the next state differ from runs only in the status of r. *)
OnlyStatusOf(r, s) ==
    /\ runs' \in [RunIds -> RunRow]
    /\ \A q \in RunIds :
          /\ runs'[q].kind = runs[q].kind
          /\ runs'[q].project = runs[q].project
          /\ runs'[q].job = runs[q].job
          /\ runs'[q].parent = runs[q].parent
          /\ q # r => runs'[q] = runs[q]
    /\ runs'[r].status = s

(* A conditional status UPDATE changes one column of one row. *)
LEMMA StatusUpdate ==
    ASSUME runs \in [RunIds -> RunRow], NEW r \in RunIds, NEW s \in Statuses,
           runs' = [runs EXCEPT ![r].status = s]
    PROVE  OnlyStatusOf(r, s)
<1>1. runs[r] \in RunRow
  OBVIOUS
<1>2. [runs[r] EXCEPT !.status = s] \in RunRow
  BY <1>1 DEF RunRow, Statuses
<1>3. runs' = [runs EXCEPT ![r] = [runs[r] EXCEPT !.status = s]]
  OBVIOUS
<1>4. runs' \in [RunIds -> RunRow]
  BY <1>2, <1>3
<1>5. \A q \in RunIds : q # r => runs'[q] = runs[q]
  BY <1>3
<1>6. runs'[r] = [runs[r] EXCEPT !.status = s]
  BY <1>3
<1>7. /\ runs'[r].kind = runs[r].kind /\ runs'[r].project = runs[r].project
      /\ runs'[r].job = runs[r].job /\ runs'[r].parent = runs[r].parent
      /\ runs'[r].status = s
  BY <1>1, <1>6 DEF RunRow
<1> QED BY <1>4, <1>5, <1>7 DEF OnlyStatusOf

(* Recovery abandons the running runs and the queued children of running    *)
(* parents, and no other row changes.                                       *)
Abandons(q) ==
    \/ runs[q].status = "running"
    \/ /\ runs[q].status = "queued" /\ runs[q].parent \in RunIds
       /\ runs[runs[q].parent].status = "running"

(* recover_abandoned_jobs_preserving rewrites exactly those statuses. *)
LEMMA RecoverRows ==
    ASSUME runs \in [RunIds -> RunRow], NEW preserved, Recover(preserved)
    PROVE  /\ runs' \in [RunIds -> RunRow]
           /\ \A q \in RunIds :
                 /\ runs'[q].kind = runs[q].kind
                 /\ runs'[q].project = runs[q].project
                 /\ runs'[q].job = runs[q].job
                 /\ runs'[q].parent = runs[q].parent
                 /\ runs'[q].status =
                       IF Abandons(q) THEN "abandoned" ELSE runs[q].status
                 /\ ~Abandons(q) => runs'[q] = runs[q]
<1> DEFINE row(q) == IF Abandons(q) THEN [runs[q] EXCEPT !.status = "abandoned"]
                                    ELSE runs[q]
<1>1. \A q \in RunIds : runs'[q] = row(q)
  BY DEF Recover, Abandons, Absent
<1>2. \A q \in RunIds : runs[q] \in RunRow
  OBVIOUS
<1>3. \A q \in RunIds :
        LET a == [runs[q] EXCEPT !.status = "abandoned"]
        IN  /\ a \in RunRow /\ a.kind = runs[q].kind /\ a.project = runs[q].project
            /\ a.job = runs[q].job /\ a.parent = runs[q].parent
            /\ a.status = "abandoned"
  BY <1>2 DEF RunRow, TerminalStatuses
<1>4. \A q \in RunIds : row(q) \in RunRow
  BY <1>2, <1>3
<1>5. runs' = [q \in RunIds |-> runs'[q]]
  BY DEF Recover
<1> QED BY <1>1, <1>3, <1>4, <1>5

(* Every transaction of the store keeps every column in its domain. *)
LEMMA TypeStep == TypeOK /\ RowsOK /\ [Next]_vars => TypeOK'
<1> SUFFICES ASSUME TypeOK, RowsOK, [Next]_vars PROVE TypeOK'
  OBVIOUS
<1> USE DEF TypeOK, RunRow, EvidenceRow, ActiveStatuses, TerminalStatuses, RunKinds,
            MailboxStates, Phases
<1>1. ASSUME NEW m \in Mailboxes, NEW r \in RunIds, BeginRun(m, r) PROVE TypeOK'
  BY <1>1 DEF BeginRun
<1>2. ASSUME NEW p \in Projects, NEW jobs \in SUBSET Mailboxes, NEW parent \in RunIds,
             NEW child \in [jobs -> RunIds], BeginBatch(p, jobs, parent, child)
      PROVE TypeOK'
  <2>1. \A r \in RunIds : (\E m \in jobs : r = child[m])
            => (CHOOSE m \in jobs : r = child[m]) \in Mailboxes
    OBVIOUS
  <2>2. runs' \in [RunIds -> RunRow]
    BY <1>2, <2>1 DEF BeginBatch
  <2> QED BY <1>2, <2>2 DEF BeginBatch
<1>3. ASSUME NEW r \in RunIds, ClaimChild(r) PROVE TypeOK'
  BY <1>3, StatusUpdate DEF ClaimChild, OnlyStatusOf, Statuses
<1>4. ASSUME NEW m \in Mailboxes, NEW r \in RunIds, NEW baseline \in RunIds,
             BeginAudit(m, r, baseline)
      PROVE TypeOK'
  BY <1>4 DEF BeginAudit
<1>5. ASSUME NEW r \in RunIds, NEW status \in TerminalStatuses \ {"abandoned"},
             FinishRun(r, status)
      PROVE TypeOK'
  BY <1>5, StatusUpdate DEF FinishRun, OnlyStatusOf, Statuses
<1>6. ASSUME NEW r \in RunIds, NEW status, NEW state,
             FinishMailboxRun(r, status, state)
      PROVE TypeOK'
  BY <1>6, StatusUpdate DEF FinishMailboxRun, MayFinishMailboxRun, TerminalPair, OnlyStatusOf,
       Statuses
<1>7. ASSUME NEW r \in RunIds, NEW exact \in BOOLEAN, NEW state \in MailboxStates,
             FinishWithEvidence(r, exact, state)
      PROVE TypeOK'
  <2>1. [run |-> r, exact |-> exact /\ state # "ready"] \in EvidenceRow
    OBVIOUS
  <2> QED BY <1>7, <2>1, StatusUpdate DEF FinishWithEvidence, OnlyStatusOf, Statuses
<1>8. ASSUME NEW r \in RunIds, NEW exact \in BOOLEAN, FinishAudit(r, exact) PROVE TypeOK'
  BY <1>8, StatusUpdate DEF FinishAudit, OnlyStatusOf, Statuses
<1>9. ASSUME NEW r \in RunIds, CancelHeldChild(r) PROVE TypeOK'
  BY <1>9, StatusUpdate DEF CancelHeldChild, OnlyStatusOf, Statuses
<1>10. ASSUME NEW r \in RunIds,
              RegisterProcess(r) \/ ClearProcesses(r) \/ ClearProcessesAfterReview
       PROVE TypeOK'
  BY <1>10 DEF RegisterProcess, ClearProcesses, ClearProcessesAfterReview
<1>11. ASSUME NEW preserved \in SUBSET processes, Recover(preserved) PROVE TypeOK'
  BY <1>11, RecoverRows DEF Recover
<1>12. ASSUME NEW p \in Projects, HoldProject(p) \/ ReleaseProjectHold(p) PROVE TypeOK'
  BY <1>12 DEF HoldProject, ReleaseProjectHold
<1>13. ASSUME NEW p \in Projects, NEW next \in Phases, Transition(p, next) PROVE TypeOK'
  BY <1>13 DEF Transition
<1>14. ASSUME NEW p \in Projects, ReopenProject(p) PROVE TypeOK'
  BY <1>14 DEF ReopenProject
<1>15. ASSUME NEW m \in Mailboxes, AcceptDifference(m) PROVE TypeOK'
  BY <1>15 DEF AcceptDifference
<1>16. CASE UNCHANGED vars
  BY <1>16 DEF vars
<1>17. ASSUME ClearProcessesAfterReview PROVE TypeOK'
  BY <1>17 DEF ClearProcessesAfterReview
<1> HIDE DEF TypeOK, RunRow, EvidenceRow, ActiveStatuses, TerminalStatuses, RunKinds,
             MailboxStates, Phases
<1> QED
  BY <1>1, <1>2, <1>3, <1>4, <1>5, <1>6, <1>7, <1>8, <1>9, <1>10, <1>11, <1>12, <1>13,
     <1>14, <1>15, <1>16, <1>17 DEF Next

(* New rows are well formed and no transaction rewrites their identity columns. *)
LEMMA RowsStep == TypeOK /\ RowsOK /\ [Next]_vars => RowsOK'
<1> SUFFICES ASSUME TypeOK, RowsOK, [Next]_vars PROVE RowsOK'
  OBVIOUS
<1> USE DEF RowsOK, Absent
<1>1. ASSUME NEW m \in Mailboxes, NEW r \in RunIds, BeginRun(m, r) PROVE RowsOK'
  BY <1>1 DEF BeginRun, TypeOK, RunRow, RunKinds, MailboxesOf
<1>2. ASSUME NEW p \in Projects, NEW jobs \in SUBSET Mailboxes, NEW parent \in RunIds,
             NEW child \in [jobs -> RunIds], BeginBatch(p, jobs, parent, child)
      PROVE RowsOK'
  <2>1. \A q \in RunIds : (\E m \in jobs : q = child[m])
            => (CHOOSE m \in jobs : q = child[m]) \in jobs
    OBVIOUS
  <2>2. \A q \in RunIds : (\E m \in jobs : q = child[m]) => q # parent /\ Absent(q)
    BY <1>2 DEF BeginBatch
  <2> QED BY <1>2, <2>1, <2>2 DEF BeginBatch, TypeOK, RunKinds, MailboxesOf
<1>3. ASSUME NEW r \in RunIds, ClaimChild(r) PROVE RowsOK'
  BY <1>3, StatusUpdate DEF ClaimChild, MayClaim, TypeOK, OnlyStatusOf, Statuses,
       ActiveStatuses, TerminalStatuses
<1>4. ASSUME NEW m \in Mailboxes, NEW r \in RunIds, NEW baseline \in RunIds,
             BeginAudit(m, r, baseline)
      PROVE RowsOK'
  BY <1>4 DEF BeginAudit, TypeOK, RunKinds
<1>5. ASSUME NEW r \in RunIds, NEW status \in TerminalStatuses \ {"abandoned"},
             FinishRun(r, status)
      PROVE RowsOK'
  BY <1>5, StatusUpdate DEF FinishRun, MayFinishRun, TypeOK, OnlyStatusOf, Statuses,
       ActiveStatuses, TerminalStatuses
<1>6. ASSUME NEW r \in RunIds, NEW e \in PlainEndings, FinishMailboxRun(r, e[1], e[2])
     PROVE RowsOK'
  BY <1>6, StatusUpdate DEF FinishMailboxRun, MayFinishMailboxRun, TerminalPair, TypeOK,
       OnlyStatusOf, Statuses, ActiveStatuses, TerminalStatuses
<1>7. ASSUME NEW r \in RunIds, NEW e \in SingleEndings, ~Absent(r), runs[r].kind = "single",
             FinishMailboxRun(r, e[1], e[2])
      PROVE RowsOK'
  BY <1>7, StatusUpdate DEF FinishMailboxRun, MayFinishMailboxRun, TerminalPair, TypeOK,
       OnlyStatusOf, Statuses, ActiveStatuses, TerminalStatuses
<1>8. ASSUME NEW r \in RunIds, NEW exact \in BOOLEAN, NEW state \in MailboxStates,
             FinishWithEvidence(r, exact, state)
      PROVE RowsOK'
  BY <1>8, StatusUpdate DEF FinishWithEvidence, MayFinishWithEvidence, TypeOK, OnlyStatusOf,
       Statuses, ActiveStatuses, TerminalStatuses
<1>9. ASSUME NEW r \in RunIds, NEW exact \in BOOLEAN, FinishAudit(r, exact) PROVE RowsOK'
  BY <1>9, StatusUpdate DEF FinishAudit, TypeOK, OnlyStatusOf, Statuses, ActiveStatuses,
       TerminalStatuses
<1>10. ASSUME NEW r \in RunIds, CancelHeldChild(r) PROVE RowsOK'
  BY <1>10, StatusUpdate DEF CancelHeldChild, TypeOK, OnlyStatusOf, Statuses, ActiveStatuses,
       TerminalStatuses
<1>11. ASSUME NEW r \in RunIds, RegisterProcess(r) PROVE RowsOK'
  BY <1>11 DEF RegisterProcess
<1>12. ASSUME NEW r \in RunIds, ClearProcesses(r) PROVE RowsOK'
  BY <1>12 DEF ClearProcesses
<1>13. ASSUME ClearProcessesAfterReview PROVE RowsOK'
  BY <1>13 DEF ClearProcessesAfterReview
<1>14. ASSUME NEW preserved \in SUBSET processes, Recover(preserved) PROVE RowsOK'
  BY <1>14, RecoverRows DEF TypeOK, Abandons
<1>15. ASSUME NEW p \in Projects, HoldProject(p) \/ ReleaseProjectHold(p) PROVE RowsOK'
  BY <1>15 DEF HoldProject, ReleaseProjectHold
<1>16. ASSUME NEW p \in Projects, NEW next \in Phases, Transition(p, next) PROVE RowsOK'
  BY <1>16 DEF Transition
<1>17. ASSUME NEW p \in Projects, ReopenProject(p) PROVE RowsOK'
  BY <1>17 DEF ReopenProject
<1>18. ASSUME NEW m \in Mailboxes, AcceptDifference(m) PROVE RowsOK'
  BY <1>18 DEF AcceptDifference
<1>19. CASE UNCHANGED vars
  BY <1>19 DEF vars
<1> HIDE DEF RowsOK, Absent
<1> QED
  BY <1>1, <1>2, <1>3, <1>4, <1>5, <1>6, <1>7, <1>8, <1>9, <1>10,
     <1>11, <1>12, <1>13, <1>14, <1>15, <1>16, <1>17, <1>18, <1>19 DEF Next

(* Ownership survives every transaction: an ending run was the only owner,  *)
(* so the mailbox it settles is left to nobody.                             *)
LEMMA OwnerStep == TypeOK /\ RowsOK /\ OneOwner /\ [Next]_vars => OneOwner'
<1> SUFFICES ASSUME TypeOK, RowsOK, OneOwner, [Next]_vars PROVE OneOwner'
  OBVIOUS
<1> USE DEF OneOwner, RunOf, Active, Absent
<1>1. ASSUME NEW m \in Mailboxes, NEW r \in RunIds, BeginRun(m, r) PROVE OneOwner'
  BY <1>1 DEF BeginRun, Admissible, HasActiveRun, TypeOK, ActiveStatuses
<1>2. ASSUME NEW p \in Projects, NEW jobs \in SUBSET Mailboxes, NEW parent \in RunIds,
             NEW child \in [jobs -> RunIds], BeginBatch(p, jobs, parent, child)
      PROVE OneOwner'
  <2> DEFINE new(q) == \E m \in jobs : q = child[m]
              of(q) == CHOOSE m \in jobs : q = child[m]
  <2>1. \A q \in RunIds : new(q) => of(q) \in jobs /\ q = child[of(q)]
    OBVIOUS
  <2>2. \A q \in RunIds : new(q) => q # parent /\ Absent(q) /\ ~HasActiveRun(of(q))
    BY <1>2, <2>1 DEF BeginBatch, Admissible
  <2>3. \A q, s \in RunIds : new(q) /\ new(s) /\ of(q) = of(s) => q = s
    BY <1>2, <2>1 DEF BeginBatch
  <2>4. /\ mailbox' = mailbox
        /\ Absent(parent)
        /\ runs'[parent].job = NoJob
        /\ \A q \in RunIds : new(q) => /\ runs'[q].job = of(q)
                                       /\ runs'[q].status = "queued"
        /\ \A q \in RunIds : q # parent /\ ~new(q) => runs'[q] = runs[q]
    BY <1>2, <2>2 DEF BeginBatch
  <2> HIDE DEF new, of
  <2> QED BY <2>1, <2>2, <2>3, <2>4 DEF HasActiveRun, ActiveStatuses
<1>3. ASSUME NEW r \in RunIds, ClaimChild(r) PROVE OneOwner'
  BY <1>3, StatusUpdate DEF ClaimChild, MayClaim, RowsOK, TypeOK, OnlyStatusOf, Statuses,
     ActiveStatuses, TerminalStatuses
<1>4. ASSUME NEW m \in Mailboxes, NEW r \in RunIds, NEW baseline \in RunIds,
             BeginAudit(m, r, baseline)
      PROVE OneOwner'
  BY <1>4 DEF BeginAudit, HasActiveRun, TypeOK, ActiveStatuses
<1>5. ASSUME NEW r \in RunIds, NEW status \in TerminalStatuses \ {"abandoned"},
             FinishRun(r, status)
      PROVE OneOwner'
  BY <1>5, StatusUpdate DEF FinishRun, MayFinishRun, RowsOK, TypeOK, OnlyStatusOf, Statuses,
     ActiveStatuses, TerminalStatuses
<1>6. ASSUME NEW r \in RunIds, NEW e \in PlainEndings, FinishMailboxRun(r, e[1], e[2])
     PROVE OneOwner'
  BY <1>6, StatusUpdate DEF FinishMailboxRun, MayFinishMailboxRun, TerminalPair, RowsOK, TypeOK,
     OnlyStatusOf, Statuses, ActiveStatuses, TerminalStatuses
<1>7. ASSUME NEW r \in RunIds, NEW e \in SingleEndings, ~Absent(r), runs[r].kind = "single",
             FinishMailboxRun(r, e[1], e[2])
      PROVE OneOwner'
  BY <1>7, StatusUpdate DEF FinishMailboxRun, MayFinishMailboxRun, TerminalPair, RowsOK, TypeOK,
     OnlyStatusOf, Statuses, ActiveStatuses, TerminalStatuses
<1>8. ASSUME NEW r \in RunIds, NEW exact \in BOOLEAN, NEW state \in MailboxStates,
             FinishWithEvidence(r, exact, state)
      PROVE OneOwner'
  BY <1>8, StatusUpdate DEF FinishWithEvidence, MayFinishWithEvidence, RowsOK, TypeOK,
     OnlyStatusOf, Statuses, ActiveStatuses, TerminalStatuses
<1>9. ASSUME NEW r \in RunIds, NEW exact \in BOOLEAN, FinishAudit(r, exact) PROVE OneOwner'
  BY <1>9, StatusUpdate DEF FinishAudit, TypeOK, OnlyStatusOf, Statuses,
     ActiveStatuses, TerminalStatuses
<1>10. ASSUME NEW r \in RunIds, CancelHeldChild(r) PROVE OneOwner'
  BY <1>10, StatusUpdate DEF CancelHeldChild, TypeOK, OnlyStatusOf, Statuses,
     ActiveStatuses, TerminalStatuses
<1>11. ASSUME NEW r \in RunIds, RegisterProcess(r) PROVE OneOwner'
  BY <1>11 DEF RegisterProcess
<1>12. ASSUME NEW r \in RunIds, ClearProcesses(r) PROVE OneOwner'
  BY <1>12 DEF ClearProcesses
<1>13. ASSUME ClearProcessesAfterReview PROVE OneOwner'
  BY <1>13 DEF ClearProcessesAfterReview
<1>14. ASSUME NEW preserved \in SUBSET processes, Recover(preserved) PROVE OneOwner'
  BY <1>14, RecoverRows DEF Recover, TypeOK, Abandons, ActiveStatuses
<1>15. ASSUME NEW p \in Projects, HoldProject(p) \/ ReleaseProjectHold(p) PROVE OneOwner'
  BY <1>15 DEF HoldProject, ReleaseProjectHold
<1>16. ASSUME NEW p \in Projects, NEW next \in Phases, Transition(p, next) PROVE OneOwner'
  BY <1>16 DEF Transition
<1>17. ASSUME NEW p \in Projects, ReopenProject(p) PROVE OneOwner'
  BY <1>17 DEF ReopenProject, TypeOK, VerifiedStates
<1>18. ASSUME NEW m \in Mailboxes, AcceptDifference(m) PROVE OneOwner'
  BY <1>18 DEF AcceptDifference, TypeOK
<1>19. CASE UNCHANGED vars
  BY <1>19 DEF vars
<1> HIDE DEF OneOwner, RunOf, Active, Absent
<1> QED
  BY <1>1, <1>2, <1>3, <1>4, <1>5, <1>6, <1>7, <1>8, <1>9, <1>10,
     <1>11, <1>12, <1>13, <1>14, <1>15, <1>16, <1>17, <1>18, <1>19 DEF Next

(* Children are unfinished only under a running parent: a parent ends after *)
(* them, and recovery abandons them together.                               *)
LEMMA OrphanStep == TypeOK /\ RowsOK /\ NoOrphanChild /\ [Next]_vars => NoOrphanChild'
<1> SUFFICES ASSUME TypeOK, RowsOK, NoOrphanChild, [Next]_vars PROVE NoOrphanChild'
  OBVIOUS
<1> USE DEF NoOrphanChild, Active, Absent
<1>1. ASSUME NEW m \in Mailboxes, NEW r \in RunIds, BeginRun(m, r) PROVE NoOrphanChild'
  BY <1>1 DEF BeginRun, TypeOK, RowsOK
<1>2. ASSUME NEW p \in Projects, NEW jobs \in SUBSET Mailboxes, NEW parent \in RunIds,
             NEW child \in [jobs -> RunIds], BeginBatch(p, jobs, parent, child)
      PROVE NoOrphanChild'
  <2> DEFINE new(q) == \E m \in jobs : q = child[m]
  <2>1. \A q \in RunIds : new(q) => q # parent /\ Absent(q)
    BY <1>2 DEF BeginBatch
  <2>2. /\ Absent(parent)
        /\ runs'[parent].kind = "parent" /\ runs'[parent].status = "running"
        /\ \A q \in RunIds : new(q) => /\ runs'[q].parent = parent
                                       /\ runs'[q].status = "queued"
        /\ \A q \in RunIds : q # parent /\ ~new(q) => runs'[q] = runs[q]
    BY <1>2, <2>1 DEF BeginBatch
  <2> HIDE DEF new
  <2> QED BY <2>1, <2>2 DEF RowsOK, ActiveStatuses
<1>3. ASSUME NEW r \in RunIds, ClaimChild(r) PROVE NoOrphanChild'
  BY <1>3, StatusUpdate DEF ClaimChild, MayClaim, RowsOK, TypeOK, OnlyStatusOf, Statuses,
     ActiveStatuses, TerminalStatuses
<1>4. ASSUME NEW m \in Mailboxes, NEW r \in RunIds, NEW baseline \in RunIds,
             BeginAudit(m, r, baseline)
      PROVE NoOrphanChild'
  BY <1>4 DEF BeginAudit, TypeOK, RowsOK
<1>5. ASSUME NEW r \in RunIds, NEW status \in TerminalStatuses \ {"abandoned"},
             FinishRun(r, status)
      PROVE NoOrphanChild'
  BY <1>5, StatusUpdate DEF FinishRun, MayFinishRun, ChildrenOf, RowsOK, TypeOK, OnlyStatusOf,
     Statuses, ActiveStatuses, TerminalStatuses
<1>6. ASSUME NEW r \in RunIds, NEW e \in PlainEndings, FinishMailboxRun(r, e[1], e[2])
     PROVE NoOrphanChild'
  BY <1>6, StatusUpdate DEF FinishMailboxRun, MayFinishMailboxRun, TerminalPair, RowsOK, TypeOK,
     OnlyStatusOf, Statuses, ActiveStatuses, TerminalStatuses
<1>7. ASSUME NEW r \in RunIds, NEW e \in SingleEndings, ~Absent(r), runs[r].kind = "single",
             FinishMailboxRun(r, e[1], e[2])
      PROVE NoOrphanChild'
  BY <1>7, StatusUpdate DEF FinishMailboxRun, MayFinishMailboxRun, TerminalPair, RowsOK, TypeOK,
     OnlyStatusOf, Statuses, ActiveStatuses, TerminalStatuses
<1>8. ASSUME NEW r \in RunIds, NEW exact \in BOOLEAN, NEW state \in MailboxStates,
             FinishWithEvidence(r, exact, state)
      PROVE NoOrphanChild'
  BY <1>8, StatusUpdate DEF FinishWithEvidence, MayFinishWithEvidence, RowsOK, TypeOK,
     OnlyStatusOf, Statuses, ActiveStatuses, TerminalStatuses
<1>9. ASSUME NEW r \in RunIds, NEW exact \in BOOLEAN, FinishAudit(r, exact) PROVE NoOrphanChild'
  BY <1>9, StatusUpdate DEF FinishAudit, RowsOK, TypeOK, OnlyStatusOf, Statuses,
     ActiveStatuses, TerminalStatuses
<1>10. ASSUME NEW r \in RunIds, CancelHeldChild(r) PROVE NoOrphanChild'
  BY <1>10, StatusUpdate DEF CancelHeldChild, RowsOK, TypeOK, OnlyStatusOf, Statuses,
     ActiveStatuses, TerminalStatuses
<1>11. ASSUME NEW r \in RunIds, RegisterProcess(r) PROVE NoOrphanChild'
  BY <1>11 DEF RegisterProcess
<1>12. ASSUME NEW r \in RunIds, ClearProcesses(r) PROVE NoOrphanChild'
  BY <1>12 DEF ClearProcesses
<1>13. ASSUME ClearProcessesAfterReview PROVE NoOrphanChild'
  BY <1>13 DEF ClearProcessesAfterReview
<1>14. ASSUME NEW preserved \in SUBSET processes, Recover(preserved) PROVE NoOrphanChild'
  BY <1>14, RecoverRows DEF TypeOK, RowsOK, Abandons, ActiveStatuses
<1>15. ASSUME NEW p \in Projects, HoldProject(p) \/ ReleaseProjectHold(p) PROVE NoOrphanChild'
  BY <1>15 DEF HoldProject, ReleaseProjectHold
<1>16. ASSUME NEW p \in Projects, NEW next \in Phases, Transition(p, next) PROVE NoOrphanChild'
  BY <1>16 DEF Transition
<1>17. ASSUME NEW p \in Projects, ReopenProject(p) PROVE NoOrphanChild'
  BY <1>17 DEF ReopenProject
<1>18. ASSUME NEW m \in Mailboxes, AcceptDifference(m) PROVE NoOrphanChild'
  BY <1>18 DEF AcceptDifference
<1>19. CASE UNCHANGED vars
  BY <1>19 DEF vars
<1> HIDE DEF NoOrphanChild, Active, Absent
<1> QED
  BY <1>1, <1>2, <1>3, <1>4, <1>5, <1>6, <1>7, <1>8, <1>9, <1>10,
     <1>11, <1>12, <1>13, <1>14, <1>15, <1>16, <1>17, <1>18, <1>19 DEF Next

(* A run's ending clears its process rows; audits, whose ending does not,   *)
(* never have any.                                                          *)
LEMMA ProcessStep == TypeOK /\ ProcessOwned /\ [Next]_vars => ProcessOwned'
<1> SUFFICES ASSUME TypeOK, ProcessOwned, [Next]_vars PROVE ProcessOwned'
  OBVIOUS
<1> USE DEF ProcessOwned, ProcessIsTransfer, ProcessHasOwner, Absent
<1>1. ASSUME NEW m \in Mailboxes, NEW r \in RunIds, BeginRun(m, r) PROVE ProcessOwned'
  BY <1>1 DEF BeginRun, TypeOK
<1>2. ASSUME NEW p \in Projects, NEW jobs \in SUBSET Mailboxes, NEW parent \in RunIds,
             NEW child \in [jobs -> RunIds], BeginBatch(p, jobs, parent, child)
      PROVE ProcessOwned'
  <2> DEFINE new(q) == \E m \in jobs : q = child[m]
  <2>1. \A q \in RunIds : new(q) => q # parent /\ Absent(q)
    BY <1>2 DEF BeginBatch
  <2>2. /\ Absent(parent) /\ processes' = processes
        /\ \A q \in RunIds : q # parent /\ ~new(q) => runs'[q] = runs[q]
    BY <1>2, <2>1 DEF BeginBatch
  <2> HIDE DEF new
  <2> QED BY <2>1, <2>2 DEF TypeOK
<1>3. ASSUME NEW r \in RunIds, ClaimChild(r) PROVE ProcessOwned'
  BY <1>3, StatusUpdate DEF ClaimChild, MayClaim, TypeOK, OnlyStatusOf, Statuses,
     ActiveStatuses, TerminalStatuses
<1>4. ASSUME NEW m \in Mailboxes, NEW r \in RunIds, NEW baseline \in RunIds,
             BeginAudit(m, r, baseline)
      PROVE ProcessOwned'
  BY <1>4 DEF BeginAudit, TypeOK
<1>5. ASSUME NEW r \in RunIds, NEW status \in TerminalStatuses \ {"abandoned"},
             FinishRun(r, status)
      PROVE ProcessOwned'
  BY <1>5, StatusUpdate DEF FinishRun, MayFinishRun, TypeOK, OnlyStatusOf, Statuses,
     ActiveStatuses, TerminalStatuses
<1>6. ASSUME NEW r \in RunIds, NEW e \in PlainEndings, FinishMailboxRun(r, e[1], e[2])
     PROVE ProcessOwned'
  BY <1>6, StatusUpdate DEF FinishMailboxRun, MayFinishMailboxRun, TerminalPair, TypeOK,
     OnlyStatusOf, Statuses, ActiveStatuses, TerminalStatuses
<1>7. ASSUME NEW r \in RunIds, NEW e \in SingleEndings, ~Absent(r), runs[r].kind = "single",
             FinishMailboxRun(r, e[1], e[2])
      PROVE ProcessOwned'
  BY <1>7, StatusUpdate DEF FinishMailboxRun, MayFinishMailboxRun, TerminalPair, TypeOK,
     OnlyStatusOf, Statuses, ActiveStatuses, TerminalStatuses
<1>8. ASSUME NEW r \in RunIds, NEW exact \in BOOLEAN, NEW state \in MailboxStates,
             FinishWithEvidence(r, exact, state)
      PROVE ProcessOwned'
  BY <1>8, StatusUpdate DEF FinishWithEvidence, MayFinishWithEvidence, TypeOK, OnlyStatusOf,
     Statuses, ActiveStatuses, TerminalStatuses
<1>9. ASSUME NEW r \in RunIds, NEW exact \in BOOLEAN, FinishAudit(r, exact) PROVE ProcessOwned'
  BY <1>9, StatusUpdate DEF FinishAudit, TypeOK, OnlyStatusOf, Statuses,
     ActiveStatuses, TerminalStatuses
<1>10. ASSUME NEW r \in RunIds, CancelHeldChild(r) PROVE ProcessOwned'
  BY <1>10, StatusUpdate DEF CancelHeldChild, TypeOK, OnlyStatusOf, Statuses,
     ActiveStatuses, TerminalStatuses
<1>11. ASSUME NEW r \in RunIds, RegisterProcess(r) PROVE ProcessOwned'
  BY <1>11 DEF RegisterProcess, TypeOK
<1>12. ASSUME NEW r \in RunIds, ClearProcesses(r) PROVE ProcessOwned'
  BY <1>12 DEF ClearProcesses
<1>13. ASSUME ClearProcessesAfterReview PROVE ProcessOwned'
  BY <1>13 DEF ClearProcessesAfterReview
<1>14. ASSUME NEW preserved \in SUBSET processes, Recover(preserved) PROVE ProcessOwned'
  BY <1>14, RecoverRows DEF Recover, TypeOK, Abandons
<1>15. ASSUME NEW p \in Projects, HoldProject(p) \/ ReleaseProjectHold(p) PROVE ProcessOwned'
  BY <1>15 DEF HoldProject, ReleaseProjectHold
<1>16. ASSUME NEW p \in Projects, NEW next \in Phases, Transition(p, next) PROVE ProcessOwned'
  BY <1>16 DEF Transition
<1>17. ASSUME NEW p \in Projects, ReopenProject(p) PROVE ProcessOwned'
  BY <1>17 DEF ReopenProject
<1>18. ASSUME NEW m \in Mailboxes, AcceptDifference(m) PROVE ProcessOwned'
  BY <1>18 DEF AcceptDifference
<1>19. CASE UNCHANGED vars
  BY <1>19 DEF vars
<1> HIDE DEF ProcessOwned, ProcessIsTransfer, ProcessHasOwner, Absent
<1> QED
  BY <1>1, <1>2, <1>3, <1>4, <1>5, <1>6, <1>7, <1>8, <1>9, <1>10,
     <1>11, <1>12, <1>13, <1>14, <1>15, <1>16, <1>17, <1>18, <1>19 DEF Next

(* Verified is written only together with exact evidence of the run that    *)
(* ends, and a completed run's row never changes again.                     *)
LEMMA VerifiedStep == TypeOK /\ RowsOK /\ VerifiedIsProven /\ [Next]_vars => VerifiedIsProven'
<1> SUFFICES ASSUME TypeOK, RowsOK, VerifiedIsProven, [Next]_vars PROVE VerifiedIsProven'
  OBVIOUS
<1> USE DEF VerifiedIsProven, RunOf, Absent
<1>1. ASSUME NEW m \in Mailboxes, NEW r \in RunIds, BeginRun(m, r) PROVE VerifiedIsProven'
  BY <1>1 DEF BeginRun, TypeOK, EvidenceRow
<1>2. ASSUME NEW p \in Projects, NEW jobs \in SUBSET Mailboxes, NEW parent \in RunIds,
             NEW child \in [jobs -> RunIds], BeginBatch(p, jobs, parent, child)
      PROVE VerifiedIsProven'
  <2> DEFINE new(q) == \E m \in jobs : q = child[m]
  <2>1. \A q \in RunIds : new(q) => q # parent /\ Absent(q)
    BY <1>2 DEF BeginBatch
  <2>2. /\ Absent(parent) /\ mailbox' = mailbox /\ evidence' = evidence
        /\ \A q \in RunIds : q # parent /\ ~new(q) => runs'[q] = runs[q]
    BY <1>2, <2>1 DEF BeginBatch
  <2> HIDE DEF new
  <2> QED BY <2>1, <2>2 DEF TypeOK, EvidenceRow
<1>3. ASSUME NEW r \in RunIds, ClaimChild(r) PROVE VerifiedIsProven'
  BY <1>3, StatusUpdate DEF ClaimChild, MayClaim, TypeOK, OnlyStatusOf, Statuses, EvidenceRow,
     ActiveStatuses, TerminalStatuses
<1>4. ASSUME NEW m \in Mailboxes, NEW r \in RunIds, NEW baseline \in RunIds,
             BeginAudit(m, r, baseline)
      PROVE VerifiedIsProven'
  BY <1>4 DEF BeginAudit, TypeOK, EvidenceRow
<1>5. ASSUME NEW r \in RunIds, NEW status \in TerminalStatuses \ {"abandoned"},
             FinishRun(r, status)
      PROVE VerifiedIsProven'
  BY <1>5, StatusUpdate DEF FinishRun, MayFinishRun, TypeOK, OnlyStatusOf, Statuses, EvidenceRow,
     ActiveStatuses, TerminalStatuses
<1>6. ASSUME NEW r \in RunIds, NEW e \in PlainEndings, FinishMailboxRun(r, e[1], e[2])
     PROVE VerifiedIsProven'
  BY <1>6, StatusUpdate DEF FinishMailboxRun, MayFinishMailboxRun, TerminalPair, TypeOK,
     OnlyStatusOf, Statuses, EvidenceRow, ActiveStatuses, TerminalStatuses
<1>7. ASSUME NEW r \in RunIds, NEW e \in SingleEndings, ~Absent(r), runs[r].kind = "single",
             FinishMailboxRun(r, e[1], e[2])
      PROVE VerifiedIsProven'
  BY <1>7, StatusUpdate DEF FinishMailboxRun, MayFinishMailboxRun, TerminalPair, TypeOK,
     OnlyStatusOf, Statuses, EvidenceRow, ActiveStatuses, TerminalStatuses
<1>8. ASSUME NEW r \in RunIds, NEW exact \in BOOLEAN, NEW state \in MailboxStates,
             FinishWithEvidence(r, exact, state)
      PROVE VerifiedIsProven'
  <2> DEFINE m == runs[r].job
             row == [run |-> r, exact |-> exact /\ state # "ready"]
  <2>1. m \in Mailboxes /\ runs[r].kind # "audit" /\ runs[r].status = "running"
    BY <1>8 DEF FinishWithEvidence, MayFinishWithEvidence, RowsOK
  <2>2. /\ mailbox' = [mailbox EXCEPT ![m] = state]
        /\ evidence' = [evidence EXCEPT ![m] = row]
        /\ state = "verified" => exact
    BY <1>8 DEF FinishWithEvidence, MayFinishWithEvidence
  <2>3. OnlyStatusOf(r, "completed")
    BY <1>8, StatusUpdate DEF FinishWithEvidence, TypeOK, Statuses, TerminalStatuses
  <2>4. evidence'[m].run = r /\ (state = "verified" => evidence'[m].exact)
    BY <2>1, <2>2 DEF TypeOK
  <2>5. \A n \in Mailboxes \ {m} : mailbox'[n] = mailbox[n] /\ evidence'[n] = evidence[n]
    BY <2>2 DEF TypeOK
  <2>6. mailbox'[m] = state
    BY <2>1, <2>2 DEF TypeOK
  <2>7. mailbox'[m] = "verified" =>
          /\ evidence'[m].exact /\ evidence'[m].run # NoRun
          /\ runs'[r].job = m /\ runs'[r].kind # "audit" /\ runs'[r].status = "completed"
    BY <2>1, <2>3, <2>4, <2>6 DEF OnlyStatusOf
  <2>8. \A n \in Mailboxes \ {m} : evidence[n].run \in RunIds \cup {NoRun}
    BY DEF TypeOK, EvidenceRow
  <2> HIDE DEF m, row
  <2> QED BY <2>1, <2>3, <2>4, <2>5, <2>7, <2>8 DEF OnlyStatusOf
<1>9. ASSUME NEW r \in RunIds, NEW exact \in BOOLEAN, FinishAudit(r, exact)
     PROVE VerifiedIsProven'
  BY <1>9, StatusUpdate DEF FinishAudit, TypeOK, OnlyStatusOf, Statuses, EvidenceRow,
     ActiveStatuses, TerminalStatuses
<1>10. ASSUME NEW r \in RunIds, CancelHeldChild(r) PROVE VerifiedIsProven'
  BY <1>10, StatusUpdate DEF CancelHeldChild, TypeOK, OnlyStatusOf, Statuses, EvidenceRow,
     ActiveStatuses, TerminalStatuses
<1>11. ASSUME NEW r \in RunIds, RegisterProcess(r) PROVE VerifiedIsProven'
  BY <1>11 DEF RegisterProcess
<1>12. ASSUME NEW r \in RunIds, ClearProcesses(r) PROVE VerifiedIsProven'
  BY <1>12 DEF ClearProcesses
<1>13. ASSUME ClearProcessesAfterReview PROVE VerifiedIsProven'
  BY <1>13 DEF ClearProcessesAfterReview
<1>14. ASSUME NEW preserved \in SUBSET processes, Recover(preserved) PROVE VerifiedIsProven'
  BY <1>14, RecoverRows DEF Recover, TypeOK, Abandons, EvidenceRow
<1>15. ASSUME NEW p \in Projects, HoldProject(p) \/ ReleaseProjectHold(p) PROVE VerifiedIsProven'
  BY <1>15 DEF HoldProject, ReleaseProjectHold
<1>16. ASSUME NEW p \in Projects, NEW next \in Phases, Transition(p, next) PROVE VerifiedIsProven'
  BY <1>16 DEF Transition
<1>17. ASSUME NEW p \in Projects, ReopenProject(p) PROVE VerifiedIsProven'
  BY <1>17 DEF ReopenProject, TypeOK
<1>18. ASSUME NEW m \in Mailboxes, AcceptDifference(m) PROVE VerifiedIsProven'
  BY <1>18 DEF AcceptDifference, TypeOK
<1>19. CASE UNCHANGED vars
  BY <1>19 DEF vars
<1> HIDE DEF VerifiedIsProven, RunOf, Absent
<1> QED
  BY <1>1, <1>2, <1>3, <1>4, <1>5, <1>6, <1>7, <1>8, <1>9, <1>10,
     <1>11, <1>12, <1>13, <1>14, <1>15, <1>16, <1>17, <1>18, <1>19 DEF Next

(* A complete project stays verified: claims and admissions refuse it, and  *)
(* a queued child of it can only end in ways its verified mailbox refuses.  *)
LEMMA CompleteStep ==
    TypeOK /\ RowsOK /\ OneOwner /\ CompleteIsVerified /\ [Next]_vars => CompleteIsVerified'
<1> SUFFICES ASSUME TypeOK, RowsOK, OneOwner, CompleteIsVerified, [Next]_vars
     PROVE CompleteIsVerified'
  OBVIOUS
<1> USE DEF CompleteIsVerified, AllVerified, MailboxesOf, Verified
<1>1. ASSUME NEW m \in Mailboxes, NEW r \in RunIds, BeginRun(m, r) PROVE CompleteIsVerified'
  BY <1>1 DEF BeginRun, Admissible, TypeOK
<1>2. ASSUME NEW p \in Projects, NEW jobs \in SUBSET Mailboxes, NEW parent \in RunIds,
             NEW child \in [jobs -> RunIds], BeginBatch(p, jobs, parent, child)
      PROVE CompleteIsVerified'
  BY <1>2 DEF BeginBatch
<1>3. ASSUME NEW r \in RunIds, ClaimChild(r) PROVE CompleteIsVerified'
  BY <1>3 DEF ClaimChild, MayClaim, RowsOK, TypeOK
<1>4. ASSUME NEW m \in Mailboxes, NEW r \in RunIds, NEW baseline \in RunIds,
             BeginAudit(m, r, baseline)
      PROVE CompleteIsVerified'
  BY <1>4 DEF BeginAudit
<1>5. ASSUME NEW r \in RunIds, NEW status \in TerminalStatuses \ {"abandoned"},
             FinishRun(r, status)
      PROVE CompleteIsVerified'
  BY <1>5 DEF FinishRun
<1>6. ASSUME NEW r \in RunIds, NEW e \in PlainEndings, FinishMailboxRun(r, e[1], e[2])
     PROVE CompleteIsVerified'
  BY <1>6 DEF FinishMailboxRun, MayFinishMailboxRun, PlainEndings, TerminalPair, MaySettle,
     ValidMailboxTransition, TypeOK, RowsOK, OneOwner, RunOf, Absent, VerifiedStates
<1>7. ASSUME NEW r \in RunIds, NEW e \in SingleEndings, ~Absent(r), runs[r].kind = "single",
             FinishMailboxRun(r, e[1], e[2])
      PROVE CompleteIsVerified'
  BY <1>7 DEF FinishMailboxRun, MayFinishMailboxRun, SingleEndings, TypeOK, RowsOK,
     OneOwner, RunOf, Absent
<1>8. ASSUME NEW r \in RunIds, NEW exact \in BOOLEAN, NEW state \in MailboxStates,
             FinishWithEvidence(r, exact, state)
      PROVE CompleteIsVerified'
  BY <1>8 DEF FinishWithEvidence, MayFinishWithEvidence, TypeOK, RowsOK, OneOwner, RunOf, Absent
<1>9. ASSUME NEW r \in RunIds, NEW exact \in BOOLEAN, FinishAudit(r, exact)
     PROVE CompleteIsVerified'
  BY <1>9 DEF FinishAudit
<1>10. ASSUME NEW r \in RunIds, CancelHeldChild(r) PROVE CompleteIsVerified'
  BY <1>10 DEF CancelHeldChild
<1>11. ASSUME NEW r \in RunIds, RegisterProcess(r) PROVE CompleteIsVerified'
  BY <1>11 DEF RegisterProcess
<1>12. ASSUME NEW r \in RunIds, ClearProcesses(r) PROVE CompleteIsVerified'
  BY <1>12 DEF ClearProcesses
<1>13. ASSUME ClearProcessesAfterReview PROVE CompleteIsVerified'
  BY <1>13 DEF ClearProcessesAfterReview
<1>14. ASSUME NEW preserved \in SUBSET processes, Recover(preserved) PROVE CompleteIsVerified'
  BY <1>14 DEF Recover, TypeOK
<1>15. ASSUME NEW p \in Projects, HoldProject(p) \/ ReleaseProjectHold(p)
     PROVE CompleteIsVerified'
  BY <1>15 DEF HoldProject, ReleaseProjectHold
<1>16. ASSUME NEW p \in Projects, NEW next \in Phases, Transition(p, next)
     PROVE CompleteIsVerified'
  BY <1>16 DEF Transition, TypeOK
<1>17. ASSUME NEW p \in Projects, ReopenProject(p) PROVE CompleteIsVerified'
  BY <1>17 DEF ReopenProject, TypeOK, VerifiedStates
<1>18. ASSUME NEW m \in Mailboxes, AcceptDifference(m) PROVE CompleteIsVerified'
  BY <1>18 DEF AcceptDifference, TypeOK, EvidenceRow
<1>19. CASE UNCHANGED vars
  BY <1>19 DEF vars
<1> HIDE DEF CompleteIsVerified, AllVerified, MailboxesOf, Verified
<1> QED
  BY <1>1, <1>2, <1>3, <1>4, <1>5, <1>6, <1>7, <1>8, <1>9, <1>10,
     <1>11, <1>12, <1>13, <1>14, <1>15, <1>16, <1>17, <1>18, <1>19 DEF Next

-----------------------------------------------------------------------------
(* The ledger of an import, before any run, satisfies the invariant. *)
LEMMA LedgerInvInit == Init => LedgerInv
BY DEF Init, LedgerInv, TypeOK, RowsOK, ProcessOwned, ProcessIsTransfer, ProcessHasOwner,
   OneOwner, NoOrphanChild, VerifiedIsProven, CompleteIsVerified, Absent, AbsentRow, Active,
   RunOf, RunRow, EvidenceRow, NoEvidence, ActiveStatuses, TerminalStatuses, RunKinds,
   MailboxStates, Phases

(* Every store transaction preserves the invariant. *)
LEMMA LedgerInvStep == LedgerInv /\ [Next]_vars => LedgerInv'
BY TypeStep, RowsStep, ProcessStep, OwnerStep, OrphanStep, VerifiedStep, CompleteStep
   DEF LedgerInv

(* The store's writers keep LedgerInv, in whatever order they commit. *)
THEOREM LedgerInvariant == Spec => []LedgerInv
BY LedgerInvInit, LedgerInvStep, PTL DEF Spec

(* Every column stays in the domain the code gives it. *)
THEOREM LedgerTypeOK == Spec => []TypeOK
BY LedgerInvariant, PTL DEF LedgerInv

(* runs.rs, holds.rs and recovery.rs: a mailbox is running exactly while    *)
(* one running transfer run owns it, and it never has two active runs.      *)
THEOREM OneOwnerAlways == Spec => []OneOwner
BY LedgerInvariant, PTL DEF LedgerInv

(* runs.rs and recovery.rs: no unfinished child outlives its parent, and a  *)
(* completed parent has only completed children.                            *)
THEOREM NoOrphanChildAlways == Spec => []NoOrphanChild
BY LedgerInvariant, PTL DEF LedgerInv

(* The evidence finish of runs.rs: verified always rests on exact evidence  *)
(* of a completed transfer run of the same mailbox.                         *)
THEOREM VerifiedIsProvenAlways == Spec => []VerifiedIsProven
BY LedgerInvariant, PTL DEF LedgerInv

(* phases.rs, runs.rs and evidence_ops.rs: a complete project has every     *)
(* mailbox verified or accepted.                                            *)
THEOREM CompleteIsVerifiedAlways == Spec => []CompleteIsVerified
BY LedgerInvariant, PTL DEF LedgerInv

(* recovery.rs: a process identity belongs to a running or abandoned run.   *)
THEOREM ProcessHasOwnerAlways == Spec => []ProcessHasOwner
BY LedgerInvariant, PTL DEF LedgerInv, ProcessOwned
-----------------------------------------------------------------------------
(* The lock compares one kind of identity per destination account: no       *)
(* account is reached both by a row with a plan of its own and by a row of  *)
(* a shared plan.                                                           *)
LockIdentitiesAgree ==
    \A m, n \in Mailboxes :
        Account[m] = Account[n] => (m \in SharedPlan <=> n \in SharedPlan)

(* Rows of one account then compute one lock identity. *)
LEMMA UniformLocks ==
    ASSUME LockIdentitiesAgree, NEW m \in Mailboxes, NEW n \in Mailboxes,
           Account[m] = Account[n]
    PROVE  LockIdentity(m) = LockIdentity(n)
BY DEF LockIdentitiesAgree, LockIdentity

(* A new run is admitted only when no other active run holds its lock       *)
(* identity; nothing else makes a run active.                               *)
LEMMA LockStep ==
    LockIdentitiesAgree /\ TypeOK /\ DestinationExclusive /\ [Next]_vars => DestinationExclusive'
<1> SUFFICES ASSUME LockIdentitiesAgree, TypeOK, DestinationExclusive, [Next]_vars
     PROVE DestinationExclusive'
  OBVIOUS
<1> USE DEF DestinationExclusive, Absent, Active
<1>1. ASSUME NEW m \in Mailboxes, NEW r \in RunIds, BeginRun(m, r) PROVE DestinationExclusive'
  <2>1. \A n \in Mailboxes : n # m /\ HasActiveRun(n) => LockIdentity(m) # LockIdentity(n)
    BY <1>1 DEF BeginRun, LockConflict
  <2>2. \A q \in RunIds : ~Absent(q) /\ Active(q) /\ runs[q].job \in Mailboxes =>
            HasActiveRun(runs[q].job)
    BY DEF HasActiveRun, RunOf
  <2>3. runs'[r].job = m /\ \A q \in RunIds : q # r => runs'[q] = runs[q]
    BY <1>1 DEF BeginRun, TypeOK
  <2> QED BY <2>1, <2>2, <2>3, UniformLocks
<1>2. ASSUME NEW p \in Projects, NEW jobs \in SUBSET Mailboxes, NEW parent \in RunIds,
             NEW child \in [jobs -> RunIds], BeginBatch(p, jobs, parent, child)
      PROVE DestinationExclusive'
  <2> DEFINE new(q) == \E m \in jobs : q = child[m]
              of(q) == CHOOSE m \in jobs : q = child[m]
  <2>1. \A q \in RunIds : new(q) => /\ q # parent /\ Absent(q)
                                    /\ of(q) \in jobs /\ jobs \subseteq Mailboxes
    BY <1>2 DEF BeginBatch
  <2>2. /\ Absent(parent) /\ runs'[parent].job = NoJob
        /\ \A q \in RunIds : new(q) => /\ runs'[q].job = of(q)
                                       /\ runs'[q].kind = "child"
                                       /\ runs'[q].parent = parent
        /\ \A q \in RunIds : q # parent /\ ~new(q) => runs'[q] = runs[q]
    BY <1>2, <2>1 DEF BeginBatch
  <2>3. \A m \in jobs : ~HasActiveRun(m)
    BY <1>2 DEF BeginBatch, Admissible
  <2>4. \A n \in Mailboxes \ jobs : HasActiveRun(n) =>
            \A m \in jobs : LockIdentity(m) # LockIdentity(n)
    BY <1>2 DEF BeginBatch, LockConflict
  <2>5. \A q \in RunIds : ~Absent(q) /\ Active(q) /\ runs[q].job \in Mailboxes =>
            HasActiveRun(runs[q].job)
    BY DEF HasActiveRun, RunOf
  <2> HIDE DEF new, of
  <2> QED BY <2>1, <2>2, <2>3, <2>4, <2>5, UniformLocks
<1>3. ASSUME NEW r \in RunIds, ClaimChild(r) PROVE DestinationExclusive'
  BY <1>3, StatusUpdate DEF ClaimChild, MayClaim, OnlyStatusOf, Statuses, TypeOK,
     ActiveStatuses, TerminalStatuses
<1>4. ASSUME NEW m \in Mailboxes, NEW r \in RunIds, NEW baseline \in RunIds,
             BeginAudit(m, r, baseline)
      PROVE DestinationExclusive'
  <2>1. \A n \in Mailboxes : n # m /\ HasActiveRun(n) => LockIdentity(m) # LockIdentity(n)
    BY <1>4 DEF BeginAudit, LockConflict
  <2>2. \A q \in RunIds : ~Absent(q) /\ Active(q) /\ runs[q].job \in Mailboxes =>
            HasActiveRun(runs[q].job)
    BY DEF HasActiveRun, RunOf
  <2>3. runs'[r].job = m /\ \A q \in RunIds : q # r => runs'[q] = runs[q]
    BY <1>4 DEF BeginAudit, TypeOK
  <2> QED BY <2>1, <2>2, <2>3, UniformLocks
<1>5. ASSUME NEW r \in RunIds, NEW status \in TerminalStatuses \ {"abandoned"},
             FinishRun(r, status)
      PROVE DestinationExclusive'
  BY <1>5, StatusUpdate DEF FinishRun, MayFinishRun, OnlyStatusOf, Statuses, TypeOK,
     ActiveStatuses, TerminalStatuses
<1>6. ASSUME NEW r \in RunIds, NEW e \in PlainEndings, FinishMailboxRun(r, e[1], e[2])
     PROVE DestinationExclusive'
  BY <1>6, StatusUpdate DEF FinishMailboxRun, MayFinishMailboxRun, TerminalPair, OnlyStatusOf,
     Statuses, TypeOK, ActiveStatuses, TerminalStatuses
<1>7. ASSUME NEW r \in RunIds, NEW e \in SingleEndings, ~Absent(r), runs[r].kind = "single",
             FinishMailboxRun(r, e[1], e[2])
      PROVE DestinationExclusive'
  BY <1>7, StatusUpdate DEF FinishMailboxRun, MayFinishMailboxRun, TerminalPair, OnlyStatusOf,
     Statuses, TypeOK, ActiveStatuses, TerminalStatuses
<1>8. ASSUME NEW r \in RunIds, NEW exact \in BOOLEAN, NEW state \in MailboxStates,
             FinishWithEvidence(r, exact, state)
      PROVE DestinationExclusive'
  BY <1>8, StatusUpdate DEF FinishWithEvidence, MayFinishWithEvidence, OnlyStatusOf, Statuses,
     TypeOK, ActiveStatuses, TerminalStatuses
<1>9. ASSUME NEW r \in RunIds, NEW exact \in BOOLEAN, FinishAudit(r, exact)
     PROVE DestinationExclusive'
  BY <1>9, StatusUpdate DEF FinishAudit, OnlyStatusOf, Statuses, TypeOK,
     ActiveStatuses, TerminalStatuses
<1>10. ASSUME NEW r \in RunIds, CancelHeldChild(r) PROVE DestinationExclusive'
  BY <1>10, StatusUpdate DEF CancelHeldChild, OnlyStatusOf, Statuses, TypeOK,
     ActiveStatuses, TerminalStatuses
<1>11. ASSUME NEW r \in RunIds, RegisterProcess(r) PROVE DestinationExclusive'
  BY <1>11 DEF RegisterProcess
<1>12. ASSUME NEW r \in RunIds, ClearProcesses(r) PROVE DestinationExclusive'
  BY <1>12 DEF ClearProcesses
<1>13. ASSUME ClearProcessesAfterReview PROVE DestinationExclusive'
  BY <1>13 DEF ClearProcessesAfterReview
<1>14. ASSUME NEW preserved \in SUBSET processes, Recover(preserved) PROVE DestinationExclusive'
  BY <1>14, RecoverRows DEF TypeOK, Abandons, ActiveStatuses
<1>15. ASSUME NEW p \in Projects, HoldProject(p) \/ ReleaseProjectHold(p)
     PROVE DestinationExclusive'
  BY <1>15 DEF HoldProject, ReleaseProjectHold
<1>16. ASSUME NEW p \in Projects, NEW next \in Phases, Transition(p, next)
     PROVE DestinationExclusive'
  BY <1>16 DEF Transition
<1>17. ASSUME NEW p \in Projects, ReopenProject(p) PROVE DestinationExclusive'
  BY <1>17 DEF ReopenProject
<1>18. ASSUME NEW m \in Mailboxes, AcceptDifference(m) PROVE DestinationExclusive'
  BY <1>18 DEF AcceptDifference
<1>19. CASE UNCHANGED vars
  BY <1>19 DEF vars
<1> HIDE DEF DestinationExclusive, Absent, Active
<1> QED
  BY <1>1, <1>2, <1>3, <1>4, <1>5, <1>6, <1>7, <1>8, <1>9, <1>10,
     <1>11, <1>12, <1>13, <1>14, <1>15, <1>16, <1>17, <1>18, <1>19 DEF Next

(* ensure_no_active_destination_lock_conflict: two mailboxes that write to  *)
(* one destination account have no active runs at the same time, outside    *)
(* one batch, provided the rows' lock identities agree.                     *)
THEOREM DestinationExclusiveAlways ==
    LockIdentitiesAgree => (Spec => []DestinationExclusive)
<1> SUFFICES ASSUME LockIdentitiesAgree PROVE Spec => []DestinationExclusive
  OBVIOUS
<1>1. Init => DestinationExclusive
  BY DEF Init, DestinationExclusive, Absent, AbsentRow
<1>2. TypeOK /\ DestinationExclusive /\ [Next]_vars => DestinationExclusive'
  BY LockStep
<1> QED BY <1>1, <1>2, LedgerTypeOK, PTL DEF Spec

-----------------------------------------------------------------------------
KeepsTerminal ==
    \A r \in RunIds : runs[r].status \in TerminalStatuses => runs'[r] = runs[r]

(* No transaction updates a row whose status is terminal. *)
LEMMA FinalStep == TypeOK /\ [Next]_vars => KeepsTerminal
<1> SUFFICES ASSUME TypeOK, [Next]_vars PROVE KeepsTerminal
  OBVIOUS
<1> USE DEF KeepsTerminal
<1>1. ASSUME NEW m \in Mailboxes, NEW r \in RunIds, BeginRun(m, r) PROVE KeepsTerminal
  BY <1>1 DEF BeginRun, Absent, TerminalStatuses, TypeOK
<1>2. ASSUME NEW p \in Projects, NEW jobs \in SUBSET Mailboxes, NEW parent \in RunIds,
             NEW child \in [jobs -> RunIds], BeginBatch(p, jobs, parent, child)
      PROVE KeepsTerminal
  BY <1>2 DEF BeginBatch, Absent, TerminalStatuses, TypeOK
<1>3. ASSUME NEW r \in RunIds, ClaimChild(r) PROVE KeepsTerminal
  BY <1>3, StatusUpdate DEF ClaimChild, MayClaim, OnlyStatusOf, Statuses,
     TerminalStatuses, ActiveStatuses, TypeOK
<1>4. ASSUME NEW m \in Mailboxes, NEW r \in RunIds, NEW baseline \in RunIds,
             BeginAudit(m, r, baseline)
      PROVE KeepsTerminal
  BY <1>4 DEF BeginAudit, Absent, TerminalStatuses, TypeOK
<1>5. ASSUME NEW r \in RunIds, NEW status \in TerminalStatuses \ {"abandoned"},
             FinishRun(r, status)
      PROVE KeepsTerminal
  BY <1>5, StatusUpdate DEF FinishRun, MayFinishRun, OnlyStatusOf, Statuses,
     TerminalStatuses, ActiveStatuses, TypeOK
<1>6. ASSUME NEW r \in RunIds, NEW e \in PlainEndings, FinishMailboxRun(r, e[1], e[2])
     PROVE KeepsTerminal
  BY <1>6, StatusUpdate DEF FinishMailboxRun, MayFinishMailboxRun, TerminalPair, OnlyStatusOf,
     Statuses, TerminalStatuses, ActiveStatuses, TypeOK
<1>7. ASSUME NEW r \in RunIds, NEW e \in SingleEndings, ~Absent(r), runs[r].kind = "single",
             FinishMailboxRun(r, e[1], e[2])
      PROVE KeepsTerminal
  BY <1>7, StatusUpdate DEF FinishMailboxRun, MayFinishMailboxRun, TerminalPair, OnlyStatusOf,
     Statuses, TerminalStatuses, ActiveStatuses, TypeOK
<1>8. ASSUME NEW r \in RunIds, NEW exact \in BOOLEAN, NEW state \in MailboxStates,
             FinishWithEvidence(r, exact, state)
      PROVE KeepsTerminal
  BY <1>8, StatusUpdate DEF FinishWithEvidence, MayFinishWithEvidence, OnlyStatusOf, Statuses,
     TerminalStatuses, ActiveStatuses, TypeOK
<1>9. ASSUME NEW r \in RunIds, NEW exact \in BOOLEAN, FinishAudit(r, exact) PROVE KeepsTerminal
  BY <1>9, StatusUpdate DEF FinishAudit, OnlyStatusOf, Statuses,
     TerminalStatuses, ActiveStatuses, TypeOK
<1>10. ASSUME NEW r \in RunIds, CancelHeldChild(r) PROVE KeepsTerminal
  BY <1>10, StatusUpdate DEF CancelHeldChild, OnlyStatusOf, Statuses,
     TerminalStatuses, ActiveStatuses, TypeOK
<1>11. ASSUME NEW r \in RunIds, RegisterProcess(r) PROVE KeepsTerminal
  BY <1>11 DEF RegisterProcess
<1>12. ASSUME NEW r \in RunIds, ClearProcesses(r) PROVE KeepsTerminal
  BY <1>12 DEF ClearProcesses
<1>13. ASSUME ClearProcessesAfterReview PROVE KeepsTerminal
  BY <1>13 DEF ClearProcessesAfterReview
<1>14. ASSUME NEW preserved \in SUBSET processes, Recover(preserved) PROVE KeepsTerminal
  BY <1>14, RecoverRows DEF TypeOK, Abandons, TerminalStatuses
<1>15. ASSUME NEW p \in Projects, HoldProject(p) \/ ReleaseProjectHold(p) PROVE KeepsTerminal
  BY <1>15 DEF HoldProject, ReleaseProjectHold
<1>16. ASSUME NEW p \in Projects, NEW next \in Phases, Transition(p, next) PROVE KeepsTerminal
  BY <1>16 DEF Transition
<1>17. ASSUME NEW p \in Projects, ReopenProject(p) PROVE KeepsTerminal
  BY <1>17 DEF ReopenProject
<1>18. ASSUME NEW m \in Mailboxes, AcceptDifference(m) PROVE KeepsTerminal
  BY <1>18 DEF AcceptDifference
<1>19. CASE UNCHANGED vars
  BY <1>19 DEF vars
<1> HIDE DEF KeepsTerminal
<1> QED
  BY <1>1, <1>2, <1>3, <1>4, <1>5, <1>6, <1>7, <1>8, <1>9, <1>10,
     <1>11, <1>12, <1>13, <1>14, <1>15, <1>16, <1>17, <1>18, <1>19 DEF Next

(* Every ending in runs.rs, holds.rs and recovery.rs is conditional on the  *)
(* run being active: a terminal status is final.                            *)
THEOREM TerminalIsFinalAlways == Spec => TerminalIsFinal
<1>1. TypeOK /\ [Next]_vars => [KeepsTerminal]_vars
  BY FinalStep
<1>2. [][KeepsTerminal]_vars => TerminalIsFinal
  BY PTL DEF KeepsTerminal, TerminalIsFinal
<1> QED BY <1>1, <1>2, LedgerTypeOK, PTL DEF Spec

=============================================================================
