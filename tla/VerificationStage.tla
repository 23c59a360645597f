-------------------------- MODULE VerificationStage --------------------------
(***************************************************************************)
(* Independent verification of one mailbox: run_imap_message_verification  *)
(* reads every folder of both accounts page by page into a durable SQLite  *)
(* stage, re-examines both accounts, and only then makes evidence of what  *)
(* is staged.  Both accounts stay in use meanwhile.  An attempt that fails *)
(* or is killed leaves the stage behind, and a later attempt may take over *)
(* complete folders and committed prefixes of pages from it.               *)
(*                                                                         *)
(* A message is the plan whose account holds it, the UIDVALIDITY and the   *)
(* UID; its flags are the only thing of it that changes.  Reconciling the  *)
(* two staged sides is a function of the rows and is left out: the         *)
(* properties are about the rows that it is given.                         *)
(***************************************************************************)
EXTENDS Integers, FiniteSets, Sequences

CONSTANTS
    NumFolders,           \* folder names an account may have, in their order
    InitialCounts,        \* messages that the folders may hold at first
    Plans,                \* migration plans the mailbox may be given
    BodyPlans,            \* the plans that ask for body hashes
    MaxUid,               \* bound: UIDs a folder assigns
    PageSize,             \* messages fetched by one page
    StabilityAttempts,    \* MAX_MAILBOX_STABILITY_ATTEMPTS
    MaxReconnects,        \* MAX_CONSECUTIVE_SESSION_RECONNECTS
    MaxAttempts,          \* bound: verification attempts
    MaxChanges,           \* bound: changes made to the accounts
    NoPlan, NoCursor

ASSUME StageConstants ==
    /\ NumFolders \in Nat \ {0} /\ Plans # {} /\ BodyPlans \subseteq Plans
    /\ MaxUid \in Nat \ {0} /\ PageSize \in Nat \ {0}
    /\ StabilityAttempts \in Nat \ {0} /\ MaxReconnects \in Nat
    /\ MaxAttempts \in Nat /\ MaxChanges \in Nat
    /\ InitialCounts \subseteq [1..NumFolders -> 0..MaxUid]
    /\ NoPlan \notin Plans

Sides == {"source", "destination"}
Folders == 1..NumFolders
NoFolder == 0
Uids == 1..MaxUid
Flags == {"unseen", "seen"}
NoFlags == "unobserved"
Untracked == 0

VARIABLES
    plan,        \* the plan in force, which names both accounts
    server,      \* what the two accounts hold
    rows,        \* staged_messages, by side and folder
    cursor,      \* stage_cursors, by side and folder
    identity,    \* stage_metadata: the plan that the stage belongs to
    scan,        \* the locals of the running attempt
    inventory,   \* the folders each account listed in this attempt
    attempts,    \* attempts begun
    changes,     \* changes made to the accounts
    joint        \* history: the staged rows were what the listed folders of
                 \* both accounts held at the LIST that opens the
                 \* destination's revalidation

stage == <<rows, cursor, identity>>
counts == <<attempts, changes>>
vars == <<plan, server, rows, cursor, identity, scan, inventory, attempts, changes, joint>>

Rounds == <<"source", "destination", "source">>
Scanning == {"listing", "selecting", "paging"}
Revalidating == {"relisting", "examining"}
Active == Scanning \cup Revalidating

-----------------------------------------------------------------------------
(* What the accounts answer.                                               *)

There(s) == {f \in Folders : server[s][f].there}
Held(s, f) == DOMAIN server[s][f].msgs

(* FolderSnapshot: a SELECT's UIDVALIDITY, UIDNEXT, EXISTS and, when the    *)
(* session has CONDSTORE, HIGHESTMODSEQ.                                    *)
FolderSnapshot(s, f, tracked) ==
    [uidvalidity |-> server[s][f].validity,
     uidnext |-> server[s][f].next,
     exists |-> Cardinality(Held(s, f)),
     highest_modseq |-> IF tracked THEN server[s][f].modseq ELSE Untracked]

(* A fetched message.  Its flags are kept only when the selected folder has *)
(* a tracked MODSEQ; the row is filed under the UIDVALIDITY of the SELECT.  *)
(* A plan that asks for it also stages the fingerprint of the body.         *)
Message(s, f, u, snap) ==
    [uidvalidity |-> snap.uidvalidity,
     uid |-> u,
     mail |-> <<plan, server[s][f].validity, u>>,
     flags |-> IF snap.highest_modseq = Untracked THEN NoFlags ELSE server[s][f].msgs[u],
     fingerprint |-> plan \in BodyPlans]

(* The rows staged for a folder are exactly what it holds now, under the    *)
(* name f or one that a user has given it for the moment.                   *)
StagedIsHeld(s, f) ==
    /\ cursor[s][f] # NoCursor
    /\ rows[s][f] = {Message(s, f, u, cursor[s][f].snapshot) : u \in Held(s, f)}
    /\ cursor[s][f].snapshot.uidvalidity = server[s][f].validity

(* So are the rows of every folder of both inventories, and there are no    *)
(* others.                                                                  *)
StageIsTrue ==
    \A s \in Sides, f \in Folders :
        IF f \in inventory[s] THEN StagedIsHeld(s, f) ELSE rows[s][f] = {}

-----------------------------------------------------------------------------
(* The stage.                                                              *)

EmptyStage == [s \in Sides |-> [f \in Folders |-> {}]]
NoCursors == [s \in Sides |-> [f \in Folders |-> NoCursor]]
StageDeleted == rows' = EmptyStage /\ cursor' = NoCursors

(* delete_mailbox *)
DeleteMailbox(s, f) ==
    /\ rows' = [rows EXCEPT ![s][f] = {}]
    /\ cursor' = [cursor EXCEPT ![s][f] = NoCursor]
    /\ UNCHANGED identity

(* begin_mailbox_scan: whatever an earlier scan left goes, and the new      *)
(* snapshot comes, in one transaction.                                      *)
BeginMailboxScan(s, f, snap) ==
    /\ rows' = [rows EXCEPT ![s][f] = {}]
    /\ cursor' = [cursor EXCEPT ![s][f] = [snapshot |-> snap, last |-> 0, completed |-> FALSE]]
    /\ UNCHANGED identity

(* retain_mailboxes *)
RetainMailboxes(s, listed) ==
    /\ rows' = [rows EXCEPT ![s] = [f \in Folders |-> IF f \in listed THEN @[f] ELSE {}]]
    /\ cursor' = [cursor EXCEPT ![s] = [f \in Folders |-> IF f \in listed THEN @[f] ELSE NoCursor]]
    /\ UNCHANGED identity

(* insert_page_with_fingerprints: the page and its cursor in one            *)
(* transaction.                                                             *)
InsertPage(s, f, page, last) ==
    /\ rows' = [rows EXCEPT ![s][f] = {r \in @ : \A p \in page : p.uid # r.uid} \cup page]
    /\ cursor' = [cursor EXCEPT ![s][f] = [@ EXCEPT !.last = last, !.completed = FALSE]]
    /\ UNCHANGED identity

(* complete_mailbox *)
CompleteMailbox(s, f, snap) ==
    /\ cursor' = [cursor EXCEPT ![s][f] = [@ EXCEPT !.last = snap.uidnext - 1, !.completed = TRUE]]
    /\ UNCHANGED <<rows, identity>>

SameSnapshot(s, f, snap) ==
    /\ cursor[s][f] # NoCursor
    /\ cursor[s][f].snapshot = snap

(* reusable_completed_mailbox *)
ReusableCompletedMailbox(s, f, snap) ==
    /\ snap.highest_modseq # Untracked
    /\ SameSnapshot(s, f, snap)
    /\ cursor[s][f].completed
    /\ Cardinality(rows[s][f]) = snap.exists
    /\ \A r \in rows[s][f] : ~r.fingerprint

(* resumable_mailbox_prefix *)
ResumableMailboxPrefix(s, f, snap) ==
    /\ snap.highest_modseq # Untracked
    /\ SameSnapshot(s, f, snap)
    /\ ~cursor[s][f].completed
    /\ Cardinality(rows[s][f]) \in 1..snap.exists
    /\ cursor[s][f].last \in 1..(snap.uidnext - 1)
    /\ \E r \in rows[s][f] : r.uid = cursor[s][f].last
    /\ \A r \in rows[s][f] : r.uid <= cursor[s][f].last /\ ~r.fingerprint

-----------------------------------------------------------------------------
(* The attempt.                                                            *)

NoSnapshot == [uidvalidity |-> 0, uidnext |-> 0, exists |-> 0, highest_modseq |-> Untracked]
AtRest(phase) ==
    [phase |-> phase, side |-> "source", round |-> 1, tracked |-> FALSE, todo |-> {},
     folder |-> NoFolder, snapshot |-> NoSnapshot, seen |-> 0, last |-> 0, reused |-> FALSE,
     tries |-> 0, reconnects |-> 0, incomplete |-> FALSE]

Init ==
    /\ plan \in Plans
    /\ \E held \in InitialCounts :
          server = [s \in Sides |-> [f \in Folders |->
              [there |-> held[f] # 0, validity |-> 1, next |-> held[f] + 1,
               msgs |-> [u \in 1..held[f] |-> "unseen"], modseq |-> 1]]]
    /\ rows = EmptyStage /\ cursor = NoCursors /\ identity = NoPlan
    /\ scan = AtRest("idle")
    /\ inventory = [s \in Sides |-> {}]
    /\ attempts = 0 /\ changes = 0
    /\ joint = FALSE

(* The attempt is over, and its locals are gone. *)
EndAttempt ==
    /\ scan' = AtRest("idle")
    /\ inventory' = [s \in Sides |-> {}]
    /\ joint' = FALSE
Over == scan.phase = "idle" /\ attempts = MaxAttempts

(* begin_verification_attempt: the fingerprints of earlier attempts go. *)
WithoutFingerprints ==
    [s \in Sides |-> [f \in Folders |-> {[r EXCEPT !.fingerprint = FALSE] : r \in rows[s][f]}]]

(* open_durable: a stage of another plan is emptied; otherwise its rows and  *)
(* cursors stay.                                                             *)
BindIdentity ==
    /\ identity' = plan
    /\ IF identity = plan THEN rows' = WithoutFingerprints /\ UNCHANGED cursor
       ELSE StageDeleted

OpenStage ==
    /\ scan.phase = "idle" /\ attempts < MaxAttempts
    /\ attempts' = attempts + 1
    /\ BindIdentity
    /\ scan' = AtRest("listing")
    /\ UNCHANGED <<plan, server, inventory, changes, joint>>

(* fetch_tls_account_messages_with_sink: the inventory of one account.      *)
ListAccount ==
    /\ scan.phase = "listing"
    /\ LET listed == There(scan.side)
       IN  IF listed = {} THEN EndAttempt /\ UNCHANGED stage
           ELSE /\ RetainMailboxes(scan.side, listed)
                /\ inventory' = [inventory EXCEPT ![scan.side] = listed]
                /\ \E tracked \in BOOLEAN :
                      scan' = [scan EXCEPT !.phase = "selecting", !.todo = listed,
                                           !.tracked = tracked]
                /\ UNCHANGED joint
    /\ UNCHANGED <<plan, server, counts>>

(* Folders are taken in the order of their names. *)
First(todo) == {f \in todo : \A g \in todo : f <= g}

(* Between two folders, or before another try of the same one. *)
Leave(f) ==
    [scan EXCEPT !.phase = "selecting", !.todo = @ \ {f}, !.folder = NoFolder, !.tries = 0,
                 !.snapshot = NoSnapshot, !.seen = 0, !.last = 0, !.reused = FALSE]
TryAgain(f) == [Leave(f) EXCEPT !.todo = scan.todo, !.folder = f]

(* The folder counts as incomplete, which fails the account in the end.     *)
GiveUpFolder(f) ==
    /\ DeleteMailbox(scan.side, f)
    /\ scan' = [Leave(f) EXCEPT !.incomplete = TRUE]

(* Mutant: the number of tries is off by one. *)
RetryUnstableOnceMore(f) ==
    IF scan.tries < StabilityAttempts
    THEN /\ DeleteMailbox(scan.side, f)
         /\ scan' = [TryAgain(f) EXCEPT !.tries = scan.tries + 1]
    ELSE GiveUpFolder(f)

(* fetch_mailbox_with_stability_retry on MailboxFetchError::Changed.        *)
RetryUnstable(f) ==
    IF scan.tries + 1 < StabilityAttempts
    THEN /\ DeleteMailbox(scan.side, f)
         /\ scan' = [TryAgain(f) EXCEPT !.tries = scan.tries + 1]
    ELSE GiveUpFolder(f)

Resume(f, snap, seen, last, reused) ==
    scan' = [scan EXCEPT !.phase = "paging", !.folder = f, !.snapshot = snap, !.seen = seen,
                         !.last = last, !.reused = reused]

MayReuse(s, f, snap) == plan \notin BodyPlans /\ ReusableCompletedMailbox(s, f, snap)
MayResume(s, f, snap) == plan \notin BodyPlans /\ ResumableMailboxPrefix(s, f, snap)

(* fetch_mailbox_with_existing_stream up to its first page.                 *)
SelectFolder ==
    /\ scan.phase = "selecting"
    /\ \E f \in IF scan.folder = NoFolder THEN First(scan.todo) ELSE {scan.folder} :
         LET s == scan.side
             snap == FolderSnapshot(s, f, scan.tracked)
         IN  \/ ~server[s][f].there /\ GiveUpFolder(f)
             \/ /\ server[s][f].there /\ MayReuse(s, f, snap)
                /\ Resume(f, snap, snap.exists, 0, TRUE)
                /\ UNCHANGED stage
             \/ /\ server[s][f].there /\ ~MayReuse(s, f, snap) /\ MayResume(s, f, snap)
                /\ Resume(f, snap, Cardinality(rows[s][f]), cursor[s][f].last, FALSE)
                /\ UNCHANGED stage
             \/ /\ server[s][f].there /\ ~MayReuse(s, f, snap) /\ ~MayResume(s, f, snap)
                /\ BeginMailboxScan(s, f, snap)
                /\ Resume(f, snap, 0, 0, FALSE)
    /\ UNCHANGED <<plan, server, inventory, counts, joint>>

(* enumerate_uid_pages: the UIDs at the page's sequence numbers, and then    *)
(* their metadata.  A number without a message, a UID out of order, or a     *)
(* cursor of another snapshot, is an error of the folder.  A selected folder *)
(* is read on under another name.                                            *)
Sequence(s, f, u) == Cardinality({v \in Held(s, f) : v <= u})
PageEnd == IF scan.seen + PageSize < scan.snapshot.exists THEN scan.seen + PageSize
           ELSE scan.snapshot.exists

FetchPage ==
    /\ scan.phase = "paging" /\ scan.seen < scan.snapshot.exists
    /\ LET s == scan.side
           f == scan.folder
           uids == {u \in Held(s, f) : Sequence(s, f, u) \in (scan.seen + 1)..PageEnd}
       IN  IF /\ Cardinality(uids) = PageEnd - scan.seen
              /\ \A u \in uids : u > scan.last
              /\ SameSnapshot(s, f, scan.snapshot)
           THEN \E last \in uids :
                /\ \A u \in uids : u <= last
                /\ InsertPage(s, f, {Message(s, f, u, scan.snapshot) : u \in uids}, last)
                /\ scan' = [scan EXCEPT !.seen = PageEnd, !.last = last]
           ELSE GiveUpFolder(f)
    /\ UNCHANGED <<plan, server, inventory, counts, joint>>

(* Mutant: the second SELECT compares only the message population. *)
StableSinceByCounts(s, f, snap) ==
    FolderSnapshot(s, f, FALSE) = [snap EXCEPT !.highest_modseq = Untracked]

(* The second SELECT of fetch_mailbox_with_existing_stream. *)
StableSince(s, f, snap) == FolderSnapshot(s, f, scan.tracked) = snap

(* The second SELECT and the transaction of complete_mailbox that rests on  *)
(* it are one step: a change that falls between them is taken to fall after *)
(* both.                                                                    *)
EndScan ==
    /\ scan.phase = "paging" /\ scan.seen = scan.snapshot.exists
    /\ LET s == scan.side
           f == scan.folder
           snap == scan.snapshot
           whole == Cardinality(rows[s][f]) = snap.exists
           stable == server[s][f].there /\ StableSince(s, f, snap)
           mine == scan.reused \/ SameSnapshot(s, f, snap)
       IN  \/ (whole => server[s][f].there /\ ~stable) /\ RetryUnstable(f)
           \/ whole /\ (server[s][f].there => stable /\ ~mine) /\ GiveUpFolder(f)
           \/ /\ whole /\ stable /\ mine
              /\ IF scan.reused THEN UNCHANGED stage ELSE CompleteMailbox(s, f, snap)
              /\ scan' = [Leave(f) EXCEPT !.reconnects = 0]
    /\ UNCHANGED <<plan, server, inventory, counts, joint>>

(* Every cursor of a side is complete and covers its snapshot. *)
Covered(s) ==
    \A f \in Folders : cursor[s][f] # NoCursor =>
        /\ cursor[s][f].completed
        /\ Cardinality(rows[s][f]) = cursor[s][f].snapshot.exists

(* All folders of an account were tried: the other account is next, and     *)
(* after it the revalidation.                                               *)
FinishAccount ==
    /\ scan.phase = "selecting" /\ scan.folder = NoFolder /\ scan.todo = {}
    /\ \/ scan.incomplete /\ EndAttempt
       \/ /\ ~scan.incomplete /\ scan.side = "source"
          /\ scan' = [AtRest("listing") EXCEPT !.side = "destination"]
          /\ UNCHANGED <<inventory, joint>>
       \/ /\ ~scan.incomplete /\ scan.side = "destination"
          /\ IF \A s \in Sides : Covered(s)
             THEN scan' = AtRest("relisting") /\ UNCHANGED <<inventory, joint>>
             ELSE EndAttempt
    /\ UNCHANGED <<plan, server, stage, counts>>

(* Mutant: a new session starts with a new budget of reconnects. *)
ReconnectForever(f) ==
    \/ /\ \E tracked \in BOOLEAN :
             scan' = [TryAgain(f) EXCEPT !.reconnects = 0, !.tracked = tracked]
       /\ UNCHANGED <<inventory, joint>>
    \/ EndAttempt

(* The connection breaks in a folder: what is staged of it goes, and it is   *)
(* tried again in a new session, which may have lost or gained CONDSTORE.    *)
(* Without a new session the account cannot be finished.                     *)
Reconnect(f) ==
    \/ /\ scan.reconnects < MaxReconnects
       /\ \E tracked \in BOOLEAN :
             scan' = [TryAgain(f) EXCEPT !.reconnects = @ + 1, !.tracked = tracked]
       /\ UNCHANGED <<inventory, joint>>
    \/ EndAttempt

SessionBreaks ==
    /\ scan.phase = "paging"
    /\ DeleteMailbox(scan.side, scan.folder)
    /\ Reconnect(scan.folder)
    /\ UNCHANGED <<plan, server, counts>>

(* The server refuses a command, or answers it with something unusable. *)
FolderFails ==
    /\ scan.phase = "paging"
    /\ GiveUpFolder(scan.folder)
    /\ UNCHANGED <<plan, server, inventory, counts, joint>>

(* Cancellation, the deadline, or a failure outside of any folder. *)
AttemptFails ==
    /\ scan.phase \in Active
    /\ IF scan.phase = "paging" THEN DeleteMailbox(scan.side, scan.folder) ELSE UNCHANGED stage
    /\ EndAttempt
    /\ UNCHANGED <<plan, server, counts>>

(* revalidate_tls_account_snapshots: first the folder list of the account   *)
(* whose turn it is.                                                        *)
Relist ==
    /\ scan.phase = "relisting"
    /\ LET s == Rounds[scan.round]
       IN  IF /\ {f \in Folders : cursor[s][f] # NoCursor} = inventory[s]
              /\ There(s) = inventory[s]
           THEN /\ \E tracked \in BOOLEAN :
                     scan' = [scan EXCEPT !.phase = "examining", !.side = s, !.todo = inventory[s],
                                          !.tracked = tracked]
                /\ joint' = IF s = "destination" THEN StageIsTrue ELSE joint
                /\ UNCHANGED inventory
           ELSE EndAttempt
    /\ UNCHANGED <<plan, server, stage, counts>>

(* Mutant: the source is not looked at again after the destination. *)
NextRoundOnce ==
    IF scan.round < 2
    THEN scan' = [AtRest("relisting") EXCEPT !.round = scan.round + 1]
    ELSE scan' = AtRest("evidence")

(* Then every folder of it is examined; after the last one the times of the *)
(* round are recorded and the next round, or the reconciliation, begins.    *)
NextRound ==
    IF scan.round < Len(Rounds)
    THEN scan' = [AtRest("relisting") EXCEPT !.round = scan.round + 1]
    ELSE scan' = AtRest("evidence")

Examine ==
    /\ scan.phase = "examining"
    /\ \E f \in First(scan.todo) :
         IF /\ server[scan.side][f].there
            /\ FolderSnapshot(scan.side, f, scan.tracked) = cursor[scan.side][f].snapshot
         THEN /\ IF scan.todo = {f} THEN NextRound ELSE scan' = [scan EXCEPT !.todo = @ \ {f}]
              /\ UNCHANGED <<inventory, joint>>
         ELSE EndAttempt
    /\ UNCHANGED <<plan, server, stage, counts>>

(* The controller commits the evidence and then removes the stage, which    *)
(* may fail; the stage that stays is found by the next attempt.             *)
CommitEvidence ==
    /\ scan.phase = "evidence"
    /\ \/ StageDeleted /\ identity' = NoPlan
       \/ UNCHANGED stage
    /\ EndAttempt
    /\ UNCHANGED <<plan, server, counts>>

(* The process dies: the stage on disk is what its last transaction left.   *)
Crash ==
    /\ scan.phase \in Active \cup {"evidence"}
    /\ EndAttempt
    /\ UNCHANGED <<plan, server, stage, counts>>

-----------------------------------------------------------------------------
(* The users of the accounts, and the operator.                            *)

(* IMAP: UIDs are never assigned twice under one UIDVALIDITY, and delivery  *)
(* and flag changes raise HIGHESTMODSEQ.  Removal need not.                 *)
Becomes(s, f, folder) ==
    /\ changes < MaxChanges /\ ~Over
    /\ changes' = changes + 1
    /\ server' = [server EXCEPT ![s][f] = folder]
    /\ UNCHANGED <<plan, stage, scan, inventory, attempts, joint>>

Deliver(s, f) ==
    LET b == server[s][f]
    IN  /\ b.there /\ b.next <= MaxUid
        /\ Becomes(s, f, [b EXCEPT !.next = @ + 1, !.modseq = @ + 1,
                  !.msgs = [u \in DOMAIN @ \cup {b.next} |-> IF u = b.next THEN "unseen" ELSE @[u]]])

Expunge(s, f) ==
    \E u \in Held(s, f) :
        Becomes(s, f, [server[s][f] EXCEPT !.msgs = [v \in DOMAIN @ \ {u} |-> @[v]]])

SetFlag(s, f) ==
    \E u \in Held(s, f) :
        Becomes(s, f, [server[s][f] EXCEPT !.modseq = @ + 1,
                                           !.msgs[u] = IF @ = "seen" THEN "unseen" ELSE "seen"])

RemoveFolder(s, f) ==
    /\ server[s][f].there
    /\ Becomes(s, f, [server[s][f] EXCEPT !.there = FALSE, !.msgs = [u \in {} |-> "unseen"]])

(* RENAME, to a name that is not among Folders or back: messages, UIDs and  *)
(* every counter stay.                                                      *)
RenameFolder(s, f) ==
    /\ Held(s, f) # {}
    /\ Becomes(s, f, [server[s][f] EXCEPT !.there = ~@])

(* A folder is created again, or restored with other mail: every counter    *)
(* but UIDVALIDITY may be what it was.                                      *)
RecreateFolder(s, f) ==
    Becomes(s, f, [server[s][f] EXCEPT !.there = TRUE, !.validity = @ + 1])

(* The mailbox is given another plan, whose accounts hold other mail under, *)
(* at worst, the same counters.                                             *)
Replan ==
    /\ scan.phase = "idle" /\ ~Over
    /\ changes < MaxChanges /\ changes' = changes + 1
    /\ \E p \in Plans \ {plan} : plan' = p
    /\ UNCHANGED <<server, stage, scan, inventory, attempts, joint>>

-----------------------------------------------------------------------------
Verify ==
    \/ ListAccount \/ SelectFolder \/ FetchPage \/ EndScan \/ FinishAccount
    \/ Relist \/ Examine

Faults == SessionBreaks \/ FolderFails \/ AttemptFails \/ Crash

Users ==
    \/ \E s \in Sides, f \in Folders :
          Deliver(s, f) \/ Expunge(s, f) \/ SetFlag(s, f) \/ RemoveFolder(s, f)
            \/ RenameFolder(s, f) \/ RecreateFolder(s, f)
    \/ Replan

(* No attempt is left. *)
Done == Over /\ UNCHANGED vars

Next == OpenStage \/ Verify \/ CommitEvidence \/ Faults \/ Users \/ Done

(* The verification thread runs, and every command to a server is answered  *)
(* or times out.                                                            *)
Spec == Init /\ [][Next]_vars /\ WF_vars(Verify)

-----------------------------------------------------------------------------
(* Properties *)

Snapshots ==
    [uidvalidity : 0..(MaxChanges + 1), uidnext : 0..(MaxUid + 1), exists : 0..MaxUid,
     highest_modseq : 0..(MaxChanges + 1)]
Rows ==
    [uidvalidity : 1..(MaxChanges + 1), uid : Uids, mail : Plans \X (1..(MaxChanges + 1)) \X Uids,
     flags : Flags \cup {NoFlags}, fingerprint : BOOLEAN]
Cursors == [snapshot : Snapshots, last : 0..MaxUid, completed : BOOLEAN]

ASSUME NoCursorIsNone == NoCursor \notin Cursors

(* Every variable has its type; the retries of a folder and the reconnects  *)
(* stay below their limits.                                                 *)
TypeOK ==
    /\ plan \in Plans
    /\ \A s \in Sides, f \in Folders :
          /\ server[s][f].there \in BOOLEAN
          /\ server[s][f].validity \in 1..(MaxChanges + 1)
          /\ server[s][f].next \in 1..(MaxUid + 1)
          /\ server[s][f].modseq \in 1..(MaxChanges + 1)
          /\ Held(s, f) \subseteq 1..(server[s][f].next - 1)
          /\ \A u \in Held(s, f) : server[s][f].msgs[u] \in Flags
          /\ rows[s][f] \subseteq Rows
          /\ cursor[s][f] \in Cursors \cup {NoCursor}
    /\ identity \in Plans \cup {NoPlan}
    /\ scan \in [phase : Active \cup {"idle", "evidence"}, side : Sides,
                  round : 1..Len(Rounds), tracked : BOOLEAN, todo : SUBSET Folders,
                  folder : Folders \cup {NoFolder}, snapshot : Snapshots, seen : 0..MaxUid,
                  last : 0..MaxUid, reused : BOOLEAN, tries : 0..(StabilityAttempts - 1),
                  reconnects : 0..MaxReconnects, incomplete : BOOLEAN]
    /\ inventory \in [Sides -> SUBSET Folders]
    /\ attempts \in 0..MaxAttempts /\ changes \in 0..MaxChanges
    /\ joint \in BOOLEAN

(* Evidence does not mix states of the mail: at one moment of the attempt,   *)
(* between the scans and the last revalidation, the rows staged for the      *)
(* folders of both inventories, those taken over from earlier attempts among *)
(* them, were exactly the messages that these folders held, with the flags   *)
(* that were observed and, when the plan asks for them, the fingerprints of  *)
(* the bodies.  Users may change either account at any time, sessions break, *)
(* processes die.  It says nothing of the names at that moment (a RENAME     *)
(* away and back goes unseen) nor of any later one.                          *)
EvidenceWasHeld == scan.phase = "evidence" => joint

(* A folder is marked complete only at a moment when its rows are what it    *)
(* holds, also when its first pages were fetched by an earlier attempt.      *)
CompletesTruthfully ==
    [][\A s \in Sides, f \in Folders :
        (cursor[s][f] # NoCursor /\ cursor'[s][f] # NoCursor
           /\ ~cursor[s][f].completed /\ cursor'[s][f].completed)
            => server[s][f].there /\ StagedIsHeld(s, f)]_vars

(* An attempt comes to an end without the help of its deadline, however      *)
(* often sessions break and folders change.                                  *)
AttemptEnds == (scan.phase \in Active) ~> (scan.phase \notin Active)
=============================================================================
