----------------------- MODULE VerificationStageProofs -----------------------
(***************************************************************************)
(* Proofs about VerificationStage for any number of folders, UIDs, plans,  *)
(* attempts and changes.  No clock and no lock relates the two accounts;   *)
(* the argument is that a folder's counters never come back.  Once a       *)
(* folder has left the snapshot that its staged rows were read under, no   *)
(* later SELECT answers that snapshot again.  So what still answers it has *)
(* been what is staged ever since, and two rounds of examinations enclose  *)
(* one instant at which the folders of both accounts held what is staged,  *)
(* whatever they were called then.                                         *)
(***************************************************************************)
EXTENDS VerificationStage, FiniteSetTheorems, TLAPS

(* A folder of an account after n changes. *)
FolderOK(b, n) ==
    /\ b = [there |-> b.there, validity |-> b.validity, next |-> b.next, msgs |-> b.msgs,
            modseq |-> b.modseq]
    /\ b.msgs = [u \in DOMAIN b.msgs |-> b.msgs[u]]
    /\ b.there \in BOOLEAN
    /\ b.validity \in Nat /\ b.validity > 0 /\ b.validity <= n + 1
    /\ b.modseq \in Nat /\ b.modseq > 0 /\ b.modseq <= n + 1
    /\ b.next \in 1..(MaxUid + 1)
    /\ DOMAIN b.msgs \subseteq 1..(b.next - 1)
    /\ \A u \in DOMAIN b.msgs : b.msgs[u] \in Flags

ServerOK ==
    /\ server = [s \in Sides |-> [f \in Folders |-> server[s][f]]]
    /\ \A s \in Sides, f \in Folders : FolderOK(server[s][f], changes)

ScanRow ==
    [phase : Active \cup {"idle", "evidence"}, side : Sides, round : 1..Len(Rounds),
     tracked : BOOLEAN, todo : SUBSET Folders, folder : Folders \cup {NoFolder},
     snapshot : Snapshots, seen : 0..MaxUid, last : 0..MaxUid, reused : BOOLEAN,
     tries : 0..(StabilityAttempts - 1), reconnects : 0..MaxReconnects, incomplete : BOOLEAN]

ShapeOK ==
    /\ plan \in Plans /\ identity \in Plans \cup {NoPlan}
    /\ rows \in [Sides -> [Folders -> SUBSET Rows]]
    /\ cursor \in [Sides -> [Folders -> Cursors \cup {NoCursor}]]
    /\ scan \in ScanRow
    /\ inventory \in [Sides -> SUBSET Folders]
    /\ attempts \in 0..MaxAttempts /\ changes \in 0..MaxChanges
    /\ joint \in BOOLEAN

-----------------------------------------------------------------------------
(* Counters never come back. *)

(* What a folder answers now cannot be older than its staged snapshot. *)
Past(s, f) ==
    cursor[s][f] # NoCursor =>
        LET c == cursor[s][f].snapshot
            b == server[s][f]
        IN  /\ c.uidvalidity <= b.validity /\ c.uidnext <= b.next /\ c.highest_modseq <= b.modseq
            /\ c.uidvalidity = b.validity /\ c.uidnext = b.next =>
                  Cardinality(Held(s, f)) <= c.exists

(* A SELECT of the folder, under whatever name it has now, would answer the *)
(* staged snapshot, to what of it is tracked.                               *)
Answers(s, f) ==
    /\ cursor[s][f] # NoCursor
    /\ LET c == cursor[s][f].snapshot
           b == server[s][f]
       IN  /\ c.uidvalidity = b.validity /\ c.uidnext = b.next
           /\ Cardinality(Held(s, f)) = c.exists
           /\ c.highest_modseq # Untracked => c.highest_modseq = b.modseq

(* Row r is message u as the folder holds it. *)
IsMessage(s, f, r, u) ==
    LET c == cursor[s][f].snapshot
        b == server[s][f]
    IN  /\ r.uidvalidity = c.uidvalidity /\ r.uid = u /\ r.mail = <<identity, b.validity, u>>
        /\ r.flags = IF c.highest_modseq = Untracked THEN NoFlags ELSE b.msgs[u]

(* While a folder answers its snapshot, every staged row is a message. *)
RowsTrue(s, f) ==
    Answers(s, f) => \A r \in rows[s][f] : \E u \in Held(s, f) : IsMessage(s, f, r, u)

StageTrue ==
    \A s \in Sides, f \in Folders :
        /\ Past(s, f) /\ RowsTrue(s, f)
        /\ rows[s][f] # {} => cursor[s][f] # NoCursor

-----------------------------------------------------------------------------
(* The attempt. *)

AtFolders == {"selecting", "paging"}

ScanOK ==
    /\ scan.phase = "idle" => \A s \in Sides : inventory[s] = {}
    /\ scan.phase # "idle" => identity = plan
    /\ scan.phase = "listing" => scan.folder = NoFolder
    /\ scan.phase \in AtFolders =>
          /\ scan.todo \subseteq inventory[scan.side]
          /\ scan.folder # NoFolder => scan.folder \in scan.todo
    /\ scan.phase = "paging" => scan.folder # NoFolder /\ scan.snapshot.uidvalidity > 0
    /\ scan.phase = "examining" => scan.side = Rounds[scan.round]

(* The folder was read by this attempt, and so with what its plan asks for. *)
Scanned(s, f) ==
    /\ f \in inventory[s]
    /\ scan.phase \in AtFolders /\ scan.side = s /\ f \in scan.todo =>
          scan.phase = "paging" /\ scan.folder = f

FreshOK ==
    scan.phase # "idle" =>
        \A s \in Sides, f \in Folders : \A r \in rows[s][f] :
            /\ r.fingerprint => plan \in BodyPlans
            /\ Scanned(s, f) /\ plan \in BodyPlans => r.fingerprint

(* What the rounds of the revalidation have established. *)
CursorsOf(s) == {f \in Folders : cursor[s][f] # NoCursor}

ListedOK ==
    /\ scan.phase \in Revalidating \cup {"evidence"} => \A s \in Sides : Covered(s)
    /\ scan.phase = "examining" =>
          CursorsOf(scan.side) = inventory[scan.side] /\ scan.todo \subseteq inventory[scan.side]
    /\ scan.phase \in Revalidating /\ scan.round > 1 => CursorsOf("source") = inventory["source"]

(* A folder that no longer answers will be found out. *)
Pending(s, f) ==
    \/ scan.phase = "examining" /\ scan.round = 2 /\ (s = "destination" => f \in scan.todo)
    \/ scan.phase = "relisting" /\ scan.round = 3 /\ s = "source"
    \/ scan.phase = "examining" /\ scan.round = 3 /\ s = "source" /\ f \in scan.todo

JointOK ==
    (scan.phase = "evidence" \/ (scan.phase \in Revalidating /\ scan.round = 3)
       \/ (scan.phase = "examining" /\ scan.round = 2)) =>
        joint \/ \E s \in Sides : \E f \in inventory[s] : ~Answers(s, f) /\ Pending(s, f)

StageInv ==
    /\ ServerOK
    /\ ShapeOK
    /\ StageTrue
    /\ ScanOK
    /\ FreshOK
    /\ ListedOK
    /\ JointOK

-----------------------------------------------------------------------------
(* Constants, sets and records. *)

(* The bounds, one by one. *)
LEMMA Bounds ==
    /\ NumFolders \in Nat /\ MaxUid \in Nat /\ PageSize \in Nat /\ PageSize > 0
    /\ StabilityAttempts \in Nat /\ StabilityAttempts > 0 /\ MaxReconnects \in Nat
    /\ MaxAttempts \in Nat /\ MaxChanges \in Nat /\ NoPlan \notin Plans
    /\ NoFolder = 0 /\ 0 \notin Folders
BY StageConstants DEF NoFolder, Folders

(* A folder holds finitely many messages, at most one for each UID. *)
LEMMA HeldFinite ==
    ASSUME ServerOK, NEW s \in Sides, NEW f \in Folders
    PROVE  /\ IsFiniteSet(Held(s, f)) /\ Cardinality(Held(s, f)) \in 0..MaxUid
           /\ Held(s, f) \subseteq Uids /\ FolderOK(server[s][f], changes)
<1>1. FolderOK(server[s][f], changes)
  BY DEF ServerOK
<1>2. Held(s, f) \subseteq 1..MaxUid
  BY <1>1, Bounds DEF FolderOK, Held
<1>3. IsFiniteSet(1..MaxUid) /\ Cardinality(1..MaxUid) = MaxUid
  BY FS_Interval, Bounds
<1>4. IsFiniteSet(Held(s, f)) /\ Cardinality(Held(s, f)) <= MaxUid
  BY <1>2, <1>3, FS_Subset
<1>5. Cardinality(Held(s, f)) \in Nat
  BY <1>4, FS_CardinalityType
<1> QED BY <1>1, <1>2, <1>4, <1>5, Bounds DEF Uids

(* A snapshot of a folder has its type and the folder's counters. *)
LEMMA SnapshotFacts ==
    ASSUME ServerOK, ShapeOK, NEW s \in Sides, NEW f \in Folders, NEW tracked \in BOOLEAN
    PROVE  LET snap == FolderSnapshot(s, f, tracked)
           IN  /\ snap \in Snapshots
               /\ snap.uidvalidity = server[s][f].validity /\ snap.uidvalidity > 0
               /\ snap.uidnext = server[s][f].next /\ snap.uidnext \in 1..(MaxUid + 1)
               /\ snap.exists = Cardinality(Held(s, f))
               /\ snap.highest_modseq \in {Untracked, server[s][f].modseq}
<1>1. FolderOK(server[s][f], changes) /\ Cardinality(Held(s, f)) \in 0..MaxUid
  BY HeldFinite
<1>2. changes \in 0..MaxChanges
  BY DEF ShapeOK
<1>3. /\ server[s][f].validity \in 1..(MaxChanges + 1) /\ server[s][f].modseq \in 0..(MaxChanges + 1)
      /\ server[s][f].next \in 1..(MaxUid + 1) /\ 0 \in 0..(MaxChanges + 1)
      /\ server[s][f].validity \in 0..(MaxChanges + 1) /\ server[s][f].next \in 0..(MaxUid + 1)
  BY <1>1, <1>2, Bounds DEF FolderOK
<1> DEFINE m == IF tracked THEN server[s][f].modseq ELSE Untracked
<1>4. m \in {Untracked, server[s][f].modseq} /\ m \in 0..(MaxChanges + 1)
  BY <1>3 DEF Untracked
<1>5. FolderSnapshot(s, f, tracked) =
        [uidvalidity |-> server[s][f].validity, uidnext |-> server[s][f].next,
         exists |-> Cardinality(Held(s, f)), highest_modseq |-> m]
  BY DEF FolderSnapshot
<1> HIDE DEF m
<1> QED BY <1>1, <1>3, <1>4, <1>5 DEF Snapshots

-----------------------------------------------------------------------------
(* The users of the accounts. *)

(* How one folder may move. *)
Moved(s, f) ==
    LET b == server[s][f]
        c == server'[s][f]
    IN  /\ b.validity <= c.validity /\ b.next <= c.next /\ b.modseq <= c.modseq
        /\ \/ b.validity < c.validity
           \/ b.next < c.next
           \/ DOMAIN c.msgs \subseteq DOMAIN b.msgs /\ DOMAIN c.msgs # DOMAIN b.msgs
           \/ DOMAIN c.msgs = DOMAIN b.msgs /\ b.modseq < c.modseq
           \/ c.msgs = b.msgs

OthersStay(s, f) ==
    /\ \A t \in Sides, g \in Folders : <<t, g>> # <<s, f>> => server'[t][g] = server[t][g]
    /\ UNCHANGED <<plan, rows, cursor, identity, scan, inventory, attempts, joint>>

(* One folder becomes another one, and the rest stays. *)
LEMMA FolderChange ==
    ASSUME ServerOK, ShapeOK, NEW s \in Sides, NEW f \in Folders, NEW c, Becomes(s, f, c)
    PROVE  /\ server'[s][f] = c /\ OthersStay(s, f)
           /\ server' = [t \in Sides |-> [g \in Folders |-> server'[t][g]]]
           /\ changes' = changes + 1 /\ changes' \in 0..MaxChanges
           /\ FolderOK(c, changes + 1) => ServerOK'
<1>1. server' = [server EXCEPT ![s][f] = c]
  BY DEF Becomes
<1>2. server = [t \in Sides |-> [g \in Folders |-> server[t][g]]]
  BY DEF ServerOK
<1>3. /\ server'[s][f] = c
      /\ \A t \in Sides, g \in Folders : <<t, g>> # <<s, f>> => server'[t][g] = server[t][g]
      /\ server' = [t \in Sides |-> [g \in Folders |-> server'[t][g]]]
  <2> DEFINE new == [t \in Sides |-> [g \in Folders |-> IF t = s /\ g = f THEN c ELSE server[t][g]]]
  <2>1. server' = new
    BY <1>1, <1>2
  <2>2. \A t \in Sides, g \in Folders : new[t][g] = IF t = s /\ g = f THEN c ELSE server[t][g]
    OBVIOUS
  <2>3. new = [t \in Sides |-> [g \in Folders |-> new[t][g]]]
    OBVIOUS
  <2> HIDE DEF new
  <2> QED BY <2>1, <2>2, <2>3
<1>4. changes' = changes + 1 /\ changes' \in 0..MaxChanges /\ changes \in 0..MaxChanges
  BY Bounds DEF Becomes, ShapeOK
<1>5. OthersStay(s, f)
  BY <1>3 DEF OthersStay, Becomes, stage
<1>6. ASSUME FolderOK(c, changes + 1) PROVE ServerOK'
  <2>1. ASSUME NEW t \in Sides, NEW g \in Folders PROVE FolderOK(server'[t][g], changes')
    <3>1. CASE t = s /\ g = f
      BY <1>3, <1>4, <1>6, <3>1
    <3>2. CASE ~(t = s /\ g = f)
      <4>1. FolderOK(server[t][g], changes) /\ server'[t][g] = server[t][g]
        BY <1>3, <3>2 DEF ServerOK
      <4>2. FolderOK(server[t][g], changes + 1)
        BY <1>4, <4>1, Bounds DEF FolderOK
      <4> QED BY <1>4, <4>1, <4>2
    <3> QED BY <3>1, <3>2
  <2> QED BY <1>3, <2>1 DEF ServerOK
<1> QED BY <1>3, <1>4, <1>5, <1>6


(* Every change of what a folder holds moves its counters on. *)
LEMMA UserEffect ==
    ASSUME ServerOK, ShapeOK, NEW s \in Sides, NEW f \in Folders,
           Deliver(s, f) \/ Expunge(s, f) \/ SetFlag(s, f) \/ RemoveFolder(s, f)
             \/ RenameFolder(s, f) \/ RecreateFolder(s, f)
    PROVE  ServerOK' /\ Moved(s, f) /\ OthersStay(s, f) /\ changes' \in 0..MaxChanges
<1> DEFINE b == server[s][f]
<1>a. /\ FolderOK(b, changes) /\ changes \in Nat
  BY Bounds DEF ServerOK, ShapeOK
<1>b. /\ b = [there |-> b.there, validity |-> b.validity, next |-> b.next, msgs |-> b.msgs,
              modseq |-> b.modseq]
      /\ b.msgs = [u \in DOMAIN b.msgs |-> b.msgs[u]]
      /\ b.there \in BOOLEAN /\ DOMAIN b.msgs \subseteq 1..(b.next - 1)
      /\ b.validity \in Nat /\ b.validity > 0 /\ b.validity <= changes + 1
      /\ b.modseq \in Nat /\ b.modseq > 0 /\ b.modseq <= changes + 1
      /\ b.next \in 1..(MaxUid + 1) /\ \A u \in DOMAIN b.msgs : b.msgs[u] \in Flags
  BY <1>a DEF FolderOK
<1>c. (* the folder's new value, field by field *)
      ASSUME NEW c, c = [x \in DOMAIN b |-> c[x]], Becomes(s, f, c),
             c.there \in BOOLEAN, c.next \in 1..(MaxUid + 1), b.next <= c.next,
             c.validity \in b.validity..(changes + 2), c.modseq \in b.modseq..(changes + 2),
             c.msgs = [u \in DOMAIN c.msgs |-> c.msgs[u]], DOMAIN c.msgs \subseteq 1..(c.next - 1),
             \A u \in DOMAIN c.msgs : c.msgs[u] \in Flags,
             \/ b.validity < c.validity
             \/ b.next < c.next
             \/ DOMAIN c.msgs \subseteq DOMAIN b.msgs /\ DOMAIN c.msgs # DOMAIN b.msgs
             \/ DOMAIN c.msgs = DOMAIN b.msgs /\ b.modseq < c.modseq
             \/ c.msgs = b.msgs
      PROVE  ServerOK' /\ Moved(s, f) /\ OthersStay(s, f) /\ changes' \in 0..MaxChanges
  <2>0. DOMAIN b = {"there", "validity", "next", "msgs", "modseq"}
    BY <1>b
  <2>1. c = [there |-> c.there, validity |-> c.validity, next |-> c.next, msgs |-> c.msgs,
             modseq |-> c.modseq]
    BY <1>c, <2>0
  <2>a. /\ c.validity \in Nat /\ c.validity > 0 /\ c.validity <= (changes + 1) + 1
        /\ c.modseq \in Nat /\ c.modseq > 0 /\ c.modseq <= (changes + 1) + 1
        /\ b.validity <= c.validity /\ b.modseq <= c.modseq
    BY <1>a, <1>b, <1>c
  <2>2. FolderOK(c, changes + 1)
    BY <1>c, <2>1, <2>a DEF FolderOK
  <2>3. /\ server'[s][f] = c /\ OthersStay(s, f) /\ changes' \in 0..MaxChanges /\ ServerOK'
    BY <1>c, <2>2, FolderChange
  <2>4. Moved(s, f)
    BY <1>c, <2>a, <2>3 DEF Moved
  <2> QED BY <2>3, <2>4
<1>d. DOMAIN b = {"there", "validity", "next", "msgs", "modseq"} /\ b = [x \in DOMAIN b |-> b[x]]
  BY <1>b
<1> HIDE DEF b
<1>1. CASE Deliver(s, f)
  <2> DEFINE msgs == [u \in DOMAIN b.msgs \cup {b.next} |-> IF u = b.next THEN "unseen" ELSE b.msgs[u]]
             c == [b EXCEPT !.next = b.next + 1, !.modseq = b.modseq + 1, !.msgs = msgs]
  <2>1. Becomes(s, f, c) /\ b.next <= MaxUid
    BY <1>1 DEF Deliver, b
  <2>2. /\ DOMAIN msgs = DOMAIN b.msgs \cup {b.next} /\ msgs = [u \in DOMAIN msgs |-> msgs[u]]
        /\ \A u \in DOMAIN msgs : msgs[u] \in Flags
    BY <1>b DEF Flags
  <2> HIDE DEF msgs
  <2>3. /\ c = [x \in DOMAIN b |-> c[x]] /\ c.there = b.there /\ c.validity = b.validity
        /\ c.next = b.next + 1 /\ c.msgs = msgs /\ c.modseq = b.modseq + 1
    BY <1>d
  <2> HIDE DEF c
  <2>4. DOMAIN msgs \subseteq 1..(b.next + 1 - 1) /\ b.next + 1 \in 1..(MaxUid + 1)
    BY <1>b, <2>1, <2>2, Bounds
  <2>5. b.validity \in b.validity..(changes + 2) /\ b.modseq + 1 \in b.modseq..(changes + 2)
        /\ b.next < b.next + 1 /\ b.next <= b.next + 1 /\ b.modseq + 1 \in Nat
    BY <1>a, <1>b
  <2> QED BY <1>b, <1>c, <2>1, <2>2, <2>3, <2>4, <2>5
<1>2. CASE Expunge(s, f)
  <2>1. PICK u \in DOMAIN b.msgs :
          Becomes(s, f, [b EXCEPT !.msgs = [v \in DOMAIN b.msgs \ {u} |-> b.msgs[v]]])
    BY <1>2 DEF Expunge, Held, b
  <2> DEFINE msgs == [v \in DOMAIN b.msgs \ {u} |-> b.msgs[v]]
             c == [b EXCEPT !.msgs = msgs]
  <2>2. /\ DOMAIN msgs = DOMAIN b.msgs \ {u} /\ msgs = [v \in DOMAIN msgs |-> msgs[v]]
        /\ \A v \in DOMAIN msgs : msgs[v] \in Flags
    BY <1>b
  <2>3. Becomes(s, f, c)
    BY <2>1
  <2> HIDE DEF msgs
  <2>4. /\ c = [x \in DOMAIN b |-> c[x]] /\ c.there = b.there /\ c.validity = b.validity
        /\ c.next = b.next /\ c.msgs = msgs /\ c.modseq = b.modseq
    BY <1>d
  <2> HIDE DEF c
  <2>5. DOMAIN msgs \subseteq 1..(b.next - 1)
    BY <1>b, <2>2
  <2>6. DOMAIN msgs \subseteq DOMAIN b.msgs /\ DOMAIN msgs # DOMAIN b.msgs
    BY <2>1, <2>2
  <2>7. /\ b.validity \in b.validity..(changes + 2) /\ b.modseq \in b.modseq..(changes + 2)
        /\ b.next <= b.next
    BY <1>a, <1>b
  <2> QED BY <1>b, <1>c, <2>2, <2>3, <2>4, <2>5, <2>6, <2>7
<1>3. CASE SetFlag(s, f)
  <2>1. PICK u \in DOMAIN b.msgs :
          Becomes(s, f, [b EXCEPT !.modseq = b.modseq + 1,
                                  !.msgs[u] = IF b.msgs[u] = "seen" THEN "unseen" ELSE "seen"])
    BY <1>3 DEF SetFlag, Held, b
  <2> DEFINE flag == IF b.msgs[u] = "seen" THEN "unseen" ELSE "seen"
             msgs == [b.msgs EXCEPT ![u] = flag]
             c == [b EXCEPT !.modseq = b.modseq + 1, !.msgs = msgs]
  <2>2. flag \in Flags /\ b.modseq + 1 \in Nat
    BY <1>b DEF Flags
  <2> HIDE DEF flag
  <2>3. /\ DOMAIN msgs = DOMAIN b.msgs /\ msgs = [v \in DOMAIN msgs |-> msgs[v]]
        /\ \A v \in DOMAIN msgs : msgs[v] \in Flags
    BY <1>b, <2>2
  <2>4. Becomes(s, f, c)
    BY <2>1 DEF flag
  <2> HIDE DEF msgs
  <2>5. /\ c = [x \in DOMAIN b |-> c[x]] /\ c.there = b.there /\ c.validity = b.validity
        /\ c.next = b.next /\ c.msgs = msgs /\ c.modseq = b.modseq + 1
    BY <1>d
  <2> HIDE DEF c
  <2>6. DOMAIN msgs \subseteq 1..(b.next - 1)
    BY <1>b, <2>3
  <2>7. /\ b.validity \in b.validity..(changes + 2) /\ b.modseq + 1 \in b.modseq..(changes + 2)
        /\ b.next <= b.next /\ b.modseq < b.modseq + 1
    BY <1>a, <1>b
  <2> QED BY <1>b, <1>c, <2>2, <2>3, <2>4, <2>5, <2>6, <2>7
<1>4. CASE RemoveFolder(s, f)
  <2> DEFINE msgs == [u \in {} |-> "unseen"]
             gone == FALSE
             c == [b EXCEPT !.there = gone, !.msgs = msgs]
  <2>1. Becomes(s, f, c)
    BY <1>4 DEF RemoveFolder, b
  <2>2. DOMAIN msgs = {} /\ msgs = [u \in DOMAIN msgs |-> msgs[u]]
    OBVIOUS
  <2>5. DOMAIN msgs \subseteq 1..(b.next - 1) /\ \A u \in DOMAIN msgs : msgs[u] \in Flags
    BY <2>2
  <2>6. gone \in BOOLEAN /\ ~gone
    OBVIOUS
  <2> HIDE DEF msgs, gone
  <2>3. /\ c = [x \in DOMAIN b |-> c[x]] /\ c.there = gone /\ c.validity = b.validity
        /\ c.next = b.next /\ c.msgs = msgs /\ c.modseq = b.modseq
    BY <1>d
  <2> HIDE DEF c
  <2>4. /\ b.validity \in b.validity..(changes + 2) /\ b.modseq \in b.modseq..(changes + 2)
        /\ b.next <= b.next
    BY <1>a, <1>b
  <2>7. c.there \in BOOLEAN
    BY <2>3, <2>6
  <2>8. \/ DOMAIN msgs \subseteq DOMAIN b.msgs /\ DOMAIN msgs # DOMAIN b.msgs
        \/ msgs = b.msgs
    BY <1>b, <2>2
  <2> QED BY <1>b, <1>c, <2>1, <2>2, <2>3, <2>4, <2>5, <2>7, <2>8
<1>6. CASE RenameFolder(s, f)
  <2> DEFINE now == ~b.there
             c == [b EXCEPT !.there = now]
  <2>1. Becomes(s, f, c)
    BY <1>6 DEF RenameFolder, b
  <2>2. now \in BOOLEAN
    BY <1>b
  <2> HIDE DEF now
  <2>3. /\ c = [x \in DOMAIN b |-> c[x]] /\ c.there = now /\ c.validity = b.validity
        /\ c.next = b.next /\ c.msgs = b.msgs /\ c.modseq = b.modseq
    BY <1>d
  <2> HIDE DEF c
  <2>4. /\ b.validity \in b.validity..(changes + 2) /\ b.modseq \in b.modseq..(changes + 2)
        /\ b.next <= b.next
    BY <1>a, <1>b
  <2> QED BY <1>b, <1>c, <2>1, <2>2, <2>3, <2>4
<1>5. CASE RecreateFolder(s, f)
  <2> DEFINE c == [b EXCEPT !.there = TRUE, !.validity = b.validity + 1]
  <2>1. Becomes(s, f, c)
    BY <1>5 DEF RecreateFolder, b
  <2>2. /\ c = [x \in DOMAIN b |-> c[x]] /\ c.there = TRUE /\ c.validity = b.validity + 1
        /\ c.next = b.next /\ c.msgs = b.msgs /\ c.modseq = b.modseq
    BY <1>d
  <2> HIDE DEF c
  <2>3. /\ b.validity + 1 \in b.validity..(changes + 2) /\ b.modseq \in b.modseq..(changes + 2)
        /\ b.next <= b.next /\ b.validity < b.validity + 1 /\ b.validity + 1 \in Nat
    BY <1>a, <1>b
  <2> QED BY <1>b, <1>c, <2>1, <2>2, <2>3
<1> QED BY <1>1, <1>2, <1>3, <1>4, <1>5, <1>6

(* A folder that moved answers its staged snapshot only when its name, or   *)
(* flags which the snapshot did not track, are all that changed.            *)
LEMMA NeverComesBack ==
    ASSUME ServerOK, ShapeOK, ServerOK', NEW s \in Sides, NEW f \in Folders, Past(s, f), Moved(s, f),
           cursor' = cursor
    PROVE  /\ Past(s, f)'
           /\ Answers(s, f)' => /\ Answers(s, f) /\ Held(s, f)' = Held(s, f)
                                /\ \/ cursor[s][f].snapshot.highest_modseq = Untracked
                                   \/ server'[s][f].msgs = server[s][f].msgs
                                /\ server'[s][f].validity = server[s][f].validity
<1> DEFINE b == server[s][f]
           d == server'[s][f]
           c == cursor[s][f].snapshot
           n == Cardinality(DOMAIN b.msgs)
           k == Cardinality(DOMAIN d.msgs)
<1>a. /\ b.validity \in Nat /\ b.next \in Nat /\ b.modseq \in Nat /\ b.there \in BOOLEAN
      /\ IsFiniteSet(DOMAIN b.msgs) /\ n \in Nat /\ b.modseq > 0
  <2>1. IsFiniteSet(DOMAIN b.msgs) /\ n \in Nat /\ FolderOK(b, changes)
    BY HeldFinite, FS_CardinalityType DEF Held
  <2> HIDE DEF b, n
  <2> QED BY <2>1, Bounds DEF FolderOK
<1>b. /\ d.validity \in Nat /\ d.next \in Nat /\ d.modseq \in Nat /\ d.there \in BOOLEAN
      /\ IsFiniteSet(DOMAIN d.msgs) /\ k \in Nat
  <2>1. FolderOK(server'[s][f], changes')
    BY DEF ServerOK
  <2>2. /\ d.validity \in Nat /\ d.next \in 1..(MaxUid + 1) /\ d.modseq \in Nat /\ d.there \in BOOLEAN
        /\ DOMAIN d.msgs \subseteq 1..(d.next - 1)
    BY <2>1 DEF FolderOK
  <2>3. d.next \in Nat /\ d.next - 1 \in Int
    BY <2>2, Bounds
  <2>5. IsFiniteSet(1..(d.next - 1))
    BY <2>3, FS_Interval
  <2>4. IsFiniteSet(DOMAIN d.msgs)
    BY <2>2, <2>5, FS_Subset
  <2> QED BY <2>2, <2>3, <2>4, FS_CardinalityType
<1>c. SUFFICES ASSUME cursor[s][f] # NoCursor
               PROVE  /\ Past(s, f)'
                      /\ Answers(s, f)' => /\ Answers(s, f) /\ Held(s, f)' = Held(s, f)
                                           /\ c.highest_modseq = Untracked \/ d.msgs = b.msgs
                                           /\ d.validity = b.validity
  BY DEF Past, Answers
<1>d. c.uidvalidity \in Nat /\ c.uidnext \in Nat /\ c.exists \in Nat /\ c.highest_modseq \in Nat
  BY <1>c DEF ShapeOK, Cursors, Snapshots
<1>e. /\ c.uidvalidity <= b.validity /\ c.uidnext <= b.next /\ c.highest_modseq <= b.modseq
      /\ c.uidvalidity = b.validity /\ c.uidnext = b.next => n <= c.exists
  BY <1>c DEF Past, Held
<1>f. /\ b.validity <= d.validity /\ b.next <= d.next /\ b.modseq <= d.modseq
      /\ \/ b.validity < d.validity
         \/ b.next < d.next
         \/ k < n
         \/ DOMAIN d.msgs = DOMAIN b.msgs /\ b.modseq < d.modseq
         \/ d.msgs = b.msgs
  <2>2. DOMAIN d.msgs \subseteq DOMAIN b.msgs /\ DOMAIN d.msgs # DOMAIN b.msgs => k < n
    BY <1>a, <1>b, FS_Subset
  <2> QED BY <2>2 DEF Moved
<1>g. /\ Past(s, f)' <=> /\ c.uidvalidity <= d.validity /\ c.uidnext <= d.next
                         /\ c.highest_modseq <= d.modseq
                         /\ c.uidvalidity = d.validity /\ c.uidnext = d.next => k <= c.exists
      /\ Answers(s, f)' <=> /\ c.uidvalidity = d.validity /\ c.uidnext = d.next
                            /\ k = c.exists
                            /\ c.highest_modseq # Untracked => c.highest_modseq = d.modseq
      /\ Answers(s, f) <=> /\ c.uidvalidity = b.validity /\ c.uidnext = b.next
                           /\ n = c.exists
                           /\ c.highest_modseq # Untracked => c.highest_modseq = b.modseq
      /\ Held(s, f)' = DOMAIN d.msgs /\ Held(s, f) = DOMAIN b.msgs
  BY <1>c DEF Past, Answers, Held
<1>h. /\ DOMAIN d.msgs = DOMAIN b.msgs => k = n
      /\ d.msgs = b.msgs => DOMAIN d.msgs = DOMAIN b.msgs
  OBVIOUS
<1> HIDE DEF b, d, c, n, k
<1>1. Past(s, f)'
  BY <1>a, <1>b, <1>d, <1>e, <1>f, <1>g, <1>h
<1>2. ASSUME Answers(s, f)'
      PROVE  /\ d.validity = b.validity /\ DOMAIN d.msgs = DOMAIN b.msgs /\ b.next = d.next
             /\ b.modseq < d.modseq \/ d.msgs = b.msgs
  BY <1>a, <1>b, <1>d, <1>e, <1>f, <1>g, <1>h, <1>2
<1>3. ASSUME Answers(s, f)' PROVE c.highest_modseq = Untracked \/ d.msgs = b.msgs
  BY <1>a, <1>b, <1>d, <1>e, <1>g, <1>2, <1>3
<1>4. ASSUME Answers(s, f)' PROVE c.highest_modseq # Untracked => c.highest_modseq = b.modseq
  BY <1>a, <1>b, <1>d, <1>e, <1>f, <1>g, <1>4
<1>5. ASSUME Answers(s, f)' PROVE Answers(s, f)
  BY <1>2, <1>4, <1>5, <1>g, <1>h
<1> QED BY <1>1, <1>2, <1>3, <1>5, <1>g

-----------------------------------------------------------------------------
(* What the operations do to the stage. *)

StageShape ==
    /\ rows \in [Sides -> [Folders -> SUBSET Rows]]
    /\ cursor \in [Sides -> [Folders -> Cursors \cup {NoCursor}]]
    /\ identity \in Plans \cup {NoPlan}

Elsewhere(s, f) ==
    /\ identity' = identity
    /\ \A t \in Sides, g \in Folders : <<t, g>> # <<s, f>> =>
          rows'[t][g] = rows[t][g] /\ cursor'[t][g] = cursor[t][g]

Deleted(s, f) ==
    StageShape' /\ Elsewhere(s, f) /\ rows'[s][f] = {} /\ cursor'[s][f] = NoCursor

Begun(s, f) ==
    /\ StageShape' /\ Elsewhere(s, f) /\ rows'[s][f] = {}
    /\ cursor'[s][f] # NoCursor /\ ~cursor'[s][f].completed
    /\ \E tracked \in BOOLEAN : cursor'[s][f].snapshot = FolderSnapshot(s, f, tracked)

Grown(s, f) ==
    /\ StageShape' /\ Elsewhere(s, f) /\ cursor[s][f] # NoCursor /\ cursor'[s][f] # NoCursor
    /\ cursor'[s][f].snapshot = cursor[s][f].snapshot /\ ~cursor'[s][f].completed
    /\ \A r \in rows'[s][f] :
          r \in rows[s][f] \/ \E u \in Held(s, f) : r = Message(s, f, u, cursor[s][f].snapshot)

Completed(s, f) ==
    /\ StageShape' /\ Elsewhere(s, f) /\ rows' = rows
    /\ cursor[s][f] # NoCursor /\ cursor'[s][f] # NoCursor
    /\ cursor'[s][f].snapshot = cursor[s][f].snapshot

Unstaged == StageShape' /\ UNCHANGED <<rows, cursor, identity>>

(* One entry of a table by side and folder is written. *)
LEMMA Entry ==
    ASSUME NEW X, NEW t \in [Sides -> [Folders -> X]], NEW s \in Sides, NEW f \in Folders, NEW x \in X
    PROVE  /\ [t EXCEPT ![s][f] = x] \in [Sides -> [Folders -> X]]
           /\ [t EXCEPT ![s][f] = x][s][f] = x
           /\ \A r \in Sides, g \in Folders : <<r, g>> # <<s, f>> => [t EXCEPT ![s][f] = x][r][g] = t[r][g]
OBVIOUS

(* A cursor is a record with its fields. *)
LEMMA CursorFields ==
    ASSUME ShapeOK, NEW s \in Sides, NEW f \in Folders, cursor[s][f] # NoCursor
    PROVE  /\ cursor[s][f] \in Cursors /\ cursor[s][f].snapshot \in Snapshots
           /\ cursor[s][f].snapshot.uidvalidity \in Nat /\ cursor[s][f].snapshot.uidnext \in Nat
           /\ cursor[s][f].snapshot.exists \in 0..MaxUid
           /\ cursor[s][f].snapshot.highest_modseq \in Nat
<1>1. cursor[s][f] \in Cursors
  BY DEF ShapeOK
<1> QED BY <1>1, Bounds DEF Cursors, Snapshots

(* delete_mailbox. *)
LEMMA Deletes ==
    ASSUME ShapeOK, NEW s \in Sides, NEW f \in Folders, DeleteMailbox(s, f)
    PROVE  Deleted(s, f)
<1>1. /\ rows \in [Sides -> [Folders -> SUBSET Rows]] /\ {} \in SUBSET Rows
      /\ cursor \in [Sides -> [Folders -> Cursors \cup {NoCursor}]]
      /\ NoCursor \in Cursors \cup {NoCursor} /\ identity \in Plans \cup {NoPlan}
  BY DEF ShapeOK
<1>2. /\ rows' = [rows EXCEPT ![s][f] = {}] /\ cursor' = [cursor EXCEPT ![s][f] = NoCursor]
      /\ identity' = identity
  BY DEF DeleteMailbox
<1>3. /\ rows' \in [Sides -> [Folders -> SUBSET Rows]] /\ rows'[s][f] = {}
      /\ \A t \in Sides, g \in Folders : <<t, g>> # <<s, f>> => rows'[t][g] = rows[t][g]
  BY <1>1, <1>2, Entry
<1>4. /\ cursor' \in [Sides -> [Folders -> Cursors \cup {NoCursor}]] /\ cursor'[s][f] = NoCursor
      /\ \A t \in Sides, g \in Folders : <<t, g>> # <<s, f>> => cursor'[t][g] = cursor[t][g]
  BY <1>1, <1>2, Entry
<1> QED BY <1>1, <1>2, <1>3, <1>4 DEF Deleted, StageShape, Elsewhere

(* begin_mailbox_scan with a snapshot of the folder. *)
LEMMA Begins ==
    ASSUME ServerOK, ShapeOK, NEW s \in Sides, NEW f \in Folders, NEW tracked \in BOOLEAN,
           BeginMailboxScan(s, f, FolderSnapshot(s, f, tracked))
    PROVE  Begun(s, f)
<1> DEFINE snap == FolderSnapshot(s, f, tracked)
           c == [snapshot |-> snap, last |-> 0, completed |-> FALSE]
<1>1. /\ rows \in [Sides -> [Folders -> SUBSET Rows]] /\ {} \in SUBSET Rows
      /\ cursor \in [Sides -> [Folders -> Cursors \cup {NoCursor}]] /\ identity \in Plans \cup {NoPlan}
  BY DEF ShapeOK
<1>2. snap \in Snapshots
  BY SnapshotFacts
<1> HIDE DEF snap
<1>3. c \in Cursors /\ c.snapshot = snap /\ ~c.completed
  BY <1>2, Bounds DEF Cursors
<1>4. /\ rows' = [rows EXCEPT ![s][f] = {}] /\ cursor' = [cursor EXCEPT ![s][f] = c]
      /\ identity' = identity
  BY DEF BeginMailboxScan, snap
<1> HIDE DEF c
<1>5. c # NoCursor /\ c \in Cursors \cup {NoCursor}
  BY <1>3, NoCursorIsNone
<1>6. /\ rows' \in [Sides -> [Folders -> SUBSET Rows]] /\ rows'[s][f] = {}
      /\ \A t \in Sides, g \in Folders : <<t, g>> # <<s, f>> => rows'[t][g] = rows[t][g]
  BY <1>1, <1>4, Entry
<1>7. /\ cursor' \in [Sides -> [Folders -> Cursors \cup {NoCursor}]] /\ cursor'[s][f] = c
      /\ \A t \in Sides, g \in Folders : <<t, g>> # <<s, f>> => cursor'[t][g] = cursor[t][g]
  BY <1>1, <1>4, <1>5, Entry
<1> QED BY <1>1, <1>3, <1>4, <1>5, <1>6, <1>7 DEF Begun, StageShape, Elsewhere, snap

(* insert_page_with_fingerprints under the snapshot that the cursor holds. *)
LEMMA Inserts ==
    ASSUME ShapeOK, NEW s \in Sides, NEW f \in Folders, NEW uids \in SUBSET Held(s, f), NEW last \in Uids,
           cursor[s][f] # NoCursor,
           {Message(s, f, u, cursor[s][f].snapshot) : u \in uids} \subseteq Rows,
           InsertPage(s, f, {Message(s, f, u, cursor[s][f].snapshot) : u \in uids}, last)
    PROVE  Grown(s, f)
<1> DEFINE page == {Message(s, f, u, cursor[s][f].snapshot) : u \in uids}
           all == {r \in rows[s][f] : \A p \in page : p.uid # r.uid} \cup page
           c == [cursor[s][f] EXCEPT !.last = last, !.completed = FALSE]
<1>1. /\ rows \in [Sides -> [Folders -> SUBSET Rows]] /\ page \subseteq Rows
      /\ cursor \in [Sides -> [Folders -> Cursors \cup {NoCursor}]] /\ identity \in Plans \cup {NoPlan}
  BY DEF ShapeOK
<1>2. \A r \in all : r \in rows[s][f]
                       \/ \E u \in Held(s, f) : r = Message(s, f, u, cursor[s][f].snapshot)
  OBVIOUS
<1>3. /\ rows' = [rows EXCEPT ![s][f] = all] /\ cursor' = [cursor EXCEPT ![s][f] = c]
      /\ identity' = identity
  BY <1>1 DEF InsertPage
<1> HIDE DEF page
<1>4. all \in SUBSET Rows
  BY <1>1
<1>5. c \in Cursors /\ c.snapshot = cursor[s][f].snapshot /\ ~c.completed
  <2>1. cursor[s][f] \in Cursors /\ last \in 0..MaxUid
    BY CursorFields, Bounds DEF Uids
  <2> QED BY <2>1 DEF Cursors
<1>6. c # NoCursor /\ c \in Cursors \cup {NoCursor}
  BY <1>5, NoCursorIsNone
<1> HIDE DEF all, c
<1>7. /\ rows' \in [Sides -> [Folders -> SUBSET Rows]] /\ rows'[s][f] = all
      /\ \A t \in Sides, g \in Folders : <<t, g>> # <<s, f>> => rows'[t][g] = rows[t][g]
  BY <1>1, <1>3, <1>4, Entry
<1>8. /\ cursor' \in [Sides -> [Folders -> Cursors \cup {NoCursor}]] /\ cursor'[s][f] = c
      /\ \A t \in Sides, g \in Folders : <<t, g>> # <<s, f>> => cursor'[t][g] = cursor[t][g]
  BY <1>1, <1>3, <1>6, Entry
<1> QED BY <1>1, <1>2, <1>3, <1>5, <1>6, <1>7, <1>8 DEF Grown, StageShape, Elsewhere

(* complete_mailbox. *)
LEMMA Completes ==
    ASSUME ShapeOK, NEW s \in Sides, NEW f \in Folders, NEW snap, snap.uidnext \in 1..(MaxUid + 1),
           cursor[s][f] # NoCursor, CompleteMailbox(s, f, snap)
    PROVE  Completed(s, f)
<1> DEFINE c == [cursor[s][f] EXCEPT !.last = snap.uidnext - 1, !.completed = TRUE]
<1>1. /\ rows \in [Sides -> [Folders -> SUBSET Rows]] /\ identity \in Plans \cup {NoPlan}
      /\ cursor \in [Sides -> [Folders -> Cursors \cup {NoCursor}]]
  BY DEF ShapeOK
<1>2. c \in Cursors /\ c.snapshot = cursor[s][f].snapshot
  <2>1. cursor[s][f] \in Cursors /\ snap.uidnext - 1 \in 0..MaxUid
    BY CursorFields, Bounds
  <2> QED BY <2>1 DEF Cursors
<1>3. cursor' = [cursor EXCEPT ![s][f] = c] /\ rows' = rows /\ identity' = identity
  BY <1>1 DEF CompleteMailbox
<1>4. c # NoCursor /\ c \in Cursors \cup {NoCursor}
  BY <1>2, NoCursorIsNone
<1> HIDE DEF c
<1>5. /\ cursor' \in [Sides -> [Folders -> Cursors \cup {NoCursor}]] /\ cursor'[s][f] = c
      /\ \A t \in Sides, g \in Folders : <<t, g>> # <<s, f>> => cursor'[t][g] = cursor[t][g]
  BY <1>1, <1>3, <1>4, Entry
<1> QED BY <1>1, <1>2, <1>3, <1>4, <1>5 DEF Completed, StageShape, Elsewhere

(* retain_mailboxes. *)
LEMMA Retains ==
    ASSUME ShapeOK, NEW s \in Sides, NEW listed, RetainMailboxes(s, listed)
    PROVE  /\ StageShape' /\ identity' = identity
           /\ \A t \in Sides, g \in Folders :
                \/ rows'[t][g] = {} /\ cursor'[t][g] = NoCursor
                \/ rows'[t][g] = rows[t][g] /\ cursor'[t][g] = cursor[t][g]
<1> DEFINE rs == [f \in Folders |-> IF f \in listed THEN rows[s][f] ELSE {}]
           cs == [f \in Folders |-> IF f \in listed THEN cursor[s][f] ELSE NoCursor]
<1>1. /\ rows \in [Sides -> [Folders -> SUBSET Rows]] /\ identity \in Plans \cup {NoPlan}
      /\ cursor \in [Sides -> [Folders -> Cursors \cup {NoCursor}]]
  BY DEF ShapeOK
<1>2. rows' = [rows EXCEPT ![s] = rs] /\ cursor' = [cursor EXCEPT ![s] = cs] /\ identity' = identity
  BY DEF RetainMailboxes
<1>3. /\ rs \in [Folders -> SUBSET Rows] /\ cs \in [Folders -> Cursors \cup {NoCursor}]
      /\ \A g \in Folders : \/ rs[g] = {} /\ cs[g] = NoCursor
                            \/ rs[g] = rows[s][g] /\ cs[g] = cursor[s][g]
  BY <1>1
<1> HIDE DEF rs, cs
<1>4. /\ rows' \in [Sides -> [Folders -> SUBSET Rows]] /\ rows'[s] = rs
      /\ \A t \in Sides \ {s} : rows'[t] = rows[t]
  BY <1>1, <1>2, <1>3
<1>5. /\ cursor' \in [Sides -> [Folders -> Cursors \cup {NoCursor}]] /\ cursor'[s] = cs
      /\ \A t \in Sides \ {s} : cursor'[t] = cursor[t]
  BY <1>1, <1>2, <1>3
<1> QED BY <1>1, <1>2, <1>3, <1>4, <1>5 DEF StageShape

(* The whole stage goes. *)
LEMMA DeletesAll ==
    ASSUME ShapeOK, StageDeleted, identity' \in Plans \cup {NoPlan}
    PROVE  StageShape' /\ \A t \in Sides, g \in Folders : rows'[t][g] = {} /\ cursor'[t][g] = NoCursor
BY DEF StageDeleted, StageShape, EmptyStage, NoCursors

-----------------------------------------------------------------------------
(* What the operations do to the locals of the attempt. *)

Ended ==
    /\ scan' \in ScanRow /\ scan'.phase = "idle" /\ joint' \in BOOLEAN
    /\ inventory' \in [Sides -> SUBSET Folders] /\ \A s \in Sides : inventory'[s] = {}

Left(f) ==
    /\ scan' \in ScanRow /\ scan'.phase = "selecting" /\ scan'.side = scan.side
    /\ scan'.todo = scan.todo \ {f} /\ scan'.folder = NoFolder

Again(f) ==
    /\ scan' \in ScanRow /\ scan'.phase = "selecting" /\ scan'.side = scan.side
    /\ scan'.todo = scan.todo /\ scan'.folder = f

Entered(f) ==
    /\ scan' \in ScanRow /\ scan'.phase = "paging" /\ scan'.side = scan.side
    /\ scan'.todo = scan.todo /\ scan'.folder = f /\ scan'.snapshot.uidvalidity > 0

(* The locals of the attempt, one by one. *)
LEMMA ScanFields ==
    ASSUME ShapeOK
    PROVE  /\ scan.phase \in Active \cup {"idle", "evidence"} /\ scan.side \in Sides
           /\ scan.round \in 1..3 /\ scan.tracked \in BOOLEAN /\ scan.todo \subseteq Folders
           /\ scan.folder \in Folders \cup {NoFolder} /\ scan.snapshot \in Snapshots
           /\ scan.seen \in 0..MaxUid /\ scan.last \in 0..MaxUid /\ scan.reused \in BOOLEAN
           /\ scan.tries \in 0..(StabilityAttempts - 1) /\ scan.reconnects \in 0..MaxReconnects
           /\ scan.incomplete \in BOOLEAN /\ scan \in ScanRow
BY DEF ShapeOK, ScanRow, Rounds

(* An attempt at rest. *)
LEMMA RestFields ==
    ASSUME NEW p \in Active \cup {"idle", "evidence"}, NEW s \in Sides, NEW n \in 1..3
    PROVE  /\ AtRest(p) \in ScanRow /\ AtRest(p).phase = p /\ AtRest(p).round = 1
           /\ AtRest(p).folder = NoFolder
           /\ [AtRest(p) EXCEPT !.side = s] \in ScanRow /\ [AtRest(p) EXCEPT !.side = s].phase = p
           /\ [AtRest(p) EXCEPT !.side = s].folder = NoFolder
           /\ [AtRest(p) EXCEPT !.round = n] \in ScanRow /\ [AtRest(p) EXCEPT !.round = n].phase = p
           /\ [AtRest(p) EXCEPT !.round = n].round = n
<1>1. NoSnapshot \in Snapshots
  BY Bounds DEF NoSnapshot, Snapshots, Untracked
<1>2. /\ AtRest(p) \in ScanRow /\ AtRest(p).phase = p /\ AtRest(p).round = 1
      /\ AtRest(p).folder = NoFolder
  BY <1>1, Bounds DEF AtRest, ScanRow, Sides, Rounds
<1>3. ASSUME NEW r \in ScanRow, r.phase = p, r.folder = NoFolder
      PROVE  /\ [r EXCEPT !.side = s] \in ScanRow /\ [r EXCEPT !.side = s].phase = p
             /\ [r EXCEPT !.side = s].folder = NoFolder
             /\ [r EXCEPT !.round = n] \in ScanRow /\ [r EXCEPT !.round = n].phase = p
             /\ [r EXCEPT !.round = n].round = n
  BY <1>3 DEF ScanRow, Rounds
<1> QED BY <1>2, <1>3

(* The attempt is over. *)
LEMMA Ends == ASSUME EndAttempt PROVE Ended
<1>1. "idle" \in Active \cup {"idle", "evidence"} /\ "source" \in Sides /\ 1 \in 1..3
  BY DEF Sides
<1>2. AtRest("idle") \in ScanRow /\ AtRest("idle").phase = "idle"
  BY <1>1, RestFields
<1> QED BY <1>2 DEF EndAttempt, Ended

(* Between two folders, and before another try. *)
LEMMA LeaveFields ==
    ASSUME ShapeOK, NEW f \in Folders
    PROVE  /\ Leave(f) \in ScanRow /\ Leave(f).phase = "selecting" /\ Leave(f).side = scan.side
           /\ Leave(f).todo = scan.todo \ {f} /\ Leave(f).folder = NoFolder
           /\ Leave(f).reconnects = scan.reconnects
           /\ TryAgain(f) \in ScanRow /\ TryAgain(f).phase = "selecting"
           /\ TryAgain(f).side = scan.side /\ TryAgain(f).todo = scan.todo /\ TryAgain(f).folder = f
           /\ TryAgain(f).reconnects = scan.reconnects
<1>1. NoSnapshot \in Snapshots /\ 0 \in 0..MaxUid /\ 0 \in 0..(StabilityAttempts - 1)
  BY Bounds DEF NoSnapshot, Snapshots, Untracked
<1>2. scan \in ScanRow /\ scan.todo \ {f} \in SUBSET Folders /\ NoFolder \in Folders \cup {NoFolder}
      /\ "selecting" \in Active \cup {"idle", "evidence"}
  BY ScanFields DEF Active, Scanning
<1>3. /\ Leave(f) \in ScanRow /\ Leave(f).phase = "selecting" /\ Leave(f).side = scan.side
      /\ Leave(f).todo = scan.todo \ {f} /\ Leave(f).folder = NoFolder
      /\ Leave(f).reconnects = scan.reconnects
  BY <1>1, <1>2 DEF Leave, ScanRow
<1>4. ASSUME NEW r \in ScanRow
      PROVE  LET t == [r EXCEPT !.todo = scan.todo, !.folder = f]
             IN  /\ t \in ScanRow /\ t.phase = r.phase /\ t.side = r.side /\ t.todo = scan.todo
                 /\ t.folder = f /\ t.reconnects = r.reconnects
  BY <1>2 DEF ScanRow
<1> QED BY <1>3, <1>4 DEF TryAgain

(* The folder is given up. *)
LEMMA GivesUp ==
    ASSUME ShapeOK, NEW f \in Folders, GiveUpFolder(f)
    PROVE  Deleted(scan.side, f) /\ Left(f)
<1>1. Deleted(scan.side, f)
  BY ScanFields, Deletes DEF GiveUpFolder
<1>2. ASSUME NEW r \in ScanRow
      PROVE  LET t == [r EXCEPT !.incomplete = TRUE]
             IN  /\ t \in ScanRow /\ t.phase = r.phase /\ t.side = r.side /\ t.todo = r.todo
                 /\ t.folder = r.folder
  BY DEF ScanRow
<1> QED BY <1>1, <1>2, LeaveFields DEF GiveUpFolder, Left

(* The folder is tried again or given up. *)
LEMMA Retries ==
    ASSUME ShapeOK, NEW f \in Folders, RetryUnstable(f)
    PROVE  Deleted(scan.side, f) /\ (Left(f) \/ Again(f))
<1>1. CASE ~(scan.tries + 1 < StabilityAttempts)
  BY <1>1, GivesUp DEF RetryUnstable
<1>2. CASE scan.tries + 1 < StabilityAttempts
  <2>1. /\ DeleteMailbox(scan.side, f)
        /\ scan' = [TryAgain(f) EXCEPT !.tries = scan.tries + 1]
    BY <1>2 DEF RetryUnstable
  <2>2. scan.tries + 1 \in 0..(StabilityAttempts - 1)
    BY <1>2, ScanFields, Bounds
  <2>3. ASSUME NEW r \in ScanRow
        PROVE  LET t == [r EXCEPT !.tries = scan.tries + 1]
               IN  /\ t \in ScanRow /\ t.phase = r.phase /\ t.side = r.side /\ t.todo = r.todo
                   /\ t.folder = r.folder
    BY <2>2 DEF ScanRow
  <2>4. Again(f)
    BY <2>1, <2>3, LeaveFields DEF Again
  <2> QED BY <2>1, <2>4, ScanFields, Deletes
<1> QED BY <1>1, <1>2

(* A new session for the same folder, or the end. *)
LEMMA Reconnects ==
    ASSUME ShapeOK, NEW f \in Folders, Reconnect(f)
    PROVE  (Again(f) /\ UNCHANGED <<inventory, joint>>) \/ Ended
<1>1. CASE EndAttempt
  BY <1>1, Ends
<1>2. ASSUME scan.reconnects < MaxReconnects, NEW tracked \in BOOLEAN,
             scan' = [TryAgain(f) EXCEPT !.reconnects = @ + 1, !.tracked = tracked]
      PROVE  Again(f)
  <2>1. scan.reconnects + 1 \in 0..MaxReconnects
    BY <1>2, ScanFields, Bounds
  <2>2. ASSUME NEW r \in ScanRow, r.reconnects = scan.reconnects
        PROVE  LET t == [r EXCEPT !.reconnects = @ + 1, !.tracked = tracked]
               IN  /\ t \in ScanRow /\ t.phase = r.phase /\ t.side = r.side /\ t.todo = r.todo
                   /\ t.folder = r.folder
    BY <2>1, <2>2 DEF ScanRow
  <2> QED BY <1>2, <2>2, LeaveFields DEF Again
<1> QED BY <1>1, <1>2 DEF Reconnect

-----------------------------------------------------------------------------
(* What the steps of an attempt do. *)

Here == scan.side
Steady == UNCHANGED <<inventory, joint>>

(* The snapshot of a folder is entered with its pages or with what is staged. *)
LEMMA Resumes ==
    ASSUME ServerOK, ShapeOK, NEW f \in Folders, NEW seen \in 0..MaxUid, NEW last \in 0..MaxUid,
           NEW reused \in BOOLEAN, Resume(f, FolderSnapshot(Here, f, scan.tracked), seen, last, reused)
    PROVE  Entered(f)
<1> DEFINE snap == FolderSnapshot(Here, f, scan.tracked)
<1>1. Here \in Sides /\ scan.tracked \in BOOLEAN /\ scan \in ScanRow
  BY ScanFields DEF Here
<1>2. snap \in Snapshots /\ snap.uidvalidity > 0
  BY <1>1, SnapshotFacts
<1>3. scan' = [scan EXCEPT !.phase = "paging", !.folder = f, !.snapshot = snap, !.seen = seen,
                           !.last = last, !.reused = reused]
  BY DEF Resume
<1> HIDE DEF snap
<1>4. "paging" \in Active \cup {"idle", "evidence"} /\ f \in Folders \cup {NoFolder}
  BY DEF Active, Scanning
<1>5. /\ scan' \in ScanRow /\ scan'.phase = "paging" /\ scan'.side = scan.side
      /\ scan'.todo = scan.todo /\ scan'.folder = f /\ scan'.snapshot = snap
  BY <1>1, <1>2, <1>3, <1>4 DEF ScanRow
<1> QED BY <1>2, <1>5 DEF Entered

(* SelectFolder gives its folder up, takes over what is staged of it, or     *)
(* begins it.                                                               *)
LEMMA SelectEffect ==
    ASSUME ServerOK, ShapeOK, ScanOK, SelectFolder
    PROVE  /\ scan.phase = "selecting" /\ Steady
           /\ \E f \in scan.todo :
                /\ f \in Folders
                /\ \/ Deleted(Here, f) /\ Left(f)
                   \/ Unstaged /\ Entered(f) /\ plan \notin BodyPlans
                   \/ Begun(Here, f) /\ Entered(f)
<1>0. scan.phase = "selecting" /\ Steady
  BY DEF SelectFolder, Steady
<1>1. PICK f \in IF scan.folder = NoFolder THEN First(scan.todo) ELSE {scan.folder} :
         LET s == scan.side
             snap == FolderSnapshot(s, f, scan.tracked)
         IN  \/ ~server[s][f].there /\ GiveUpFolder(f)
             \/ /\ server[s][f].there /\ MayReuse(s, f, snap)
                /\ Resume(f, snap, snap.exists, 0, TRUE)
                /\ UNCHANGED stage
             \/ /\ server[s][f].there /\ ~MayReuse(s, f, snap) /\ MayResume(s, f, snap)
                /\ Resume(f, snap, Cardinality(rows[s][f]), cursor[s][f].last, FALSE)
                /\ UNCHANGED stage
             \/ /\ server[s][f].there /\ ~MayReuse(s, f, snap) /\ ~MayResume(s, f, snap)
                /\ BeginMailboxScan(s, f, snap)
                /\ Resume(f, snap, 0, 0, FALSE)
  BY DEF SelectFolder
<1> DEFINE s == scan.side
           snap == FolderSnapshot(s, f, scan.tracked)
<1>2. f \in scan.todo /\ f \in Folders
  BY <1>0, <1>1, ScanFields DEF First, ScanOK, AtFolders
<1>3. s \in Sides /\ scan.tracked \in BOOLEAN /\ Here = s
  BY ScanFields DEF Here
<1>4. snap.exists \in 0..MaxUid /\ 0 \in 0..MaxUid
  BY <1>2, <1>3, SnapshotFacts, HeldFinite, Bounds
<1>5. CASE GiveUpFolder(f)
  BY <1>0, <1>2, <1>3, <1>5, GivesUp
<1>6. CASE MayReuse(s, f, snap) /\ Resume(f, snap, snap.exists, 0, TRUE) /\ UNCHANGED stage
  <2>1. Entered(f)
    BY <1>2, <1>3, <1>4, <1>6, Resumes
  <2>2. Unstaged /\ plan \notin BodyPlans
    BY <1>6 DEF MayReuse, Unstaged, StageShape, ShapeOK, stage
  <2> QED BY <1>0, <1>2, <2>1, <2>2
<1>7. CASE /\ MayResume(s, f, snap)
           /\ Resume(f, snap, Cardinality(rows[s][f]), cursor[s][f].last, FALSE)
           /\ UNCHANGED stage
  <2>1. Cardinality(rows[s][f]) \in 1..snap.exists /\ cursor[s][f] # NoCursor
    BY <1>7 DEF MayResume, ResumableMailboxPrefix, SameSnapshot
  <2>2. Cardinality(rows[s][f]) \in 0..MaxUid
    BY <1>4, <2>1, Bounds
  <2>3. cursor[s][f].last \in 0..MaxUid
    BY <1>2, <1>3, <2>1, CursorFields DEF Cursors
  <2>4. Entered(f)
    BY <1>2, <1>3, <1>7, <2>2, <2>3, Resumes
  <2>5. Unstaged /\ plan \notin BodyPlans
    BY <1>7 DEF MayResume, Unstaged, StageShape, ShapeOK, stage
  <2> QED BY <1>0, <1>2, <2>4, <2>5
<1>8. CASE BeginMailboxScan(s, f, snap) /\ Resume(f, snap, 0, 0, FALSE)
  <2>1. Entered(f)
    BY <1>2, <1>3, <1>4, <1>8, Resumes
  <2>2. Begun(s, f)
    BY <1>2, <1>3, <1>8, Begins
  <2> QED BY <1>0, <1>2, <1>3, <2>1, <2>2
<1> QED BY <1>1, <1>5, <1>6, <1>7, <1>8

(* A message fetched under a snapshot is a row. *)
LEMMA MessageRow ==
    ASSUME ServerOK, ShapeOK, NEW s \in Sides, NEW f \in Folders, NEW u \in Held(s, f),
           NEW snap \in Snapshots, snap.uidvalidity > 0
    PROVE  /\ Message(s, f, u, snap) \in Rows
           /\ Message(s, f, u, snap).uidvalidity = snap.uidvalidity /\ Message(s, f, u, snap).uid = u
           /\ Message(s, f, u, snap).mail = <<plan, server[s][f].validity, u>>
           /\ Message(s, f, u, snap).flags
                = IF snap.highest_modseq = Untracked THEN NoFlags ELSE server[s][f].msgs[u]
           /\ Message(s, f, u, snap).fingerprint = (plan \in BodyPlans)
<1>1. FolderOK(server[s][f], changes) /\ u \in Uids /\ changes \in 0..MaxChanges /\ plan \in Plans
  BY HeldFinite DEF ShapeOK
<1>2. server[s][f].validity \in 1..(MaxChanges + 1) /\ server[s][f].msgs[u] \in Flags
  BY <1>1, Bounds DEF FolderOK, Held
<1>3. snap.uidvalidity \in 1..(MaxChanges + 1)
  BY Bounds DEF Snapshots
<1> DEFINE fl == IF snap.highest_modseq = Untracked THEN NoFlags ELSE server[s][f].msgs[u]
           fp == plan \in BodyPlans
           ml == <<plan, server[s][f].validity, u>>
<1>4. fl \in Flags \cup {NoFlags} /\ fp \in BOOLEAN /\ ml \in Plans \X (1..(MaxChanges + 1)) \X Uids
  BY <1>1, <1>2
<1>5. Message(s, f, u, snap) =
        [uidvalidity |-> snap.uidvalidity, uid |-> u, mail |-> ml, flags |-> fl, fingerprint |-> fp]
  BY DEF Message
<1> HIDE DEF fl, fp, ml
<1>6. /\ Message(s, f, u, snap) \in Rows /\ Message(s, f, u, snap).uidvalidity = snap.uidvalidity
      /\ Message(s, f, u, snap).uid = u /\ Message(s, f, u, snap).mail = ml
      /\ Message(s, f, u, snap).flags = fl /\ Message(s, f, u, snap).fingerprint = fp
  BY <1>1, <1>3, <1>4, <1>5 DEF Rows
<1> QED BY <1>6 DEF fl, fp, ml

(* The locals stay at the folder. *)
Going == /\ scan' \in ScanRow /\ scan'.phase = "paging" /\ scan'.side = scan.side
         /\ scan'.todo = scan.todo /\ scan'.folder = scan.folder /\ scan'.snapshot = scan.snapshot

(* FetchPage adds messages of the folder or gives it up. *)
LEMMA FetchEffect ==
    ASSUME ServerOK, ShapeOK, ScanOK, FetchPage
    PROVE  /\ scan.phase = "paging" /\ scan.folder \in Folders /\ Steady
           /\ \/ Deleted(Here, scan.folder) /\ Left(scan.folder)
              \/ Grown(Here, scan.folder) /\ Going
<1>1. /\ scan.phase = "paging" /\ scan.folder \in Folders /\ Steady /\ Here \in Sides
      /\ scan.snapshot.uidvalidity > 0
  BY ScanFields DEF FetchPage, Steady, ScanOK, Here
<1> DEFINE s == scan.side
           f == scan.folder
           uids == {u \in Held(s, f) : Sequence(s, f, u) \in (scan.seen + 1)..PageEnd}
<1>2. CASE GiveUpFolder(f)
  BY <1>1, <1>2, GivesUp DEF Here
<1>3. ASSUME SameSnapshot(s, f, scan.snapshot), NEW last \in uids,
             InsertPage(s, f, {Message(s, f, u, scan.snapshot) : u \in uids}, last),
             scan' = [scan EXCEPT !.seen = PageEnd, !.last = last]
      PROVE  Grown(s, f) /\ Going
  <2>1. cursor[s][f] # NoCursor /\ cursor[s][f].snapshot = scan.snapshot
    BY <1>3 DEF SameSnapshot
  <2>2. uids \subseteq Held(s, f) /\ last \in Held(s, f)
    BY <1>3
  <2> HIDE DEF uids
  <2>3. scan.snapshot \in Snapshots /\ s \in Sides /\ f \in Folders
    BY <1>1, ScanFields
  <2>4. {Message(s, f, u, scan.snapshot) : u \in uids} \subseteq Rows
    <3>1. \A u \in uids : Message(s, f, u, scan.snapshot) \in Rows
      BY <1>1, <2>2, <2>3, MessageRow
    <3> QED BY <3>1
  <2>5. last \in Uids /\ last \in 0..MaxUid
    BY <2>2, <2>3, HeldFinite, Bounds DEF Uids
  <2>6. Grown(s, f)
    <3>1. /\ {Message(s, f, u, cursor[s][f].snapshot) : u \in uids} \subseteq Rows
          /\ InsertPage(s, f, {Message(s, f, u, cursor[s][f].snapshot) : u \in uids}, last)
      BY <1>3, <2>1, <2>4
    <3> QED BY <2>1, <2>2, <2>3, <2>5, <3>1, Inserts
  <2>7. PageEnd \in 0..MaxUid
    <3>1. scan.snapshot.exists \in 0..MaxUid /\ scan.seen \in 0..MaxUid
      BY <2>3, ScanFields DEF Snapshots
    <3> QED BY <3>1, Bounds DEF PageEnd
  <2>8. Going
    BY <1>1, <1>3, <2>5, <2>7, ScanFields DEF Going, ScanRow
  <2> QED BY <2>6, <2>8
<1>4. \/ GiveUpFolder(f)
      \/ /\ SameSnapshot(s, f, scan.snapshot)
         /\ \E last \in uids :
              /\ InsertPage(s, f, {Message(s, f, u, scan.snapshot) : u \in uids}, last)
              /\ scan' = [scan EXCEPT !.seen = PageEnd, !.last = last]
  BY DEF FetchPage
<1>5. ASSUME SameSnapshot(s, f, scan.snapshot),
             \E last \in uids :
                /\ InsertPage(s, f, {Message(s, f, u, scan.snapshot) : u \in uids}, last)
                /\ scan' = [scan EXCEPT !.seen = PageEnd, !.last = last]
      PROVE  Grown(s, f) /\ Going
  BY <1>3, <1>5
<1> QED BY <1>1, <1>2, <1>4, <1>5 DEF Here

(* A SELECT answers the snapshot of a cursor. *)
LEMMA Answered ==
    ASSUME ServerOK, ShapeOK, NEW s \in Sides, NEW f \in Folders, NEW tracked \in BOOLEAN,
           server[s][f].there, cursor[s][f] # NoCursor,
           FolderSnapshot(s, f, tracked) = cursor[s][f].snapshot
    PROVE  Answers(s, f)
<1> DEFINE snap == FolderSnapshot(s, f, tracked)
<1>1. /\ snap.uidvalidity = server[s][f].validity /\ snap.uidnext = server[s][f].next
      /\ snap.exists = Cardinality(Held(s, f))
      /\ snap.highest_modseq \in {Untracked, server[s][f].modseq}
  BY SnapshotFacts
<1> HIDE DEF snap
<1>2. snap = cursor[s][f].snapshot
  BY DEF snap
<1> QED BY <1>1, <1>2 DEF Answers

(* EndScan lets the folder go, or keeps it as complete when its staged rows  *)
(* are as many as the snapshot counts and the folder still answers it.       *)
LEMMA EndScanEffect ==
    ASSUME ServerOK, ShapeOK, ScanOK, EndScan
    PROVE  /\ scan.phase = "paging" /\ scan.folder \in Folders /\ Steady
           /\ \/ Deleted(Here, scan.folder) /\ (Left(scan.folder) \/ Again(scan.folder))
              \/ Unstaged /\ Left(scan.folder)
              \/ /\ Completed(Here, scan.folder) /\ Left(scan.folder) /\ Answers(Here, scan.folder)
                 /\ server[Here][scan.folder].there
                 /\ Cardinality(rows[Here][scan.folder]) = cursor[Here][scan.folder].snapshot.exists
<1>1. scan.phase = "paging" /\ scan.folder \in Folders /\ Steady /\ Here \in Sides
  BY ScanFields DEF EndScan, Steady, ScanOK, Here
<1> DEFINE s == scan.side
           f == scan.folder
           snap == scan.snapshot
<1>2. CASE RetryUnstable(f)
  BY <1>1, <1>2, Retries DEF Here
<1>3. CASE GiveUpFolder(f)
  BY <1>1, <1>3, GivesUp DEF Here
<1>4. ASSUME Cardinality(rows[s][f]) = snap.exists, server[s][f].there, StableSince(s, f, snap),
             scan.reused \/ SameSnapshot(s, f, snap),
             IF scan.reused THEN UNCHANGED stage ELSE CompleteMailbox(s, f, snap),
             scan' = [Leave(f) EXCEPT !.reconnects = 0]
      PROVE  \/ Unstaged /\ Left(f)
             \/ /\ Completed(s, f) /\ Left(f) /\ Answers(s, f) /\ server[s][f].there
                /\ Cardinality(rows[s][f]) = cursor[s][f].snapshot.exists
  <2>1. Left(f)
    <3>1. ASSUME NEW r \in ScanRow
          PROVE  LET t == [r EXCEPT !.reconnects = 0]
                 IN  /\ t \in ScanRow /\ t.phase = r.phase /\ t.side = r.side /\ t.todo = r.todo
                     /\ t.folder = r.folder
      <4>1. 0 \in 0..MaxReconnects
        BY Bounds
      <4> QED BY <4>1 DEF ScanRow
    <3> QED BY <1>1, <1>4, <3>1, LeaveFields DEF Left
  <2>2. CASE scan.reused
    BY <1>4, <2>1, <2>2 DEF Unstaged, StageShape, ShapeOK, stage
  <2>3. CASE ~scan.reused
    <3>1. cursor[s][f] # NoCursor /\ cursor[s][f].snapshot = snap /\ CompleteMailbox(s, f, snap)
      BY <1>4, <2>3 DEF SameSnapshot
    <3>2. s \in Sides /\ f \in Folders /\ scan.tracked \in BOOLEAN
      BY <1>1, ScanFields
    <3>3. FolderSnapshot(s, f, scan.tracked) = snap
      BY <1>4 DEF StableSince
    <3>4. snap.uidnext \in 1..(MaxUid + 1)
      BY <3>2, <3>3, SnapshotFacts
    <3>5. Completed(s, f)
      BY <3>1, <3>2, <3>4, Completes
    <3>6. Answers(s, f)
      BY <1>4, <3>1, <3>2, <3>3, Answered
    <3> QED BY <1>4, <2>1, <3>1, <3>5, <3>6
  <2> QED BY <2>2, <2>3
<1> QED BY <1>1, <1>2, <1>3, <1>4 DEF EndScan, Here

(* ListAccount ends the attempt or drops the folders that are not listed. *)
Dropped ==
    /\ StageShape' /\ identity' = identity
    /\ \A t \in Sides, g \in Folders :
         \/ rows'[t][g] = {} /\ cursor'[t][g] = NoCursor
         \/ rows'[t][g] = rows[t][g] /\ cursor'[t][g] = cursor[t][g]

(* ListAccount ends the attempt, or all the listed folders are to be read. *)
LEMMA ListEffect ==
    ASSUME ServerOK, ShapeOK, ListAccount
    PROVE  /\ scan.phase = "listing"
           /\ \/ Unstaged /\ Ended
              \/ /\ Dropped /\ joint' = joint
                 /\ scan' \in ScanRow /\ scan'.phase = "selecting" /\ scan'.side = scan.side
                 /\ scan'.todo = inventory'[scan.side] /\ scan'.folder = scan.folder
                 /\ inventory' \in [Sides -> SUBSET Folders]
                 /\ \A t \in Sides : t # scan.side => inventory'[t] = inventory[t]
<1> DEFINE listed == There(scan.side)
<1>1. scan.phase = "listing" /\ listed \in SUBSET Folders /\ scan.side \in Sides
  BY ScanFields DEF ListAccount, There
<1>2. CASE EndAttempt /\ UNCHANGED stage
  BY <1>1, <1>2, Ends DEF Unstaged, StageShape, ShapeOK, stage
<1>3. CASE /\ RetainMailboxes(scan.side, listed)
           /\ inventory' = [inventory EXCEPT ![scan.side] = listed]
           /\ \E tracked \in BOOLEAN :
                scan' = [scan EXCEPT !.phase = "selecting", !.todo = listed, !.tracked = tracked]
           /\ UNCHANGED joint
  <2>1. Dropped
    BY <1>1, <1>3, Retains DEF Dropped
  <2>2. PICK tracked \in BOOLEAN :
          scan' = [scan EXCEPT !.phase = "selecting", !.todo = listed, !.tracked = tracked]
    BY <1>3
  <2> HIDE DEF listed
  <2>3. "selecting" \in Active \cup {"idle", "evidence"} /\ scan \in ScanRow
    BY ScanFields DEF Active, Scanning
  <2>4. /\ scan' \in ScanRow /\ scan'.phase = "selecting" /\ scan'.side = scan.side
        /\ scan'.todo = listed /\ scan'.folder = scan.folder
    BY <1>1, <2>2, <2>3 DEF ScanRow
  <2>5. /\ inventory' \in [Sides -> SUBSET Folders] /\ inventory'[scan.side] = listed
        /\ \A t \in Sides : t # scan.side => inventory'[t] = inventory[t]
    BY <1>1, <1>3 DEF ShapeOK
  <2> QED BY <1>1, <1>3, <2>1, <2>4, <2>5
<1> QED BY <1>2, <1>3 DEF ListAccount

(* FinishAccount ends the attempt, goes to the other account, or begins the  *)
(* revalidation of a stage that is covered.                                  *)
LEMMA FinishEffect ==
    ASSUME ShapeOK, FinishAccount
    PROVE  /\ scan.phase = "selecting" /\ scan.todo = {} /\ Unstaged
           /\ \/ Ended
              \/ Steady /\ scan' \in ScanRow /\ scan'.phase = "listing" /\ scan'.folder = NoFolder
              \/ /\ Steady /\ scan' \in ScanRow /\ scan'.phase = "relisting" /\ scan'.round = 1
                 /\ \A s \in Sides : Covered(s)
<1>1. scan.phase = "selecting" /\ scan.todo = {} /\ Unstaged
  BY DEF FinishAccount, Unstaged, StageShape, ShapeOK, stage
<1>2. /\ "destination" \in Sides /\ 1 \in 1..3 /\ "listing" \in Active \cup {"idle", "evidence"}
      /\ "relisting" \in Active \cup {"idle", "evidence"}
  BY DEF Sides, Active, Scanning, Revalidating
<1>3. CASE EndAttempt
  BY <1>1, <1>3, Ends
<1>4. CASE scan' = [AtRest("listing") EXCEPT !.side = "destination"] /\ UNCHANGED <<inventory, joint>>
  <2>1. /\ [AtRest("listing") EXCEPT !.side = "destination"] \in ScanRow
        /\ [AtRest("listing") EXCEPT !.side = "destination"].phase = "listing"
        /\ [AtRest("listing") EXCEPT !.side = "destination"].folder = NoFolder
    BY <1>2, RestFields
  <2>2. scan' \in ScanRow /\ scan'.phase = "listing" /\ scan'.folder = NoFolder
    BY <1>4, <2>1
  <2> QED BY <1>1, <1>4, <2>2 DEF Steady
<1>5. CASE /\ \A s \in Sides : Covered(s)
           /\ scan' = AtRest("relisting") /\ UNCHANGED <<inventory, joint>>
  <2>1. /\ AtRest("relisting") \in ScanRow /\ AtRest("relisting").phase = "relisting"
        /\ AtRest("relisting").round = 1
    BY <1>2, RestFields
  <2> QED BY <1>1, <1>5, <2>1 DEF Steady
<1> QED BY <1>3, <1>4, <1>5 DEF FinishAccount

(* Relist ends the attempt, or all folders of the round's account, which are *)
(* the ones that are staged, are to be examined.                             *)
LEMMA RelistEffect ==
    ASSUME ShapeOK, Relist
    PROVE  /\ scan.phase = "relisting" /\ Unstaged /\ Rounds[scan.round] \in Sides
           /\ \/ Ended
              \/ /\ scan' \in ScanRow /\ scan'.phase = "examining" /\ scan'.round = scan.round
                 /\ scan'.side = Rounds[scan.round] /\ scan'.todo = inventory[scan'.side]
                 /\ CursorsOf(scan'.side) = inventory[scan'.side] /\ inventory' = inventory
                 /\ joint' = IF scan'.side = "destination" THEN StageIsTrue ELSE joint
                 /\ joint' \in BOOLEAN
<1> DEFINE s == Rounds[scan.round]
<1>1. scan.phase = "relisting" /\ Unstaged
  BY DEF Relist, Unstaged, StageShape, ShapeOK, stage
<1>2. s \in Sides
  <2>1. scan.round = 1 \/ scan.round = 2 \/ scan.round = 3
    BY ScanFields
  <2> QED BY <2>1 DEF Rounds, Sides
<1>3. CASE EndAttempt
  BY <1>1, <1>2, <1>3, Ends
<1>4. CASE /\ CursorsOf(s) = inventory[s]
           /\ \E tracked \in BOOLEAN :
                scan' = [scan EXCEPT !.phase = "examining", !.side = s, !.todo = inventory[s],
                                     !.tracked = tracked]
           /\ joint' = IF s = "destination" THEN StageIsTrue ELSE joint
           /\ UNCHANGED inventory
  <2>1. PICK tracked \in BOOLEAN :
          scan' = [scan EXCEPT !.phase = "examining", !.side = s, !.todo = inventory[s],
                               !.tracked = tracked]
    BY <1>4
  <2> HIDE DEF s
  <2>2. "examining" \in Active \cup {"idle", "evidence"} /\ scan \in ScanRow
        /\ inventory[s] \in SUBSET Folders
    BY <1>2, ScanFields DEF Active, Revalidating, ShapeOK
  <2>3. /\ scan' \in ScanRow /\ scan'.phase = "examining" /\ scan'.round = scan.round
        /\ scan'.side = s /\ scan'.todo = inventory[s]
    BY <1>2, <2>1, <2>2 DEF ScanRow
  <2>4. joint' \in BOOLEAN
    <3>1. CASE s = "destination"
      <4>1. joint' = StageIsTrue
        BY <1>4, <3>1
      <4>2. StageIsTrue \in BOOLEAN
        BY DEF StageIsTrue
      <4> QED BY <4>1, <4>2
    <3>2. CASE s # "destination"
      BY <1>4, <3>2 DEF ShapeOK
    <3> QED BY <3>1, <3>2
  <2> QED BY <1>1, <1>2, <1>4, <2>3, <2>4 DEF s
<1> QED BY <1>3, <1>4 DEF Relist, CursorsOf

(* Examine ends the attempt, or it has found a folder that still answers.    *)
LEMMA ExamineEffect ==
    ASSUME ServerOK, ShapeOK, ListedOK, Examine
    PROVE  /\ scan.phase = "examining" /\ Unstaged
           /\ \/ Ended
              \/ /\ Steady /\ scan' \in ScanRow
                 /\ \E f \in scan.todo :
                      /\ Answers(scan.side, f)
                      /\ \/ /\ scan.todo # {f} /\ scan'.phase = "examining" /\ scan'.side = scan.side
                            /\ scan'.round = scan.round /\ scan'.todo = scan.todo \ {f}
                         \/ /\ scan.todo = {f} /\ scan.round < 3 /\ scan'.phase = "relisting"
                            /\ scan'.round = scan.round + 1
                         \/ scan.todo = {f} /\ scan.round = 3 /\ scan'.phase = "evidence"
<1>1. scan.phase = "examining" /\ Unstaged
  BY DEF Examine, Unstaged, StageShape, ShapeOK, stage
<1>2. CASE EndAttempt
  BY <1>1, <1>2, Ends
<1>3. ASSUME NEW f \in First(scan.todo), server[scan.side][f].there,
             FolderSnapshot(scan.side, f, scan.tracked) = cursor[scan.side][f].snapshot,
             IF scan.todo = {f} THEN NextRound ELSE scan' = [scan EXCEPT !.todo = @ \ {f}],
             UNCHANGED <<inventory, joint>>
      PROVE  /\ Steady /\ scan' \in ScanRow /\ f \in scan.todo
             /\ Answers(scan.side, f)
             /\ \/ /\ scan.todo # {f} /\ scan'.phase = "examining" /\ scan'.side = scan.side
                   /\ scan'.round = scan.round /\ scan'.todo = scan.todo \ {f}
                \/ /\ scan.todo = {f} /\ scan.round < 3 /\ scan'.phase = "relisting"
                   /\ scan'.round = scan.round + 1
                \/ scan.todo = {f} /\ scan.round = 3 /\ scan'.phase = "evidence"
  <2>1. /\ f \in scan.todo /\ f \in Folders /\ scan.side \in Sides /\ scan.tracked \in BOOLEAN
        /\ scan.round \in 1..3 /\ scan \in ScanRow /\ Steady
    BY <1>3, ScanFields DEF First, Steady
  <2>2. cursor[scan.side][f] # NoCursor
    BY <1>1, <2>1 DEF ListedOK, CursorsOf
  <2>3. Answers(scan.side, f)
    BY <1>3, <2>1, <2>2, Answered
  <2>4. CASE scan.todo # {f}
    <3>1. scan' = [scan EXCEPT !.todo = scan.todo \ {f}] /\ scan.todo \ {f} \in SUBSET Folders
      BY <1>3, <2>4, ScanFields
    <3>2. /\ scan' \in ScanRow /\ scan'.phase = scan.phase /\ scan'.side = scan.side
          /\ scan'.round = scan.round /\ scan'.todo = scan.todo \ {f}
      BY <2>1, <3>1 DEF ScanRow
    <3> QED BY <1>1, <2>1, <2>3, <2>4, <3>2
  <2>5. CASE scan.todo = {f}
    <3>1. /\ "source" \in Sides /\ "relisting" \in Active \cup {"idle", "evidence"}
          /\ "evidence" \in Active \cup {"idle", "evidence"} /\ Len(Rounds) = 3 /\ 1 \in 1..3
      BY DEF Sides, Active, Revalidating, Rounds
    <3>2. NextRound
      BY <1>3, <2>5
    <3>3. CASE scan.round < 3
      <4> DEFINE n == scan.round + 1
      <4>1. scan' = [AtRest("relisting") EXCEPT !.round = n] /\ n \in 1..3
        BY <2>1, <3>1, <3>2, <3>3 DEF NextRound
      <4> HIDE DEF n
      <4>0. ASSUME NEW k \in 1..3
            PROVE  /\ [AtRest("relisting") EXCEPT !.round = k] \in ScanRow
                   /\ [AtRest("relisting") EXCEPT !.round = k].phase = "relisting"
                   /\ [AtRest("relisting") EXCEPT !.round = k].round = k
        <5> DEFINE p == "relisting"
        <5>1. p \in Active \cup {"idle", "evidence"} /\ "source" \in Sides
          BY <3>1
        <5> HIDE DEF p
        <5>2. /\ [AtRest(p) EXCEPT !.round = k] \in ScanRow
              /\ [AtRest(p) EXCEPT !.round = k].phase = p /\ [AtRest(p) EXCEPT !.round = k].round = k
          BY <5>1, RestFields
        <5> QED BY <5>2 DEF p
      <4>3. scan' \in ScanRow /\ scan'.phase = "relisting" /\ scan'.round = n
        BY <4>0, <4>1
      <4>2. scan' \in ScanRow /\ scan'.phase = "relisting" /\ scan'.round = scan.round + 1
        BY <4>3 DEF n
      <4> QED BY <2>1, <2>3, <2>5, <3>3, <4>2
    <3>4. CASE ~(scan.round < 3)
      <4>1. scan' = AtRest("evidence") /\ scan.round = 3
        BY <2>1, <3>1, <3>2, <3>4 DEF NextRound
      <4>2. scan' \in ScanRow /\ scan'.phase = "evidence"
        BY <3>1, <4>1, RestFields
      <4> QED BY <2>1, <2>3, <2>5, <4>1, <4>2
    <3> QED BY <3>3, <3>4
  <2> QED BY <2>4, <2>5
<1>4. \/ EndAttempt
      \/ \E f \in First(scan.todo) :
           /\ server[scan.side][f].there
           /\ FolderSnapshot(scan.side, f, scan.tracked) = cursor[scan.side][f].snapshot
           /\ IF scan.todo = {f} THEN NextRound ELSE scan' = [scan EXCEPT !.todo = @ \ {f}]
           /\ UNCHANGED <<inventory, joint>>
  BY DEF Examine
<1>5. CASE ~EndAttempt
  <2>1. PICK f \in First(scan.todo) :
           /\ server[scan.side][f].there
           /\ FolderSnapshot(scan.side, f, scan.tracked) = cursor[scan.side][f].snapshot
           /\ IF scan.todo = {f} THEN NextRound ELSE scan' = [scan EXCEPT !.todo = @ \ {f}]
           /\ UNCHANGED <<inventory, joint>>
    BY <1>4, <1>5
  <2> QED BY <1>1, <1>3, <2>1
<1> QED BY <1>2, <1>5

-----------------------------------------------------------------------------
(* Two rows that differ at most in the fingerprint. *)
Alike(r, q) == r.uidvalidity = q.uidvalidity /\ r.uid = q.uid /\ r.mail = q.mail /\ r.flags = q.flags

Stripped ==
    /\ StageShape' /\ UNCHANGED <<cursor, identity>>
    /\ \A s \in Sides, f \in Folders : \A r \in rows'[s][f] :
          ~r.fingerprint /\ \E q \in rows[s][f] : Alike(r, q)

Emptied ==
    StageShape' /\ \A t \in Sides, g \in Folders : rows'[t][g] = {} /\ cursor'[t][g] = NoCursor

(* OpenStage keeps the stage of the same plan without its fingerprints. *)
LEMMA OpenEffect ==
    ASSUME ShapeOK, OpenStage
    PROVE  /\ scan.phase = "idle" /\ Steady /\ scan' \in ScanRow /\ scan'.phase = "listing"
           /\ scan'.folder = NoFolder /\ identity' = plan /\ attempts' \in 0..MaxAttempts
           /\ (identity = plan /\ Stripped) \/ Emptied
<1>1. scan.phase = "idle" /\ Steady /\ identity' = plan /\ scan' = AtRest("listing")
  BY DEF OpenStage, Steady, BindIdentity
<1>2. scan' \in ScanRow /\ scan'.phase = "listing" /\ scan'.folder = NoFolder
  <2>1. "listing" \in Active \cup {"idle", "evidence"} /\ "source" \in Sides /\ 1 \in 1..3
    BY DEF Active, Scanning, Sides
  <2> QED BY <1>1, <2>1, RestFields
<1>3. attempts' \in 0..MaxAttempts
  BY Bounds DEF OpenStage, ShapeOK
<1>4. identity' \in Plans \cup {NoPlan}
  BY <1>1 DEF ShapeOK
<1>5. CASE identity # plan
  <2>1. Emptied
    BY <1>4, <1>5, DeletesAll DEF OpenStage, BindIdentity, Emptied
  <2> QED BY <1>1, <1>2, <1>3, <2>1
<1>6. CASE identity = plan
  <2>1. rows' = WithoutFingerprints /\ cursor' = cursor /\ identity' = identity
    BY <1>1, <1>6 DEF OpenStage, BindIdentity
  <2>2. /\ rows \in [Sides -> [Folders -> SUBSET Rows]]
        /\ cursor \in [Sides -> [Folders -> Cursors \cup {NoCursor}]]
    BY DEF ShapeOK
  <2>3. ASSUME NEW q \in Rows
        PROVE  LET r == [q EXCEPT !.fingerprint = FALSE]
               IN  r \in Rows /\ Alike(r, q) /\ ~r.fingerprint
    BY DEF Rows, Alike
  <2>4. \A s \in Sides, f \in Folders :
          rows'[s][f] = {[q EXCEPT !.fingerprint = FALSE] : q \in rows[s][f]}
    BY <2>1 DEF WithoutFingerprints
  <2>5. \A s \in Sides, f \in Folders : \A q \in rows[s][f] : q \in Rows
    BY <2>2
  <2>6. \A s \in Sides, f \in Folders : \A r \in rows'[s][f] :
          r \in Rows /\ ~r.fingerprint /\ \E q \in rows[s][f] : Alike(r, q)
    <3> SUFFICES ASSUME NEW s \in Sides, NEW f \in Folders, NEW r \in rows'[s][f]
                 PROVE  r \in Rows /\ ~r.fingerprint /\ \E q \in rows[s][f] : Alike(r, q)
      OBVIOUS
    <3>1. PICK q \in rows[s][f] : r = [q EXCEPT !.fingerprint = FALSE]
      BY <2>4
    <3> QED BY <2>3, <2>5, <3>1
  <2>7. rows' \in [Sides -> [Folders -> SUBSET Rows]]
    <3>1. rows' = [s \in Sides |-> [f \in Folders |-> rows'[s][f]]]
      BY <2>1 DEF WithoutFingerprints
    <3> QED BY <2>6, <3>1
  <2>8. Stripped
    BY <1>4, <2>1, <2>2, <2>6, <2>7 DEF Stripped, StageShape
  <2> QED BY <1>1, <1>2, <1>3, <1>6, <2>8
<1> QED BY <1>5, <1>6

(* Faults delete the folder at hand or nothing. *)
LEMMA FaultEffect ==
    ASSUME ShapeOK, ScanOK, Faults
    PROVE  /\ scan.phase # "idle"
           /\ \/ /\ scan.phase = "paging" /\ scan.folder \in Folders
                 /\ Deleted(Here, scan.folder)
                 /\ \/ (Left(scan.folder) \/ Again(scan.folder)) /\ Steady
                    \/ Ended
              \/ Unstaged /\ Ended
<1>1. scan.phase = "paging" => scan.folder \in Folders
  BY ScanFields DEF ScanOK
<1>2. Here \in Sides
  BY ScanFields DEF Here
<1>3. UNCHANGED stage => Unstaged
  BY DEF Unstaged, StageShape, ShapeOK, stage
<1>4. CASE SessionBreaks
  <2>1. scan.phase = "paging" /\ DeleteMailbox(Here, scan.folder) /\ Reconnect(scan.folder)
    BY <1>4 DEF SessionBreaks, Here
  <2>2. Deleted(Here, scan.folder)
    BY <1>1, <1>2, <2>1, Deletes
  <2>3. (Again(scan.folder) /\ Steady) \/ Ended
    BY <1>1, <2>1, Reconnects DEF Steady
  <2> QED BY <1>1, <2>1, <2>2, <2>3
<1>5. CASE FolderFails
  <2>1. scan.phase = "paging" /\ GiveUpFolder(scan.folder) /\ Steady
    BY <1>5 DEF FolderFails, Steady
  <2> QED BY <1>1, <2>1, GivesUp DEF Here
<1>6. CASE AttemptFails
  <2>1. scan.phase \in Active /\ EndAttempt
        /\ IF scan.phase = "paging" THEN DeleteMailbox(Here, scan.folder) ELSE UNCHANGED stage
    BY <1>6 DEF AttemptFails, Here
  <2>2. Ended /\ scan.phase # "idle"
    BY <2>1, Ends DEF Active, Scanning, Revalidating
  <2>3. CASE scan.phase = "paging"
    BY <1>1, <1>2, <2>1, <2>2, <2>3, Deletes
  <2>4. CASE scan.phase # "paging"
    BY <1>3, <2>1, <2>2, <2>4
  <2> QED BY <2>3, <2>4
<1>7. CASE Crash
  BY <1>3, <1>7, Ends DEF Crash, Active, Scanning, Revalidating
<1> QED BY <1>4, <1>5, <1>6, <1>7 DEF Faults

(* CommitEvidence removes the stage, or fails to. *)
LEMMA CommitEffect ==
    ASSUME ShapeOK, CommitEvidence
    PROVE  scan.phase = "evidence" /\ Ended /\ (Unstaged \/ Emptied)
<1>1. scan.phase = "evidence" /\ Ended
  BY Ends DEF CommitEvidence
<1>2. CASE StageDeleted /\ identity' = NoPlan
  BY <1>1, <1>2, DeletesAll DEF Emptied
<1>3. CASE UNCHANGED stage
  BY <1>1, <1>3 DEF Unstaged, StageShape, ShapeOK, stage
<1> QED BY <1>2, <1>3 DEF CommitEvidence

-----------------------------------------------------------------------------
(* What is staged stays true. *)

(* How an entry of the stage may change. *)
Faithful(s, f) ==
    \/ rows'[s][f] = {} /\ cursor'[s][f] = NoCursor
    \/ /\ rows'[s][f] = {} /\ cursor'[s][f] # NoCursor
       /\ \E tracked \in BOOLEAN : cursor'[s][f].snapshot = FolderSnapshot(s, f, tracked)
    \/ /\ identity' = identity
       /\ \/ cursor'[s][f] = cursor[s][f]
          \/ /\ cursor[s][f] # NoCursor /\ cursor'[s][f] # NoCursor
             /\ cursor'[s][f].snapshot = cursor[s][f].snapshot
       /\ \A r \in rows'[s][f] :
            \/ \E q \in rows[s][f] : Alike(r, q)
            \/ /\ cursor[s][f] # NoCursor /\ identity = plan
               /\ \E u \in Held(s, f) : r = Message(s, f, u, cursor[s][f].snapshot)

(* Faithful changes keep the stage true. *)
LEMMA StageTrueKept ==
    ASSUME ServerOK, ShapeOK, StageTrue, server' = server,
           \A s \in Sides, f \in Folders : Faithful(s, f)
    PROVE  StageTrue'
<1> SUFFICES ASSUME NEW s \in Sides, NEW f \in Folders
             PROVE  Past(s, f)' /\ RowsTrue(s, f)' /\ (rows'[s][f] # {} => cursor'[s][f] # NoCursor)
  BY DEF StageTrue
<1>1. Faithful(s, f) /\ Past(s, f) /\ RowsTrue(s, f) /\ (rows[s][f] # {} => cursor[s][f] # NoCursor)
  BY DEF StageTrue
<1>2. Held(s, f)' = Held(s, f)
  BY DEF Held
<1>3. CASE rows'[s][f] = {} /\ cursor'[s][f] = NoCursor
  BY <1>3 DEF Past, RowsTrue
<1>4. CASE /\ rows'[s][f] = {} /\ cursor'[s][f] # NoCursor
           /\ \E tracked \in BOOLEAN : cursor'[s][f].snapshot = FolderSnapshot(s, f, tracked)
  <2>1. PICK tracked \in BOOLEAN : cursor'[s][f].snapshot = FolderSnapshot(s, f, tracked)
    BY <1>4
  <2> DEFINE c == cursor'[s][f].snapshot
  <2>2. /\ c.uidvalidity = server[s][f].validity /\ c.uidnext = server[s][f].next
        /\ c.exists = Cardinality(Held(s, f))
        /\ c.highest_modseq \in {Untracked, server[s][f].modseq}
    BY <2>1, SnapshotFacts
  <2>3. /\ server[s][f].validity \in Nat /\ server[s][f].modseq \in Nat /\ server[s][f].next \in Nat
        /\ Cardinality(Held(s, f)) \in Nat
    <3>1. FolderOK(server[s][f], changes) /\ Cardinality(Held(s, f)) \in 0..MaxUid
      BY HeldFinite
    <3> QED BY <3>1, Bounds DEF FolderOK
  <2>4. /\ c.uidvalidity <= server[s][f].validity /\ c.uidnext <= server[s][f].next
        /\ c.highest_modseq <= server[s][f].modseq /\ Cardinality(Held(s, f)) <= c.exists
    BY <2>2, <2>3 DEF Untracked
  <2> HIDE DEF c
  <2>5. Past(s, f)'
    BY <1>2, <2>4 DEF Past, c
  <2> QED BY <1>4, <2>5 DEF RowsTrue
<1>5. CASE /\ identity' = identity
           /\ \/ cursor'[s][f] = cursor[s][f]
              \/ /\ cursor[s][f] # NoCursor /\ cursor'[s][f] # NoCursor
                 /\ cursor'[s][f].snapshot = cursor[s][f].snapshot
           /\ \A r \in rows'[s][f] :
                \/ \E q \in rows[s][f] : Alike(r, q)
                \/ /\ cursor[s][f] # NoCursor /\ identity = plan
                   /\ \E u \in Held(s, f) : r = Message(s, f, u, cursor[s][f].snapshot)
  <2>1. /\ (cursor'[s][f] # NoCursor) <=> (cursor[s][f] # NoCursor)
        /\ cursor[s][f] # NoCursor => cursor'[s][f].snapshot = cursor[s][f].snapshot
    BY <1>5
  <2>2. Past(s, f)' /\ (Answers(s, f)' => Answers(s, f))
    BY <1>1, <1>2, <2>1 DEF Past, Answers
  <2>3. rows'[s][f] # {} => cursor'[s][f] # NoCursor
    BY <1>1, <1>5, <2>1
  <2>4. ASSUME Answers(s, f), NEW r \in rows'[s][f]
        PROVE  \E u \in Held(s, f) : IsMessage(s, f, r, u)
    <3>1. ASSUME NEW q \in rows[s][f], Alike(r, q)
          PROVE  \E u \in Held(s, f) : IsMessage(s, f, r, u)
      <4>1. PICK u \in Held(s, f) : IsMessage(s, f, q, u)
        BY <1>1, <2>4 DEF RowsTrue
      <4>2. IsMessage(s, f, r, u)
        BY <3>1, <4>1 DEF IsMessage, Alike
      <4> QED BY <4>2
    <3>2. ASSUME identity = plan, NEW u \in Held(s, f), r = Message(s, f, u, cursor[s][f].snapshot)
          PROVE  IsMessage(s, f, r, u)
      BY <3>2 DEF Message, IsMessage
    <3> QED BY <1>5, <3>1, <3>2
  <2>5. ASSUME cursor[s][f] # NoCursor, NEW r, NEW u, IsMessage(s, f, r, u) PROVE IsMessage(s, f, r, u)'
    BY <1>5, <2>1, <2>5 DEF IsMessage
  <2>6. RowsTrue(s, f)'
    BY <1>2, <2>2, <2>4, <2>5 DEF RowsTrue, Answers
  <2> QED BY <2>2, <2>3, <2>6
<1> QED BY <1>1, <1>3, <1>4, <1>5 DEF Faithful

(* A change made by the users keeps what is staged true, and no folder       *)
(* begins to answer.                                                         *)
LEMMA UsersKeep ==
    ASSUME ServerOK, ShapeOK, StageTrue, NEW t \in Sides, NEW g \in Folders,
           ServerOK', Moved(t, g), OthersStay(t, g)
    PROVE  StageTrue' /\ \A s \in Sides, f \in Folders : Answers(s, f)' => Answers(s, f)
<1>1. UNCHANGED <<rows, cursor, identity>>
  BY DEF OthersStay
<1> SUFFICES ASSUME NEW s \in Sides, NEW f \in Folders
             PROVE  /\ Past(s, f)' /\ RowsTrue(s, f)' /\ (rows'[s][f] # {} => cursor'[s][f] # NoCursor)
                    /\ Answers(s, f)' => Answers(s, f)
  BY DEF StageTrue
<1>2. Past(s, f) /\ RowsTrue(s, f) /\ (rows'[s][f] # {} => cursor'[s][f] # NoCursor)
  BY <1>1 DEF StageTrue
<1>3. CASE <<s, f>> # <<t, g>>
  <2>1. server'[s][f] = server[s][f]
    BY <1>3 DEF OthersStay
  <2>2. /\ Held(s, f)' = Held(s, f) /\ (Past(s, f)' <=> Past(s, f)) /\ (Answers(s, f)' <=> Answers(s, f))
        /\ \A r, u : IsMessage(s, f, r, u)' <=> IsMessage(s, f, r, u)
    BY <1>1, <2>1 DEF Held, Past, Answers, IsMessage
  <2> QED BY <1>1, <1>2, <2>2 DEF RowsTrue
<1>4. CASE <<s, f>> = <<t, g>>
  <2>1. Moved(s, f)
    BY <1>4
  <2>2. /\ Past(s, f)'
        /\ Answers(s, f)' => /\ Answers(s, f) /\ Held(s, f)' = Held(s, f)
                             /\ \/ cursor[s][f].snapshot.highest_modseq = Untracked
                                \/ server'[s][f].msgs = server[s][f].msgs
                             /\ server'[s][f].validity = server[s][f].validity
    BY <1>1, <1>2, <2>1, NeverComesBack
  <2>3. ASSUME Answers(s, f)', NEW r \in rows'[s][f]
        PROVE  \E u \in Held(s, f)' : IsMessage(s, f, r, u)'
    <3>1. PICK u \in Held(s, f) : IsMessage(s, f, r, u)
      BY <1>1, <1>2, <2>2, <2>3 DEF RowsTrue
    <3>2. IsMessage(s, f, r, u)'
      BY <1>1, <2>2, <2>3, <3>1 DEF IsMessage
    <3> QED BY <2>2, <2>3, <3>1, <3>2
  <2> QED BY <1>2, <2>2, <2>3 DEF RowsTrue
<1> QED BY <1>3, <1>4

(* As many true rows as there are messages are all the messages.  A row is   *)
(* known by its UID, so the rows inject into the messages; equally many, they *)
(* are all met.                                                              *)
LEMMA Staged ==
    ASSUME ServerOK, ShapeOK, NEW s \in Sides, NEW f \in Folders, Answers(s, f), RowsTrue(s, f),
           identity = plan,
           Cardinality(rows[s][f]) = cursor[s][f].snapshot.exists,
           \A r \in rows[s][f] : r.fingerprint <=> plan \in BodyPlans
    PROVE  StagedIsHeld(s, f)
<1> DEFINE c == cursor[s][f].snapshot
           M(u) == Message(s, f, u, c)
           S == rows[s][f]
           H == Held(s, f)
           uid == [r \in S |-> r.uid]
<1>1. c \in Snapshots /\ cursor[s][f] # NoCursor /\ S \subseteq Rows /\ c.uidvalidity > 0
  <2>1. FolderOK(server[s][f], changes)
    BY HeldFinite
  <2> QED BY <2>1, CursorFields DEF Answers, ShapeOK, FolderOK
<1>2. \A u \in H : M(u) \in Rows /\ M(u).uid = u
  BY <1>1, MessageRow
<1>3. ASSUME NEW r \in S PROVE r.uid \in H /\ r = M(r.uid)
  <2>1. PICK u \in H : IsMessage(s, f, r, u)
    BY RowsTrue(s, f) DEF RowsTrue
  <2>2. /\ r.uidvalidity = c.uidvalidity /\ r.uid = u /\ r.mail = <<plan, server[s][f].validity, u>>
        /\ r.flags = IF c.highest_modseq = Untracked THEN NoFlags ELSE server[s][f].msgs[u]
    BY <2>1 DEF IsMessage
  <2>3. /\ M(u).uidvalidity = c.uidvalidity /\ M(u).uid = u
        /\ M(u).mail = <<plan, server[s][f].validity, u>>
        /\ M(u).flags = IF c.highest_modseq = Untracked THEN NoFlags ELSE server[s][f].msgs[u]
        /\ M(u).fingerprint = (plan \in BodyPlans) /\ M(u) \in Rows
    BY <1>1, <2>1, MessageRow
  <2>4. r.fingerprint \in BOOLEAN /\ (r.fingerprint <=> plan \in BodyPlans) /\ r \in Rows
    BY <1>1, <1>3 DEF Rows
  <2> HIDE DEF M
  <2>5. r.fingerprint = M(u).fingerprint
    BY <2>3, <2>4
  <2>6. r = M(u)
    BY <2>2, <2>3, <2>4, <2>5 DEF Rows
  <2> QED BY <2>1, <2>2, <2>6
<1>4. IsFiniteSet(H) /\ Cardinality(S) = Cardinality(H)
  BY HeldFinite DEF Answers
<1>5. uid \in Injection(S, H)
  <2>1. uid \in [S -> H]
    BY <1>3
  <2>2. \A a, b \in S : uid[a] = uid[b] => a = b
    BY <1>3
  <2> QED BY <2>1, <2>2 DEF Injection, IsInjective
<1>6. uid \in Surjection(S, H)
  <2> HIDE DEF S, H, uid
  <2> QED BY <1>4, <1>5, FS_Injection
<1>7. ASSUME NEW u \in H PROVE M(u) \in S
  <2>1. PICK r \in S : r.uid = u
    BY <1>6 DEF Surjection
  <2> QED BY <1>3, <2>1
<1>8. S = {M(u) : u \in H}
  BY <1>3, <1>7
<1> QED BY <1>1, <1>8 DEF StagedIsHeld, Answers

-----------------------------------------------------------------------------
(* The conjuncts of the invariant, one by one. *)

(* The accounts, the plan and the number of changes stay. *)
Apart == UNCHANGED <<plan, server, changes>>

(* The steps of an attempt leave the accounts alone. *)
LEMMA AttemptFrame ==
    ASSUME OpenStage \/ Verify \/ CommitEvidence \/ Faults
    PROVE  Apart /\ (OpenStage \/ attempts' = attempts)
BY DEF OpenStage, Verify, ListAccount, SelectFolder, FetchPage, EndScan, FinishAccount, Relist, Examine,
       CommitEvidence, Faults, SessionBreaks, FolderFails, AttemptFails, Crash, Apart, counts

(* The accounts keep their shape while they are left alone. *)
LEMMA ServerApart == ASSUME ServerOK, Apart PROVE ServerOK'
BY DEF ServerOK, Apart

(* The users' steps and the operator's. *)
LEMMA UsersEffect ==
    ASSUME ServerOK, ShapeOK, Users
    PROVE  \/ \E s \in Sides, f \in Folders :
                /\ ServerOK' /\ Moved(s, f) /\ OthersStay(s, f) /\ changes' \in 0..MaxChanges
           \/ /\ Replan /\ ServerOK' /\ scan.phase = "idle" /\ plan' \in Plans
              /\ changes' \in 0..MaxChanges
              /\ UNCHANGED <<server, rows, cursor, identity, scan, inventory, attempts, joint>>
<1>1. ASSUME NEW s \in Sides, NEW f \in Folders,
             Deliver(s, f) \/ Expunge(s, f) \/ SetFlag(s, f) \/ RemoveFolder(s, f)
             \/ RenameFolder(s, f) \/ RecreateFolder(s, f)
      PROVE  ServerOK' /\ Moved(s, f) /\ OthersStay(s, f) /\ changes' \in 0..MaxChanges
  BY <1>1, UserEffect
<1>2. CASE Replan
  <2>1. /\ scan.phase = "idle" /\ plan' \in Plans /\ changes' = changes + 1
        /\ changes \in 0..MaxChanges /\ changes < MaxChanges
        /\ UNCHANGED <<server, rows, cursor, identity, scan, inventory, attempts, joint>>
    BY <1>2 DEF Replan, stage, ShapeOK
  <2>2. changes' \in 0..MaxChanges /\ changes' >= changes /\ changes \in Int /\ changes' \in Int
    BY <2>1, Bounds
  <2>3. ASSUME NEW s \in Sides, NEW f \in Folders PROVE FolderOK(server[s][f], changes')
    <3>1. FolderOK(server[s][f], changes)
      BY DEF ServerOK
    <3> QED BY <2>2, <3>1 DEF FolderOK
  <2>4. ServerOK'
    BY <2>1, <2>3 DEF ServerOK
  <2> QED BY <1>2, <2>1, <2>2, <2>4
<1> QED BY <1>1, <1>2 DEF Users

(* Every variable keeps its shape. *)
LEMMA ShapeStep ==
    ASSUME StageInv, [Next]_vars
    PROVE  ServerOK' /\ ShapeOK'
<1>a. ServerOK /\ ShapeOK /\ ScanOK /\ ListedOK
  BY DEF StageInv
<1>b. /\ plan \in Plans /\ scan \in ScanRow /\ inventory \in [Sides -> SUBSET Folders]
      /\ attempts \in 0..MaxAttempts /\ changes \in 0..MaxChanges /\ joint \in BOOLEAN /\ StageShape
  BY <1>a DEF ShapeOK, StageShape
<1>c. ASSUME StageShape', scan' \in ScanRow, inventory' \in [Sides -> SUBSET Folders],
             joint' \in BOOLEAN, Apart, attempts' \in 0..MaxAttempts
      PROVE  ServerOK' /\ ShapeOK'
  BY <1>a, <1>b, <1>c, ServerApart DEF ShapeOK, StageShape, Apart
<1>d. Steady => inventory' \in [Sides -> SUBSET Folders] /\ joint' \in BOOLEAN
  BY <1>b DEF Steady
<1>e. Ended => scan' \in ScanRow /\ inventory' \in [Sides -> SUBSET Folders] /\ joint' \in BOOLEAN
  BY DEF Ended
<1>f. \A f : Left(f) \/ Again(f) \/ Entered(f) => scan' \in ScanRow
  BY DEF Left, Again, Entered
<1>g. /\ \A s, f : Deleted(s, f) \/ Begun(s, f) \/ Grown(s, f) \/ Completed(s, f) => StageShape'
      /\ Unstaged \/ Dropped \/ Stripped \/ Emptied => StageShape'
  BY DEF Deleted, Begun, Grown, Completed, Unstaged, Dropped, Stripped, Emptied
<1>1. CASE OpenStage
  BY <1>a, <1>c, <1>d, <1>g, <1>1, OpenEffect, AttemptFrame
<1>2. CASE Verify \/ CommitEvidence \/ Faults
  <2>0. Apart /\ attempts' \in 0..MaxAttempts
    <3>1. CASE OpenStage
      BY <1>a, <3>1, <1>2, OpenEffect, AttemptFrame
    <3>2. CASE ~OpenStage
      BY <1>b, <1>2, <3>2, AttemptFrame
    <3> QED BY <3>1, <3>2
  <2>1. CASE ListAccount
    BY <1>a, <1>b, <1>c, <1>e, <1>g, <2>0, <2>1, ListEffect
  <2>2. CASE SelectFolder
    BY <1>a, <1>c, <1>d, <1>f, <1>g, <2>0, <2>2, SelectEffect
  <2>3. CASE FetchPage
    BY <1>a, <1>c, <1>d, <1>f, <1>g, <2>0, <2>3, FetchEffect DEF Going
  <2>4. CASE EndScan
    BY <1>a, <1>c, <1>d, <1>f, <1>g, <2>0, <2>4, EndScanEffect
  <2>5. CASE FinishAccount
    BY <1>a, <1>c, <1>d, <1>e, <1>g, <2>0, <2>5, FinishEffect
  <2>6. CASE Relist
    BY <1>a, <1>b, <1>c, <1>e, <1>g, <2>0, <2>6, RelistEffect
  <2>7. CASE Examine
    BY <1>a, <1>c, <1>d, <1>e, <1>g, <2>0, <2>7, ExamineEffect
  <2>8. CASE CommitEvidence
    BY <1>a, <1>c, <1>e, <1>g, <2>0, <2>8, CommitEffect
  <2>9. CASE Faults
    BY <1>a, <1>c, <1>d, <1>e, <1>f, <1>g, <2>0, <2>9, FaultEffect
  <2> QED BY <1>2, <2>1, <2>2, <2>3, <2>4, <2>5, <2>6, <2>7, <2>8, <2>9 DEF Verify
<1>3. CASE Users
  <2>1. CASE Replan /\ UNCHANGED <<server, rows, cursor, identity, scan, inventory, attempts, joint>>
    BY <1>a, <1>b, <1>3, <2>1, UsersEffect DEF ShapeOK, OthersStay
  <2>2. ASSUME NEW s \in Sides, NEW f \in Folders, OthersStay(s, f), changes' \in 0..MaxChanges
        PROVE  ShapeOK'
    BY <1>a, <2>2 DEF ShapeOK, OthersStay
  <2> QED BY <1>a, <1>3, <2>1, <2>2, UsersEffect
<1>4. CASE UNCHANGED vars
  BY <1>a, <1>4 DEF vars, ServerOK, ShapeOK
<1> QED BY <1>1, <1>2, <1>3, <1>4 DEF Next, Done

(* What is staged of a folder stays true. *)
LEMMA TrueStep ==
    ASSUME StageInv, [Next]_vars
    PROVE  StageTrue'
<1>a. ServerOK /\ ShapeOK /\ StageTrue /\ ScanOK /\ ListedOK
  BY DEF StageInv
<1>b. ASSUME NEW s \in Sides, NEW f \in Folders, rows'[s][f] = rows[s][f],
             cursor'[s][f] = cursor[s][f], identity' = identity
      PROVE  Faithful(s, f)
  <2>1. \A r \in rows[s][f] : Alike(r, r)
    BY DEF Alike
  <2> QED BY <1>b, <2>1 DEF Faithful
<1>c. Unstaged \/ Dropped \/ Emptied => \A s \in Sides, f \in Folders : Faithful(s, f)
  <2>1. ASSUME NEW s \in Sides, NEW f \in Folders, rows'[s][f] = {} /\ cursor'[s][f] = NoCursor
        PROVE  Faithful(s, f)
    BY <2>1 DEF Faithful
  <2> QED BY <1>b, <2>1 DEF Unstaged, Dropped, Emptied
<1>d. ASSUME NEW t \in Sides, NEW g \in Folders,
             \/ Deleted(t, g) \/ Begun(t, g) \/ Completed(t, g)
             \/ Grown(t, g) /\ identity = plan
      PROVE  \A s \in Sides, f \in Folders : Faithful(s, f)
  <2>1. Elsewhere(t, g)
    BY <1>d DEF Deleted, Begun, Grown, Completed
  <2>2. Faithful(t, g)
    <3>1. CASE Deleted(t, g) \/ Begun(t, g)
      BY <3>1 DEF Deleted, Begun, Faithful
    <3>2. CASE Completed(t, g)
      <4>1. \A r \in rows[t][g] : Alike(r, r)
        BY DEF Alike
      <4> QED BY <3>2, <4>1 DEF Completed, Faithful, Elsewhere
    <3>3. CASE Grown(t, g) /\ identity = plan
      <4>1. \A r \in rows[t][g] : Alike(r, r)
        BY DEF Alike
      <4> QED BY <3>3, <4>1 DEF Grown, Faithful, Elsewhere
    <3> QED BY <1>d, <3>1, <3>2, <3>3
  <2> QED BY <1>b, <2>1, <2>2 DEF Elsewhere
<1>e. Stripped => \A s \in Sides, f \in Folders : Faithful(s, f)
  BY DEF Stripped, Faithful
<1>f. Apart /\ (\A s \in Sides, f \in Folders : Faithful(s, f)) => StageTrue'
  BY <1>a, StageTrueKept DEF Apart
<1>g. Here \in Sides
  BY <1>a, ScanFields DEF Here
<1>1. CASE OpenStage \/ Verify \/ CommitEvidence \/ Faults
  <2>0. Apart
    BY <1>1, AttemptFrame
  <2>1. CASE OpenStage
    BY <1>a, <1>c, <1>e, <1>f, <2>0, <2>1, OpenEffect
  <2>2. CASE ListAccount
    BY <1>a, <1>c, <1>f, <2>0, <2>2, ListEffect
  <2>3. CASE SelectFolder
    BY <1>a, <1>c, <1>d, <1>f, <1>g, <2>0, <2>3, SelectEffect
  <2>4. CASE FetchPage
    <3>1. identity = plan
      BY <1>a, <2>4, FetchEffect DEF ScanOK
    <3> QED BY <1>a, <1>d, <1>f, <1>g, <2>0, <2>4, <3>1, FetchEffect
  <2>5. CASE EndScan
    BY <1>a, <1>c, <1>d, <1>f, <1>g, <2>0, <2>5, EndScanEffect
  <2>6. CASE FinishAccount \/ Relist \/ Examine
    BY <1>a, <1>c, <1>f, <2>0, <2>6, FinishEffect, RelistEffect, ExamineEffect
  <2>7. CASE CommitEvidence
    BY <1>a, <1>c, <1>f, <2>0, <2>7, CommitEffect
  <2>8. CASE Faults
    BY <1>a, <1>c, <1>d, <1>f, <1>g, <2>0, <2>8, FaultEffect
  <2> QED BY <1>1, <2>1, <2>2, <2>3, <2>4, <2>5, <2>6, <2>7, <2>8 DEF Verify
<1>2. ASSUME UNCHANGED <<server, rows, cursor, identity>> PROVE StageTrue'
  BY <1>a, <1>2 DEF StageTrue, Past, RowsTrue, Answers, IsMessage, Held
<1>3. CASE Users
  <2>1. ASSUME NEW s \in Sides, NEW f \in Folders, ServerOK', Moved(s, f), OthersStay(s, f)
        PROVE  StageTrue'
    BY <1>a, <2>1, UsersKeep
  <2> QED BY <1>a, <1>2, <1>3, <2>1, UsersEffect
<1>4. CASE UNCHANGED vars
  BY <1>2, <1>4 DEF vars
<1> QED BY <1>1, <1>3, <1>4 DEF Next, Done

(* The locals of the attempt. *)
LEMMA ScanStep ==
    ASSUME StageInv, [Next]_vars
    PROVE  ScanOK'
<1>a. ServerOK /\ ShapeOK /\ ScanOK /\ ListedOK
  BY DEF StageInv
<1>b. Ended => ScanOK'
  BY DEF Ended, ScanOK, AtFolders
<1>c. ASSUME NEW f \in Folders, f \in scan.todo, scan.phase \in AtFolders, Left(f) \/ Again(f) \/ Entered(f),
             Steady, plan' = plan, identity' = identity
      PROVE  ScanOK'
  <2>1. identity = plan /\ scan.todo \subseteq inventory[scan.side] /\ f # NoFolder
    BY <1>a, <1>c, Bounds DEF ScanOK, AtFolders
  <2>2. CASE Left(f)
    BY <1>c, <2>1, <2>2 DEF Left, ScanOK, AtFolders, Steady
  <2>3. CASE Again(f)
    BY <1>c, <2>1, <2>3 DEF Again, ScanOK, AtFolders, Steady
  <2>4. CASE Entered(f)
    BY <1>c, <2>1, <2>4 DEF Entered, ScanOK, AtFolders, Steady
  <2> QED BY <1>c, <2>2, <2>3, <2>4
<1>d. scan.phase = "paging" => scan.folder \in scan.todo
  BY <1>a DEF ScanOK, AtFolders
<1>e. /\ \A s, f : Deleted(s, f) \/ Begun(s, f) \/ Grown(s, f) \/ Completed(s, f) => identity' = identity
      /\ Unstaged \/ Dropped => identity' = identity
  BY DEF Deleted, Begun, Grown, Completed, Elsewhere, Unstaged, Dropped
<1>1. CASE OpenStage \/ Verify \/ CommitEvidence \/ Faults
  <2>0. plan' = plan
    BY <1>1, AttemptFrame DEF Apart
  <2>1. CASE OpenStage
    BY <1>a, <2>0, <2>1, OpenEffect DEF ScanOK, AtFolders
  <2>2. CASE ListAccount
    BY <1>a, <1>b, <1>e, <2>0, <2>2, ListEffect DEF ScanOK, AtFolders
  <2>3. CASE SelectFolder
    BY <1>a, <1>c, <1>e, <2>0, <2>3, SelectEffect DEF AtFolders
  <2>4. CASE FetchPage
    <3>1. CASE Left(scan.folder)
      BY <1>a, <1>c, <1>d, <1>e, <2>0, <2>4, <3>1, FetchEffect DEF AtFolders
    <3>2. CASE Grown(Here, scan.folder) /\ Going
      BY <1>a, <1>e, <2>0, <2>4, <3>2, FetchEffect DEF Going, ScanOK, AtFolders, Steady
    <3> QED BY <1>a, <2>4, <3>1, <3>2, FetchEffect
  <2>5. CASE EndScan
    BY <1>a, <1>c, <1>d, <1>e, <2>0, <2>5, EndScanEffect DEF AtFolders
  <2>6. CASE FinishAccount
    BY <1>a, <1>b, <1>e, <2>0, <2>6, FinishEffect DEF ScanOK, AtFolders
  <2>7. CASE Relist
    BY <1>a, <1>b, <1>e, <2>0, <2>7, RelistEffect DEF ScanOK, AtFolders
  <2>8. CASE Examine
    BY <1>a, <1>b, <1>e, <2>0, <2>8, ExamineEffect DEF ScanOK, AtFolders
  <2>9. CASE CommitEvidence
    BY <1>a, <1>b, <2>9, CommitEffect
  <2>10. CASE Faults
    BY <1>a, <1>b, <1>c, <1>d, <1>e, <2>0, <2>10, FaultEffect DEF AtFolders
  <2> QED BY <1>1, <2>1, <2>2, <2>3, <2>4, <2>5, <2>6, <2>7, <2>8, <2>9, <2>10 DEF Verify
<1>2. CASE Users
  <2>1. CASE Replan /\ scan.phase = "idle" /\ UNCHANGED <<scan, inventory>>
    BY <1>a, <2>1 DEF ScanOK, AtFolders
  <2>2. ASSUME NEW s \in Sides, NEW f \in Folders, OthersStay(s, f) PROVE ScanOK'
    BY <1>a, <2>2 DEF OthersStay, ScanOK
  <2> QED BY <1>a, <1>2, <2>1, <2>2, UsersEffect
<1>3. CASE UNCHANGED vars
  BY <1>a, <1>3 DEF vars, ScanOK
<1> QED BY <1>1, <1>2, <1>3 DEF Next, Done

(* A folder that counts as read after a step counted as read before it,     *)
(* unless it is the folder that the step was about.                         *)
LEMMA ScannedKept ==
    ASSUME NEW f \in Folders, scan.phase \in AtFolders, Steady, Left(f) \/ Again(f) \/ Entered(f),
           NEW t \in Sides, NEW g \in Folders, <<t, g>> # <<Here, f>>, Scanned(t, g)'
    PROVE  Scanned(t, g)
<1>1. inventory' = inventory
  BY DEF Steady
<1>2. CASE Left(f)
  BY <1>1, <1>2 DEF Left, Scanned, AtFolders, Here
<1>3. CASE Again(f)
  BY <1>1, <1>3 DEF Again, Scanned, AtFolders, Here
<1>4. CASE Entered(f)
  BY <1>1, <1>4 DEF Entered, Scanned, AtFolders, Here
<1> QED BY <1>2, <1>3, <1>4

(* Rows that stay keep their fingerprints. *)
LEMMA FreshKept ==
    ASSUME FreshOK, scan.phase # "idle", plan' = plan,
           \A s \in Sides, f \in Folders :
              \/ rows'[s][f] = {}
              \/ /\ rows'[s][f] = rows[s][f]
                 /\ Scanned(s, f)' => Scanned(s, f) \/ plan \notin BodyPlans
    PROVE  FreshOK'
BY DEF FreshOK

(* Fingerprints are of this attempt. *)
LEMMA FreshStep ==
    ASSUME StageInv, [Next]_vars
    PROVE  FreshOK'
<1>a. ServerOK /\ ShapeOK /\ ScanOK /\ FreshOK /\ ListedOK
  BY DEF StageInv
<1>b. Ended => FreshOK'
  BY DEF Ended, FreshOK
<1>c. ASSUME NEW f \in Folders, scan.phase \in AtFolders, Steady, plan' = plan,
             \/ Deleted(Here, f) /\ (Left(f) \/ Again(f))
             \/ Begun(Here, f) /\ Entered(f)
             \/ Unstaged /\ Entered(f) /\ plan \notin BodyPlans
             \/ (Unstaged \/ Completed(Here, f)) /\ Left(f) /\ Scanned(Here, f)
      PROVE  FreshOK'
  <2>1. ASSUME NEW t \in Sides, NEW g \in Folders
        PROVE  \/ rows'[t][g] = {}
               \/ /\ rows'[t][g] = rows[t][g]
                  /\ Scanned(t, g)' => Scanned(t, g) \/ plan \notin BodyPlans
    <3>1. CASE <<t, g>> # <<Here, f>>
      <4>1. rows'[t][g] = rows[t][g]
        BY <1>c, <3>1 DEF Deleted, Begun, Completed, Unstaged, Elsewhere
      <4> QED BY <1>c, <3>1, <4>1, ScannedKept
    <3>2. CASE <<t, g>> = <<Here, f>>
      BY <1>c, <3>2 DEF Deleted, Begun, Completed, Unstaged
    <3> QED BY <3>1, <3>2
  <2>2. scan.phase # "idle"
    BY <1>c DEF AtFolders
  <2> QED BY <1>a, <1>c, <2>1, <2>2, FreshKept
<1>d. scan.phase = "paging" => Scanned(Here, scan.folder) /\ scan.folder \in Folders
  BY <1>a, ScanFields DEF ScanOK, Scanned, AtFolders, Here
<1>1. CASE OpenStage \/ Verify \/ CommitEvidence \/ Faults
  <2>0. plan' = plan
    BY <1>1, AttemptFrame DEF Apart
  <2>1. CASE OpenStage
    <3>1. \A s \in Sides : inventory'[s] = {}
      BY <1>a, <2>1, OpenEffect DEF ScanOK, Steady
    <3>2. \A s \in Sides, f \in Folders : \A r \in rows'[s][f] : ~r.fingerprint
      BY <1>a, <2>1, OpenEffect DEF Stripped, Emptied
    <3> QED BY <3>1, <3>2 DEF FreshOK, Scanned
  <2>2. CASE ListAccount
    <3>1. CASE Ended
      BY <1>b, <3>1
    <3>2. CASE /\ Dropped /\ scan.phase = "listing" /\ scan'.phase = "selecting"
               /\ scan'.side = scan.side /\ scan'.todo = inventory'[scan.side]
               /\ \A t \in Sides : t # scan.side => inventory'[t] = inventory[t]
      <4>1. ASSUME NEW t \in Sides, NEW g \in Folders
            PROVE  \/ rows'[t][g] = {}
                   \/ rows'[t][g] = rows[t][g] /\ (Scanned(t, g)' => Scanned(t, g))
        BY <3>2 DEF Dropped, Scanned, AtFolders
      <4> QED BY <1>a, <2>0, <3>2, <4>1, FreshKept
    <3> QED BY <1>a, <2>2, <3>1, <3>2, ListEffect
  <2>3. CASE SelectFolder
    BY <1>a, <1>c, <2>0, <2>3, SelectEffect DEF AtFolders
  <2>4. CASE FetchPage
    <3>1. CASE Deleted(Here, scan.folder) /\ Left(scan.folder)
      BY <1>a, <1>c, <2>0, <2>4, <3>1, FetchEffect DEF AtFolders
    <3>2. CASE Grown(Here, scan.folder) /\ Going
      <4>1. scan.phase = "paging" /\ scan.folder \in Folders /\ Steady
        BY <1>a, <2>4, FetchEffect
      <4>2. ASSUME NEW t \in Sides, NEW g \in Folders PROVE Scanned(t, g)' <=> Scanned(t, g)
        BY <3>2, <4>1 DEF Going, Steady, Scanned
      <4>3. ASSUME NEW t \in Sides, NEW g \in Folders, NEW r \in rows'[t][g]
            PROVE  r \in rows[t][g] \/ (r.fingerprint <=> plan \in BodyPlans)
        <5>1. CASE <<t, g>> # <<Here, scan.folder>>
          BY <3>2, <4>3, <5>1 DEF Grown, Elsewhere
        <5>2. CASE <<t, g>> = <<Here, scan.folder>>
          <6>1. \/ r \in rows[t][g]
                \/ \E u \in Held(t, g) : r = Message(t, g, u, cursor[t][g].snapshot)
            BY <3>2, <4>3, <5>2 DEF Grown
          <6>2. ASSUME NEW u, r = Message(t, g, u, cursor[t][g].snapshot)
                PROVE  r.fingerprint <=> plan \in BodyPlans
            <7> DEFINE fp == plan \in BodyPlans
            <7>1. r = [uidvalidity |-> r.uidvalidity, uid |-> r.uid, mail |-> r.mail,
                       flags |-> r.flags, fingerprint |-> fp] /\ fp \in BOOLEAN
              BY <6>2 DEF Message
            <7> HIDE DEF fp
            <7>2. r.fingerprint = fp
              BY <7>1
            <7> QED BY <7>2 DEF fp
          <6> QED BY <6>1, <6>2
        <5> QED BY <5>1, <5>2
      <4>4. ASSUME NEW t \in Sides, NEW g \in Folders, NEW r \in rows'[t][g]
            PROVE  /\ r.fingerprint => plan \in BodyPlans
                   /\ Scanned(t, g)' /\ plan \in BodyPlans => r.fingerprint
        BY <1>a, <4>1, <4>2, <4>3 DEF FreshOK
      <4> QED BY <2>0, <4>4 DEF FreshOK
    <3> QED BY <1>a, <2>4, <3>1, <3>2, FetchEffect
  <2>5. CASE EndScan
    BY <1>a, <1>c, <1>d, <2>0, <2>5, EndScanEffect DEF AtFolders
  <2>6. CASE FinishAccount \/ Relist \/ Examine
    <3>1. CASE Ended
      BY <1>b, <3>1
    <3>2. CASE ~Ended
      <4>1. /\ Unstaged /\ scan.phase # "idle" /\ inventory' = inventory
            /\ scan'.phase \notin AtFolders /\ (scan.phase \in AtFolders => scan.todo = {})
        BY <1>a, <2>6, <3>2, FinishEffect, RelistEffect, ExamineEffect DEF Steady, AtFolders
      <4>2. ASSUME NEW t \in Sides, NEW g \in Folders PROVE Scanned(t, g)' => Scanned(t, g)
        BY <4>1 DEF Scanned
      <4> QED BY <1>a, <2>0, <4>1, <4>2, FreshKept DEF Unstaged
    <3> QED BY <3>1, <3>2
  <2>7. CASE CommitEvidence
    BY <1>a, <1>b, <2>7, CommitEffect
  <2>8. CASE Faults
    BY <1>a, <1>b, <1>c, <2>0, <2>8, FaultEffect DEF AtFolders
  <2> QED BY <1>1, <2>1, <2>2, <2>3, <2>4, <2>5, <2>6, <2>7, <2>8 DEF Verify
<1>2. CASE Users
  <2>1. CASE scan.phase = "idle" /\ UNCHANGED scan
    BY <2>1 DEF FreshOK
  <2>2. ASSUME NEW s \in Sides, NEW f \in Folders, OthersStay(s, f) PROVE FreshOK'
    BY <1>a, <2>2 DEF OthersStay, FreshOK, Scanned
  <2> QED BY <1>a, <1>2, <2>1, <2>2, UsersEffect
<1>3. CASE UNCHANGED vars
  BY <1>a, <1>3 DEF vars, FreshOK, Scanned
<1> QED BY <1>1, <1>2, <1>3 DEF Next, Done

(* What is staged is covered, and the folders examined are the staged ones. *)
LEMMA ListedStep ==
    ASSUME StageInv, [Next]_vars
    PROVE  ListedOK'
<1>a. ServerOK /\ ShapeOK /\ ScanOK /\ ListedOK
  BY DEF StageInv
<1>b. Ended => ListedOK'
  BY DEF Ended, ListedOK, Revalidating
<1>c. ASSUME scan'.phase \in Scanning PROVE ListedOK'
  BY <1>c DEF Scanning, ListedOK, Revalidating
<1>d. Unstaged => /\ \A s \in Sides : Covered(s)' <=> Covered(s)
                  /\ \A s \in Sides : CursorsOf(s)' = CursorsOf(s)
  BY DEF Unstaged, Covered, CursorsOf
<1>e. \A f : Left(f) \/ Again(f) \/ Entered(f) => scan'.phase \in Scanning
  BY DEF Left, Again, Entered, Scanning
<1>f. scan.side \in Sides /\ scan.round \in 1..3 /\ "source" \in Sides
  BY <1>a, ScanFields DEF Sides
<1>g. Rounds[1] = "source" /\ Rounds[2] = "destination" /\ Rounds[3] = "source"
  BY DEF Rounds
<1>1. CASE OpenStage \/ Verify \/ CommitEvidence \/ Faults
  <2>1. CASE OpenStage
    BY <1>a, <1>c, <2>1, OpenEffect DEF Scanning
  <2>2. CASE ListAccount
    BY <1>a, <1>b, <1>c, <2>2, ListEffect DEF Scanning
  <2>3. CASE SelectFolder
    BY <1>a, <1>c, <1>e, <2>3, SelectEffect
  <2>4. CASE FetchPage
    BY <1>a, <1>c, <1>e, <2>4, FetchEffect DEF Going, Scanning
  <2>5. CASE EndScan
    BY <1>a, <1>c, <1>e, <2>5, EndScanEffect
  <2>6. CASE FinishAccount
    <3>1. CASE scan'.phase = "relisting" /\ scan'.round = 1 /\ Unstaged /\ \A s \in Sides : Covered(s)
      BY <1>d, <3>1 DEF ListedOK, Revalidating
    <3>2. CASE Ended \/ scan'.phase = "listing"
      BY <1>b, <1>c, <3>2 DEF Scanning
    <3> QED BY <1>a, <2>6, <3>1, <3>2, FinishEffect
  <2>7. CASE Relist
    <3>1. CASE Ended
      BY <1>b, <3>1
    <3>2. CASE /\ scan.phase = "relisting" /\ Unstaged /\ scan'.phase = "examining"
               /\ scan'.round = scan.round /\ inventory' = inventory /\ scan'.side \in Sides
               /\ scan'.todo = inventory[scan'.side] /\ CursorsOf(scan'.side) = inventory[scan'.side]
      BY <1>a, <1>d, <1>f, <3>2 DEF ListedOK, Revalidating
    <3> QED BY <1>a, <2>7, <3>1, <3>2, RelistEffect
  <2>8. CASE Examine
    <3>1. CASE Ended
      BY <1>b, <3>1
    <3>2. CASE ~Ended
      <4>1. /\ scan.phase = "examining" /\ Unstaged /\ inventory' = inventory
            /\ \/ /\ scan'.phase = "examining" /\ scan'.side = scan.side /\ scan'.round = scan.round
                  /\ scan'.todo \subseteq scan.todo
               \/ scan'.phase = "relisting"
               \/ scan'.phase = "evidence"
        BY <1>a, <2>8, <3>2, ExamineEffect DEF Steady
      <4>2. CursorsOf("source") = inventory["source"]
        <5>1. CASE scan.round = 1
          BY <1>a, <1>g, <4>1, <5>1 DEF ScanOK, ListedOK
        <5>2. CASE scan.round # 1
          BY <1>a, <1>f, <4>1, <5>2 DEF ListedOK, Revalidating
        <5> QED BY <5>1, <5>2
      <4>3. /\ CursorsOf(scan.side) = inventory[scan.side] /\ scan.todo \subseteq inventory[scan.side]
            /\ \A s \in Sides : Covered(s)
        BY <1>a, <4>1 DEF ListedOK, Revalidating
      <4> QED BY <1>d, <1>f, <4>1, <4>2, <4>3 DEF ListedOK, Revalidating
    <3> QED BY <3>1, <3>2
  <2>9. CASE CommitEvidence
    BY <1>a, <1>b, <2>9, CommitEffect
  <2>10. CASE Faults
    BY <1>a, <1>b, <1>c, <1>e, <2>10, FaultEffect
  <2> QED BY <1>1, <2>1, <2>2, <2>3, <2>4, <2>5, <2>6, <2>7, <2>8, <2>9, <2>10 DEF Verify
<1>2. ASSUME UNCHANGED <<rows, cursor, scan, inventory>> PROVE ListedOK'
  BY <1>a, <1>2 DEF ListedOK, Covered, CursorsOf
<1>3. CASE Users
  <2>1. ASSUME NEW s \in Sides, NEW f \in Folders, OthersStay(s, f) PROVE ListedOK'
    BY <1>2, <2>1 DEF OthersStay
  <2> QED BY <1>a, <1>2, <1>3, <2>1, UsersEffect
<1>4. CASE UNCHANGED vars
  BY <1>2, <1>4 DEF vars
<1> QED BY <1>1, <1>3, <1>4 DEF Next, Done

(* When the destination is listed again and every folder of both accounts   *)
(* answers what is staged of it, the stage is true of both.                 *)
LEMMA AllAnswer ==
    ASSUME ServerOK, ShapeOK, StageTrue, ScanOK, FreshOK, ListedOK, scan.phase = "relisting",
           scan.round = 2, CursorsOf("destination") = inventory["destination"],
           \A s \in Sides : \A f \in inventory[s] : Answers(s, f)
    PROVE  StageIsTrue
<1> SUFFICES ASSUME NEW s \in Sides, NEW f \in Folders
             PROVE  IF f \in inventory[s] THEN StagedIsHeld(s, f) ELSE rows[s][f] = {}
  BY DEF StageIsTrue
<1>1. CursorsOf(s) = inventory[s]
  BY DEF ListedOK, Revalidating, Sides
<1>2. CASE f \notin inventory[s]
  BY <1>1, <1>2 DEF CursorsOf, StageTrue
<1>3. CASE f \in inventory[s]
  <2>1. Answers(s, f) /\ RowsTrue(s, f) /\ identity = plan /\ cursor[s][f] # NoCursor
    BY <1>3 DEF StageTrue, ScanOK, Answers
  <2>2. Cardinality(rows[s][f]) = cursor[s][f].snapshot.exists
    BY <2>1 DEF ListedOK, Revalidating, Covered
  <2>3. \A r \in rows[s][f] : r.fingerprint <=> plan \in BodyPlans
    BY <1>3 DEF FreshOK, Scanned, AtFolders
  <2>4. StagedIsHeld(s, f)
    BY <2>1, <2>2, <2>3, Staged
  <2> QED BY <1>3, <2>4
<1> QED BY <1>2, <1>3

(* A folder that no longer answers is still to be found out. *)
LEMMA JointStep ==
    ASSUME StageInv, [Next]_vars
    PROVE  JointOK'
<1>a. ServerOK /\ ShapeOK /\ StageTrue /\ ScanOK /\ FreshOK /\ ListedOK /\ JointOK
  BY DEF StageInv
<1>b. Ended => JointOK'
  BY DEF Ended, JointOK, Revalidating
<1>c. ASSUME scan'.phase \in Scanning PROVE JointOK'
  BY <1>c DEF Scanning, JointOK, Revalidating
<1>d. Apart /\ Unstaged => \A s \in Sides, f \in Folders : Answers(s, f)' <=> Answers(s, f)
  BY DEF Apart, Unstaged, Answers, Held
<1>e. \A f : Left(f) \/ Again(f) \/ Entered(f) => scan'.phase \in Scanning
  BY DEF Left, Again, Entered, Scanning
<1>f. scan.side \in Sides /\ scan.round \in 1..3 /\ \A s \in Sides : inventory[s] \subseteq Folders
  BY <1>a, ScanFields DEF ShapeOK
<1>g. Rounds[1] = "source" /\ Rounds[2] = "destination" /\ Rounds[3] = "source"
  BY DEF Rounds
<1>1. CASE OpenStage \/ Verify \/ CommitEvidence \/ Faults
  <2>0. Apart
    BY <1>1, AttemptFrame
  <2>1. CASE OpenStage
    BY <1>a, <1>c, <2>1, OpenEffect DEF Scanning
  <2>2. CASE ListAccount
    BY <1>a, <1>b, <1>c, <2>2, ListEffect DEF Scanning
  <2>3. CASE SelectFolder
    BY <1>a, <1>c, <1>e, <2>3, SelectEffect
  <2>4. CASE FetchPage
    BY <1>a, <1>c, <1>e, <2>4, FetchEffect DEF Going, Scanning
  <2>5. CASE EndScan
    BY <1>a, <1>c, <1>e, <2>5, EndScanEffect
  <2>6. CASE FinishAccount
    <3>1. CASE scan'.phase = "relisting" /\ scan'.round = 1
      BY <3>1 DEF JointOK, Revalidating
    <3>2. CASE Ended \/ scan'.phase = "listing"
      BY <1>b, <1>c, <3>2 DEF Scanning
    <3> QED BY <1>a, <2>6, <3>1, <3>2, FinishEffect
  <2>7. CASE Relist
    <3>1. CASE Ended
      BY <1>b, <3>1
    <3>2. CASE ~Ended
      <4>1. /\ scan.phase = "relisting" /\ Unstaged /\ scan'.phase = "examining"
            /\ scan'.round = scan.round /\ inventory' = inventory
            /\ scan'.side = Rounds[scan.round] /\ scan'.todo = inventory[scan'.side]
            /\ CursorsOf(scan'.side) = inventory[scan'.side]
            /\ joint' = IF scan'.side = "destination" THEN StageIsTrue ELSE joint
        BY <1>a, <2>7, <3>2, RelistEffect
      <4>2. CASE scan.round = 1
        BY <4>1, <4>2 DEF JointOK, Revalidating
      <4>3. CASE scan.round = 2
        <5>1. scan'.side = "destination" /\ scan'.todo = inventory["destination"] /\ joint' = StageIsTrue
          BY <1>g, <4>1, <4>3
        <5>2. CASE StageIsTrue
          BY <5>1, <5>2 DEF JointOK
        <5>3. CASE ~StageIsTrue
          <6>0. PICK s \in Sides : \E f \in inventory[s] : ~Answers(s, f)
            BY <1>a, <4>1, <4>3, <5>1, <5>3, AllAnswer
          <6>1. PICK f \in inventory[s] : ~Answers(s, f)
            BY <6>0
          <6>2. Pending(s, f)' /\ ~Answers(s, f)'
            BY <1>d, <1>f, <2>0, <4>1, <4>3, <5>1, <6>1 DEF Pending
          <6> QED BY <4>1, <6>1, <6>2 DEF JointOK
        <5> QED BY <5>2, <5>3
      <4>4. CASE scan.round = 3
        <5>1. scan'.side = "source" /\ scan'.todo = inventory["source"] /\ joint' = joint
          BY <1>g, <4>1, <4>4
        <5>2. CASE joint
          BY <5>1, <5>2 DEF JointOK
        <5>3. CASE ~joint
          <6>0. PICK s \in Sides : \E f \in inventory[s] : ~Answers(s, f) /\ Pending(s, f)
            BY <1>a, <4>1, <4>4, <5>3 DEF JointOK, Revalidating
          <6>1. PICK f \in inventory[s] : ~Answers(s, f) /\ Pending(s, f)
            BY <6>0
          <6>2. Pending(s, f)' /\ ~Answers(s, f)'
            BY <1>d, <1>f, <2>0, <4>1, <4>4, <5>1, <6>1 DEF Pending
          <6> QED BY <4>1, <6>1, <6>2 DEF JointOK
        <5> QED BY <5>2, <5>3
      <4> QED BY <1>f, <4>2, <4>3, <4>4
    <3> QED BY <3>1, <3>2
  <2>8. CASE Examine
    <3>1. CASE Ended
      BY <1>b, <3>1
    <3>2. CASE ~Ended
      <4>1. /\ scan.phase = "examining" /\ Unstaged /\ inventory' = inventory /\ joint' = joint
            /\ scan.side = Rounds[scan.round]
        BY <1>a, <2>8, <3>2, ExamineEffect DEF Steady, ScanOK
      <4>2. PICK g \in scan.todo :
              /\ Answers(scan.side, g)
              /\ \/ /\ scan.todo # {g} /\ scan'.phase = "examining" /\ scan'.side = scan.side
                    /\ scan'.round = scan.round /\ scan'.todo = scan.todo \ {g}
                 \/ /\ scan.todo = {g} /\ scan.round < 3 /\ scan'.phase = "relisting"
                    /\ scan'.round = scan.round + 1
                 \/ scan.todo = {g} /\ scan.round = 3 /\ scan'.phase = "evidence"
        BY <1>a, <2>8, <3>2, ExamineEffect
      <4>3. CASE scan.round = 1
        BY <4>2, <4>3 DEF JointOK, Revalidating
      <4>4. CASE joint
        BY <4>1, <4>4 DEF JointOK
      <4>5. CASE scan.round # 1 /\ ~joint
        <5>0. PICK s \in Sides : \E f \in inventory[s] : ~Answers(s, f) /\ Pending(s, f)
          BY <1>a, <1>f, <4>1, <4>5 DEF JointOK, Revalidating
        <5>1. PICK f \in inventory[s] : ~Answers(s, f) /\ Pending(s, f)
          BY <5>0
        <5>2. ~Answers(s, f)'
          BY <1>d, <1>f, <2>0, <4>1, <5>1
        <5>3. s = "source" \/ s = "destination"
          BY DEF Sides
        <5>4. Pending(s, f)'
          <6>1. CASE scan.round = 2
            <7>1. scan.side = "destination" /\ (s = "destination" => f \in scan.todo /\ f # g)
              BY <1>g, <4>1, <4>2, <5>1, <6>1 DEF Pending
            <7> QED BY <4>1, <4>2, <5>3, <6>1, <7>1 DEF Pending
          <6>2. CASE scan.round = 3
            <7>1. scan.side = "source" /\ s = "source" /\ f \in scan.todo /\ f # g
              BY <1>g, <4>1, <4>2, <5>1, <6>2 DEF Pending
            <7> QED BY <4>1, <4>2, <6>2, <7>1 DEF Pending
          <6> QED BY <1>f, <4>5, <6>1, <6>2
        <5> QED BY <4>1, <5>1, <5>2, <5>4 DEF JointOK
      <4> QED BY <4>3, <4>4, <4>5
    <3> QED BY <3>1, <3>2
  <2>9. CASE CommitEvidence
    BY <1>a, <1>b, <2>9, CommitEffect
  <2>10. CASE Faults
    BY <1>a, <1>b, <1>c, <1>e, <2>10, FaultEffect
  <2> QED BY <1>1, <2>1, <2>2, <2>3, <2>4, <2>5, <2>6, <2>7, <2>8, <2>9, <2>10 DEF Verify
<1>2. CASE Users
  <2>1. CASE scan.phase = "idle" /\ UNCHANGED scan
    BY <2>1 DEF JointOK, Revalidating
  <2>2. ASSUME NEW t \in Sides, NEW g \in Folders, ServerOK', Moved(t, g), OthersStay(t, g)
        PROVE  JointOK'
    <3>1. UNCHANGED <<scan, inventory, joint>>
      BY <2>2 DEF OthersStay
    <3>2. \A s \in Sides : \A f \in inventory[s] : ~Answers(s, f) => ~Answers(s, f)'
      BY <1>a, <1>f, <2>2, UsersKeep
    <3>3. \A s, f : Pending(s, f)' <=> Pending(s, f)
      BY <3>1 DEF Pending
    <3> QED BY <1>a, <3>1, <3>2, <3>3 DEF JointOK
  <2> QED BY <1>a, <1>2, <2>1, <2>2, UsersEffect
<1>3. CASE UNCHANGED vars
  BY <1>a, <1>3 DEF vars, JointOK, Pending, Answers, Held
<1> QED BY <1>1, <1>2, <1>3 DEF Next, Done

-----------------------------------------------------------------------------
(* The invariant, and what follows from it. *)

(* A folder that becomes complete in a step of the attempt is what is staged, *)
(* under its own name.                                                        *)
LEMMA CompleteStep ==
    ASSUME StageInv, [Next]_vars, NEW s \in Sides, NEW f \in Folders,
           cursor[s][f] # NoCursor, cursor'[s][f] # NoCursor,
           ~cursor[s][f].completed, cursor'[s][f].completed
    PROVE  server[s][f].there /\ StagedIsHeld(s, f)
<1>a. ServerOK /\ ShapeOK /\ StageTrue /\ ScanOK /\ FreshOK /\ ListedOK
  BY DEF StageInv
<1>b. cursor'[s][f] # cursor[s][f]
  OBVIOUS
<1>c. ~Unstaged /\ ~Dropped /\ ~Emptied /\ ~Stripped
  BY <1>b DEF Unstaged, Dropped, Emptied, Stripped
<1>d. \A t, g : ~Deleted(t, g) /\ ~Begun(t, g) /\ ~Grown(t, g)
  BY <1>b DEF Deleted, Begun, Grown, Elsewhere
<1>1. CASE OpenStage \/ Verify \/ CommitEvidence \/ Faults
  <2>1. CASE EndScan
    <3>1. /\ scan.phase = "paging" /\ Completed(Here, scan.folder) /\ Answers(Here, scan.folder)
          /\ server[Here][scan.folder].there
          /\ Cardinality(rows[Here][scan.folder]) = cursor[Here][scan.folder].snapshot.exists
      BY <1>a, <1>c, <1>d, <2>1, EndScanEffect
    <3>2. Here = s /\ scan.folder = f
      BY <1>b, <3>1 DEF Completed, Elsewhere
    <3>3. identity = plan /\ Scanned(s, f) /\ RowsTrue(s, f)
      BY <1>a, <3>1, <3>2 DEF ScanOK, Scanned, AtFolders, StageTrue, Here
    <3>4. \A r \in rows[s][f] : r.fingerprint <=> plan \in BodyPlans
      BY <1>a, <3>1, <3>3 DEF FreshOK
    <3>5. StagedIsHeld(s, f)
      BY <1>a, <3>1, <3>2, <3>3, <3>4, Staged
    <3> QED BY <3>1, <3>2, <3>5
  <2>2. CASE OpenStage \/ ListAccount \/ SelectFolder
    BY <1>a, <1>c, <1>d, <2>2, OpenEffect, ListEffect, SelectEffect
  <2>3. CASE FetchPage \/ FinishAccount \/ Relist \/ Examine
    BY <1>a, <1>c, <1>d, <2>3, FetchEffect, FinishEffect, RelistEffect, ExamineEffect
  <2>4. CASE CommitEvidence \/ Faults
    BY <1>a, <1>c, <1>d, <2>4, CommitEffect, FaultEffect
  <2> QED BY <1>1, <2>1, <2>2, <2>3, <2>4 DEF Verify
<1>2. CASE Users
  BY <1>a, <1>b, <1>2, UsersEffect DEF OthersStay
<1>3. CASE UNCHANGED vars
  BY <1>b, <1>3 DEF vars
<1> QED BY <1>1, <1>2, <1>3 DEF Next, Done

(* Two accounts with some folders, and nothing staged. *)
LEMMA InitInv == ASSUME Init PROVE StageInv
<1>1. PICK held \in InitialCounts :
          server = [s \in Sides |-> [f \in Folders |->
              [there |-> held[f] # 0, validity |-> 1, next |-> held[f] + 1,
               msgs |-> [u \in 1..held[f] |-> "unseen"], modseq |-> 1]]]
  BY DEF Init
<1>2. \A f \in Folders : held[f] \in 0..MaxUid
  BY StageConstants DEF Folders
<1>3. ServerOK
  <2>1. ASSUME NEW s \in Sides, NEW f \in Folders PROVE FolderOK(server[s][f], changes)
    <3> DEFINE n == held[f]
               h == n # 0
               m == [u \in 1..n |-> "unseen"]
               b == [there |-> h, validity |-> 1, next |-> n + 1, msgs |-> m, modseq |-> 1]
    <3>1. server[s][f] = b /\ changes = 0
      BY <1>1 DEF Init
    <3>2. n \in Nat /\ n + 1 \in 1..(MaxUid + 1) /\ 1..n \subseteq 1..((n + 1) - 1)
      BY <1>2, Bounds
    <3>3. h \in BOOLEAN /\ DOMAIN m = 1..n /\ m = [u \in DOMAIN m |-> m[u]]
          /\ \A u \in DOMAIN m : m[u] \in Flags
      BY DEF Flags
    <3> HIDE DEF n, h, m
    <3>4. /\ b.there = h /\ b.validity = 1 /\ b.next = n + 1 /\ b.msgs = m /\ b.modseq = 1
          /\ b = [there |-> b.there, validity |-> b.validity, next |-> b.next, msgs |-> b.msgs,
                  modseq |-> b.modseq]
      OBVIOUS
    <3> HIDE DEF b
    <3>5. FolderOK(b, 0)
      BY <3>2, <3>3, <3>4 DEF FolderOK
    <3> QED BY <3>1, <3>5
  <2>2. server = [s \in Sides |-> [f \in Folders |-> server[s][f]]]
    BY <1>1
  <2> QED BY <2>1, <2>2 DEF ServerOK
<1>4. scan \in ScanRow /\ scan.phase = "idle"
  <2>1. "idle" \in Active \cup {"idle", "evidence"} /\ "source" \in Sides /\ 1 \in 1..3
    BY DEF Sides
  <2> QED BY <2>1, RestFields DEF Init
<1>5. \A s \in Sides, f \in Folders : rows[s][f] = {} /\ cursor[s][f] = NoCursor
  BY DEF Init, EmptyStage, NoCursors
<1>6. ShapeOK
  <2>1. /\ rows \in [Sides -> [Folders -> SUBSET Rows]]
        /\ cursor \in [Sides -> [Folders -> Cursors \cup {NoCursor}]]
        /\ inventory \in [Sides -> SUBSET Folders]
    BY DEF Init, EmptyStage, NoCursors
  <2>2. attempts \in 0..MaxAttempts /\ changes \in 0..MaxChanges
    BY Bounds DEF Init
  <2>3. plan \in Plans /\ identity \in Plans \cup {NoPlan} /\ joint \in BOOLEAN
    BY DEF Init
  <2> QED BY <1>4, <2>1, <2>2, <2>3 DEF ShapeOK
<1>7. StageTrue
  BY <1>5 DEF StageTrue, Past, RowsTrue
<1>8. ScanOK /\ FreshOK /\ ListedOK /\ JointOK
  BY <1>4 DEF Init, ScanOK, FreshOK, ListedOK, JointOK, AtFolders, Revalidating
<1> QED BY <1>3, <1>6, <1>7, <1>8 DEF StageInv

(* The invariant is inductive. *)
LEMMA StageInvariant == Spec => []StageInv
<1>1. Init => StageInv
  BY InitInv
<1>2. StageInv /\ [Next]_vars => StageInv'
  BY ShapeStep, TrueStep, ScanStep, FreshStep, ListedStep, JointStep DEF StageInv
<1> QED BY <1>1, <1>2, PTL DEF Spec

(* Every variable of the verification has its type, and the retries and     *)
(* reconnects stay below their limits, whatever the users do meanwhile.     *)
THEOREM StageTypeOK == Spec => []TypeOK
<1>1. StageInv => TypeOK
  <2> SUFFICES ASSUME StageInv PROVE TypeOK
    OBVIOUS
  <2>1. ServerOK /\ ShapeOK
    BY DEF StageInv
  <2>2. ASSUME NEW s \in Sides, NEW f \in Folders
        PROVE  /\ server[s][f].there \in BOOLEAN
               /\ server[s][f].validity \in 1..(MaxChanges + 1)
               /\ server[s][f].next \in 1..(MaxUid + 1)
               /\ server[s][f].modseq \in 1..(MaxChanges + 1)
               /\ Held(s, f) \subseteq 1..(server[s][f].next - 1)
               /\ \A u \in Held(s, f) : server[s][f].msgs[u] \in Flags
    <3>1. FolderOK(server[s][f], changes) /\ changes \in 0..MaxChanges
      BY <2>1 DEF ServerOK, ShapeOK
    <3> QED BY <3>1, Bounds DEF FolderOK, Held
  <2>3. \A s \in Sides, f \in Folders :
          rows[s][f] \subseteq Rows /\ cursor[s][f] \in Cursors \cup {NoCursor}
    BY <2>1 DEF ShapeOK
  <2> QED BY <2>1, <2>2, <2>3 DEF TypeOK, ShapeOK, ScanRow
<1> QED BY <1>1, StageInvariant, PTL

(* Evidence does not mix states of the mail: when an attempt of             *)
(* run_imap_message_verification gets as far as the reconciliation, there   *)
(* was a moment of it at which the staged rows were exactly the messages of *)
(* the folders that both accounts listed, under whatever names users had    *)
(* them then.  It holds for any number of folders and messages and every    *)
(* interleaving of the model's users, faults and earlier attempts.          *)
THEOREM EvidenceWasHeldAlways == Spec => []EvidenceWasHeld
<1>1. StageInv => EvidenceWasHeld
  BY DEF StageInv, JointOK, Pending, EvidenceWasHeld
<1> QED BY <1>1, StageInvariant, PTL

(* complete_mailbox marks a folder complete only when its rows, those of an *)
(* earlier attempt's pages among them, are what the folder holds.           *)
THEOREM CompletesTruthfullyAlways == Spec => CompletesTruthfully
<1>1. StageInv /\ [Next]_vars =>
        [\A s \in Sides, f \in Folders :
          (cursor[s][f] # NoCursor /\ cursor'[s][f] # NoCursor
             /\ ~cursor[s][f].completed /\ cursor'[s][f].completed)
              => server[s][f].there /\ StagedIsHeld(s, f)]_vars
  BY CompleteStep
<1> QED BY <1>1, StageInvariant, PTL DEF Spec, CompletesTruthfully
=============================================================================
