----------------------- MODULE MailboxLifecycleProofs -----------------------
(***************************************************************************)
(* The lifecycle model keeps its types, and the owner of a mailbox is on   *)
(* its list.  A list reaches the ACL blob only from a request that carried *)
(* it, so the invariant speaks of the blob and of every list in flight.    *)
(***************************************************************************)
EXTENDS MailboxLifecycle, Sequences, FiniteSetTheorems, TLAPS

\* A list whose owner is on it, or none.
OwnedList(a) == a # None => a.owner \in a.members

\* The owner is on the list in R2 and on every list about to be put.
OwnedLists == OwnedList(acl) /\ \A s \in Workers : OwnedList(op[s].acl)

\* What each stage of a request carries: a creation about to write its ACL
\* has a caller, a reap is at one of its steps, a message has its number.
Stages ==
  \A s \in Workers :
    /\ op[s].kind = "create" /\ op[s].pc = "acl" => op[s].who # None
    /\ op[s].kind = "reap" => op[s].pc \in ReapSteps
    /\ op[s].kind = "trap" => op[s].who = None
    /\ op[s].kind = "deliver" => op[s].arg # None /\ op[s].blob # None

IInv == TypeOK /\ OwnedLists /\ Stages

LEMMA IdleIsRequest ==
  /\ Idle \in Request
  /\ OwnedList(Idle.acl) /\ Idle.kind = "idle"
BY DEF Idle, Request, OwnedList

LEMMA InitIInv == Init => IInv
<1>. SUFFICES ASSUME Init PROVE IInv
  OBVIOUS
<1>1. op \in [Workers -> Request] /\ \A s \in Workers : op[s] = Idle
  BY IdleIsRequest DEF Init
<1>0. 0 \in 0 .. MaxCreates /\ 0 \in 0 .. MaxFaults
  BY BoundsAreNaturals
<1>2. TypeOK
  <2>1. rows \subseteq Mails \X (0 .. MaxCreates) /\ objects \subseteq Mails
    BY DEF Init
  <2>2. op \in [Workers -> Request]
    BY <1>1
  <2>3. /\ trap \in BOOLEAN /\ expired \in BOOLEAN /\ agent \in BOOLEAN
        /\ schema \in BOOLEAN /\ stray \in BOOLEAN /\ misread \in BOOLEAN
    BY DEF Init
  <2>4. /\ blob \in Blob \cup {None} /\ acl \in MailboxAcl \cup {None}
        /\ creates \in 0 .. MaxCreates /\ faults \in 0 .. MaxFaults
    BY <1>0 DEF Init
  <2>. QED BY <2>1, <2>2, <2>3, <2>4 DEF TypeOK
<1>3. OwnedLists
  BY <1>1, IdleIsRequest DEF Init, OwnedLists, OwnedList
<1>4. Stages
  <2>1. \A s \in Workers : op[s].kind = "idle"
    BY <1>1, IdleIsRequest
  <2>. QED BY <2>1 DEF Stages
<1>. QED BY <1>2, <1>3, <1>4 DEF IInv

\* The lists the routes compute are lists, and keep their owner.
LEMMA ChangedLists ==
  ASSUME NEW a \in MailboxAcl, a.owner \in a.members,
         NEW kind \in AclKinds \ {"lockDown"}, NEW x,
         x \in (IF kind \in {"addGroup", "removeGroup"} THEN Groups ELSE Users)
  PROVE  /\ changedAcl(kind, a, x) \in MailboxAcl \cup {None}
         /\ OwnedList(changedAcl(kind, a, x))
<1>. DEFINE c == changedAcl(kind, a, x)
<1>1. CASE kind = "addMember"
  <2>1. c = addMember(a, x) /\ x \in Users
    BY <1>1 DEF changedAcl
  <2>. QED BY <2>1 DEF addMember, MailboxAcl, OwnedList
<1>2. CASE kind = "transfer"
  <2>1. c = transferOwner(a, x) /\ x \in Users
    BY <1>2 DEF changedAcl
  <2>. QED BY <2>1 DEF transferOwner, MailboxAcl, OwnedList
<1>3. CASE kind = "removeMember"
  <2>1. c = removeMember(a, x) /\ x \in Users
    BY <1>3 DEF changedAcl
  <2>. QED BY <2>1 DEF removeMember, MailboxAcl, OwnedList
<1>4. CASE kind = "addGroup"
  <2>1. c = addGroup(a, x) /\ x \in Groups
    BY <1>4 DEF changedAcl
  <2>. QED BY <2>1 DEF addGroup, MailboxAcl, OwnedList
<1>5. CASE kind = "removeGroup"
  <2>1. c = removeGroup(a, x) /\ x \in Groups
    BY <1>5 DEF changedAcl
  <2>. QED BY <2>1 DEF removeGroup, MailboxAcl, OwnedList
<1>. QED BY <1>1, <1>2, <1>3, <1>4, <1>5 DEF AclKinds

LEMMA FreshList ==
  ASSUME NEW who \in Users
  PROVE  lockDownAcl(who) \in MailboxAcl /\ OwnedList(lockDownAcl(who))
BY DEF lockDownAcl, MailboxAcl, OwnedList

\* A step that gives one request a new record keeps what is said of all of
\* them when it holds of that record.
Fits(r) ==
  /\ r \in Request /\ OwnedList(r.acl)
  /\ r.kind = "create" /\ r.pc = "acl" => r.who # None
  /\ r.kind = "reap" => r.pc \in ReapSteps
  /\ r.kind = "trap" => r.who = None
  /\ r.kind = "deliver" => r.arg # None /\ r.blob # None

LEMMA AllFit == IInv => \A s \in Workers : Fits(op[s])
BY DEF IInv, TypeOK, OwnedLists, Stages, Fits

LEMMA OneChange ==
  ASSUME IInv, NEW s \in Workers, NEW r, Fits(r), op' = [op EXCEPT ![s] = r]
  PROVE  /\ op' \in [Workers -> Request]
         /\ \A t \in Workers : OwnedList(op'[t].acl)
         /\ Stages'
<1>1. \A t \in Workers : op'[t] = IF t = s THEN r ELSE op[t]
  BY DEF IInv, TypeOK
<1>2. \A t \in Workers : Fits(op'[t])
  BY <1>1, AllFit
<1>3. op' \in [Workers -> Request]
  BY DEF IInv, TypeOK, Fits
<1>4. \A t \in Workers : OwnedList(op'[t].acl)
  BY <1>2 DEF Fits
<1>5. Stages'
  BY <1>2 DEF Fits, Stages
<1>. QED BY <1>3, <1>4, <1>5

LEMMA IdleFits == Fits(Idle)
BY IdleIsRequest DEF Fits, Idle

\* A step that leaves the stores alone and gives one request a fitting record.
LEMMA OnlyRequest ==
  ASSUME IInv, NEW s \in Workers, NEW r, Fits(r),
         op' = [op EXCEPT ![s] = r], UNCHANGED store
  PROVE  IInv'
BY OneChange DEF IInv, TypeOK, OwnedLists, store

\* The body a settings write went on with, and what it is about to put.
BodyRead(s, kind, r, old) ==
  /\ \/ old = blob /\ UNCHANGED <<faults, misread>>
     \/ old = noBody /\ faults < MaxFaults /\ faults' = faults + 1 /\ misread' = TRUE
  /\ op' = [op EXCEPT ![s] = [Start(s, "putBlob", "write") EXCEPT
        !.blob = CASE kind = "save" -> preserveOwnedMailboxFields(old)
                   [] kind = "addRule" -> appendRule(old, r)
                   [] kind = "dropRule" -> dropRule(old, r)]]

LEMMA ReadsBody ==
  ASSUME NEW s, NEW who, NEW kind, NEW r, readBlob(s, who, kind, r)
  PROVE  \E old \in {blob, noBody} : BodyRead(s, kind, r, old)
BY DEF readBlob, BodyRead

LEMMA StepIInv == IInv /\ [Next]_vars => IInv'
<1>. SUFFICES ASSUME IInv, [Next]_vars PROVE IInv'
  OBVIOUS
<1>. USE NoneIsFresh, CronIsFresh, BoundsAreNaturals
<1>t. TypeOK /\ OwnedLists /\ Stages /\ \A t \in Workers : Fits(op[t])
  BY AllFit DEF IInv
<1>1. ASSUME NEW s \in Slots, Admit(s) PROVE IInv'
  <2>s. s \in Workers
    BY DEF Workers
  <2>. PICK who \in Users \cup {None} :
         \/ beginCreate(s, who)
         \/ beginDelete(s, who)
         \/ \E r \in Rules \cup {None} : \E kind \in BlobKinds : readBlob(s, who, kind, r)
         \/ who # None /\ readLockDown(s, who)
         \/ \E kind \in AclKinds \ {"lockDown"}, x \in Users \cup Groups :
              readAcl(s, who, kind, x)
    BY <1>1 DEF Admit
  <2>1. CASE beginCreate(s, who)
    <3>. DEFINE r == [Start(s, IF trap THEN "trap" ELSE "create", "put") EXCEPT !.who = who]
    <3>1. Fits(r)
      BY <2>1 DEF beginCreate, Fits, Start, Idle, Request, OwnedList
    <3>. QED BY <2>1, <2>s, <3>1, OnlyRequest DEF beginCreate
  <2>2. CASE beginDelete(s, who)
    <3>1. Fits(Start(s, "delete", "delete"))
      BY DEF Fits, Start, Idle, Request, OwnedList
    <3>. QED BY <2>2, <2>s, <3>1, OnlyRequest DEF beginDelete
  <2>3. ASSUME NEW r \in Rules \cup {None}, NEW kind \in BlobKinds,
               readBlob(s, who, kind, r)
        PROVE IInv'
    <3>0. PICK old \in {blob, noBody} : BodyRead(s, kind, r, old)
      BY <2>3, ReadsBody
    <3>. DEFINE b == CASE kind = "save" -> preserveOwnedMailboxFields(old)
                       [] kind = "addRule" -> appendRule(old, r)
                       [] kind = "dropRule" -> dropRule(old, r)
                q == [Start(s, "putBlob", "write") EXCEPT !.blob = b]
    <3>1. old \in Blob
      BY <2>3, <3>0, <1>t DEF readBlob, requireMailbox, TypeOK, noBody, Blob, Honeypot
    <3>2. b \in Blob
      <4>1. CASE kind = "save"
        BY <4>1, <3>1 DEF preserveOwnedMailboxFields, Blob
      <4>2. CASE kind = "addRule"
        <5>1. r \in Rules
          BY <4>2, <2>3 DEF readBlob
        <5>. QED BY <5>1, <4>2, <3>1 DEF appendRule, Blob
      <4>3. CASE kind = "dropRule"
        BY <4>3, <3>1 DEF dropRule, Blob
      <4>. QED BY <4>1, <4>2, <4>3 DEF BlobKinds
    <3>. HIDE DEF b
    <3>3. Fits(q)
      BY <3>2 DEF Fits, Start, Idle, Request, OwnedList
    <3>4. op' = [op EXCEPT ![s] = q]
      BY <3>0 DEF BodyRead, b
    <3>. HIDE DEF q
    <3>5. /\ UNCHANGED <<trap, expired, blob, acl, rows, objects, agent, schema, creates, stray>>
          /\ misread' \in BOOLEAN
      BY <2>3, <3>0, <1>t DEF readBlob, BodyRead, TypeOK
    <3>6. faults' \in 0 .. MaxFaults
      BY <3>0, <1>t DEF BodyRead, TypeOK
    <3>. QED BY <2>s, <3>3, <3>4, <3>5, <3>6, <1>t, OneChange DEF IInv, TypeOK, OwnedLists
  <2>4. CASE who # None /\ readLockDown(s, who)
    <3>. DEFINE l == lockDownAcl(who)
                q == [Start(s, "putAcl", "write") EXCEPT !.acl = l]
    <3>1. l \in MailboxAcl /\ OwnedList(l)
      BY <2>4, FreshList
    <3>. HIDE DEF l
    <3>2. Fits(q)
      BY <3>1 DEF Fits, Start, Idle, Request
    <3>3. op' = [op EXCEPT ![s] = q] /\ UNCHANGED store
      BY <2>4 DEF readLockDown, l
    <3>. QED BY <2>s, <3>2, <3>3, OnlyRequest
  <2>5. ASSUME NEW kind \in AclKinds \ {"lockDown"}, NEW x \in Users \cup Groups,
               readAcl(s, who, kind, x)
        PROVE IInv'
    <3>. DEFINE l == changedAcl(kind, acl, x)
                q == [Start(s, "putAcl", "write") EXCEPT !.acl = l]
    <3>1. acl \in MailboxAcl /\ acl.owner \in acl.members
      BY <2>5, <1>t DEF readAcl, TypeOK, OwnedLists, OwnedList
    <3>2. l \in MailboxAcl \cup {None} /\ OwnedList(l)
      BY <2>5, <3>1, ChangedLists DEF readAcl
    <3>. HIDE DEF l
    <3>3. Fits(q)
      BY <3>2 DEF Fits, Start, Idle, Request
    <3>4. op' = [op EXCEPT ![s] = q] /\ UNCHANGED store
      BY <2>5 DEF readAcl, l
    <3>. QED BY <2>s, <3>3, <3>4, OnlyRequest
  <2>. QED BY <2>1, <2>2, <2>3, <2>4, <2>5
<1>2. ASSUME NEW s \in Slots, NEW m \in Mails, beginDelivery(s, m) PROVE IInv'
  <2>. DEFINE q == [Start(s, "deliver", "store") EXCEPT !.arg = m, !.blob = blob]
  <2>1. blob \in Blob /\ m # None /\ blob # None
    BY <1>2, <1>t DEF beginDelivery, TypeOK
  <2>2. Fits(q)
    BY <2>1 DEF Fits, Start, Idle, Request, OwnedList
  <2>. QED BY <1>2, <2>2, OnlyRequest DEF beginDelivery, Workers
<1>3. ASSUME NEW s \in Workers, Advance(s) PROVE IInv'
  <2>f. Fits(op[s]) /\ op[s] \in Request /\ op \in [Workers -> Request]
    BY <1>t DEF Fits, TypeOK
  <2>1. CASE writeAcl(s)
    <3>1. acl' \in MailboxAcl \cup {None} /\ OwnedList(acl')
      BY <2>1, <2>f DEF writeAcl, Fits, Request
    <3>. QED BY <2>1, <3>1, <1>t, IdleFits, OneChange
          DEF writeAcl, IInv, TypeOK, OwnedLists
  <2>2. CASE writeBlob(s)
    <3>1. blob' \in Blob \cup {None}
      BY <2>2, <2>f DEF writeBlob, Request
    <3>. QED BY <2>2, <3>1, <1>t, IdleFits, OneChange
          DEF writeBlob, IInv, TypeOK, OwnedLists
  <2>3. CASE putBlob(s)
    <3>. DEFINE p == IF op[s].who = None THEN "folders" ELSE "acl"
                q == [op[s] EXCEPT !.pc = p]
    <3>0. op' = [op EXCEPT ![s] = q]
      BY <2>3, <2>f DEF putBlob
    <3>1. Fits(q)
      BY <2>3, <2>f DEF putBlob, Fits, Request, OwnedList, ReapSteps
    <3>2. blob' \in Blob
      BY <2>3 DEF putBlob, Blob, Honeypot
    <3>. HIDE DEF q
    <3>3. creates' \in 0 .. MaxCreates /\ rows' \subseteq Mails \X (0 .. MaxCreates)
      BY <2>3, <1>t DEF putBlob, TypeOK
    <3>. QED BY <2>3, <3>0, <3>1, <3>2, <3>3, <1>t, OneChange
          DEF putBlob, IInv, TypeOK, OwnedLists
  <2>4. CASE putOwnerAcl(s)
    <3>. DEFINE q == [op[s] EXCEPT !.pc = "folders"]
    <3>0. op' = [op EXCEPT ![s] = q]
      BY <2>4, <2>f DEF putOwnerAcl
    <3>1. Fits(q)
      BY <2>4, <2>f DEF putOwnerAcl, Fits, Request, OwnedList
    <3>2. acl' \in MailboxAcl /\ OwnedList(acl')
      <4>1. op[s].who \in Users
        BY <2>4, <2>f DEF putOwnerAcl, Fits, Request
      <4>. QED BY <4>1, <2>4, FreshList DEF putOwnerAcl
    <3>. HIDE DEF q
    <3>3. stray' \in BOOLEAN
      BY <2>4 DEF putOwnerAcl
    <3>. QED BY <2>4, <3>0, <3>1, <3>2, <3>3, <1>t, OneChange
          DEF putOwnerAcl, IInv, TypeOK, OwnedLists
  <2>5. CASE getFolders(s)
    BY <2>5, IdleFits, OnlyRequest DEF getFolders
  <2>6. CASE deleteBlob(s)
    <3>1. Fits(Start(s, "reap", "keys"))
      BY DEF Fits, Start, Idle, Request, OwnedList, ReapSteps
    <3>. HIDE DEF Start
    <3>. QED BY <2>6, <3>1, <1>t, OneChange
          DEF deleteBlob, IInv, TypeOK, OwnedLists
  <2>r. ASSUME NEW keys \in SUBSET Mails, op[s].kind = "reap", op[s].pc # "acl",
               stepOn(s, keys)
        PROVE \E q : Fits(q) /\ op' = [op EXCEPT ![s] = q]
    <3>. DEFINE q == [op[s] EXCEPT !.pc = nextReapStep[op[s].pc], !.keys = keys]
    <3>1. op[s].pc \in ReapSteps \ {"acl"}
      BY <2>r, <2>f DEF Fits
    <3>2. nextReapStep[op[s].pc] \in ReapSteps
      BY <3>1 DEF nextReapStep, ReapSteps
    <3>3. op' = [op EXCEPT ![s] = q]
      BY <2>r, <2>f DEF stepOn
    <3>4. Fits(q)
      BY <3>2, <2>r, <2>f DEF Fits, Request, OwnedList, ReapSteps
    <3>. QED BY <3>3, <3>4
  <2>7. CASE listAllAttachmentKeys(s)
    <3>1. {r[1] : r \in rows} \in SUBSET Mails
      BY <1>t DEF TypeOK
    <3>. QED BY <2>7, <3>1, <2>r, OnlyRequest DEF listAllAttachmentKeys, reaping
  <2>8. CASE deleteObjects(s)
    <3>1. PICK q : Fits(q) /\ op' = [op EXCEPT ![s] = q]
      BY <2>8, <2>r, <2>f DEF deleteObjects, reaping, Request
    <3>. QED BY <2>8, <3>1, <1>t, OneChange
          DEF deleteObjects, IInv, TypeOK, OwnedLists
  <2>9. CASE resetMailbox(s)
    <3>1. PICK q : Fits(q) /\ op' = [op EXCEPT ![s] = q]
      BY <2>9, <2>r DEF resetMailbox, reaping
    <3>. QED BY <2>9, <3>1, <1>t, OneChange
          DEF resetMailbox, IInv, TypeOK, OwnedLists
  <2>10. CASE resetAgent(s)
    <3>1. PICK q : Fits(q) /\ op' = [op EXCEPT ![s] = q]
      BY <2>10, <2>r DEF resetAgent, reaping
    <3>. QED BY <2>10, <3>1, <1>t, OneChange
          DEF resetAgent, IInv, TypeOK, OwnedLists
  <2>11. CASE deleteMailboxAcl(s)
    <3>1. OwnedList(acl')
      BY <2>11 DEF deleteMailboxAcl, OwnedList
    <3>. QED BY <2>11, <3>1, <1>t, IdleFits, OneChange
          DEF deleteMailboxAcl, IInv, TypeOK, OwnedLists
  <2>12. CASE failReapStep(s)
    <3>1. PICK q : Fits(q) /\ op' = [op EXCEPT ![s] = q]
      <4>1. CASE op[s].pc = "acl"
        BY <4>1, <2>12, IdleFits DEF failReapStep
      <4>2. CASE op[s].pc # "acl"
        BY <4>2, <2>12, <2>r, <2>f DEF failReapStep, Request
      <4>. QED BY <4>1, <4>2
    <3>2. faults' \in 0 .. MaxFaults
      BY <2>12, <1>t DEF failReapStep, TypeOK
    <3>. QED BY <2>12, <3>1, <3>2, <1>t, OneChange
          DEF failReapStep, IInv, TypeOK, OwnedLists
  <2>13. CASE storeEmail(s)
    <3>. DEFINE q == IF op[s].blob.honeypot = "live"
                     THEN [op[s] EXCEPT !.pc = "count"] ELSE Idle
    <3>0. op' = [op EXCEPT ![s] = q]
      BY <2>13, <2>f DEF storeEmail
    <3>1. Fits(q)
      <4>1. CASE op[s].blob.honeypot = "live"
        <5>1. q = [op[s] EXCEPT !.pc = "count"]
          BY <4>1
        <5>2. /\ q \in Request /\ q.kind = op[s].kind /\ q.acl = op[s].acl
              /\ q.arg = op[s].arg /\ q.blob = op[s].blob
          BY <5>1, <2>f DEF Request
        <5>. QED BY <5>2, <2>13, <2>f DEF storeEmail, Fits
      <4>2. CASE op[s].blob.honeypot # "live"
        BY <4>2, IdleFits
      <4>. QED BY <4>1, <4>2
    <3>. HIDE DEF q
    <3>2. op[s].arg \in Mails
      BY <2>13, <2>f DEF storeEmail, Fits, Request
    <3>3. rows' \subseteq Mails \X (0 .. MaxCreates) /\ objects' \subseteq Mails
      BY <3>2, <2>13, <1>t DEF storeEmail, TypeOK
    <3>4. agent' \in BOOLEAN /\ stray' \in BOOLEAN
      BY <2>13 DEF storeEmail
    <3>. QED BY <2>13, <3>0, <3>1, <3>3, <3>4, <1>t, OneChange
          DEF storeEmail, IInv, TypeOK, OwnedLists
  <2>14. CASE refuseEmail(s)
    <3>1. op[s].arg \in Mails
      BY <2>14, <2>f DEF refuseEmail, Fits, Request
    <3>. QED BY <3>1, <2>14, <1>t, IdleFits, OneChange
          DEF refuseEmail, IInv, TypeOK, OwnedLists
  <2>15. ASSUME NEW overCap \in BOOLEAN, handleHoneypotInbound(s, overCap)
         PROVE IInv'
    <3>. DEFINE b == [blob EXCEPT !.honeypot = "off"]
                q == [Start(s, "putBlob", "write") EXCEPT !.blob = b]
    <3>1. CASE overCap /\ blob # None
      <4>1. b \in Blob
        BY <3>1, <1>t DEF TypeOK, Blob, Honeypot
      <4>. HIDE DEF b
      <4>2. Fits(q)
        BY <4>1 DEF Fits, Start, Idle, Request, OwnedList
      <4>3. op' = [op EXCEPT ![s] = q] /\ UNCHANGED store
        BY <2>15, <3>1 DEF handleHoneypotInbound, b
      <4>. QED BY <4>2, <4>3, OnlyRequest
    <3>2. CASE ~(overCap /\ blob # None)
      <4>1. op' = [op EXCEPT ![s] = Idle] /\ UNCHANGED store
        BY <2>15, <3>2 DEF handleHoneypotInbound
      <4>. QED BY <4>1, IdleFits, OnlyRequest
    <3>. QED BY <3>1, <3>2
  <2>. QED BY <1>3, <2>1, <2>2, <2>3, <2>4, <2>5, <2>6, <2>7, <2>8, <2>9,
             <2>10, <2>11, <2>12, <2>13, <2>14, <2>15 DEF Advance
<1>4. ASSUME NEW s \in Workers, lose(s) PROVE IInv'
  <2>1. faults' \in 0 .. MaxFaults
    BY <1>4, <1>t DEF lose, TypeOK
  <2>. QED BY <1>4, <2>1, <1>t, IdleFits, OneChange
        DEF lose, IInv, TypeOK, OwnedLists
<1>5. CASE reconstruct
  BY <1>5, <1>t DEF reconstruct, IInv, TypeOK, OwnedLists, Stages
<1>6. CASE expire
  BY <1>6, <1>t DEF expire, IInv, TypeOK, OwnedLists, Stages
<1>7. CASE reapExpiredHoneypots
  <2>1. Fits(Start(Cron, "cron", "delete")) /\ Cron \in Workers
    BY DEF Fits, Start, Idle, Request, OwnedList, Workers
  <2>. QED BY <1>7, <2>1, OnlyRequest DEF reapExpiredHoneypots
<1>8. CASE UNCHANGED vars
  BY <1>8, <1>t DEF vars, IInv, TypeOK, OwnedLists, Stages
<1>. QED BY <1>1, <1>2, <1>3, <1>4, <1>5, <1>6, <1>7, <1>8 DEF Next

-----------------------------------------------------------------------------
(* Honeypots stay honeypots while no settings write loses the body it      *)
(* reads: every blob in R2, and every blob a request is about to put, is   *)
(* one.                                                                    *)

TrapBlob(b) == b # None => b.honeypot # "no"

Baited == trap /\ ~misread

BlobFits(r) ==
  /\ r.kind = "putBlob" => r.blob # None
  /\ trap => r.kind # "create"
  /\ Baited => TrapBlob(r.blob)

Trapped ==
  /\ Baited => TrapBlob(blob)
  /\ \A s \in Workers : BlobFits(op[s])

LEMMA OneBlob ==
  ASSUME IInv, Trapped, NEW s \in Workers, NEW r, op' = [op EXCEPT ![s] = r],
         BlobFits(r), UNCHANGED <<trap, misread>>, Baited => TrapBlob(blob')
  PROVE  Trapped'
<1>1. \A t \in Workers : op'[t] = IF t = s THEN r ELSE op[t]
  BY DEF IInv, TypeOK
<1>2. \A t \in Workers : BlobFits(op[t]) => BlobFits(op[t])'
  BY <1>1 DEF BlobFits, Trapped, Baited
<1>3. \A t \in Workers : BlobFits(op'[t])
  BY <1>1 DEF Trapped
<1>4. \A t \in Workers : BlobFits(op[t])'
  BY <1>3 DEF BlobFits, Baited
<1>. QED BY <1>4 DEF Trapped, Baited

\* A request that keeps its kind and the blob it carries, or ends.
LEMMA BlobCarried ==
  ASSUME IInv, Trapped, NEW s \in Workers, NEW r, op' = [op EXCEPT ![s] = r],
         r = Idle \/ (r.kind = op[s].kind /\ r.blob = op[s].blob),
         UNCHANGED <<trap, misread>>, Baited => TrapBlob(blob')
  PROVE  Trapped'
<1>1. BlobFits(Idle) /\ BlobFits(op[s])
  BY DEF BlobFits, Trapped, Idle, TrapBlob
<1>2. BlobFits(r)
  BY <1>1 DEF BlobFits
<1>. QED BY <1>2, OneBlob

LEMMA AdmitTraps ==
  ASSUME IInv, Trapped, NEW s \in Slots, Admit(s) PROVE Trapped'
<1>s. s \in Workers /\ TypeOK
  BY DEF Workers, IInv
<1>. PICK who \in Users \cup {None} :
       \/ beginCreate(s, who)
       \/ beginDelete(s, who)
       \/ \E r \in Rules \cup {None} : \E kind \in BlobKinds : readBlob(s, who, kind, r)
       \/ who # None /\ readLockDown(s, who)
       \/ \E kind \in AclKinds \ {"lockDown"}, x \in Users \cup Groups :
            readAcl(s, who, kind, x)
  BY DEF Admit
<1>t. Baited => TrapBlob(blob)
  BY DEF Trapped
<1>1. ASSUME NEW r, op' = [op EXCEPT ![s] = r], BlobFits(r), UNCHANGED store PROVE Trapped'
  BY <1>1, <1>s, <1>t, OneBlob DEF store
<1>2. CASE beginCreate(s, who)
  <2>. DEFINE r == [Start(s, IF trap THEN "trap" ELSE "create", "put") EXCEPT !.who = who]
  <2>1. BlobFits(r)
    BY DEF BlobFits, Start, Idle, TrapBlob
  <2>. QED BY <1>1, <1>2, <2>1 DEF beginCreate
<1>3. CASE beginDelete(s, who)
  <2>1. BlobFits(Start(s, "delete", "delete"))
    BY DEF BlobFits, Start, Idle, TrapBlob
  <2>. QED BY <1>1, <1>3, <2>1 DEF beginDelete
<1>4. ASSUME NEW x \in Rules \cup {None}, NEW kind \in BlobKinds, readBlob(s, who, kind, x)
      PROVE  Trapped'
  <2>0. PICK old \in {blob, noBody} : BodyRead(s, kind, x, old)
    BY <1>4, ReadsBody
  <2>. DEFINE b == CASE kind = "save" -> preserveOwnedMailboxFields(old)
                     [] kind = "addRule" -> appendRule(old, x)
                     [] kind = "dropRule" -> dropRule(old, x)
              r == [Start(s, "putBlob", "write") EXCEPT !.blob = b]
  <2>1. old \in Blob /\ (x = None => kind = "save")
    BY <1>4, <2>0, <1>s DEF readBlob, requireMailbox, TypeOK, noBody, Blob, Honeypot
  <2>2. b \in Blob /\ b.honeypot = old.honeypot
    <3>1. CASE kind = "save"
      BY <2>1, <3>1 DEF preserveOwnedMailboxFields, Blob
    <3>2. CASE kind = "addRule"
      BY <1>4, <2>1, <3>2, NoneIsFresh DEF appendRule, Blob, readBlob
    <3>3. CASE kind = "dropRule"
      BY <2>1, <3>3 DEF dropRule, Blob
    <3>. QED BY <3>1, <3>2, <3>3 DEF BlobKinds
  <2>. HIDE DEF b
  <2>3. r.kind = "putBlob" /\ r.blob = b /\ b # None
    BY <2>2, NoneIsNoBlob DEF Start, Idle
  <2>4. op' = [op EXCEPT ![s] = r]
    BY <2>0 DEF BodyRead, b
  <2>. HIDE DEF r
  <2>5. CASE old = blob /\ UNCHANGED <<faults, misread>>
    <3>1. old # None
      BY <2>1, NoneIsNoBlob
    <3>2. BlobFits(r)
      BY <1>t, <2>2, <2>3, <2>5, <3>1 DEF BlobFits, TrapBlob
    <3>3. UNCHANGED store
      BY <1>4, <2>5 DEF readBlob, store
    <3>. QED BY <1>1, <2>4, <3>2, <3>3
  <2>6. CASE misread' = TRUE
    <3>1. trap' = trap /\ ~Baited'
      BY <1>4, <2>6 DEF readBlob, Baited
    <3>2. \A t \in Workers : op'[t] = IF t = s THEN r ELSE op[t]
      BY <1>s, <2>4 DEF TypeOK
    <3>3. \A t \in Workers : BlobFits(op[t])'
      BY <2>3, <3>1, <3>2 DEF Trapped, BlobFits
    <3>. QED BY <3>1, <3>3 DEF Trapped
  <2>. QED BY <2>0, <2>5, <2>6 DEF BodyRead
<1>5. CASE readLockDown(s, who)
  <2>. DEFINE r == [Start(s, "putAcl", "write") EXCEPT !.acl = lockDownAcl(who)]
  <2>1. BlobFits(r)
    BY DEF BlobFits, Start, Idle, TrapBlob
  <2>. QED BY <1>1, <1>5, <2>1 DEF readLockDown
<1>6. ASSUME NEW kind, NEW x, readAcl(s, who, kind, x) PROVE Trapped'
  <2>. DEFINE r == [Start(s, "putAcl", "write") EXCEPT !.acl = changedAcl(kind, acl, x)]
  <2>1. BlobFits(r)
    BY DEF BlobFits, Start, Idle, TrapBlob
  <2>. QED BY <1>1, <1>6, <2>1 DEF readAcl
<1>. QED BY <1>2, <1>3, <1>4, <1>5, <1>6

LEMMA AdvanceTraps ==
  ASSUME IInv, Trapped, NEW s \in Workers, Advance(s) PROVE Trapped'
<1>s. op \in [Workers -> Request] /\ op[s] \in Request /\ BlobFits(op[s])
      /\ blob \in Blob \cup {None} /\ (Baited => TrapBlob(blob))
  BY DEF IInv, TypeOK, Trapped
<1>1. CASE writeAcl(s)
  BY <1>1, <1>s, BlobCarried DEF writeAcl
<1>2. CASE writeBlob(s)
  BY <1>2, <1>s, BlobCarried DEF writeBlob, BlobFits
<1>3. CASE putBlob(s)
  <2>. DEFINE p == IF op[s].who = None THEN "folders" ELSE "acl"
  <2>1. op' = [op EXCEPT ![s] = [op[s] EXCEPT !.pc = p]]
    BY <1>3, <1>s DEF putBlob
  <2>2. Baited => TrapBlob(blob')
    BY <1>3, <1>s DEF putBlob, BlobFits, TrapBlob, Baited
  <2>3. [op[s] EXCEPT !.pc = p].kind = op[s].kind /\ [op[s] EXCEPT !.pc = p].blob = op[s].blob
    BY <1>s DEF Request
  <2>. QED BY <1>3, <2>1, <2>2, <2>3, BlobCarried DEF putBlob
<1>4. CASE putOwnerAcl(s)
  <2>1. op' = [op EXCEPT ![s] = [op[s] EXCEPT !.pc = "folders"]]
    BY <1>4, <1>s DEF putOwnerAcl
  <2>2. /\ [op[s] EXCEPT !.pc = "folders"].kind = op[s].kind
        /\ [op[s] EXCEPT !.pc = "folders"].blob = op[s].blob
    BY <1>s DEF Request
  <2>. QED BY <1>4, <1>s, <2>1, <2>2, BlobCarried DEF putOwnerAcl
<1>5. CASE getFolders(s)
  BY <1>5, <1>s, BlobCarried DEF getFolders, store
<1>6. CASE deleteBlob(s)
  <2>1. BlobFits(Start(s, "reap", "keys")) /\ TrapBlob(None)
    BY DEF BlobFits, Start, Idle, TrapBlob
  <2>. QED BY <1>6, <2>1, OneBlob DEF deleteBlob
<1>7. ASSUME NEW keys, stepOn(s, keys), UNCHANGED <<trap, misread, blob>> PROVE Trapped'
  <2>. DEFINE r == [op[s] EXCEPT !.pc = nextReapStep[op[s].pc], !.keys = keys]
  <2>1. op' = [op EXCEPT ![s] = r]
    BY <1>7, <1>s DEF stepOn
  <2>2. r.kind = op[s].kind /\ r.blob = op[s].blob
    BY <1>s DEF Request
  <2>. QED BY <1>7, <1>s, <2>1, <2>2, BlobCarried
<1>8. CASE \/ listAllAttachmentKeys(s) \/ deleteObjects(s) \/ resetMailbox(s)
           \/ resetAgent(s) \/ deleteMailboxAcl(s) \/ failReapStep(s)
  BY <1>7, <1>8, <1>s, BlobCarried
  DEF listAllAttachmentKeys, deleteObjects, resetMailbox, resetAgent, deleteMailboxAcl,
      failReapStep, store
<1>9. CASE storeEmail(s)
  <2>1. CASE op[s].blob.honeypot = "live"
    <3>1. op' = [op EXCEPT ![s] = [op[s] EXCEPT !.pc = "count"]]
      BY <1>9, <2>1, <1>s DEF storeEmail
    <3>2. /\ [op[s] EXCEPT !.pc = "count"].kind = op[s].kind
          /\ [op[s] EXCEPT !.pc = "count"].blob = op[s].blob
      BY <1>s DEF Request
    <3>. QED BY <1>9, <1>s, <3>1, <3>2, BlobCarried DEF storeEmail
  <2>2. CASE op[s].blob.honeypot # "live"
    BY <1>9, <2>2, <1>s, BlobCarried DEF storeEmail
  <2>. QED BY <2>1, <2>2
<1>10. CASE refuseEmail(s)
  BY <1>10, <1>s, BlobCarried DEF refuseEmail
<1>11. ASSUME NEW overCap \in BOOLEAN, handleHoneypotInbound(s, overCap) PROVE Trapped'
  <2>. DEFINE b == [blob EXCEPT !.honeypot = "off"]
              r == [Start(s, "putBlob", "write") EXCEPT !.blob = b]
  <2>1. CASE overCap /\ blob # None
    <3>1. b \in Blob /\ b.honeypot = "off"
      BY <1>s, <2>1 DEF Blob, Honeypot
    <3>. HIDE DEF b
    <3>2. BlobFits(r)
      BY <3>1, NoneIsNoBlob DEF BlobFits, Start, Idle, TrapBlob
    <3>3. op' = [op EXCEPT ![s] = r] /\ UNCHANGED store
      BY <1>11, <2>1 DEF handleHoneypotInbound, b
    <3>. QED BY <1>s, <3>2, <3>3, OneBlob DEF store
  <2>2. CASE ~(overCap /\ blob # None)
    BY <1>11, <2>2, <1>s, BlobCarried DEF handleHoneypotInbound, store
  <2>. QED BY <2>1, <2>2
<1>. QED BY <1>1, <1>2, <1>3, <1>4, <1>5, <1>6, <1>8, <1>9, <1>10, <1>11 DEF Advance

LEMMA StepTrapped == IInv /\ Trapped /\ [Next]_vars => Trapped'
<1>. SUFFICES ASSUME IInv, Trapped, [Next]_vars PROVE Trapped'
  OBVIOUS
<1>1. ASSUME NEW s \in Slots, NEW m \in Mails, beginDelivery(s, m) PROVE Trapped'
  <2>. DEFINE r == [Start(s, "deliver", "store") EXCEPT !.arg = m, !.blob = blob]
  <2>1. BlobFits(r)
    BY DEF BlobFits, Start, Idle, TrapBlob, Trapped
  <2>. QED BY <1>1, <2>1, OneBlob DEF beginDelivery, store, Workers, Trapped
<1>2. ASSUME NEW s \in Workers, lose(s) PROVE Trapped'
  BY <1>2, BlobCarried DEF lose, Trapped
<1>3. CASE reconstruct \/ expire \/ UNCHANGED vars
  BY <1>3 DEF reconstruct, expire, vars, Trapped, BlobFits, Baited
<1>4. CASE reapExpiredHoneypots
  <2>1. BlobFits(Start(Cron, "cron", "delete")) /\ Cron \in Workers
    BY DEF BlobFits, Start, Idle, TrapBlob, Workers
  <2>. QED BY <1>4, <2>1, OneBlob DEF reapExpiredHoneypots, store, Trapped
<1>. QED BY <1>1, <1>2, <1>3, <1>4, AdmitTraps, AdvanceTraps DEF Next
-----------------------------------------------------------------------------
(* What a reap leaves: nothing, while no request of before the deletion    *)
(* writes and no call fails.                                               *)

Reaping(s) == op[s].kind = "reap"
Undisturbed == faults = 0 /\ ~stray

\* How far a reap has come.
ReapedSoFar(r) ==
  /\ r.pc = "objects" => objects \subseteq r.keys
  /\ r.pc \in {"resetMailbox", "resetAgent", "acl"} => objects = {}
  /\ r.pc \in {"resetAgent", "acl"} => rows = {}
  /\ r.pc = "acl" => ~agent

Swept ==
  /\ objects \subseteq {r[1] : r \in rows}
  /\ ~schema => rows = {}
  /\ \A s \in Workers : Reaping(s) => ReapedSoFar(op[s])
  /\ blob = None /\ (\A s \in Workers : ~Reaping(s)) => rows = {} /\ ~agent /\ acl = None

SweptInv == Undisturbed => Swept

\* A step of a request that reaps nothing and takes nothing away.
LEMMA Bystander ==
  ASSUME IInv, SweptInv, NEW s \in Workers, NEW r, op' = [op EXCEPT ![s] = r],
         ~Reaping(s), r.kind # "reap",
         Undisturbed' =>
           /\ Undisturbed /\ UNCHANGED <<objects, rows, schema, agent>>
           /\ blob' = None => blob = None /\ acl' = acl
  PROVE  SweptInv'
<1>. SUFFICES ASSUME Undisturbed' PROVE Swept'
  BY DEF SweptInv
<1>1. Swept /\ UNCHANGED <<objects, rows, schema, agent>>
      /\ (blob' = None => blob = None /\ acl' = acl)
  BY DEF SweptInv
<1>2. \A t \in Workers : op'[t] = IF t = s THEN r ELSE op[t]
  BY DEF IInv, TypeOK
<1>3. \A t \in Workers : Reaping(t)' <=> Reaping(t) /\ t # s
  BY <1>2 DEF Reaping
<1>4. \A t \in Workers : Reaping(t)' => ReapedSoFar(op'[t])
  BY <1>1, <1>2, <1>3 DEF Swept
<1>5. \A t \in Workers : Reaping(t)' => ReapedSoFar(op[t])'
  BY <1>1, <1>4 DEF ReapedSoFar
<1>6. (\A t \in Workers : ~Reaping(t)') => \A t \in Workers : ~Reaping(t)
  BY <1>3
<1>7. blob' = None /\ (\A t \in Workers : ~Reaping(t)') => rows' = {} /\ ~agent' /\ acl' = None
  BY <1>1, <1>6 DEF Swept
<1>. QED BY <1>1, <1>5, <1>7 DEF Swept

\* A step of a reap that leads to another of its steps.
LEMMA ReapMoves ==
  ASSUME IInv, Swept, NEW s \in Workers, NEW r, op' = [op EXCEPT ![s] = r],
         r.kind = "reap", ReapedSoFar(r)',
         objects' \subseteq objects, rows' \subseteq rows, agent' => agent,
         objects' \subseteq {m[1] : m \in rows'}, ~schema' => rows' = {}
  PROVE  Swept'
<1>1. \A t \in Workers : op'[t] = IF t = s THEN r ELSE op[t]
  BY DEF IInv, TypeOK
<1>2. \A t \in Workers \ {s} : Reaping(t)' => ReapedSoFar(op[t])'
  <2>. SUFFICES ASSUME NEW t \in Workers \ {s}, Reaping(t)' PROVE ReapedSoFar(op[t])'
    OBVIOUS
  <2>1. Reaping(t) /\ op'[t] = op[t]
    BY <1>1 DEF Reaping
  <2>2. ReapedSoFar(op[t])
    BY <2>1 DEF Swept
  <2>. QED BY <2>1, <2>2 DEF ReapedSoFar
<1>3. ReapedSoFar(op[s])' /\ Reaping(s)'
  BY <1>1 DEF ReapedSoFar, Reaping
<1>. QED BY <1>2, <1>3 DEF Swept

LEMMA AdvanceSweeps ==
  ASSUME IInv, Trapped, SweptInv, NEW s \in Workers, Advance(s) PROVE SweptInv'
<1>s. op \in [Workers -> Request] /\ op[s] \in Request /\ faults \in 0 .. MaxFaults
      /\ rows \subseteq Mails \X (0 .. MaxCreates)
  BY DEF IInv, TypeOK
<1>r. Reaping(s) => op[s].pc \in ReapSteps
  BY DEF IInv, Stages, Reaping
<1>i. Idle.kind = "idle"
  BY DEF Idle
<1>1. CASE writeAcl(s)
  <2>1. Undisturbed' => Undisturbed /\ blob # None
    BY <1>1 DEF writeAcl, Undisturbed, absent
  <2>. QED BY <1>1, <1>i, <2>1, Bystander DEF writeAcl, Reaping
<1>2. CASE writeBlob(s)
  <2>1. blob' # None
    BY <1>2 DEF writeBlob, Trapped, BlobFits
  <2>2. Undisturbed' => Undisturbed
    BY <1>2 DEF writeBlob, Undisturbed
  <2>. QED BY <1>2, <1>i, <2>1, <2>2, Bystander DEF writeBlob, Reaping
<1>3. CASE putBlob(s)
  <2>. DEFINE p == IF op[s].who = None THEN "folders" ELSE "acl"
  <2>1. op' = [op EXCEPT ![s] = [op[s] EXCEPT !.pc = p]]
    BY <1>3, <1>s DEF putBlob
  <2>2. [op[s] EXCEPT !.pc = p].kind = op[s].kind
    BY <1>s DEF Request
  <2>3. blob' # None
    <3>1. blob' \in Blob
      BY <1>3 DEF putBlob, Blob, Honeypot
    <3>. QED BY <3>1, NoneIsNoBlob
  <2>4. (Undisturbed' => Undisturbed) /\ UNCHANGED <<objects, rows, schema, agent>>
    BY <1>3 DEF putBlob, Undisturbed
  <2>5. op[s].kind # "reap" /\ ~Reaping(s)
    BY <1>3 DEF putBlob, Reaping
  <2>. HIDE DEF p
  <2>. QED BY <2>1, <2>2, <2>3, <2>4, <2>5, Bystander
<1>4. CASE putOwnerAcl(s)
  <2>1. op' = [op EXCEPT ![s] = [op[s] EXCEPT !.pc = "folders"]]
    BY <1>4, <1>s DEF putOwnerAcl
  <2>2. [op[s] EXCEPT !.pc = "folders"].kind = op[s].kind
    BY <1>s DEF Request
  <2>3. Undisturbed' => Undisturbed /\ blob # None
    BY <1>4 DEF putOwnerAcl, Undisturbed, absent
  <2>. QED BY <1>4, <2>1, <2>2, <2>3, Bystander DEF putOwnerAcl, Reaping
<1>5. CASE getFolders(s)
  <2>1. ~Reaping(s) /\ (Undisturbed' => Undisturbed)
    BY <1>5, <1>r DEF getFolders, ReapSteps, Undisturbed, store
  <2>. QED BY <1>5, <1>i, <2>1, Bystander DEF getFolders, store
<1>m. ASSUME Undisturbed' => Undisturbed,
             NEW r, op' = [op EXCEPT ![s] = r], r.kind = "reap",
             Undisturbed /\ Swept =>
               /\ ReapedSoFar(r)'
               /\ objects' \subseteq objects /\ rows' \subseteq rows /\ (agent' => agent)
               /\ objects' \subseteq {m[1] : m \in rows'}
               /\ (~schema' => rows' = {})
      PROVE  SweptInv'
  BY <1>m, ReapMoves DEF SweptInv
<1>6. CASE deleteBlob(s)
  <2>. DEFINE r == Start(s, "reap", "keys")
  <2>1. r.kind = "reap" /\ r.pc = "keys"
    BY DEF Start, Idle
  <2>2. ReapedSoFar(r)'
    BY <2>1 DEF ReapedSoFar
  <2>3. Undisturbed' => Undisturbed
    BY <1>6 DEF deleteBlob, Undisturbed
  <2>4. Swept => objects \subseteq {m[1] : m \in rows} /\ (~schema => rows = {})
    BY DEF Swept
  <2>. HIDE DEF r
  <2>5. op' = [op EXCEPT ![s] = r] /\ UNCHANGED <<objects, rows, agent, schema>>
    BY <1>6 DEF deleteBlob, r
  <2>. QED BY <1>m, <2>1, <2>2, <2>3, <2>4, <2>5
<1>n. ASSUME NEW keys \in SUBSET Mails, Reaping(s), op[s].pc # "acl", stepOn(s, keys)
      PROVE  \E r : /\ op' = [op EXCEPT ![s] = r] /\ r.kind = "reap" /\ r.keys = keys
                    /\ r.pc = nextReapStep[op[s].pc]
  <2>. DEFINE r == [op[s] EXCEPT !.pc = nextReapStep[op[s].pc], !.keys = keys]
  <2>1. op' = [op EXCEPT ![s] = r]
    BY <1>n, <1>s DEF stepOn
  <2>2. r.kind = "reap" /\ r.keys = keys /\ r.pc = nextReapStep[op[s].pc]
    BY <1>n, <1>s DEF Request, Reaping
  <2>. QED BY <2>1, <2>2
<1>q. /\ nextReapStep["keys"] = "objects" /\ nextReapStep["objects"] = "resetMailbox"
      /\ nextReapStep["resetMailbox"] = "resetAgent" /\ nextReapStep["resetAgent"] = "acl"
  BY DEF nextReapStep
<1>w. Swept => /\ objects \subseteq {m[1] : m \in rows} /\ (~schema => rows = {})
               /\ (Reaping(s) => ReapedSoFar(op[s]))
  BY DEF Swept
<1>7. CASE listAllAttachmentKeys(s)
  <2>1. {m[1] : m \in rows} \in SUBSET Mails
    BY <1>s
  <2>2. PICK r : /\ op' = [op EXCEPT ![s] = r] /\ r.kind = "reap"
                 /\ r.keys = {m[1] : m \in rows} /\ r.pc = "objects"
    BY <1>7, <1>n, <1>q, <2>1 DEF listAllAttachmentKeys, reaping, Reaping
  <2>3. UNCHANGED <<objects, rows, agent, schema>> /\ (Undisturbed' => Undisturbed)
    BY <1>7 DEF listAllAttachmentKeys, store, Undisturbed
  <2>4. Swept => ReapedSoFar(r)'
    BY <1>w, <2>2, <2>3 DEF ReapedSoFar
  <2>. QED BY <1>m, <1>w, <2>2, <2>3, <2>4
<1>8. CASE deleteObjects(s)
  <2>1. op[s].keys \in SUBSET Mails
    BY <1>s DEF Request
  <2>2. PICK r : /\ op' = [op EXCEPT ![s] = r] /\ r.kind = "reap" /\ r.pc = "resetMailbox"
    BY <1>8, <1>n, <1>q, <2>1 DEF deleteObjects, reaping, Reaping
  <2>3. objects' = objects \ op[s].keys /\ UNCHANGED <<rows, agent, schema>>
        /\ (Undisturbed' => Undisturbed) /\ Reaping(s) /\ op[s].pc = "objects"
    BY <1>8 DEF deleteObjects, Undisturbed, reaping, Reaping
  <2>4. Swept => objects' = {}
    BY <1>w, <2>3 DEF ReapedSoFar
  <2>5. Swept => ReapedSoFar(r)'
    BY <2>2, <2>4 DEF ReapedSoFar
  <2>. QED BY <1>m, <1>w, <2>2, <2>3, <2>4, <2>5
<1>9. CASE resetMailbox(s)
  <2>2. PICK r : /\ op' = [op EXCEPT ![s] = r] /\ r.kind = "reap" /\ r.pc = "resetAgent"
    BY <1>9, <1>n, <1>q DEF resetMailbox, reaping, Reaping
  <2>3. rows' = {} /\ UNCHANGED <<objects, agent>>
        /\ (Undisturbed' => Undisturbed) /\ Reaping(s) /\ op[s].pc = "resetMailbox"
    BY <1>9 DEF resetMailbox, Undisturbed, reaping, Reaping
  <2>4. Swept => objects' = {}
    BY <1>w, <2>3 DEF ReapedSoFar
  <2>5. Swept => ReapedSoFar(r)'
    BY <2>2, <2>3, <2>4 DEF ReapedSoFar
  <2>. QED BY <1>m, <2>2, <2>3, <2>4, <2>5
<1>10. CASE resetAgent(s)
  <2>2. PICK r : /\ op' = [op EXCEPT ![s] = r] /\ r.kind = "reap" /\ r.pc = "acl"
    BY <1>10, <1>n, <1>q DEF resetAgent, reaping, Reaping
  <2>3. ~agent' /\ UNCHANGED <<objects, rows, schema>>
        /\ (Undisturbed' => Undisturbed) /\ Reaping(s) /\ op[s].pc = "resetAgent"
    BY <1>10 DEF resetAgent, Undisturbed, reaping, Reaping
  <2>4. Swept => ReapedSoFar(r)'
    BY <1>w, <2>2, <2>3 DEF ReapedSoFar
  <2>. QED BY <1>m, <1>w, <2>2, <2>3, <2>4
<1>11. CASE deleteMailboxAcl(s)
  <2>1. op' = [op EXCEPT ![s] = Idle] /\ acl' = None /\ UNCHANGED <<objects, rows, agent, schema>>
        /\ (Undisturbed' => Undisturbed) /\ Reaping(s) /\ op[s].pc = "acl"
    BY <1>11 DEF deleteMailboxAcl, Undisturbed, reaping, Reaping
  <2>. SUFFICES ASSUME Swept PROVE Swept'
    BY <2>1 DEF SweptInv
  <2>2. objects = {} /\ rows = {} /\ ~agent
    BY <1>w, <2>1 DEF ReapedSoFar
  <2>3. \A t \in Workers : op'[t] = IF t = s THEN Idle ELSE op[t]
    BY <2>1, <1>s
  <2>4. \A t \in Workers : ReapedSoFar(op[t])'
    BY <2>1, <2>2 DEF ReapedSoFar
  <2>. QED BY <2>1, <2>2, <2>4 DEF Swept
<1>12. CASE failReapStep(s)
  <2>1. Undisturbed' => faults = 0 /\ ~(faults < MaxFaults) /\ Undisturbed
    BY <1>12, <1>s, BoundsAreNaturals DEF failReapStep, Undisturbed
  <2>. SUFFICES ASSUME Undisturbed' PROVE SweptInv'
    BY DEF SweptInv
  <2>2. Reaping(s) /\ op[s].pc = "keys" /\ ~schema /\ stepOn(s, op[s].keys)
        /\ UNCHANGED <<objects, rows, agent, schema>>
    BY <1>12, <2>1 DEF failReapStep, Reaping
  <2>3. op[s].keys \in SUBSET Mails
    BY <1>s DEF Request
  <2>4. PICK r : op' = [op EXCEPT ![s] = r] /\ r.kind = "reap" /\ r.pc = "objects"
    BY <1>n, <1>q, <2>2, <2>3
  <2>5. Swept => objects = {}
    BY <1>w, <2>2
  <2>6. Swept => ReapedSoFar(r)'
    BY <2>2, <2>4, <2>5 DEF ReapedSoFar
  <2>. QED BY <1>m, <1>w, <2>1, <2>2, <2>4, <2>5, <2>6
<1>13. CASE storeEmail(s)
  <2>. SUFFICES ASSUME Undisturbed' PROVE Swept'
    BY DEF SweptInv
  <2>1. Swept /\ blob # None /\ (\A t \in Workers : ~Reaping(t)) /\ schema
    BY <1>13 DEF storeEmail, Undisturbed, absent, Reaping, SweptInv
  <2>2. objects' \subseteq {m[1] : m \in rows'} /\ schema' /\ blob' # None
    <3>1. /\ objects' = objects \cup {op[s].arg} /\ rows' = rows \cup {<<op[s].arg, creates>>}
          /\ schema' = schema /\ blob' = blob
      BY <1>13 DEF storeEmail
    <3>2. <<op[s].arg, creates>> \in rows' /\ <<op[s].arg, creates>>[1] = op[s].arg
      BY <3>1
    <3>3. op[s].arg \in {m[1] : m \in rows'} /\ {m[1] : m \in rows} \subseteq {m[1] : m \in rows'}
      BY <3>1, <3>2
    <3>4. objects \subseteq {m[1] : m \in rows}
      BY <1>w, <2>1
    <3>5. objects' \subseteq {m[1] : m \in rows'}
      BY <3>1, <3>3, <3>4
    <3>. QED BY <2>1, <3>1, <3>5
  <2>3. PICK r : op' = [op EXCEPT ![s] = r] /\ r.kind # "reap"
    <3>1. CASE op[s].blob.honeypot = "live"
      <4>1. op' = [op EXCEPT ![s] = [op[s] EXCEPT !.pc = "count"]]
        BY <1>13, <3>1, <1>s DEF storeEmail
      <4>2. [op[s] EXCEPT !.pc = "count"].kind = "deliver"
        BY <1>13, <1>s DEF storeEmail, Request
      <4>. QED BY <4>1, <4>2
    <3>2. CASE op[s].blob.honeypot # "live"
      BY <1>13, <3>2, <1>s, <1>i DEF storeEmail
    <3>. QED BY <3>1, <3>2
  <2>4. \A t \in Workers : op'[t] = IF t = s THEN r ELSE op[t]
    BY <2>3, <1>s
  <2>5. \A t \in Workers : ~Reaping(t)'
    BY <2>1, <2>3, <2>4 DEF Reaping
  <2>. QED BY <2>2, <2>5 DEF Swept
<1>14. CASE refuseEmail(s)
  BY <1>14 DEF refuseEmail, SweptInv, Undisturbed
<1>15. ASSUME NEW overCap \in BOOLEAN, handleHoneypotInbound(s, overCap) PROVE SweptInv'
  <2>1. PICK r : op' = [op EXCEPT ![s] = r] /\ r.kind # "reap"
    <3>1. [Start(s, "putBlob", "write") EXCEPT !.blob = [blob EXCEPT !.honeypot = "off"]].kind
             = "putBlob"
      BY DEF Start, Idle
    <3>. QED BY <1>15, <1>i, <3>1 DEF handleHoneypotInbound
  <2>2. ~Reaping(s) /\ UNCHANGED store
    BY <1>15 DEF handleHoneypotInbound, Reaping
  <2>. QED BY <2>1, <2>2, Bystander DEF store, Undisturbed
<1>. QED BY <1>1, <1>2, <1>3, <1>4, <1>5, <1>6, <1>7, <1>8, <1>9, <1>10, <1>11, <1>12,
           <1>13, <1>14, <1>15 DEF Advance

LEMMA StepSwept == IInv /\ Trapped /\ SweptInv /\ [Next]_vars => SweptInv'
<1>. SUFFICES ASSUME IInv, Trapped, SweptInv, [Next]_vars PROVE SweptInv'
  OBVIOUS
<1>0. ASSUME NEW s \in Workers, NEW r, op[s].kind = "idle", op' = [op EXCEPT ![s] = r],
             r.kind # "reap", UNCHANGED store
      PROVE  SweptInv'
  BY <1>0, Bystander DEF store, Undisturbed, Reaping
<1>1. ASSUME NEW s \in Slots, Admit(s) PROVE SweptInv'
  <2>a. ASSUME NEW r, op[s].kind = "idle", op' = [op EXCEPT ![s] = r], r.kind # "reap",
               UNCHANGED store
        PROVE  SweptInv'
    BY <1>0, <2>a DEF Workers
  <2>2. ASSUME NEW who, beginCreate(s, who) PROVE SweptInv'
    <3>. DEFINE r == [Start(s, IF trap THEN "trap" ELSE "create", "put") EXCEPT !.who = who]
    <3>1. op[s].kind = "idle" /\ op' = [op EXCEPT ![s] = r] /\ UNCHANGED store
      BY <2>2 DEF beginCreate
    <3>2. r.kind \in {"trap", "create"}
      BY DEF Start, Idle
    <3>3. r.kind # "reap"
      BY <3>2
    <3>. HIDE DEF r
    <3>. QED BY <2>a, <3>1, <3>3
  <2>3. ASSUME NEW who, beginDelete(s, who) PROVE SweptInv'
    <3>1. Start(s, "delete", "delete").kind # "reap"
      BY DEF Start, Idle
    <3>. QED BY <2>3, <2>a, <3>1 DEF beginDelete
  <2>4. ASSUME NEW who, NEW kind, NEW x, readBlob(s, who, kind, x) PROVE SweptInv'
    <3>0. PICK old \in {blob, noBody} : BodyRead(s, kind, x, old)
      BY <2>4, ReadsBody
    <3>. DEFINE b == CASE kind = "save" -> preserveOwnedMailboxFields(old)
                       [] kind = "addRule" -> appendRule(old, x)
                       [] kind = "dropRule" -> dropRule(old, x)
                r == [Start(s, "putBlob", "write") EXCEPT !.blob = b]
    <3>1. op[s].kind = "idle" /\ op' = [op EXCEPT ![s] = r]
      BY <2>4, <3>0 DEF readBlob, BodyRead
    <3>. HIDE DEF b
    <3>2. r.kind = "putBlob"
      BY DEF Start, Idle
    <3>3. r.kind # "reap"
      BY <3>2
    <3>. HIDE DEF r
    <3>4. CASE UNCHANGED <<faults, misread>>
      BY <2>4, <2>a, <3>1, <3>3, <3>4 DEF readBlob, store
    <3>5. CASE faults' = faults + 1
      BY <3>5, BoundsAreNaturals DEF SweptInv, Undisturbed, IInv, TypeOK
    <3>. QED BY <3>0, <3>4, <3>5 DEF BodyRead
  <2>5. ASSUME NEW who, readLockDown(s, who) PROVE SweptInv'
    <3>. DEFINE r == [Start(s, "putAcl", "write") EXCEPT !.acl = lockDownAcl(who)]
    <3>1. r.kind # "reap"
      BY DEF Start, Idle
    <3>. QED BY <2>5, <2>a, <3>1 DEF readLockDown
  <2>6. ASSUME NEW who, NEW kind, NEW x, readAcl(s, who, kind, x) PROVE SweptInv'
    <3>. DEFINE r == [Start(s, "putAcl", "write") EXCEPT !.acl = changedAcl(kind, acl, x)]
    <3>1. r.kind # "reap"
      BY DEF Start, Idle
    <3>. QED BY <2>6, <2>a, <3>1 DEF readAcl
  <2>. QED BY <1>1, <2>2, <2>3, <2>4, <2>5, <2>6 DEF Admit
<1>2. ASSUME NEW s \in Slots, NEW m \in Mails, beginDelivery(s, m) PROVE SweptInv'
  <2>1. [Start(s, "deliver", "store") EXCEPT !.arg = m, !.blob = blob].kind = "deliver"
    BY DEF Start, Idle
  <2>. QED BY <1>0, <1>2, <2>1 DEF beginDelivery, Workers
<1>3. ASSUME NEW s \in Workers, lose(s) PROVE SweptInv'
  <2>1. faults' # 0
    BY <1>3, BoundsAreNaturals DEF lose, IInv, TypeOK
  <2>. QED BY <2>1 DEF SweptInv, Undisturbed
<1>4. CASE reconstruct \/ expire \/ UNCHANGED vars
  <2>1. /\ UNCHANGED <<blob, acl, rows, objects, agent, faults, stray, op>>
        /\ schema' = schema \/ schema'
    BY <1>4 DEF reconstruct, expire, vars
  <2>2. \A s \in Workers : (Reaping(s)' <=> Reaping(s)) /\ (ReapedSoFar(op[s])' <=> ReapedSoFar(op[s]))
    BY <2>1 DEF Reaping, ReapedSoFar
  <2>. QED BY <2>1, <2>2 DEF SweptInv, Swept, Undisturbed
<1>5. CASE reapExpiredHoneypots
  <2>1. Start(Cron, "cron", "delete").kind = "cron"
    BY DEF Start, Idle
  <2>. QED BY <1>0, <1>5, <2>1 DEF reapExpiredHoneypots, Workers
<1>. QED BY <1>1, <1>2, <1>3, <1>4, <1>5, AdvanceSweeps DEF Next

\* The three invariants together hold of every behaviour.
LEMMA LifecycleInvariant == Spec => [](IInv /\ Trapped /\ SweptInv)
<1>1. Init => Trapped /\ SweptInv
  <2>. SUFFICES ASSUME Init PROVE Trapped /\ SweptInv
    OBVIOUS
  <2>1. \A s \in Workers : op[s] = Idle
    BY DEF Init
  <2>2. BlobFits(Idle) /\ Idle.kind # "reap"
    BY DEF BlobFits, Idle, TrapBlob
  <2>3. Trapped
    BY <2>1, <2>2 DEF Trapped, TrapBlob, Init
  <2>4. Swept
    BY <2>1, <2>2 DEF Swept, Reaping, Init
  <2>. QED BY <2>3, <2>4 DEF SweptInv
<1>. QED BY <1>1, InitIInv, StepIInv, StepTrapped, StepSwept, PTL DEF Spec
-----------------------------------------------------------------------------
(* The theorems. *)

\* Every variable of the model keeps its type.
THEOREM TypeCorrect == Spec => []TypeOK
<1>1. Spec => []IInv
  BY InitIInv, StepIInv, PTL DEF Spec
<1>. QED BY <1>1, PTL DEF IInv

\* However creations, lock-downs, grants, transfers, removals and reaps
\* interleave, the owner of a scoped mailbox is one of its members.
THEOREM OwnerKept == Spec => []OwnerIsMember
<1>1. Spec => []IInv
  BY InitIInv, StepIInv, PTL DEF Spec
<1>2. IInv => OwnerIsMember
  BY DEF IInv, OwnedLists, OwnedList, OwnerIsMember
<1>. QED BY <1>1, <1>2, PTL

\* A reap that nothing disturbs leaves nothing: neither a failed call nor a
\* write of a request admitted before the deletion is there to blame for what
\* is left of a mailbox that is gone.
THEOREM ReapedClean == Spec => []NothingLeftBehind
<1>1. SweptInv => NothingLeftBehind
  <2>. SUFFICES ASSUME SweptInv, Undisturbed, blob = None, \A s \in Workers : op[s].kind = "idle"
                PROVE  rows = {} /\ objects = {} /\ ~agent /\ acl = None
    BY DEF NothingLeftBehind, Undisturbed
  <2>1. Swept /\ \A s \in Workers : ~Reaping(s)
    BY DEF SweptInv, Reaping
  <2>. QED BY <2>1 DEF Swept
<1>. QED BY <1>1, LifecycleInvariant, PTL

\* However settings saves, block rules, the rate cap's flag, creations and
\* deletions interleave, what is put at a honeypot's address is a honeypot, as
\* long as no save or rule change has gone on from a body it could not read.
THEOREM TrapsKept == Spec => TrapStaysTrap
<1>1. Trapped' => (trap' /\ ~misread' /\ blob' # None => blob'.honeypot # "no")
  BY DEF Trapped, TrapBlob, Baited
<1>2. [Next]_vars => trap' = trap
  <2>1. ASSUME NEW s, Admit(s) PROVE trap' = trap
    BY <2>1 DEF Admit, beginCreate, beginDelete, readBlob, readLockDown, readAcl, store
  <2>2. ASSUME NEW s, Advance(s) PROVE trap' = trap
    BY <2>2 DEF Advance, writeAcl, writeBlob, putBlob, putOwnerAcl, getFolders, deleteBlob,
       listAllAttachmentKeys, deleteObjects, resetMailbox, resetAgent, deleteMailboxAcl,
       failReapStep, storeEmail, refuseEmail, handleHoneypotInbound, store
  <2>3. ASSUME NEW s, lose(s) \/ (\E m \in Mails : beginDelivery(s, m)) PROVE trap' = trap
    BY <2>3 DEF lose, beginDelivery, store
  <2>4. reconstruct \/ expire \/ reapExpiredHoneypots \/ UNCHANGED vars => trap' = trap
    BY DEF reconstruct, expire, reapExpiredHoneypots, store, vars
  <2>. QED BY <2>1, <2>2, <2>3, <2>4 DEF Next
<1>3. (Trapped /\ Trapped' /\ [Next]_vars)
      => [trap /\ blob' # None => misread' \/ blob'.honeypot # "no"]_vars
  BY <1>1, <1>2
<1>. QED BY <1>3, LifecycleInvariant, PTL DEF Spec, TrapStaysTrap
-----------------------------------------------------------------------------
(* Where a delivery goes while mailboxes, domains and settings change: MailRouting. *)

CONSTANTS Addresses, Domains, DomainOf, Seed, AllowLists, Events, DomainSettings, MAX_EMAIL_SIZE,
          MaxTries, MaxChanges, MaxLost
VARIABLES allow, boxes, org, settings, past, pc, event, queue, to, policy, since, tries, changes, lost
Route == INSTANCE MailRouting WITH faults <- lost, MaxFaults <- MaxLost

\* What the constants are: None is nothing else, the operator's domains are
\* domains, deliveries and settings have their fields, bounds are numbers.
RoutingConstants ==
  /\ DomainOf \in [Addresses -> Domains \cup {None}] /\ Seed \subseteq Domains
  /\ None \notin Addresses /\ None \notin Domains /\ None \notin [Route!VerdictActions -> Route!Behaviors]
  /\ Events \subseteq Route!Event /\ DomainSettings \subseteq Route!Settings
  /\ MaxTries \in Nat /\ MaxChanges \in Nat /\ MaxLost \in Nat

\* A fact that always held holds now, and what holds now did at some time.
Within(now) ==
  /\ since.always.boxes \subseteq now.boxes /\ now.boxes \subseteq since.ever.boxes
  /\ since.always.owned \subseteq now.owned /\ now.owned \subseteq since.ever.owned
  /\ since.always.relays \subseteq now.relays /\ now.relays \subseteq since.ever.relays
  /\ since.always.spares \subseteq now.spares /\ now.spares \subseteq since.ever.spares
  /\ since.always.catchalls \subseteq now.catchalls /\ now.catchalls \subseteq since.ever.catchalls
Witnessed == Within(Route!facts(boxes, org, settings)) /\ [org |-> org, settings |-> settings] \in past

\* The address in hand is one of the recipients, from when it is found.
Searching == {"new", "mailbox", "unregistered", "gateway", "catchall", "observed"}
Holding == Route!Passing \cup {"found", "filed", "collected"}
Addressed ==
  /\ pc \in Searching => to = None
  /\ pc \in Holding => to # None
  /\ to # None => \E i \in DOMAIN Route!recipients(event) : to = Route!address(i)

\* A recipient that was looked up in vain had no mailbox then.
Missed ==
  /\ pc = "mailbox" => /\ queue # {} /\ queue \subseteq Route!registered(event)
                       /\ \A i \in Route!registered(event) \ queue :
                              Route!address(i) \notin since.always.boxes
  /\ pc = "found" => to \in since.ever.boxes
  /\ Route!RegisteredIsFiled

\* Recipients in the queue of a stage are the operator's; those no longer in
\* it were no case for the stage at some time, and so not always.
Mine(d) ==
  /\ d \in Seed \cup UNION {w.org : w \in past}
  /\ ~since.failed => d \in since.ever.owned
Unrelayed(S) ==
  ~since.failed => \A i \in S : DomainOf[Route!address(i)] \notin since.always.owned \cap since.always.relays
Uncollected(S) ==
  ~since.failed => \A i \in S : DomainOf[Route!address(i)] \notin since.always.owned \cap since.always.catchalls
Sifted ==
  /\ pc \in {"gateway", "observed"} => \A i \in queue : Mine(DomainOf[Route!address(i)])
  /\ pc = "gateway" => Unrelayed(DOMAIN Route!recipients(event) \ queue)
  /\ pc \in {"catchall", "observed", "collected"} => Unrelayed(DOMAIN Route!recipients(event))
  /\ pc = "observed" => Uncollected(DOMAIN Route!recipients(event) \ queue)

\* The policy in hand drops merely tagged mail only if the domain's did.
Priced ==
  pc \in {"scan", "relay", "relayed", "dropped"} =>
    /\ policy \in [Route!VerdictActions -> Route!Behaviors]
    /\ ~since.failed => \A v \in {"allow", "tag"} :
         policy[v] = "drop" => DomainOf[to] \notin since.always.spares

RouteInv ==
  /\ Route!TypeOK /\ Witnessed /\ Addressed /\ Missed /\ Sifted /\ Priced
  /\ Route!OwnedOnly /\ Route!PassedOn /\ Route!IgnoredForCause

(* -------------------------------------------------------- the operators *)

LEMMA EnvelopeIsNamed ==
  ASSUME RoutingConstants, NEW e \in Events
  PROVE  Route!envelopeRecipient(e) = Route!namedByServer(e) /\ Route!namedByServer(e) \in Addresses \cup {None}
<1>1. e \in Route!Event
  BY DEF RoutingConstants
<1>2. CASE e.stamp = "for"
  <2>1. Route!received(e) = <<e.rcpt>> \o e.below /\ e.rcpt \in Addresses
        /\ e.below \in Seq(Addresses \cup {None})
    BY <1>1, <1>2 DEF Route!received, Route!Event
  <2>2. Route!received(e) # <<>> /\ Head(Route!received(e)) = e.rcpt
    BY <2>1
  <2> QED
    BY <1>2, <2>1, <2>2 DEF Route!envelopeRecipient, Route!topReceivedForAddress,
        Route!namedByServer, RoutingConstants
<1>3. CASE e.stamp = "bare"
  <2>1. Route!received(e) = <<None>> \o e.below /\ e.below \in Seq(Addresses \cup {None})
        /\ e.to \in Addresses \cup {None}
    BY <1>1, <1>3 DEF Route!received, Route!Event
  <2>2. Head(Route!received(e)) = None
    BY <2>1
  <2> QED
    BY <1>3, <2>1, <2>2 DEF Route!envelopeRecipient, Route!topReceivedForAddress,
        Route!namedByServer
<1>4. CASE e.stamp = "none"
  BY <1>1, <1>4 DEF Route!envelopeRecipient, Route!topReceivedForAddress, Route!namedByServer,
      Route!received, Route!Event
<1> QED
  BY <1>1, <1>2, <1>3, <1>4 DEF Route!Event

LEMMA RecipientsAreAddresses ==
  ASSUME RoutingConstants, NEW e \in Events
  PROVE  Route!recipients(e) \in Seq(Addresses)
BY EnvelopeIsNamed DEF Route!recipients, RoutingConstants, Route!Event

LEMMA RegisteredAreRecipients ==
  ASSUME RoutingConstants, NEW e \in Events, Route!recipients(e) # <<>>
  PROVE  Route!registered(e) \subseteq DOMAIN Route!recipients(e)
BY RecipientsAreAddresses DEF Route!registered

LEMMA EmptyIsSettings == Route!empty \in Route!Settings
<1> DEFINE Rows == UNION {[S -> Route!Behaviors] : S \in SUBSET Route!VerdictActions}
<1>1. [a \in {} |-> "relay"] \in [{} -> Route!Behaviors]
  OBVIOUS
<1>2. [a \in {} |-> "relay"] \in Rows
  BY <1>1
<1> HIDE DEF Rows
<1>3. Route!empty \in [enabled : BOOLEAN, host : BOOLEAN, actions : Rows, catchall : BOOLEAN]
  BY <1>2 DEF Route!empty
<1> QED
  BY <1>3 DEF Rows, Route!Settings

LEMMA ResolvesWhenRelaying ==
  ASSUME RoutingConstants, NEW s \in DomainSettings \cup {Route!empty}
  PROVE  /\ Route!resolveRelayPolicy(s) \in [Route!VerdictActions -> Route!Behaviors] \cup {None}
         /\ Route!resolveRelayPolicy(s) # None <=> s.enabled /\ s.host
         /\ \A v \in {"allow", "tag"} :
              Route!resolveRelayPolicy(s) # None /\ Route!resolveRelayPolicy(s)[v] = "drop" =>
                v \in DOMAIN s.actions /\ s.actions[v] = "drop"
<1>1. s \in Route!Settings
  BY EmptyIsSettings DEF RoutingConstants
<1>2. CASE ~(s.enabled /\ s.host)
  BY <1>1, <1>2 DEF Route!resolveRelayPolicy
<1>3. CASE s.enabled /\ s.host
  <2> DEFINE row(a) == IF a \in DOMAIN s.actions THEN s.actions[a] ELSE Route!DEFAULT_RELAY_ACTIONS[a]
  <2>1. PICK S \in SUBSET Route!VerdictActions : s.actions \in [S -> Route!Behaviors]
    BY <1>1 DEF Route!Settings
  <2>2. Route!resolveRelayPolicy(s) = [a \in Route!VerdictActions |-> row(a)]
    BY <1>3 DEF Route!resolveRelayPolicy
  <2>3. ASSUME NEW a \in Route!VerdictActions PROVE row(a) \in Route!Behaviors
    BY <2>1 DEF Route!DEFAULT_RELAY_ACTIONS, Route!Behaviors, Route!VerdictActions
  <2>4. Route!resolveRelayPolicy(s) \in [Route!VerdictActions -> Route!Behaviors]
    BY <2>2, <2>3
  <2>5. ASSUME NEW v \in {"allow", "tag"}, Route!resolveRelayPolicy(s)[v] = "drop"
        PROVE  v \in DOMAIN s.actions /\ s.actions[v] = "drop"
    BY <2>2, <2>5 DEF Route!DEFAULT_RELAY_ACTIONS, Route!VerdictActions
  <2> QED
    BY <1>3, <2>4, <2>5 DEF RoutingConstants
<1> QED
  BY <1>2, <1>3

LEMMA FactsAreWorld ==
  ASSUME RoutingConstants, NEW b \in SUBSET Addresses, NEW o \in SUBSET Domains,
         NEW s \in [Domains -> DomainSettings]
  PROVE  Route!facts(b, o, s) \in Route!World
BY DEF Route!facts, Route!World, RoutingConstants

LEMMA WorldsJoin ==
  ASSUME NEW w \in Route!World, NEW v \in Route!World
  PROVE  Route!both(w, v) \in Route!World /\ Route!either(w, v) \in Route!World
BY DEF Route!both, Route!either, Route!World

(* -------------------------------------------------------- the invariant *)

LEMMA InitRouteInv == ASSUME RoutingConstants PROVE Route!Init => RouteInv
<1> SUFFICES ASSUME Route!Init PROVE RouteInv
  OBVIOUS
<1>1. event \in Events /\ pc = "new" /\ queue = {} /\ to = None /\ policy = None
  BY DEF Route!Init
<1>2. Route!facts(boxes, org, settings) \in Route!World
  BY FactsAreWorld DEF Route!Init
<1>3. since.always = Route!facts(boxes, org, settings)
      /\ since.ever = Route!facts(boxes, org, settings) /\ since.failed = FALSE
      /\ since \in [always : Route!World, ever : Route!World, failed : BOOLEAN]
  BY <1>2 DEF Route!Init
<1>4. Route!TypeOK
  BY <1>1, <1>3 DEF Route!Init, Route!TypeOK, Route!Stages, RoutingConstants
<1>5. Witnessed
  BY <1>3 DEF Route!Init, Witnessed, Within
<1>6. Addressed /\ Missed /\ Sifted /\ Priced
  BY <1>1 DEF Addressed, Missed, Sifted, Priced, Searching, Holding, Route!Passing,
      Route!RegisteredIsFiled, Route!Resolving
<1>7. Route!OwnedOnly /\ Route!PassedOn /\ Route!IgnoredForCause
  BY <1>1 DEF Route!OwnedOnly, Route!PassedOn, Route!IgnoredForCause, Route!Passing
<1> QED
  BY <1>4, <1>5, <1>6, <1>7 DEF RouteInv

\* A step of the delivery leaves the world alone, and at most fails.
Still ==
  /\ UNCHANGED <<Route!world, event, allow>>
  /\ since'.always = since.always /\ since'.ever = since.ever
  /\ since' \in [always : Route!World, ever : Route!World, failed : BOOLEAN]
  /\ since.failed => since'.failed

LEMMA ReadsAreStill ==
  ASSUME RoutingConstants, RouteInv, UNCHANGED <<Route!world, event, allow>>
  PROVE  /\ UNCHANGED since => Still
         /\ \A d, s : Route!ReadDomain(d, s) =>
                Still /\ (since'.failed \/ s = settings[d]) /\ lost' \in 0 .. MaxLost
         /\ \A o : Route!ReadOrg(o) => Still /\ (since'.failed \/ o = org) /\ lost' \in 0 .. MaxLost
<1> since \in [always : Route!World, ever : Route!World, failed : BOOLEAN] /\ lost \in 0 .. MaxLost
  BY DEF RouteInv, Route!TypeOK
<1>1. UNCHANGED since => Still
  BY DEF Still
<1>2. since' = [since EXCEPT !.failed = TRUE] => Still /\ since'.failed
  BY DEF Still
<1>3. Route!fails => lost' \in 0 .. MaxLost
  BY DEF Route!fails, RoutingConstants
<1>4. \A d, s : Route!ReadDomain(d, s) => Still /\ (since'.failed \/ s = settings[d])
      /\ lost' \in 0 .. MaxLost
  BY <1>1, <1>2, <1>3 DEF Route!ReadDomain
<1>5. \A o : Route!ReadOrg(o) => Still /\ (since'.failed \/ o = org) /\ lost' \in 0 .. MaxLost
  BY <1>1, <1>2, <1>3 DEF Route!ReadOrg
<1> QED
  BY <1>1, <1>4, <1>5

LEMMA StillWitnessed == ASSUME RouteInv, Still PROVE Witnessed'
BY DEF RouteInv, Still, Witnessed, Within, Route!world

LEMMA StillTyped ==
  ASSUME RouteInv, Still, queue' \subseteq DOMAIN Route!recipients(event), pc' \in Route!Stages,
         to' \in Addresses \cup {None}, policy' \in [Route!VerdictActions -> Route!Behaviors] \cup {None},
         tries' \in 0 .. MaxTries, lost' \in 0 .. MaxLost
  PROVE  Route!TypeOK'
BY DEF RouteInv, Route!TypeOK, Still, Route!world

\* The recipients are those of the event, whatever else a step does.
LEMMA SameRecipients ==
  ASSUME UNCHANGED <<event, allow>>
  PROVE  /\ Route!recipients(event)' = Route!recipients(event)
         /\ Route!registered(event)' = Route!registered(event)
         /\ \A i : Route!address(i)' = Route!address(i)
         /\ Route!namedByServer(event)' = Route!namedByServer(event)
BY DEF Route!recipients, Route!registered, Route!address, Route!namedByServer,
    Route!envelopeRecipient, Route!received, Route!topReceivedForAddress

LEMMA ThrownRouteInv ==
  ASSUME RoutingConstants, RouteInv, Still, pc' = "thrown", queue' = {}, UNCHANGED <<to, policy, tries>>,
         lost' \in 0 .. MaxLost
  PROVE  RouteInv'
<1>1. Route!TypeOK'
  BY StillTyped DEF RouteInv, Route!TypeOK, Route!Stages
<1>2. Witnessed'
  BY StillWitnessed
<1>3. Addressed'
  BY SameRecipients DEF Addressed, RouteInv, Still, Searching, Holding, Route!Passing
<1>4. Missed' /\ Sifted' /\ Priced'
  BY DEF Missed, Sifted, Priced, Route!Passing, Route!RegisteredIsFiled, Route!Resolving
<1>5. Route!OwnedOnly' /\ Route!PassedOn' /\ Route!IgnoredForCause'
  BY DEF Route!OwnedOnly, Route!PassedOn, Route!IgnoredForCause, Route!Passing
<1> QED
  BY <1>1, <1>2, <1>3, <1>4, <1>5 DEF RouteInv

LEMMA ArriveRouteInv == ASSUME RoutingConstants, RouteInv, Route!Arrive PROVE RouteInv'
<1> UNCHANGED <<Route!world, event, to, policy, tries, allow, lost>> /\ pc = "new" /\ event \in Events
  BY DEF Route!Arrive, RouteInv, Route!TypeOK
<1>1. UNCHANGED <<boxes, org, settings, past, changes, event, allow>>
  BY DEF Route!world
<1>2. Route!facts(boxes, org, settings) \in Route!World
  BY FactsAreWorld DEF RouteInv, Route!TypeOK
<1>3. /\ since'.always = Route!facts(boxes, org, settings) /\ since'.ever = Route!facts(boxes, org, settings)
      /\ since' \in [always : Route!World, ever : Route!World, failed : BOOLEAN]
  BY <1>2 DEF Route!Arrive
<1>4. Witnessed'
  BY <1>1, <1>3 DEF Witnessed, Within, RouteInv
<1>5. \/ pc' = "thrown" /\ queue' = {}
      \/ pc' = "unregistered" /\ queue' = {} /\ Route!registered(event) = {}
      \/ pc' = "mailbox" /\ queue' = Route!registered(event) /\ queue' # {} /\ Route!recipients(event) # <<>>
  BY DEF Route!Arrive, Route!Goto
<1>6. pc' \in Route!Stages /\ queue' \subseteq DOMAIN Route!recipients(event)
  BY <1>5, RegisteredAreRecipients DEF Route!Stages
<1>7. Route!TypeOK'
  BY <1>1, <1>3, <1>6, SameRecipients DEF RouteInv, Route!TypeOK
<1>8. Addressed'
  BY <1>1, <1>5, SameRecipients DEF Addressed, RouteInv, Searching, Holding, Route!Passing
<1>9. Missed'
  BY <1>1, <1>5, SameRecipients DEF Missed, Route!RegisteredIsFiled, Route!Passing, Route!Resolving
<1>10. Sifted' /\ Priced' /\ Route!OwnedOnly' /\ Route!PassedOn' /\ Route!IgnoredForCause'
  BY <1>5 DEF Sifted, Priced, Route!OwnedOnly, Route!PassedOn, Route!IgnoredForCause, Route!Passing
<1> QED
  BY <1>4, <1>7, <1>8, <1>9, <1>10 DEF RouteInv

LEMMA HeadThrowsRouteInv == ASSUME RoutingConstants, RouteInv, Route!HeadThrows PROVE RouteInv'
<1>1. UNCHANGED <<Route!world, event, allow, since, to, policy, tries>> /\ pc' = "thrown" /\ queue' = {}
  BY DEF Route!HeadThrows, Route!Goto
<1>2. lost' \in 0 .. MaxLost
  BY DEF Route!HeadThrows, Route!fails, RouteInv, Route!TypeOK, RoutingConstants
<1> QED
  BY <1>1, <1>2, ReadsAreStill, ThrownRouteInv

LEMMA RelayThrowsRouteInv == ASSUME RoutingConstants, RouteInv, Route!RelayThrows PROVE RouteInv'
<1>1. UNCHANGED <<Route!world, event, allow, since, to, policy, tries>> /\ pc' = "thrown" /\ queue' = {}
  BY DEF Route!RelayThrows, Route!Goto
<1>2. lost' \in 0 .. MaxLost
  BY DEF Route!RelayThrows, Route!fails, RouteInv, Route!TypeOK, RoutingConstants
<1> QED
  BY <1>1, <1>2, ReadsAreStill, ThrownRouteInv

LEMMA RedeliverRouteInv == ASSUME RoutingConstants, RouteInv, Route!Redeliver PROVE RouteInv'
<1>1. UNCHANGED <<Route!world, event, allow, since, lost>> /\ pc' = "new" /\ queue' = {}
      /\ to' = None /\ policy' = None
  BY DEF Route!Redeliver, Route!Goto
<1>2. tries' \in 0 .. MaxTries
  BY DEF Route!Redeliver, RouteInv, Route!TypeOK, RoutingConstants
<1>3. Still
  BY <1>1, ReadsAreStill
<1>4. Route!TypeOK'
  BY <1>1, <1>2, <1>3, StillTyped DEF RouteInv, Route!TypeOK, Route!Stages
<1>5. Witnessed'
  BY <1>3, StillWitnessed
<1>6. Addressed' /\ Missed' /\ Sifted' /\ Priced'
  BY <1>1 DEF Addressed, Searching, Holding, Missed, Sifted, Priced, Route!Passing,
      Route!RegisteredIsFiled, Route!Resolving
<1>7. Route!OwnedOnly' /\ Route!PassedOn' /\ Route!IgnoredForCause'
  BY <1>1 DEF Route!OwnedOnly, Route!PassedOn, Route!IgnoredForCause, Route!Passing
<1> QED
  BY <1>4, <1>5, <1>6, <1>7 DEF RouteInv

LEMMA FindMailboxRouteInv ==
  ASSUME RoutingConstants, RouteInv, NEW i \in queue, Route!FindMailbox(i) PROVE RouteInv'
<1>1. UNCHANGED <<Route!world, event, allow, since, lost, policy, tries>> /\ pc' = "found" /\ queue' = {}
      /\ to' = Route!address(i) /\ Route!address(i) \in boxes
  BY DEF Route!FindMailbox, Route!Goto
<1>2. i \in DOMAIN Route!recipients(event) /\ to' \in Addresses /\ to' # None
  BY <1>1 DEF RouteInv, Route!TypeOK, RoutingConstants
<1>3. Still
  BY <1>1, ReadsAreStill
<1>4. Route!TypeOK'
  BY <1>1, <1>2, <1>3, StillTyped DEF RouteInv, Route!TypeOK, Route!Stages
<1>5. Witnessed'
  BY <1>3, StillWitnessed
<1>6. Addressed'
  BY <1>1, <1>2, SameRecipients DEF Addressed, Searching
<1>7. Route!address(i) \in since.ever.boxes
  BY <1>1 DEF RouteInv, Witnessed, Within, Route!facts
<1>8. Missed'
  BY <1>1, <1>7 DEF Missed, Route!RegisteredIsFiled, Route!Passing, Route!Resolving
<1>9. Sifted' /\ Priced' /\ Route!OwnedOnly' /\ Route!PassedOn' /\ Route!IgnoredForCause'
  BY <1>1 DEF Sifted, Priced, Route!OwnedOnly, Route!PassedOn, Route!IgnoredForCause, Route!Passing
<1> QED
  BY <1>4, <1>5, <1>6, <1>8, <1>9 DEF RouteInv

LEMMA MissMailboxRouteInv ==
  ASSUME RoutingConstants, RouteInv, NEW i \in queue, Route!MissMailbox(i) PROVE RouteInv'
<1>1. UNCHANGED <<Route!world, event, allow, since, lost, policy, tries, to>> /\ pc = "mailbox"
      /\ Route!address(i) \notin boxes
  BY DEF Route!MissMailbox
<1>2. \/ pc' = "mailbox" /\ queue' = queue \ {i} /\ queue # {i}
      \/ pc' = "ignored" /\ queue' = {} /\ queue = {i} /\ allow # {}
      \/ pc' = "unregistered" /\ queue' = {} /\ queue = {i} /\ allow = {}
  BY DEF Route!MissMailbox, Route!Goto
<1>3. Still
  BY <1>1, ReadsAreStill
<1>4. pc' \in Route!Stages /\ queue' \subseteq DOMAIN Route!recipients(event)
  BY <1>2 DEF RouteInv, Route!TypeOK, Route!Stages
<1>5. Route!TypeOK'
  BY <1>1, <1>3, <1>4, StillTyped DEF RouteInv, Route!TypeOK
<1>6. Witnessed'
  BY <1>3, StillWitnessed
<1>7. Addressed'
  BY <1>1, <1>2, SameRecipients DEF RouteInv, Addressed, Searching, Holding, Route!Passing
<1>8. Route!address(i) \notin since.always.boxes
  BY <1>1 DEF RouteInv, Witnessed, Within, Route!facts
<1>9. queue \subseteq Route!registered(event)
      /\ \A j \in Route!registered(event) \ (queue \ {i}) : Route!address(j) \notin since.always.boxes
  BY <1>1, <1>8 DEF RouteInv, Missed
<1>10. Missed'
  BY <1>1, <1>2, <1>9, SameRecipients DEF Missed, Route!RegisteredIsFiled, Route!Passing,
      Route!Resolving
<1>11. Route!IgnoredForCause'
  BY <1>1, <1>2, <1>9, SameRecipients DEF Route!IgnoredForCause
<1>12. Sifted' /\ Priced' /\ Route!OwnedOnly' /\ Route!PassedOn'
  BY <1>2 DEF Sifted, Priced, Route!OwnedOnly, Route!PassedOn, Route!Passing
<1> QED
  BY <1>5, <1>6, <1>7, <1>10, <1>11, <1>12 DEF RouteInv

\* A lookup outside the world of the mailbox: nothing registered had one.
LEMMA MissedKept ==
  ASSUME RouteInv, Still, pc \in Route!Resolving \cup Route!Passing,
         pc' \in Route!Resolving \cup Route!Passing \cup {"ignored"}
  PROVE  Missed'
<1>1. /\ \A i \in Route!registered(event) : Route!address(i) \notin since.always.boxes
      /\ allow = {} \/ Route!registered(event) = {}
  BY DEF RouteInv, Missed, Route!RegisteredIsFiled, Route!Resolving, Route!Passing
<1>2. UNCHANGED <<event, allow>> /\ since'.always = since.always
  BY DEF Still
<1>3. Route!RegisteredIsFiled'
  BY <1>1, <1>2, SameRecipients DEF Route!RegisteredIsFiled
<1> QED
  BY <1>3 DEF Missed, Route!Resolving, Route!Passing

LEMMA StillFacts ==
  ASSUME RoutingConstants, RouteInv, NEW d \in Domains
  PROVE  /\ d \in since.always.owned => d \in Seed \cup org
         /\ d \in Seed \cup org => d \in since.ever.owned
         /\ d \in since.always.relays => settings[d].enabled /\ settings[d].host
         /\ settings[d].enabled /\ settings[d].host => d \in since.ever.relays
         /\ d \in since.always.catchalls => settings[d].catchall
         /\ settings[d].catchall => d \in since.ever.catchalls
         /\ d \in since.always.spares => \A v \in DOMAIN settings[d].actions \cap {"allow", "tag"} :
                settings[d].actions[v] # "drop"
BY DEF RouteInv, Witnessed, Within, Route!facts

LEMMA DomainsOfRecipients ==
  ASSUME RoutingConstants, RouteInv
  PROVE  /\ \A i \in DOMAIN Route!recipients(event) :
              Route!address(i) \in Addresses /\ DomainOf[Route!address(i)] \in Domains \cup {None}
         /\ since.always.owned \subseteq Domains /\ since.always.relays \subseteq Domains
         /\ UNION {w.org : w \in past} \subseteq Domains
<1>1. Route!recipients(event) \in Seq(Addresses) /\ since.always \in Route!World
      /\ past \subseteq [org : SUBSET Domains, settings : [Domains -> DomainSettings]]
  BY RecipientsAreAddresses DEF RouteInv, Route!TypeOK
<1> QED
  BY <1>1 DEF Route!address, RoutingConstants, Route!World

\* The properties of recipients stay when the step only fails a read.
LEMMA SiftKept ==
  ASSUME RouteInv, Still, NEW S
  PROVE  /\ Unrelayed(S) => Unrelayed(S)' /\ (Uncollected(S) => Uncollected(S)')
         /\ \A d : Mine(d) => Mine(d)'
BY SameRecipients DEF Unrelayed, Uncollected, Mine, Still, Route!world

LEMMA ReadOwnedRouteInv ==
  ASSUME RoutingConstants, RouteInv, NEW domains \in SUBSET Domains,
         Route!ReadOwned(domains) PROVE RouteInv'
<1> PICK All : All = DOMAIN Route!recipients(event)
  OBVIOUS
<1> PICK q : q = {i \in All : DomainOf[Route!address(i)] \in Route!getOwnedDomains(domains)}
  OBVIOUS
<1>1. UNCHANGED <<Route!world, event, to, policy, tries, allow>>
      /\ pc \in {"unregistered", "catchall"} /\ Route!ReadOrg(domains)
  BY DEF Route!ReadOwned
<1>2. Still /\ (since'.failed \/ domains = org) /\ lost' \in 0 .. MaxLost
  BY <1>1, ReadsAreStill
<1>3. \/ pc = "unregistered" /\ q # {} /\ pc' = "gateway" /\ queue' = q
      \/ pc = "unregistered" /\ q = {} /\ pc' = "catchall" /\ queue' = {}
      \/ pc = "catchall" /\ q # {} /\ pc' = "observed" /\ queue' = q
      \/ pc = "catchall" /\ q = {} /\ pc' = "ignored" /\ queue' = {}
  BY DEF Route!ReadOwned, Route!Among, Route!Goto
<1>4. UNCHANGED <<event, allow, past, to, policy>> /\ since'.always = since.always
      /\ since'.ever = since.ever
      /\ (since.failed => since'.failed)
  BY <1>1, <1>2 DEF Route!world, Still
<1>5. \A i \in q : Mine(DomainOf[Route!address(i)])'
  <2> SUFFICES ASSUME NEW i \in q PROVE Mine(DomainOf[Route!address(i)])'
    OBVIOUS
  <2> DEFINE d == DomainOf[Route!address(i)]
  <2>1. d \in Seed \cup domains /\ d \in Domains
    BY DEF Route!getOwnedDomains, RoutingConstants
  <2>2. domains \subseteq UNION {w.org : w \in past}
    BY <1>1 DEF Route!ReadOrg, RouteInv, Witnessed
  <2>3. ~since'.failed => d \in since.ever.owned
    BY <1>2, <2>1, StillFacts
  <2>4. Route!address(i)' = Route!address(i)
    BY <1>4, SameRecipients
  <2> QED
    BY <1>4, <2>1, <2>2, <2>3, <2>4 DEF Mine
<1>6. ~since'.failed => \A i \in All \ q : DomainOf[Route!address(i)] \notin since.always.owned
  BY <1>2, StillFacts, DomainsOfRecipients DEF Route!getOwnedDomains
<1>7. Unrelayed(All \ q)' /\ Uncollected(All \ q)'
  BY <1>4, <1>6, SameRecipients DEF Unrelayed, Uncollected
<1>8. pc = "catchall" => Unrelayed(All)'
  BY <1>2, SiftKept DEF RouteInv, Sifted
<1>9. DOMAIN Route!recipients(event)' = All
  BY <1>4, SameRecipients
<1>10. Sifted'
  BY <1>3, <1>5, <1>7, <1>8, <1>9 DEF Sifted
<1>11. Route!TypeOK'
  <2>1. pc' \in Route!Stages /\ queue' \subseteq DOMAIN Route!recipients(event)
    BY <1>3 DEF Route!Stages
  <2> QED
    BY <1>1, <1>2, <2>1, StillTyped DEF RouteInv, Route!TypeOK
<1>12. Witnessed'
  BY <1>2, StillWitnessed
<1>13. Addressed'
  BY <1>1, <1>3, <1>4, SameRecipients DEF RouteInv, Addressed, Searching, Holding, Route!Passing
<1>14. Missed'
  BY <1>2, <1>3, MissedKept DEF Route!Resolving
<1>15. Priced' /\ Route!OwnedOnly' /\ Route!PassedOn'
  BY <1>3 DEF Priced, Route!OwnedOnly, Route!PassedOn, Route!Passing
<1>16. Route!IgnoredForCause'
  <2> SUFFICES ASSUME pc' = "ignored", ~since'.failed
               PROVE  (\A i \in DOMAIN Route!recipients(event) :
                        DomainOf[Route!address(i)] \notin
                          since.always.owned \cap (since.always.relays \cup since.always.catchalls))'
    BY DEF Route!IgnoredForCause
  <2>1. q = {}
    BY <1>3
  <2> QED
    BY <1>4, <1>6, <2>1, SameRecipients
<1> QED
  BY <1>10, <1>11, <1>12, <1>13, <1>14, <1>15, <1>16 DEF RouteInv

LEMMA ResolveGatewayRouteInv ==
  ASSUME RoutingConstants, RouteInv, NEW s \in DomainSettings \cup {Route!empty}, NEW i \in queue,
         Route!ResolveGateway(i, s)
  PROVE  RouteInv'
<1> PICK All, rest, d : All = DOMAIN Route!recipients(event) /\ rest = queue \ {i}
      /\ d = DomainOf[Route!address(i)]
  OBVIOUS
<1>1. UNCHANGED <<Route!world, event, policy, tries, allow>> /\ pc = "gateway" /\ Route!ReadDomain(d, s)
  BY DEF Route!ResolveGateway
<1>2. Still /\ (since'.failed \/ s = settings[d]) /\ lost' \in 0 .. MaxLost
  BY <1>1, ReadsAreStill
<1>3. \/ Route!resolveRelayPolicy(s) # None /\ pc' = "passthrough" /\ queue' = {} /\ to' = Route!address(i)
      \/ Route!resolveRelayPolicy(s) = None /\ pc' = "gateway" /\ queue' = rest /\ to' = to
      \/ Route!resolveRelayPolicy(s) = None /\ pc' = "catchall" /\ queue' = {} /\ rest = {} /\ to' = to
  BY DEF Route!ResolveGateway, Route!Among, Route!Goto
<1>4. UNCHANGED <<event, allow, past>> /\ since'.always = since.always /\ since'.ever = since.ever
      /\ (since.failed => since'.failed)
  BY <1>1, <1>2 DEF Route!world, Still
<1>5. queue \subseteq DOMAIN Route!recipients(event) /\ to = None
  BY <1>1 DEF RouteInv, Route!TypeOK, Addressed, Searching
<1>6. Mine(d) /\ d \in Domains
  BY <1>1, <1>5, DomainsOfRecipients DEF RouteInv, Sifted, Mine, RoutingConstants
<1>7. Route!address(i) \in Addresses /\ Route!address(i) # None
  BY <1>5, DomainsOfRecipients DEF RoutingConstants
<1>8. Route!TypeOK'
  <2>1. pc' \in Route!Stages /\ queue' \subseteq DOMAIN Route!recipients(event)
        /\ to' \in Addresses \cup {None}
    BY <1>3, <1>5, <1>7 DEF Route!Stages
  <2> QED
    BY <1>1, <1>2, <2>1, StillTyped DEF RouteInv, Route!TypeOK
<1>9. Witnessed'
  BY <1>2, StillWitnessed
<1>10. Addressed'
  BY <1>3, <1>4, <1>5, <1>7, SameRecipients DEF Addressed, Searching, Holding, Route!Passing
<1>11. Missed'
  BY <1>1, <1>2, <1>3, MissedKept DEF Route!Resolving, Route!Passing
<1>12. \A j \in queue : Mine(DomainOf[Route!address(j)])'
  BY <1>1, <1>2, <1>4, SiftKept, SameRecipients DEF RouteInv, Sifted
<1>13. Route!resolveRelayPolicy(s) = None => Unrelayed(All \ rest)'
  <2> SUFFICES ASSUME Route!resolveRelayPolicy(s) = None, ~since'.failed, NEW j \in All \ rest
               PROVE  DomainOf[Route!address(j)] \notin since.always.owned \cap since.always.relays
    BY <1>4, SameRecipients DEF Unrelayed
  <2>1. CASE j = i
    BY <1>2, <1>6, <2>1, ResolvesWhenRelaying, StillFacts
  <2>2. CASE j # i
    BY <1>1, <1>4, <2>2 DEF RouteInv, Sifted, Unrelayed
  <2> QED
    BY <2>1, <2>2
<1>14. Sifted'
  BY <1>3, <1>4, <1>12, <1>13, SameRecipients DEF Sifted
<1>15. Priced' /\ Route!PassedOn' /\ Route!IgnoredForCause'
  BY <1>3 DEF Priced, Route!PassedOn, Route!IgnoredForCause
<1>16. Route!OwnedOnly'
  <2> SUFFICES ASSUME pc' = "passthrough" PROVE Route!OwnedOnly'
    BY <1>3 DEF Route!OwnedOnly, Route!Passing
  <2>1. to' = Route!address(i) /\ Route!resolveRelayPolicy(s) # None
    BY <1>3
  <2>2. ~since'.failed => d \in since.ever.relays
    BY <1>2, <1>6, <2>1, ResolvesWhenRelaying, StillFacts
  <2>3. d \in Seed \cup UNION {w.org : w \in past} /\ (~since'.failed => d \in since.ever.owned)
    BY <1>4, <1>6 DEF Mine
  <2> QED
    BY <1>4, <2>1, <2>2, <2>3 DEF Route!OwnedOnly
<1> QED
  BY <1>8, <1>9, <1>10, <1>11, <1>14, <1>15, <1>16 DEF RouteInv

LEMMA ResolveCatchallRouteInv ==
  ASSUME RoutingConstants, RouteInv, NEW s \in DomainSettings \cup {Route!empty}, NEW i \in queue,
         Route!ResolveCatchall(i, s)
  PROVE  RouteInv'
<1> PICK All, rest, d : All = DOMAIN Route!recipients(event) /\ rest = queue \ {i}
      /\ d = DomainOf[Route!address(i)]
  OBVIOUS
<1>1. UNCHANGED <<Route!world, event, policy, tries, allow>> /\ pc = "observed" /\ Route!ReadDomain(d, s)
  BY DEF Route!ResolveCatchall
<1>2. Still /\ (since'.failed \/ s = settings[d]) /\ lost' \in 0 .. MaxLost
  BY <1>1, ReadsAreStill
<1>3. \/ s.catchall /\ pc' = "collected" /\ queue' = {} /\ to' = Route!address(i)
      \/ ~s.catchall /\ pc' = "observed" /\ queue' = rest /\ to' = to
      \/ ~s.catchall /\ pc' = "ignored" /\ queue' = {} /\ rest = {} /\ to' = to
  BY DEF Route!ResolveCatchall, Route!Among, Route!Goto
<1>4. UNCHANGED <<event, allow, past>> /\ since'.always = since.always /\ since'.ever = since.ever
      /\ (since.failed => since'.failed)
  BY <1>1, <1>2 DEF Route!world, Still
<1>5. queue \subseteq DOMAIN Route!recipients(event) /\ to = None
  BY <1>1 DEF RouteInv, Route!TypeOK, Addressed, Searching
<1>6. Mine(d) /\ d \in Domains
  BY <1>1, <1>5, DomainsOfRecipients DEF RouteInv, Sifted, Mine, RoutingConstants
<1>7. Route!address(i) \in Addresses /\ Route!address(i) # None
  BY <1>5, DomainsOfRecipients DEF RoutingConstants
<1>8. Route!TypeOK'
  <2>1. pc' \in Route!Stages /\ queue' \subseteq DOMAIN Route!recipients(event)
        /\ to' \in Addresses \cup {None}
    BY <1>3, <1>5, <1>7 DEF Route!Stages
  <2> QED
    BY <1>1, <1>2, <2>1, StillTyped DEF RouteInv, Route!TypeOK
<1>9. Witnessed'
  BY <1>2, StillWitnessed
<1>10. Addressed'
  BY <1>3, <1>4, <1>5, <1>7, SameRecipients DEF Addressed, Searching, Holding, Route!Passing
<1>11. Missed'
  BY <1>1, <1>2, <1>3, MissedKept DEF Route!Resolving
<1>12. \A j \in queue : Mine(DomainOf[Route!address(j)])'
  BY <1>1, <1>2, <1>4, SiftKept, SameRecipients DEF RouteInv, Sifted
<1>13. Unrelayed(All)'
  BY <1>1, <1>2, SiftKept DEF RouteInv, Sifted
<1>14. ~s.catchall => Uncollected(All \ rest)'
  <2> SUFFICES ASSUME ~s.catchall, ~since'.failed, NEW j \in All \ rest
               PROVE  DomainOf[Route!address(j)] \notin since.always.owned \cap since.always.catchalls
    BY <1>4, SameRecipients DEF Uncollected
  <2>1. CASE j = i
    BY <1>2, <1>6, <2>1, StillFacts
  <2>2. CASE j # i
    BY <1>1, <1>4, <2>2 DEF RouteInv, Sifted, Uncollected
  <2> QED
    BY <2>1, <2>2
<1>15. Sifted'
  BY <1>3, <1>4, <1>12, <1>13, <1>14, SameRecipients DEF Sifted
<1>16. Priced'
  BY <1>3 DEF Priced
<1>17. Route!PassedOn'
  BY <1>3, <1>4, <1>13, SameRecipients DEF Route!PassedOn, Unrelayed
<1>18. Route!OwnedOnly'
  <2> SUFFICES ASSUME pc' = "collected" PROVE Route!OwnedOnly'
    BY <1>3 DEF Route!OwnedOnly, Route!Passing
  <2>1. to' = Route!address(i) /\ s.catchall
    BY <1>3
  <2>2. ~since'.failed => d \in since.ever.catchalls
    BY <1>2, <1>6, <2>1, StillFacts
  <2>3. d \in Seed \cup UNION {w.org : w \in past} /\ (~since'.failed => d \in since.ever.owned)
    BY <1>4, <1>6 DEF Mine
  <2> QED
    BY <1>4, <2>1, <2>2, <2>3 DEF Route!OwnedOnly
<1>19. Route!IgnoredForCause'
  <2> SUFFICES ASSUME pc' = "ignored", ~since'.failed
               PROVE  (\A j \in DOMAIN Route!recipients(event) :
                        DomainOf[Route!address(j)] \notin
                          since.always.owned \cap (since.always.relays \cup since.always.catchalls))'
    BY DEF Route!IgnoredForCause
  <2>1. rest = {} /\ ~s.catchall
    BY <1>3
  <2>2. Uncollected(All)'
    BY <1>14, <2>1 DEF Uncollected
  <2> QED
    BY <1>13, <2>2, SameRecipients, <1>4 DEF Unrelayed, Uncollected
<1> QED
  BY <1>8, <1>9, <1>10, <1>11, <1>15, <1>16, <1>17, <1>18, <1>19 DEF RouteInv

LEMMA ReceiveEmailRouteInv == ASSUME RoutingConstants, RouteInv, Route!ReceiveEmail PROVE RouteInv'
<1>1. UNCHANGED <<Route!world, event, to, policy, tries, allow, since, lost>> /\ pc = "found" /\ queue' = {}
      /\ pc' = IF to \in boxes THEN "filed" ELSE "ignored"
  BY DEF Route!ReceiveEmail, Route!Goto
<1>2. Still
  BY <1>1, ReadsAreStill
<1>3. to # None /\ to \in since.ever.boxes
  BY <1>1 DEF RouteInv, Addressed, Holding, Missed
<1>4. Route!TypeOK'
  BY <1>1, <1>2, StillTyped DEF RouteInv, Route!TypeOK, Route!Stages
<1>5. Witnessed'
  BY <1>2, StillWitnessed
<1>6. Addressed'
  BY <1>1, <1>3, SameRecipients DEF RouteInv, Addressed, Searching
<1>7. pc' = "ignored" => to \in since.ever.boxes \ since.always.boxes
  BY <1>1, <1>3 DEF RouteInv, Witnessed, Within, Route!facts
<1>8. Missed'
  BY <1>1, <1>7 DEF Missed, Route!RegisteredIsFiled, Route!Passing, Route!Resolving
<1>9. Route!IgnoredForCause'
  BY <1>1, <1>7 DEF Route!IgnoredForCause
<1>10. Sifted' /\ Priced' /\ Route!OwnedOnly' /\ Route!PassedOn'
  BY <1>1 DEF Sifted, Priced, Route!OwnedOnly, Route!PassedOn, Route!Passing
<1> QED
  BY <1>4, <1>5, <1>6, <1>8, <1>9, <1>10 DEF RouteInv

LEMMA ReceivePassthroughRouteInv ==
  ASSUME RoutingConstants, RouteInv, NEW s \in DomainSettings \cup {Route!empty},
         Route!ReceivePassthrough(s)
  PROVE  RouteInv'
<1> PICK d : d = DomainOf[to]
  OBVIOUS
<1>1. UNCHANGED <<Route!world, event, to, tries, allow>> /\ pc = "passthrough" /\ queue' = {}
      /\ Route!ReadDomain(d, s)
      /\ policy' = Route!resolveRelayPolicy(s)
      /\ pc' = IF Route!resolveRelayPolicy(s) = None THEN "ignored" ELSE "scan"
  BY DEF Route!ReceivePassthrough, Route!Goto
<1>2. Still /\ (since'.failed \/ s = settings[d]) /\ lost' \in 0 .. MaxLost
  BY <1>1, ReadsAreStill
<1>3. UNCHANGED <<event, allow, past, to>> /\ since'.always = since.always /\ since'.ever = since.ever
      /\ (since.failed => since'.failed)
  BY <1>1, <1>2 DEF Route!world, Still
<1>4. to # None
  BY <1>1 DEF RouteInv, Addressed, Holding, Route!Passing
<1>5. d \in Seed \cup UNION {w.org : w \in past} /\ (~since.failed => d \in since.ever.owned
      /\ d \in since.ever.relays)
  BY <1>1 DEF RouteInv, Route!OwnedOnly, Route!Passing
<1>6. d \in Domains
  BY <1>5, DomainsOfRecipients DEF RoutingConstants
<1>7. Route!TypeOK'
  BY <1>1, <1>2, StillTyped, ResolvesWhenRelaying DEF RouteInv, Route!TypeOK, Route!Stages
<1>8. Witnessed'
  BY <1>2, StillWitnessed
<1>9. Addressed'
  BY <1>1, <1>3, <1>4, SameRecipients DEF RouteInv, Addressed, Searching
<1>10. Missed'
  BY <1>1, <1>2, MissedKept DEF Route!Resolving, Route!Passing
<1>11. Sifted'
  BY <1>1 DEF Sifted
<1>12. Route!OwnedOnly'
  BY <1>1, <1>3, <1>5 DEF Route!OwnedOnly, Route!Passing
<1>13. Route!PassedOn'
  BY <1>1 DEF Route!PassedOn
<1>14. Priced'
  <2> SUFFICES ASSUME pc' = "scan" PROVE Priced'
    BY <1>1 DEF Priced
  <2>1. Route!resolveRelayPolicy(s) # None /\ policy' \in [Route!VerdictActions -> Route!Behaviors]
    BY <1>1, ResolvesWhenRelaying
  <2>2. ASSUME NEW v \in {"allow", "tag"}, policy'[v] = "drop", ~since'.failed
        PROVE  d \notin since.always.spares
    <3>1. s = settings[d] /\ v \in DOMAIN s.actions /\ s.actions[v] = "drop"
      BY <1>1, <1>2, <2>1, <2>2, ResolvesWhenRelaying
    <3> QED
      BY <1>6, <3>1, StillFacts
  <2> QED
    BY <1>3, <2>1, <2>2 DEF Priced
<1>15. Route!IgnoredForCause'
  <2> SUFFICES ASSUME pc' = "ignored", ~since'.failed
               PROVE  d \in since.ever.relays \ since.always.relays
    BY <1>3, <1>4 DEF Route!IgnoredForCause
  <2>1. ~(s.enabled /\ s.host)
    BY <1>1, ResolvesWhenRelaying
  <2> QED
    BY <1>2, <1>3, <1>5, <1>6, <2>1, StillFacts
<1> QED
  BY <1>7, <1>8, <1>9, <1>10, <1>11, <1>12, <1>13, <1>14, <1>15 DEF RouteInv

\* The steps that end a scan or a relay: the policy stays, the mail passes on.
LEMMA PassingRouteInv ==
  ASSUME RoutingConstants, RouteInv, UNCHANGED <<Route!world, event, to, policy, tries, allow, since,
         lost>>,
         pc \in {"scan", "relay"}, pc' \in {"relay", "relayed", "dropped"}, queue' = {},
         pc' = "dropped" => \E v \in {"allow", "tag"} : policy[v] = "drop"
  PROVE  RouteInv'
<1>1. Still
  BY ReadsAreStill
<1>2. UNCHANGED <<event, allow, past>>
  BY DEF Route!world
<1>3. Route!TypeOK'
  BY <1>1, StillTyped DEF RouteInv, Route!TypeOK, Route!Stages
<1>4. Witnessed'
  BY <1>1, StillWitnessed
<1>5. Addressed'
  BY <1>2, SameRecipients DEF RouteInv, Addressed, Searching, Holding, Route!Passing
<1>6. Missed'
  BY <1>1, MissedKept DEF Route!Passing
<1>7. Sifted' /\ Route!IgnoredForCause'
  BY DEF Sifted, Route!IgnoredForCause
<1>8. Priced'
  BY DEF RouteInv, Priced
<1>9. Route!OwnedOnly'
  BY <1>2 DEF RouteInv, Route!OwnedOnly, Route!Passing
<1>10. Route!PassedOn'
  BY DEF RouteInv, Priced, Route!PassedOn
<1> QED
  BY <1>3, <1>4, <1>5, <1>6, <1>7, <1>8, <1>9, <1>10 DEF RouteInv

LEMMA ScanPassthroughRouteInv ==
  ASSUME RoutingConstants, RouteInv, NEW v \in Route!VerdictActions \cup {None},
         Route!ScanPassthrough(v) PROVE RouteInv'
<1>1. UNCHANGED <<Route!world, event, to, policy, tries, allow, since, lost>> /\ pc = "scan" /\ queue' = {}
      /\ pc' = IF Route!behaviorFor(Route!tagCap(v), policy) = "drop" THEN "dropped" ELSE "relay"
  BY DEF Route!ScanPassthrough, Route!Goto
<1>2. Route!tagCap(v) \in {"allow", "tag", None}
  BY DEF Route!tagCap, Route!VerdictActions
<1>3. Route!behaviorFor(Route!tagCap(v), policy) = "drop" => \E a \in {"allow", "tag"} : policy[a] = "drop"
  BY <1>2 DEF Route!behaviorFor
<1> QED
  BY <1>1, <1>3, PassingRouteInv

LEMMA RelayRouteInv == ASSUME RoutingConstants, RouteInv, Route!Relay PROVE RouteInv'
BY PassingRouteInv DEF Route!Relay, Route!Goto

\* A change of the world makes less hold always and more hold ever.
LEMMA ChangeRouteInv ==
  ASSUME RoutingConstants, RouteInv, NEW b \in SUBSET Addresses, NEW o \in SUBSET Domains,
         NEW s \in [Domains -> DomainSettings], Route!Change(b, o, s), lost' \in 0 .. MaxLost
  PROVE  RouteInv'
<1>1. /\ pc \notin Route!Ended /\ changes' \in 0 .. MaxChanges /\ boxes' = b /\ org' = o /\ settings' = s
      /\ past' = past \cup {[org |-> o, settings |-> s]}
      /\ UNCHANGED <<pc, event, queue, to, policy, tries, allow>>
  BY DEF Route!Change, Route!delivery, RouteInv, Route!TypeOK, RoutingConstants
<1> PICK f \in Route!World : f = Route!facts(b, o, s)
  BY FactsAreWorld
<1>2. since' = [since EXCEPT !.always = Route!both(since.always, f), !.ever = Route!either(since.ever, f)]
  BY DEF Route!Change
<1>3. since \in [always : Route!World, ever : Route!World, failed : BOOLEAN]
  BY DEF RouteInv, Route!TypeOK
<1>4. /\ since'.always = Route!both(since.always, f)
      /\ since'.ever = Route!either(since.ever, f) /\ since'.failed = since.failed
      /\ since' \in [always : Route!World, ever : Route!World, failed : BOOLEAN]
  BY <1>2, <1>3, WorldsJoin
<1>5. Route!TypeOK'
  <2>1. past' \subseteq [org : SUBSET Domains, settings : [Domains -> DomainSettings]]
    BY <1>1 DEF RouteInv, Route!TypeOK
  <2> QED
    BY <1>1, <1>4, <2>1, SameRecipients DEF RouteInv, Route!TypeOK
<1>6. Witnessed'
  <2>1. Route!facts(boxes, org, settings)' = f
    BY <1>1 DEF Route!facts
  <2> QED
    BY <1>1, <1>4, <2>1 DEF Witnessed, Within, Route!both, Route!either
<1>7. /\ since'.always.boxes \subseteq since.always.boxes /\ since'.always.owned \subseteq since.always.owned
      /\ since'.always.relays \subseteq since.always.relays
      /\ since'.always.spares \subseteq since.always.spares
      /\ since'.always.catchalls \subseteq since.always.catchalls
  BY <1>4 DEF Route!both
<1>8. /\ since.ever.boxes \subseteq since'.ever.boxes /\ since.ever.owned \subseteq since'.ever.owned
      /\ since.ever.relays \subseteq since'.ever.relays /\ since.ever.catchalls \subseteq since'.ever.catchalls
  BY <1>4 DEF Route!either
<1>9. UNION {w.org : w \in past} \subseteq UNION {w.org : w \in past'}
  BY <1>1
<1>10. Addressed'
  BY <1>1, SameRecipients DEF RouteInv, Addressed
<1>11. Missed'
  <2>1. Route!RegisteredIsFiled'
    BY <1>1, <1>7, SameRecipients DEF RouteInv, Missed, Route!RegisteredIsFiled, Route!Ended
  <2>2. pc = "mailbox" => /\ queue # {} /\ queue \subseteq Route!registered(event)
                          /\ \A i \in Route!registered(event) \ queue :
                                 Route!address(i) \notin since'.always.boxes
    BY <1>7 DEF RouteInv, Missed
  <2>3. pc = "found" => to \in since'.ever.boxes
    BY <1>8 DEF RouteInv, Missed
  <2> QED
    BY <1>1, <2>1, <2>2, <2>3, SameRecipients DEF Missed
<1>12. \A d : Mine(d) => Mine(d)'
  BY <1>4, <1>8, <1>9 DEF Mine
<1>13. Sifted'
  <2>1. pc \in {"gateway", "observed"} => \A i \in queue : Mine(DomainOf[Route!address(i)])'
    BY <1>1, <1>12, SameRecipients DEF RouteInv, Sifted
  <2>2. pc = "gateway" => Unrelayed(DOMAIN Route!recipients(event) \ queue)'
    BY <1>1, <1>4, <1>7, SameRecipients DEF RouteInv, Sifted, Unrelayed
  <2>3. pc \in {"catchall", "observed", "collected"} => Unrelayed(DOMAIN Route!recipients(event))'
    BY <1>1, <1>4, <1>7, SameRecipients DEF RouteInv, Sifted, Unrelayed
  <2>4. pc = "observed" => Uncollected(DOMAIN Route!recipients(event) \ queue)'
    BY <1>1, <1>4, <1>7, SameRecipients DEF RouteInv, Sifted, Uncollected
  <2> QED
    BY <1>1, <2>1, <2>2, <2>3, <2>4 DEF Sifted
<1>14. Priced'
  BY <1>1, <1>4, <1>7 DEF RouteInv, Priced
<1>15. Route!OwnedOnly'
  BY <1>1, <1>4, <1>8, <1>9 DEF RouteInv, Route!OwnedOnly, Route!Ended
<1>16. Route!PassedOn' /\ Route!IgnoredForCause'
  BY <1>1 DEF Route!PassedOn, Route!IgnoredForCause, Route!Ended
<1> QED
  BY <1>5, <1>6, <1>10, <1>11, <1>13, <1>14, <1>15, <1>16 DEF RouteInv

LEMMA NextRouteInv == ASSUME RoutingConstants, RouteInv, [Route!Next]_(Route!vars) PROVE RouteInv'
<1> boxes \in SUBSET Addresses /\ org \in SUBSET Domains /\ settings \in [Domains -> DomainSettings]
  BY DEF RouteInv, Route!TypeOK
<1>1. CASE Route!Arrive \/ Route!HeadThrows \/ Route!ReceiveEmail \/ Route!Relay
      \/ Route!RelayThrows \/ Route!Redeliver
  BY <1>1, ArriveRouteInv, HeadThrowsRouteInv, ReceiveEmailRouteInv, RelayRouteInv,
      RelayThrowsRouteInv, RedeliverRouteInv
<1>2. CASE \E domains \in SUBSET Domains : Route!ReadOwned(domains)
  BY <1>2, ReadOwnedRouteInv
<1>3. CASE \E i \in queue : Route!FindMailbox(i) \/ Route!MissMailbox(i)
  BY <1>3, FindMailboxRouteInv, MissMailboxRouteInv
<1>4. CASE \E s \in DomainSettings \cup {Route!empty} :
             Route!ReceivePassthrough(s) \/ \E i \in queue :
                    Route!ResolveGateway(i, s) \/ Route!ResolveCatchall(i, s)
  BY <1>4, ReceivePassthroughRouteInv, ResolveGatewayRouteInv, ResolveCatchallRouteInv
<1>5. CASE \E v \in Route!VerdictActions \cup {None} : Route!ScanPassthrough(v)
  BY <1>5, ScanPassthroughRouteInv
<1>6. CASE \E a \in Addresses : Route!CreateMailbox(a) \/ Route!DeleteMailbox(a)
  <2> PICK a \in Addresses : Route!CreateMailbox(a) \/ Route!DeleteMailbox(a)
    BY <1>6
  <2>1. (\E b \in SUBSET Addresses : Route!Change(b, org, settings)) /\ lost' \in 0 .. MaxLost
    BY DEF Route!CreateMailbox, Route!DeleteMailbox, RouteInv, Route!TypeOK
  <2> QED
    BY <2>1, ChangeRouteInv
<1>7. CASE \E d \in Domains, domains \in SUBSET Domains :
             \/ Route!AddDomain(d, domains) \/ Route!DropDomain(d, domains)
             \/ \E s \in DomainSettings : Route!PutDomainSettings(d, s, domains)
  <2> PICK d \in Domains, domains \in SUBSET Domains :
             \/ Route!AddDomain(d, domains) \/ Route!DropDomain(d, domains)
             \/ \E s \in DomainSettings : Route!PutDomainSettings(d, s, domains)
    BY <1>7
  <2>1. Route!ReadBack(domains)
    BY DEF Route!AddDomain, Route!DropDomain, Route!PutDomainSettings
  <2>2. lost' \in 0 .. MaxLost
    BY <2>1 DEF Route!ReadBack, Route!fails, RouteInv, Route!TypeOK, RoutingConstants
  <2>3. \E o \in SUBSET Domains, s \in [Domains -> DomainSettings] : Route!Change(boxes, o, s)
    BY DEF Route!AddDomain, Route!DropDomain, Route!PutDomainSettings
  <2> QED
    BY <2>2, <2>3, ChangeRouteInv
<1>8. CASE UNCHANGED Route!vars
  <2>1. UNCHANGED <<allow, boxes, org, settings, past, pc,
                     event, queue, to, policy, since, tries, changes, lost>>
    BY <1>8 DEF Route!vars
  <2>2. Route!TypeOK'
    BY <2>1, SameRecipients DEF RouteInv, Route!TypeOK
  <2>3. Witnessed' /\ Addressed' /\ Priced'
    BY <2>1, SameRecipients DEF RouteInv, Witnessed, Within, Route!facts, Addressed, Priced
  <2>4. Missed'
    BY <2>1, SameRecipients DEF RouteInv, Missed, Route!RegisteredIsFiled
  <2>5. Sifted'
    BY <2>1, SameRecipients DEF RouteInv, Sifted, Mine, Unrelayed, Uncollected
  <2>6. Route!OwnedOnly' /\ Route!PassedOn' /\ Route!IgnoredForCause'
    BY <2>1, SameRecipients DEF RouteInv, Route!OwnedOnly, Route!PassedOn, Route!IgnoredForCause
  <2> QED
    BY <2>2, <2>3, <2>4, <2>5, <2>6 DEF RouteInv
<1> QED
  BY <1>1, <1>2, <1>3, <1>4, <1>5, <1>6, <1>7, <1>8 DEF Route!Next

\* The address in hand is a recipient, and the envelope's when it has one.
LEMMA HeldIsNamed == ASSUME RoutingConstants, RouteInv PROVE Route!EnvelopeDecides
<1> SUFFICES ASSUME to # None
             PROVE  IF Route!namedByServer(event) # None THEN to = Route!namedByServer(event)
                    ELSE \E i \in DOMAIN event.header : to = event.header[i]
  BY DEF Route!EnvelopeDecides
<1>1. Route!envelopeRecipient(event) = Route!namedByServer(event)
  BY EnvelopeIsNamed DEF RouteInv, Route!TypeOK
<1>2. \E i \in DOMAIN Route!recipients(event) : to = Route!recipients(event)[i]
  BY DEF RouteInv, Addressed, Route!address
<1> QED
  BY <1>1, <1>2 DEF Route!recipients

\* Whatever the domains, the settings, the deliveries and the order of the reads:
\* mail goes where its envelope says, a mailbox that exists all the while gets its
\* mail, only the operator's own domains are relayed or observed, and no mail is
\* dropped or ignored without a cause (RoutingSound).
THEOREM RoutingStaysSound == ASSUME RoutingConstants PROVE Route!Spec =>
       [](Route!TypeOK /\ Route!RoutingSound)
<1>1. Route!Init => RouteInv
  BY InitRouteInv
<1>2. RouteInv /\ [Route!Next]_(Route!vars) => RouteInv'
  BY NextRouteInv
<1>3. RouteInv => Route!TypeOK /\ Route!RoutingSound
  BY HeldIsNamed DEF RouteInv, Missed, Route!RoutingSound
<1> QED
  BY <1>1, <1>2, <1>3, PTL DEF Route!Spec

-----------------------------------------------------------------------------
(* Folders, the rows in them and the objects of their attachments: MailFolders. *)

CONSTANTS Ids, FolderIds, Names, Slug, Blocked, Verified, MaxBumps
VARIABLES folders, emails, bytes, bumps, stranded, asked
Folds == INSTANCE MailFolders WITH objects <- bytes, op <- asked, faults <- lost, MaxFaults <- MaxLost

FolderRequest == [kind : Folds!Kinds, id : Ids \cup {None}, folder : FolderIds \cup {None},
  from : BOOLEAN]
\* What the constants are: None is nothing else, a name's slug is a folder id,
\* the folders mail is put into by name are folders.
FolderConstants ==
  /\ None \notin Ids \cup FolderIds \cup Names \cup Folds!Row
  /\ Slug \in [Names -> FolderIds \cup {None}]
  /\ {"sent", "spam", "draft"} \subseteq FolderIds
  /\ MaxLost \in Nat /\ MaxBumps \in Nat

\* A request that writes or removes a message's objects: no row has them then.
HandlesOf(s, i) == asked[s].id = i /\ asked[s].kind \in {"dropObjects", "putObjects"}
OneHandler ==
  \A s, t \in Slots, i \in Ids : HandlesOf(s, i) => ~Folds!live(i) /\ (HandlesOf(t, i) => s = t)
\* A request knows its message, and its objects when it has stored them.
Concerned(r) == r.kind \notin {"idle", "newDraft"} => r.id \in Ids
StoringHas ==
  \A s \in Slots :
    /\ Concerned(asked[s])
    /\ asked[s].kind = "putObjects" => asked[s].id \in bytes /\ asked[s].folder \in FolderIds
RowsTell == \A i \in Ids : Folds!live(i) => (i \in bytes <=> emails[i].files = "stored")
FolderInv ==
  /\ Folds!TypeOK /\ IsFiniteSet(bumps)
  /\ Folds!MailHasFolder /\ OneHandler /\ StoringHas /\ RowsTell /\ Folds!ObjectsFollowRows

\* The instance counts as its host does.
LEMMA FoldsCardinality == \A S : Folds!Cardinality(S) = Cardinality(S)
BY DEF Folds!Cardinality, Cardinality

LEMMA InitFolderInv == ASSUME FolderConstants, Folds!Init PROVE FolderInv
<1>1. Folds!Idle \in FolderRequest /\ Folds!Idle.kind = "idle"
  BY DEF Folds!Idle, FolderRequest, Folds!Kinds
<1>2. Folds!TypeOK
  <2>1. asked \in [Slots -> FolderRequest]
    BY <1>1 DEF Folds!Init
  <2>2. folders \in [FolderIds -> Names \cup FolderIds \cup {None}]
    BY DEF Folds!Init
  <2>3. emails \in [Ids -> Folds!Row \cup {None}]
    BY DEF Folds!Init
  <2>4. lost \in 0..MaxLost
    BY DEF Folds!Init, FolderConstants
  <2>. QED BY <2>1, <2>2, <2>3, <2>4 DEF Folds!Init, Folds!TypeOK, FolderRequest
<1>3. IsFiniteSet(bumps)
  BY FS_EmptySet DEF Folds!Init
<1>4. \A i \in Ids : ~Folds!live(i)
  BY DEF Folds!Init, Folds!live
<1>5. \A s \in Slots : asked[s].kind = "idle"
  BY <1>1 DEF Folds!Init
<1>6. Folds!MailHasFolder
  BY <1>4 DEF Folds!MailHasFolder, Folds!Init, Folds!folderExists, FolderConstants
<1>7. OneHandler /\ StoringHas
  BY <1>5 DEF OneHandler, StoringHas, HandlesOf, Concerned
<1>8. RowsTell /\ Folds!ObjectsFollowRows
  BY <1>4 DEF Folds!Init, RowsTell, Folds!ObjectsFollowRows
<1>. QED BY <1>2, <1>3, <1>6, <1>7, <1>8 DEF FolderInv

\* What is true of the mail stays true when the objects and requests stay and
\* rows go, or move to a folder there is.
LEMMA RowsMove ==
  ASSUME FolderInv, UNCHANGED <<bytes, asked>>, stranded \subseteq stranded',
         \A i \in Ids : Folds!live(i)' => Folds!live(i) /\ emails'[i].files = emails[i].files,
         \A i \in Ids : Folds!live(i) /\ ~Folds!live(i)' => i \notin bytes \/ i \in stranded'
  PROVE  OneHandler' /\ StoringHas' /\ RowsTell' /\ Folds!ObjectsFollowRows'
<1>1. OneHandler' /\ StoringHas'
  BY DEF FolderInv, OneHandler, StoringHas, HandlesOf, Concerned
<1>2. RowsTell'
  BY DEF FolderInv, RowsTell
<1>3. Folds!ObjectsFollowRows'
  BY DEF FolderInv, Folds!ObjectsFollowRows
<1>. QED BY <1>1, <1>2, <1>3

LEMMA FoldersStep ==
  ASSUME FolderConstants, FolderInv,
         \/ \E n \in Names : Folds!createFolder(n) \/ \E f \in FolderIds : Folds!updateFolder(f, n)
         \/ \E f \in FolderIds : Folds!deleteFolder(f)
         \/ Folds!moveEmailsFromSender
  PROVE  FolderInv'
<1>1. ASSUME NEW n \in Names, NEW f \in FolderIds, folders' = [folders EXCEPT ![f] = n],
             UNCHANGED <<emails, bytes, bumps, stranded, lost, asked>>
      PROVE  FolderInv'
  <2>1. Folds!TypeOK' /\ IsFiniteSet(bumps)'
    BY <1>1 DEF FolderInv, Folds!TypeOK
  <2>2. \A g \in FolderIds : Folds!folderExists(g) => Folds!folderExists(g)'
    BY <1>1 DEF Folds!folderExists, FolderInv, Folds!TypeOK, FolderConstants
  <2>3. \A i \in Ids : Folds!live(i) => emails[i].folder \in FolderIds
    BY DEF FolderInv, Folds!TypeOK, Folds!live, Folds!Row
  <2>4. Folds!MailHasFolder'
    BY <1>1, <2>2, <2>3 DEF FolderInv, Folds!MailHasFolder, Folds!live
  <2>5. OneHandler' /\ StoringHas' /\ RowsTell' /\ Folds!ObjectsFollowRows'
    BY <1>1, RowsMove DEF Folds!live
  <2>. QED BY <2>1, <2>4, <2>5 DEF FolderInv
<1>2. ASSUME NEW n \in Names, Folds!createFolder(n) PROVE FolderInv'
  <2>1. Slug[n] \in FolderIds
    BY <1>2 DEF Folds!createFolder, FolderConstants
  <2>. QED BY <1>1, <1>2, <2>1 DEF Folds!createFolder
<1>3. ASSUME NEW n \in Names, NEW f \in FolderIds, Folds!updateFolder(f, n) PROVE FolderInv'
  BY <1>1, <1>3 DEF Folds!updateFolder
<1>4. ASSUME NEW f \in FolderIds, Folds!deleteFolder(f) PROVE FolderInv'
  <2>1. /\ Folds!folderExists(f) /\ f \notin Folds!System /\ folders' = [folders EXCEPT ![f] = None]
        /\ emails' = [i \in Ids |-> IF Folds!live(i) /\ emails[i].folder = f THEN None ELSE emails[i]]
        /\ stranded' = stranded \cup {i \in bytes : Folds!live(i) /\ emails[i].folder = f}
        /\ UNCHANGED <<bytes, bumps, lost, asked>>
    BY <1>4 DEF Folds!deleteFolder
  <2>2. Folds!TypeOK' /\ IsFiniteSet(bumps)'
    BY <2>1 DEF FolderInv, Folds!TypeOK
  <2>3. \A i \in Ids : Folds!live(i)' => Folds!live(i) /\ emails'[i] = emails[i] /\ emails[i].folder # f
    BY <2>1 DEF Folds!live
  <2>4. \A g \in FolderIds \ {f} : Folds!folderExists(g) => Folds!folderExists(g)'
    BY <2>1 DEF Folds!folderExists, FolderInv, Folds!TypeOK
  <2>5. \A i \in Ids : Folds!live(i) => emails[i].folder \in FolderIds
    BY DEF FolderInv, Folds!TypeOK, Folds!live, Folds!Row
  <2>6. Folds!MailHasFolder'
    BY <2>1, <2>3, <2>4, <2>5 DEF FolderInv, Folds!MailHasFolder
  <2>7. \A i \in Ids : Folds!live(i) /\ ~Folds!live(i)' => i \notin bytes \/ i \in stranded'
    BY <2>1 DEF Folds!live
  <2>8. OneHandler' /\ StoringHas' /\ RowsTell' /\ Folds!ObjectsFollowRows'
    BY <2>1, <2>3, <2>7, RowsMove
  <2>. QED BY <2>2, <2>6, <2>8 DEF FolderInv
<1>5. ASSUME Folds!moveEmailsFromSender PROVE FolderInv'
  <2>1. /\ emails' = [i \in Ids |->
             IF Folds!live(i) /\ i \in Blocked /\ emails[i].folder \in {"inbox", "archive"}
             THEN [emails[i] EXCEPT !.folder = "spam"] ELSE emails[i]]
        /\ UNCHANGED <<folders, bytes, bumps, stranded, lost, asked>>
    BY <1>5 DEF Folds!moveEmailsFromSender
  <2>2. ASSUME NEW i \in Ids
        PROVE  \/ emails'[i] = emails[i]
               \/ /\ Folds!live(i) /\ emails'[i] \in Folds!Row /\ emails'[i].folder = "spam"
                  /\ emails'[i].files = emails[i].files
    BY <2>1 DEF Folds!live, FolderInv, Folds!TypeOK, Folds!Row, FolderConstants
  <2>3. Folds!TypeOK' /\ IsFiniteSet(bumps)'
    <3>1. emails' \in [Ids -> Folds!Row \cup {None}]
      BY <2>1, <2>2 DEF FolderInv, Folds!TypeOK
    <3>. QED BY <2>1, <3>1 DEF FolderInv, Folds!TypeOK
  <2>4. \A i \in Ids : (Folds!live(i) <=> Folds!live(i)') /\ (Folds!live(i)' =>
          emails'[i].files = emails[i].files)
    BY <2>2 DEF Folds!live, FolderConstants
  <2>5. Folds!MailHasFolder'
    BY <2>1, <2>2, <2>4 DEF FolderInv, Folds!MailHasFolder, Folds!folderExists, Folds!System,
        FolderConstants
  <2>6. OneHandler' /\ StoringHas' /\ RowsTell' /\ Folds!ObjectsFollowRows'
    BY <2>1, <2>4, RowsMove
  <2>. QED BY <2>3, <2>5, <2>6 DEF FolderInv
<1>. QED BY <1>2, <1>3, <1>4, <1>5

LEMMA RowGoes ==
  ASSUME FolderConstants, FolderInv, NEW i \in Ids, Folds!deleteRowOnly(i) PROVE
    /\ emails' \in [Ids -> Folds!Row \cup {None}] /\ stranded' \subseteq Ids
         /\ stranded \subseteq stranded'
    /\ \A j \in Ids : Folds!live(j)' => Folds!live(j) /\ emails'[j] = emails[j]
    /\ \A j \in Ids : Folds!live(j) /\ ~Folds!live(j)' => j \notin bytes \/ j \in stranded'
  BY DEF Folds!deleteRowOnly, Folds!live, FolderInv, Folds!TypeOK

\* A row that moves to a folder there is.
LEMMA RowMoves ==
  ASSUME FolderConstants, FolderInv, NEW i \in Ids, NEW f \in FolderIds, Folds!folderExists(f),
         emails' = Folds!moved(i, f)
  PROVE  /\ emails' \in [Ids -> Folds!Row \cup {None}]
         /\ \A j \in Ids : /\ Folds!live(j)' <=> Folds!live(j)
                           /\ Folds!live(j) => emails'[j].files = emails[j].files
                           /\ Folds!live(j) => emails'[j].folder \in {f, emails[j].folder}
<1>1. CASE ~Folds!live(i)
  BY <1>1 DEF Folds!moved, FolderInv, Folds!TypeOK, Folds!live
<1>2. CASE Folds!live(i)
  <2>1. emails[i] \in Folds!Row
    BY <1>2 DEF Folds!live, FolderInv, Folds!TypeOK
  <2>2. emails' = [emails EXCEPT ![i] = [emails[i] EXCEPT !.folder = f]]
    BY <1>2 DEF Folds!moved
  <2>3. [emails[i] EXCEPT !.folder = f] \in Folds!Row /\ [emails[i] EXCEPT !.folder = f].folder = f
        /\ [emails[i] EXCEPT !.folder = f].files = emails[i].files
    BY <2>1 DEF Folds!Row
  <2>. HIDE DEF Folds!Row
  <2>. QED BY <1>2, <2>2, <2>3 DEF FolderInv, Folds!TypeOK, Folds!live, FolderConstants
<1>. QED BY <1>1, <1>2

\* A row that comes for a message without objects, or for one that has them.
LEMMA RowComes ==
  ASSUME FolderConstants, FolderInv, NEW i \in Ids, NEW row \in Folds!Row, Folds!createEmail(i, row)
  PROVE  /\ emails' \in [Ids -> Folds!Row \cup {None}] /\ ~Folds!live(i) /\ Folds!live(i)'
              /\ emails'[i] = row
         /\ Folds!folderExists(row.folder)
         /\ \A j \in Ids \ {i} : emails'[j] = emails[j]
  BY DEF Folds!createEmail, FolderInv, Folds!TypeOK, Folds!live, FolderConstants

\* A row comes and nothing else but the request that brought it ends: the
\* message has objects exactly if the row says so.
LEMMA RowIsSound ==
  ASSUME FolderConstants, FolderInv, NEW i \in Ids, NEW row \in Folds!Row, Folds!createEmail(i, row),
         i \in bytes <=> row.files = "stored", \A s \in Slots : ~HandlesOf(s, i)',
         UNCHANGED <<folders, bytes, stranded>>,
         asked' \in [Slots -> FolderRequest],
         \A s \in Slots : asked'[s] = asked[s] \/ asked'[s] = Folds!Idle,
         \A s \in Slots : asked'[s] # asked[s] =>
           asked[s].id = i \/ asked[s].kind \notin {"dropObjects", "putObjects"}
  PROVE  Folds!MailHasFolder' /\ OneHandler' /\ StoringHas' /\ RowsTell' /\ Folds!ObjectsFollowRows'
<1>1. Folds!Idle.kind = "idle"
  BY DEF Folds!Idle
<1>2. Folds!MailHasFolder'
  BY RowComes DEF FolderInv, Folds!MailHasFolder, Folds!folderExists, Folds!live
<1>3. \A s \in Slots, j \in Ids : HandlesOf(s, j)' => HandlesOf(s, j) /\ j # i
  BY <1>1 DEF HandlesOf
<1>4. OneHandler'
  BY <1>3, RowComes DEF FolderInv, OneHandler, Folds!live
<1>5. StoringHas'
  BY <1>1 DEF FolderInv, StoringHas, Concerned
<1>6. RowsTell'
  BY RowComes DEF FolderInv, RowsTell, Folds!live
<1>7. ASSUME NEW j \in Ids, j \in bytes, ~Folds!live(j)'
      PROVE j \in stranded \/ \E s \in Slots : HandlesOf(s, j)'
  <2>1. j # i /\ ~Folds!live(j)
    BY <1>7, RowComes DEF Folds!live
  <2>2. CASE j \in stranded
    BY <2>2
  <2>3. ASSUME NEW s \in Slots, HandlesOf(s, j) PROVE HandlesOf(s, j)'
    BY <2>1, <2>3 DEF HandlesOf
  <2>. QED BY <1>7, <2>1, <2>2, <2>3 DEF FolderInv, Folds!ObjectsFollowRows, HandlesOf
<1>8. Folds!ObjectsFollowRows'
  BY <1>6, <1>7 DEF RowsTell, Folds!ObjectsFollowRows, HandlesOf
<1>. QED BY <1>2, <1>4, <1>5, <1>6, <1>8

LEMMA ToolStep ==
  ASSUME FolderConstants, FolderInv, NEW i \in Ids,
         Folds!toolDeleteEmail(i) \/ Folds!toolSendEmail(i)
           \/ \E f \in FolderIds : Folds!toolMoveEmail(i, f)
  PROVE  FolderInv'
<1>1. CASE Folds!toolDeleteEmail(i)
  <2>1. Folds!deleteRowOnly(i) /\ UNCHANGED <<folders, bytes, bumps, lost, asked>>
    BY <1>1 DEF Folds!toolDeleteEmail
  <2>2. Folds!TypeOK' /\ IsFiniteSet(bumps)'
    BY <2>1, RowGoes DEF FolderInv, Folds!TypeOK
  <2>3. Folds!MailHasFolder'
    BY <2>1, RowGoes DEF FolderInv, Folds!MailHasFolder, Folds!folderExists
  <2>4. OneHandler' /\ StoringHas' /\ RowsTell' /\ Folds!ObjectsFollowRows'
    BY <2>1, RowGoes, RowsMove
  <2>. QED BY <2>2, <2>3, <2>4 DEF FolderInv
<1>2. ASSUME NEW f \in FolderIds, Folds!toolMoveEmail(i, f) PROVE FolderInv'
  <2>1. /\ Folds!folderExists(f) /\ Folds!live(i) /\ emails' = Folds!moved(i, f)
        /\ UNCHANGED <<folders, bytes, bumps, stranded, lost, asked>>
    BY <1>2 DEF Folds!toolMoveEmail
  <2>2. Folds!TypeOK' /\ IsFiniteSet(bumps)'
    BY <2>1, RowMoves DEF FolderInv, Folds!TypeOK
  <2>3. Folds!MailHasFolder'
    BY <2>1, RowMoves DEF FolderInv, Folds!MailHasFolder, Folds!folderExists
  <2>4. OneHandler' /\ StoringHas' /\ RowsTell' /\ Folds!ObjectsFollowRows'
    BY <2>1, RowMoves, RowsMove
  <2>. QED BY <2>2, <2>3, <2>4 DEF FolderInv
<1>3. CASE Folds!toolSendEmail(i)
  <2>. DEFINE row == [folder |-> "sent", files |-> "listed"]
  <2>1. /\ Folds!fresh(i) /\ Folds!createEmail(i, row)
        /\ UNCHANGED <<folders, bytes, bumps, stranded, lost, asked>>
    BY <1>3 DEF Folds!toolSendEmail
  <2>2. row \in Folds!Row
    BY DEF Folds!Row, FolderConstants
  <2>3. row.folder = "sent" /\ row.files = "listed"
    OBVIOUS
  <2>. HIDE DEF row
  <2>4. \A s \in Slots : ~HandlesOf(s, i)'
    BY <2>1 DEF Folds!fresh, HandlesOf
  <2>5. Folds!TypeOK' /\ IsFiniteSet(bumps)'
    BY <2>1, <2>2, RowComes DEF FolderInv, Folds!TypeOK
  <2>6. Folds!MailHasFolder' /\ OneHandler' /\ StoringHas' /\ RowsTell' /\ Folds!ObjectsFollowRows'
    <3>1. i \notin bytes /\ asked' = asked /\ asked \in [Slots -> FolderRequest]
      BY <2>1 DEF Folds!fresh, FolderInv, Folds!TypeOK, FolderRequest
    <3>. QED BY <2>1, <2>2, <2>3, <2>4, <3>1, RowIsSound
  <2>. QED BY <2>5, <2>6 DEF FolderInv
<1>. QED BY <1>1, <1>2, <1>3
\* Rows go, stay or move, and a request that handles no objects begins or ends.
LEMMA RequestMoves ==
  ASSUME FolderInv, UNCHANGED bytes, stranded \subseteq stranded', NEW s \in Slots,
           NEW r \in FolderRequest,
         asked' = [asked EXCEPT ![s] = r],
         asked[s].kind \notin {"dropObjects", "putObjects"}, r.kind \notin {"dropObjects",
           "putObjects"}, Concerned(r),
         \A i \in Ids : Folds!live(i)' => Folds!live(i) /\ emails'[i].files = emails[i].files,
         \A i \in Ids : Folds!live(i) /\ ~Folds!live(i)' => i \notin bytes \/ i \in stranded'
  PROVE  OneHandler' /\ StoringHas' /\ RowsTell' /\ Folds!ObjectsFollowRows'
<1>1. \A t \in Slots, i \in Ids : HandlesOf(t, i)' <=> HandlesOf(t, i)
  BY DEF HandlesOf, FolderInv, Folds!TypeOK
<1>2. \A t \in Slots : asked'[t].kind = "putObjects" => asked'[t] = asked[t]
  BY DEF FolderInv, Folds!TypeOK
<1>3. OneHandler'
  BY <1>1 DEF FolderInv, OneHandler
<1>4. StoringHas'
  <2>1. \A t \in Slots : asked'[t] = r \/ asked'[t] = asked[t]
    BY DEF FolderInv, Folds!TypeOK
  <2>. QED BY <1>2, <2>1 DEF FolderInv, StoringHas, Concerned
<1>5. RowsTell'
  BY DEF FolderInv, RowsTell
<1>6. ASSUME NEW i \in Ids, i \in bytes, ~Folds!live(i)'
      PROVE i \in stranded' \/ \E t \in Slots : HandlesOf(t, i)'
  BY <1>1, <1>6 DEF FolderInv, Folds!ObjectsFollowRows, HandlesOf
<1>7. Folds!ObjectsFollowRows'
  BY <1>5, <1>6 DEF RowsTell, Folds!ObjectsFollowRows, HandlesOf
<1>. QED BY <1>3, <1>4, <1>5, <1>7

LEMMA Finished ==
  ASSUME FolderInv PROVE Folds!Idle \in FolderRequest /\ Folds!Idle.kind = "idle"
           /\ Folds!Idle.id = None
                         /\ asked \in [Slots -> FolderRequest]
  BY DEF Folds!Idle, FolderRequest, Folds!Kinds, FolderInv, Folds!TypeOK

LEMMA MoveStep ==
  ASSUME FolderConstants, FolderInv, NEW s \in Slots,
         \/ Folds!moveEmail(s) \/ Folds!bumpReputation(s)
         \/ \E i \in Ids, f \in FolderIds : Folds!startMove(s, i, f)
  PROVE  FolderInv'
<1>0. asked \in [Slots -> FolderRequest] /\ asked[s] \in FolderRequest
        /\ Folds!Idle \in FolderRequest /\ Concerned(Folds!Idle)
      /\ Folds!Idle.kind = "idle" /\ Concerned(asked[s])
  BY Finished DEF Concerned, FolderInv, StoringHas
<1>1. CASE Folds!moveEmail(s)
  <2>1. asked[s].kind = "move" /\ UNCHANGED <<folders, bytes, bumps, stranded, lost>>
    BY <1>1 DEF Folds!moveEmail
  <2>2. CASE Folds!folderExists(asked[s].folder)
    <3>1. emails' = Folds!moved(asked[s].id, asked[s].folder)
            /\ asked' = [asked EXCEPT ![s] = [asked[s] EXCEPT !.kind = "bump"]]
      BY <1>1, <2>2 DEF Folds!moveEmail
    <3>2. [asked[s] EXCEPT !.kind = "bump"] \in FolderRequest
            /\ [asked[s] EXCEPT !.kind = "bump"].kind = "bump"
          /\ [asked[s] EXCEPT !.kind = "bump"].id = asked[s].id
      BY <1>0 DEF FolderRequest, Folds!Kinds
    <3>3. asked[s].folder \in FolderIds /\ asked[s].id \in Ids
      BY <1>0, <2>1, <2>2 DEF FolderRequest, Folds!folderExists, Concerned
    <3>4. /\ emails' \in [Ids -> Folds!Row \cup {None}]
          /\ \A j \in Ids : /\ Folds!live(j)' <=> Folds!live(j)
                            /\ Folds!live(j) => emails'[j].files = emails[j].files
                            /\ Folds!live(j) => emails'[j].folder \in {asked[s].folder,
                                 emails[j].folder}
      BY <2>2, <3>1, <3>3, RowMoves
    <3>5. Folds!TypeOK' /\ IsFiniteSet(bumps)'
      BY <1>0, <2>1, <3>1, <3>2, <3>4 DEF FolderInv, Folds!TypeOK, FolderRequest
    <3>6. Folds!MailHasFolder'
      BY <2>1, <2>2, <3>4 DEF FolderInv, Folds!MailHasFolder, Folds!folderExists
    <3>7. OneHandler' /\ StoringHas' /\ RowsTell' /\ Folds!ObjectsFollowRows'
      <4>1. Concerned([asked[s] EXCEPT !.kind = "bump"])
        BY <3>2, <3>3 DEF Concerned
      <4>. QED BY <2>1, <3>1, <3>2, <3>4, <4>1, RequestMoves
    <3>. QED BY <3>5, <3>6, <3>7 DEF FolderInv
  <2>3. CASE ~Folds!folderExists(asked[s].folder)
    <3>1. emails' = emails /\ asked' = [asked EXCEPT ![s] = Folds!Idle]
      BY <1>1, <2>3 DEF Folds!moveEmail, Folds!finish
    <3>2. Folds!TypeOK' /\ IsFiniteSet(bumps)'
      BY <1>0, <2>1, <3>1 DEF FolderInv, Folds!TypeOK, FolderRequest
    <3>3. Folds!MailHasFolder'
      BY <2>1, <3>1 DEF FolderInv, Folds!MailHasFolder, Folds!folderExists, Folds!live
    <3>4. OneHandler' /\ StoringHas' /\ RowsTell' /\ Folds!ObjectsFollowRows'
      BY <1>0, <2>1, <3>1, RequestMoves DEF Folds!live
    <3>. QED BY <3>2, <3>3, <3>4 DEF FolderInv
  <2>. QED BY <2>2, <2>3
<1>2. CASE Folds!bumpReputation(s)
  <2>1. asked[s].kind = "bump" /\ asked' = [asked EXCEPT ![s] = Folds!Idle]
          /\ UNCHANGED <<folders, emails, bytes, stranded>>
    BY <1>2 DEF Folds!bumpReputation, Folds!finish, Folds!fail
  <2>2. /\ bumps' = bumps \/ (Cardinality(bumps) < MaxBumps
                              /\ bumps' = bumps \cup {<<asked[s].id, Cardinality(bumps) + 1>>})
        /\ lost' = lost \/ (lost < MaxLost /\ lost' = lost + 1)
    BY <1>2, FoldsCardinality DEF Folds!bumpReputation, Folds!fail
  <2>3. asked[s].id \in Ids
    BY <1>0, <2>1 DEF Concerned
  <2>4. IsFiniteSet(bumps') /\ bumps' \subseteq Ids \X (1 .. MaxBumps)
    <3>1. IsFiniteSet(bumps) /\ bumps \subseteq Ids \X (1 .. MaxBumps) /\ Cardinality(bumps) \in Nat
      BY FS_CardinalityType DEF FolderInv, Folds!TypeOK
    <3>2. CASE bumps' = bumps
      BY <3>1, <3>2
    <3>3. CASE Cardinality(bumps) < MaxBumps
            /\ bumps' = bumps \cup {<<asked[s].id, Cardinality(bumps) + 1>>}
      <4>1. IsFiniteSet(bumps')
        BY <3>1, <3>3, FS_AddElement
      <4>2. Cardinality(bumps) + 1 \in 1..MaxBumps
        BY <3>1, <3>3 DEF FolderConstants
      <4>. QED BY <2>3, <3>1, <3>3, <4>1, <4>2
    <3>. QED BY <2>2, <3>2, <3>3
  <2>5. lost' \in 0..MaxLost
    BY <2>2 DEF FolderInv, Folds!TypeOK, FolderConstants
  <2>6. Folds!TypeOK' /\ IsFiniteSet(bumps)'
    BY <1>0, <2>1, <2>4, <2>5 DEF FolderInv, Folds!TypeOK, FolderRequest
  <2>7. Folds!MailHasFolder'
    BY <2>1 DEF FolderInv, Folds!MailHasFolder, Folds!folderExists, Folds!live
  <2>8. OneHandler' /\ StoringHas' /\ RowsTell' /\ Folds!ObjectsFollowRows'
    BY <1>0, <2>1, RequestMoves DEF Folds!live
  <2>. QED BY <2>6, <2>7, <2>8 DEF FolderInv
<1>3. ASSUME NEW i \in Ids, NEW f \in FolderIds, Folds!startMove(s, i, f) PROVE FolderInv'
  <2>. DEFINE r == [kind |-> "move", id |-> i, folder |-> f, from |-> emails[i].folder \notin Verified]
  <2>1. /\ asked[s] = Folds!Idle /\ asked' = [asked EXCEPT ![s] = r]
        /\ UNCHANGED <<folders, emails, bytes, bumps, stranded, lost>>
    BY <1>3 DEF Folds!startMove, Folds!begin
  <2>2. r \in FolderRequest /\ Concerned(r) /\ r.kind = "move"
    BY DEF FolderRequest, Folds!Kinds, Concerned
  <2>. HIDE DEF r
  <2>3. Folds!TypeOK' /\ IsFiniteSet(bumps)'
    BY <1>0, <2>1, <2>2 DEF FolderInv, Folds!TypeOK, FolderRequest
  <2>4. Folds!MailHasFolder'
    BY <2>1 DEF FolderInv, Folds!MailHasFolder, Folds!folderExists, Folds!live
  <2>5. OneHandler' /\ StoringHas' /\ RowsTell' /\ Folds!ObjectsFollowRows'
    BY <1>0, <2>1, <2>2, RequestMoves DEF Folds!live
  <2>. QED BY <2>3, <2>4, <2>5 DEF FolderInv
<1>. QED BY <1>1, <1>2, <1>3

\* Drafts: a row goes or stays, the request that is to write the next begins.
LEMMA DraftStep ==
  ASSUME FolderConstants, FolderInv, NEW s \in Slots,
         \/ Folds!discardDraft(s) \/ Folds!saveDraft(s, None)
         \/ \E i \in Ids : Folds!saveDraft(s, i) \/ Folds!toolDiscardDraft(s, i)
  PROVE  FolderInv'
<1>0. asked \in [Slots -> FolderRequest] /\ asked[s] \in FolderRequest
        /\ Folds!Idle \in FolderRequest /\ Concerned(Folds!Idle)
      /\ Folds!Idle.kind = "idle" /\ Concerned(asked[s])
  BY Finished DEF Concerned, FolderInv, StoringHas
<1>1. ASSUME NEW r \in FolderRequest, Concerned(r), r.kind \notin {"dropObjects", "putObjects"},
             asked[s].kind \notin {"dropObjects", "putObjects"}, asked' = [asked EXCEPT ![s] = r],
             UNCHANGED <<folders, bytes, bumps, lost>>,
             UNCHANGED <<emails, stranded>> \/ \E i \in Ids : Folds!deleteRowOnly(i)
      PROVE  FolderInv'
  <2>1. /\ emails' \in [Ids -> Folds!Row \cup {None}] /\ stranded' \subseteq Ids
             /\ stranded \subseteq stranded'
        /\ \A j \in Ids : Folds!live(j)' => Folds!live(j) /\ emails'[j] = emails[j]
        /\ \A j \in Ids : Folds!live(j) /\ ~Folds!live(j)' => j \notin bytes \/ j \in stranded'
    <3>1. CASE UNCHANGED <<emails, stranded>>
      BY <3>1 DEF FolderInv, Folds!TypeOK, Folds!live
    <3>. QED BY <1>1, <3>1, RowGoes
  <2>2. Folds!TypeOK' /\ IsFiniteSet(bumps)'
    BY <1>0, <1>1, <2>1 DEF FolderInv, Folds!TypeOK, FolderRequest
  <2>3. Folds!MailHasFolder'
    BY <1>1, <2>1 DEF FolderInv, Folds!MailHasFolder, Folds!folderExists
  <2>4. OneHandler' /\ StoringHas' /\ RowsTell' /\ Folds!ObjectsFollowRows'
    BY <1>1, <2>1, RequestMoves
  <2>. QED BY <2>2, <2>3, <2>4 DEF FolderInv
<1>2. CASE Folds!discardDraft(s)
  <2>1. asked[s].kind = "discard" /\ asked' = [asked EXCEPT ![s] = Folds!Idle] /\ asked[s].id \in Ids
    BY <1>0, <1>2 DEF Folds!discardDraft, Folds!finish, Concerned
  <2>2. UNCHANGED <<folders, bytes, bumps, lost>>
        /\ (UNCHANGED <<emails, stranded>> \/ Folds!deleteRowOnly(asked[s].id))
    BY <1>2 DEF Folds!discardDraft
  <2>. QED BY <1>0, <1>1, <2>1, <2>2
<1>3. ASSUME NEW i \in Ids \cup {None}, Folds!saveDraft(s, i) PROVE FolderInv'
  <2>. DEFINE r == [Folds!Idle EXCEPT !.kind = "newDraft", !.id = i]
  <2>1. /\ asked[s] = Folds!Idle /\ asked' = [asked EXCEPT ![s] = r]
             /\ UNCHANGED <<folders, bytes, bumps, lost>>
        /\ UNCHANGED <<emails, stranded>> \/ (i # None /\ Folds!deleteRowOnly(i))
    BY <1>3 DEF Folds!saveDraft, Folds!begin
  <2>2. r \in FolderRequest /\ r.kind = "newDraft" /\ Concerned(r)
    BY DEF FolderRequest, Folds!Idle, Folds!Kinds, Concerned
  <2>. HIDE DEF r
  <2>3. asked[s].kind \notin {"dropObjects", "putObjects"}
    BY <1>0, <2>1
  <2>4. UNCHANGED <<emails, stranded>> \/ \E j \in Ids : Folds!deleteRowOnly(j)
    BY <2>1
  <2>. QED BY <1>1, <2>1, <2>2, <2>3, <2>4
<1>4. ASSUME NEW i \in Ids, Folds!toolDiscardDraft(s, i) PROVE FolderInv'
  <2>. DEFINE r == [Folds!Idle EXCEPT !.kind = "discard", !.id = i]
  <2>1. /\ asked[s] = Folds!Idle /\ asked' = [asked EXCEPT ![s] = r]
             /\ UNCHANGED <<folders, bytes, bumps, lost>>
        /\ UNCHANGED <<emails, stranded>>
    BY <1>4 DEF Folds!toolDiscardDraft, Folds!begin
  <2>2. r \in FolderRequest /\ r.kind = "discard" /\ Concerned(r)
    BY DEF FolderRequest, Folds!Idle, Folds!Kinds, Concerned
  <2>. HIDE DEF r
  <2>3. asked[s].kind \notin {"dropObjects", "putObjects"}
    BY <1>0, <2>1
  <2>. QED BY <1>1, <2>1, <2>2, <2>3
<1>. QED BY <1>2, <1>3, <1>4

\* A row comes with its request's end: createDraft and storeRow.
LEMMA CreateStep ==
  ASSUME FolderConstants, FolderInv, NEW s \in Slots,
         Folds!storeRow(s) \/ \E i \in Ids : Folds!createDraft(s, i)
  PROVE  FolderInv'
<1>0. asked \in [Slots -> FolderRequest] /\ asked[s] \in FolderRequest
        /\ Folds!Idle \in FolderRequest /\ Concerned(Folds!Idle)
      /\ Folds!Idle.kind = "idle" /\ Concerned(asked[s])
  BY Finished DEF Concerned, FolderInv, StoringHas
<1>1. ASSUME NEW i \in Ids, NEW row \in Folds!Row, Folds!createEmail(i, row),
               asked' = [asked EXCEPT ![s] = Folds!Idle],
             UNCHANGED <<folders, bytes, bumps, stranded, lost>>,
             i \in bytes <=> row.files = "stored", \A t \in Slots : HandlesOf(t, i) => t = s,
             asked[s].id = i \/ asked[s].kind \notin {"dropObjects", "putObjects"}
      PROVE  FolderInv'
  <2>1. asked' \in [Slots -> FolderRequest] /\ \A t \in Slots : (t = s
          /\ asked'[t] = Folds!Idle) \/ (t # s /\ asked'[t] = asked[t])
    BY <1>0, <1>1
  <2>2. \A t \in Slots : ~HandlesOf(t, i)'
    BY <1>0, <1>1, <2>1 DEF HandlesOf
  <2>3. Folds!TypeOK' /\ IsFiniteSet(bumps)'
    BY <1>1, <2>1, RowComes DEF FolderInv, Folds!TypeOK, FolderRequest
  <2>4. Folds!MailHasFolder' /\ OneHandler' /\ StoringHas' /\ RowsTell' /\ Folds!ObjectsFollowRows'
    BY <1>1, <2>1, <2>2, RowIsSound
  <2>. QED BY <2>3, <2>4 DEF FolderInv
<1>2. ASSUME NEW i \in Ids, Folds!createDraft(s, i) PROVE FolderInv'
  <2>. DEFINE row == [folder |-> "draft", files |-> "none"]
  <2>1. asked[s].kind = "newDraft" /\ asked' = [asked EXCEPT ![s] = Folds!Idle]
        /\ UNCHANGED <<folders, bytes, bumps, stranded>>
    BY <1>2 DEF Folds!createDraft, Folds!finish, Folds!fail
  <2>2. row \in Folds!Row /\ row.files = "none"
    BY DEF Folds!Row, FolderConstants
  <2>. HIDE DEF row
  <2>3. CASE Folds!fresh(i) /\ Folds!createEmail(i, row) /\ UNCHANGED lost
    <3>1. i \notin bytes /\ \A t \in Slots : ~HandlesOf(t, i)
      BY <2>3 DEF Folds!fresh, HandlesOf
    <3>. QED BY <1>1, <2>1, <2>2, <2>3, <3>1
  <2>4. CASE lost < MaxLost /\ lost' = lost + 1 /\ UNCHANGED emails
    <3>1. Folds!TypeOK' /\ IsFiniteSet(bumps)'
      <4>1. lost' \in 0..MaxLost
        BY <2>4 DEF FolderInv, Folds!TypeOK, FolderConstants
      <4>. QED BY <1>0, <2>1, <2>4, <4>1 DEF FolderInv, Folds!TypeOK, FolderRequest
    <3>2. Folds!MailHasFolder'
      BY <2>1, <2>4 DEF FolderInv, Folds!MailHasFolder, Folds!folderExists, Folds!live
    <3>3. OneHandler' /\ StoringHas' /\ RowsTell' /\ Folds!ObjectsFollowRows'
      BY <1>0, <2>1, <2>4, RequestMoves DEF Folds!live
    <3>. QED BY <3>1, <3>2, <3>3 DEF FolderInv
  <2>. QED BY <1>2, <2>3, <2>4 DEF Folds!createDraft, Folds!fail, row
<1>3. CASE Folds!storeRow(s)
  <2>. DEFINE i == asked[s].id
              row == [folder |-> asked[s].folder, files |-> "stored"]
  <2>1. asked[s].kind = "putObjects" /\ asked' = [asked EXCEPT ![s] = Folds!Idle]
        /\ UNCHANGED <<folders, bytes, bumps>>
    BY <1>3 DEF Folds!storeRow, Folds!finish, Folds!fail
  <2>2. i \in Ids /\ i \in bytes /\ asked[s].folder \in FolderIds /\ HandlesOf(s, i)
    BY <1>0, <2>1 DEF Concerned, FolderInv, StoringHas, HandlesOf
  <2>3. row \in Folds!Row /\ row.files = "stored"
    BY <2>2 DEF Folds!Row
  <2>4. \A t \in Slots : HandlesOf(t, i) => t = s
    BY <2>2 DEF FolderInv, OneHandler
  <2>5. \/ Folds!createEmail(i, row) /\ UNCHANGED <<stranded, lost>>
        \/ /\ lost < MaxLost /\ lost' = lost + 1 /\ stranded' = stranded \cup {i}
           /\ UNCHANGED emails
    BY <1>3 DEF Folds!storeRow, Folds!fail
  <2>. HIDE DEF row
  <2>6. CASE Folds!createEmail(i, row) /\ UNCHANGED <<stranded, lost>>
    BY <1>1, <2>1, <2>2, <2>3, <2>4, <2>6
  <2>7. CASE /\ lost < MaxLost /\ lost' = lost + 1 /\ stranded' = stranded \cup {i}
             /\ UNCHANGED emails
    <3>1. Folds!TypeOK' /\ IsFiniteSet(bumps)'
      <4>1. lost' \in 0..MaxLost
        BY <2>7 DEF FolderInv, Folds!TypeOK, FolderConstants
      <4>. QED BY <1>0, <2>1, <2>2, <2>7, <4>1 DEF FolderInv, Folds!TypeOK, FolderRequest
    <3>2. Folds!MailHasFolder'
      BY <2>1, <2>7 DEF FolderInv, Folds!MailHasFolder, Folds!folderExists, Folds!live
    <3>3. \A t \in Slots : (t = s /\ asked'[t] = Folds!Idle) \/ (t # s /\ asked'[t] = asked[t])
      BY <1>0, <2>1
    <3>4. OneHandler' /\ StoringHas' /\ RowsTell'
      BY <1>0, <2>1, <2>7, <3>3 DEF FolderInv, OneHandler, StoringHas, RowsTell, HandlesOf,
          Folds!live
    <3>5. ASSUME NEW j \in Ids, j \in bytes, ~Folds!live(j)
          PROVE  j \in stranded' \/ \E t \in Slots : HandlesOf(t, j)'
      <4>1. CASE j = i
        BY <2>7, <4>1
      <4>2. ASSUME NEW t \in Slots, HandlesOf(t, j), j # i PROVE HandlesOf(t, j)'
        BY <3>3, <4>2 DEF HandlesOf
      <4>. QED BY <2>7, <3>5, <4>1, <4>2 DEF FolderInv, Folds!ObjectsFollowRows, HandlesOf
    <3>6. Folds!ObjectsFollowRows'
      BY <2>1, <2>7, <3>4, <3>5 DEF RowsTell, Folds!ObjectsFollowRows, HandlesOf, Folds!live
    <3>. QED BY <3>1, <3>2, <3>4, <3>6 DEF FolderInv
  <2>. QED BY <2>5, <2>6, <2>7
<1>. QED BY <1>2, <1>3

\* A message's objects come before its row and go after it.
LEMMA ObjectStep ==
  ASSUME FolderConstants, FolderInv, NEW s \in Slots,
         Folds!dropObjects(s) \/ \E i \in Ids : Folds!deleteEmail(s, i)
           \/ \E f \in FolderIds : Folds!storeAttachments(s, i, f)
  PROVE  FolderInv'
<1>0. asked \in [Slots -> FolderRequest] /\ asked[s] \in FolderRequest
        /\ Folds!Idle \in FolderRequest /\ Concerned(Folds!Idle)
      /\ Folds!Idle.kind = "idle" /\ Concerned(asked[s])
  BY Finished DEF Concerned, FolderInv, StoringHas
<1>1. ASSUME NEW i \in Ids, NEW f \in FolderIds, Folds!storeAttachments(s, i, f) PROVE FolderInv'
  <2>. DEFINE r == [Folds!Idle EXCEPT !.kind = "putObjects", !.id = i, !.folder = f]
  <2>1. /\ Folds!fresh(i) /\ bytes' = bytes \cup {i} /\ asked[s] = Folds!Idle
             /\ asked' = [asked EXCEPT ![s] = r]
        /\ UNCHANGED <<folders, emails, bumps, stranded, lost>>
    BY <1>1 DEF Folds!storeAttachments, Folds!begin
  <2>2. r \in FolderRequest /\ Concerned(r) /\ r.kind = "putObjects" /\ r.id = i /\ r.folder = f
    BY DEF FolderRequest, Folds!Kinds, Concerned, Folds!Idle
  <2>. HIDE DEF r
  <2>3. Folds!TypeOK' /\ IsFiniteSet(bumps)'
    BY <1>0, <2>1, <2>2 DEF FolderInv, Folds!TypeOK, FolderRequest
  <2>4. Folds!MailHasFolder'
    BY <2>1 DEF FolderInv, Folds!MailHasFolder, Folds!folderExists, Folds!live
  <2>5. /\ ~Folds!live(i) /\ i \notin bytes /\ \A t \in Slots : asked[t].id # i
        /\ \A t \in Slots : (t = s /\ asked'[t] = r) \/ (t # s /\ asked'[t] = asked[t])
    BY <1>0, <2>1 DEF Folds!fresh
  <2>6. \A t \in Slots, j \in Ids : HandlesOf(t, j)' =>
          (t = s /\ j = i) \/ (j # i /\ t # s /\ HandlesOf(t, j))
    BY <2>2, <2>5 DEF HandlesOf
  <2>7. OneHandler'
    BY <2>1, <2>5, <2>6 DEF FolderInv, OneHandler, Folds!live
  <2>8. StoringHas'
    BY <2>1, <2>2, <2>5 DEF FolderInv, StoringHas
  <2>9. RowsTell'
    BY <2>1, <2>5 DEF FolderInv, RowsTell, Folds!live
  <2>10. ASSUME NEW j \in Ids, j \in bytes', ~Folds!live(j)
         PROVE  j \in stranded \/ \E t \in Slots : HandlesOf(t, j)'
    <3>1. CASE j = i
      BY <2>2, <2>5, <3>1 DEF HandlesOf
    <3>2. ASSUME NEW t \in Slots, HandlesOf(t, j) PROVE HandlesOf(t, j)'
      BY <1>0, <2>1, <2>5, <3>2 DEF HandlesOf
    <3>. QED BY <2>1, <2>10, <3>1, <3>2 DEF FolderInv, Folds!ObjectsFollowRows, HandlesOf
  <2>11. Folds!ObjectsFollowRows'
    BY <2>1, <2>9, <2>10 DEF RowsTell, Folds!ObjectsFollowRows, HandlesOf, Folds!live
  <2>. QED BY <2>3, <2>4, <2>7, <2>8, <2>9, <2>11 DEF FolderInv
<1>2. ASSUME NEW i \in Ids, Folds!deleteEmail(s, i) PROVE FolderInv'
  <2>1. /\ Folds!live(i) /\ asked[s] = Folds!Idle /\ emails' = [emails EXCEPT ![i] = None]
        /\ UNCHANGED <<folders, bytes, bumps, stranded, lost>>
    BY <1>2 DEF Folds!deleteEmail, Folds!begin
  <2>2. /\ emails' \in [Ids -> Folds!Row \cup {None}]
        /\ \A j \in Ids : Folds!live(j)' <=> Folds!live(j) /\ j # i
        /\ \A j \in Ids : Folds!live(j)' => emails'[j] = emails[j]
    BY <2>1 DEF Folds!live, FolderInv, Folds!TypeOK
  <2>3. Folds!MailHasFolder'
    BY <2>1, <2>2 DEF FolderInv, Folds!MailHasFolder, Folds!folderExists
  <2>4. CASE emails[i].files = "none" /\ asked' = asked
    <3>1. Folds!TypeOK' /\ IsFiniteSet(bumps)'
      BY <2>1, <2>2, <2>4 DEF FolderInv, Folds!TypeOK
    <3>2. i \notin bytes
      BY <2>1, <2>4 DEF FolderInv, RowsTell
    <3>3. OneHandler' /\ StoringHas' /\ RowsTell' /\ Folds!ObjectsFollowRows'
      BY <2>1, <2>2, <2>4, <3>2, RowsMove
    <3>. QED BY <2>3, <3>1, <3>3 DEF FolderInv
  <2>5. CASE asked' = [asked EXCEPT ![s] = [Folds!Idle EXCEPT !.kind = "dropObjects", !.id = i]]
    <3>. DEFINE r == [Folds!Idle EXCEPT !.kind = "dropObjects", !.id = i]
    <3>1. r \in FolderRequest /\ Concerned(r) /\ r.kind = "dropObjects" /\ r.id = i
            /\ asked' = [asked EXCEPT ![s] = r]
      BY <2>5 DEF FolderRequest, Folds!Kinds, Concerned, Folds!Idle
    <3>. HIDE DEF r
    <3>2. Folds!TypeOK' /\ IsFiniteSet(bumps)'
      BY <1>0, <2>1, <2>2, <3>1 DEF FolderInv, Folds!TypeOK, FolderRequest
    <3>3. \A t \in Slots : (t = s /\ asked'[t] = r) \/ (t # s /\ asked'[t] = asked[t])
      BY <1>0, <3>1
    <3>4. \A t \in Slots : ~HandlesOf(t, i)
      BY <2>1 DEF FolderInv, OneHandler
    <3>5. \A t \in Slots, j \in Ids : HandlesOf(t, j)' => (t = s /\ j = i) \/ (j # i /\ HandlesOf(t, j))
      BY <3>1, <3>3, <3>4 DEF HandlesOf
    <3>6. OneHandler'
      BY <2>2, <3>5 DEF FolderInv, OneHandler
    <3>7. StoringHas'
      BY <2>1, <3>1, <3>3 DEF FolderInv, StoringHas
    <3>8. RowsTell'
      BY <2>1, <2>2 DEF FolderInv, RowsTell
    <3>9. ASSUME NEW j \in Ids, j \in bytes, ~Folds!live(j)'
          PROVE  j \in stranded \/ \E t \in Slots : HandlesOf(t, j)'
      <4>1. CASE j = i
        BY <3>1, <3>3, <4>1 DEF HandlesOf
      <4>2. ASSUME NEW t \in Slots, HandlesOf(t, j) PROVE HandlesOf(t, j)'
        BY <1>0, <2>1, <3>3, <4>2 DEF HandlesOf
      <4>. QED BY <2>2, <3>9, <4>1, <4>2 DEF FolderInv, Folds!ObjectsFollowRows, HandlesOf
    <3>10. Folds!ObjectsFollowRows'
      BY <2>1, <3>8, <3>9 DEF RowsTell, Folds!ObjectsFollowRows, HandlesOf
    <3>. QED BY <2>3, <3>2, <3>6, <3>7, <3>8, <3>10 DEF FolderInv
  <2>. QED BY <1>2, <2>4, <2>5 DEF Folds!deleteEmail, Folds!begin
<1>3. CASE Folds!dropObjects(s)
  <2>1. asked[s].kind = "dropObjects" /\ asked' = [asked EXCEPT ![s] = Folds!Idle]
          /\ UNCHANGED <<folders, emails, bumps>>
    BY <1>3 DEF Folds!dropObjects, Folds!finish, Folds!fail
  <2>2. \/ bytes' = bytes \ {asked[s].id} /\ UNCHANGED <<stranded, lost>>
        \/ /\ lost < MaxLost /\ lost' = lost + 1 /\ bytes' = bytes
           /\ stranded' = stranded \cup ({asked[s].id} \cap bytes)
    BY <1>3 DEF Folds!dropObjects, Folds!fail
  <2>3. asked[s].id \in Ids /\ HandlesOf(s, asked[s].id) /\ ~Folds!live(asked[s].id)
    BY <1>0, <2>1 DEF Concerned, HandlesOf, FolderInv, OneHandler
  <2>4. /\ bytes' \subseteq bytes /\ stranded \subseteq stranded' /\ stranded' \subseteq Ids
        /\ lost' \in 0..MaxLost /\ \A j \in Ids \ {asked[s].id} : j \in bytes <=> j \in bytes'
        /\ asked[s].id \in bytes' => asked[s].id \in stranded'
    <3>1. lost' \in 0..MaxLost
      BY <2>2 DEF FolderInv, Folds!TypeOK, FolderConstants
    <3>. QED BY <2>2, <2>3, <3>1 DEF FolderInv, Folds!TypeOK
  <2>5. Folds!TypeOK' /\ IsFiniteSet(bumps)'
    BY <1>0, <2>1, <2>4 DEF FolderInv, Folds!TypeOK, FolderRequest
  <2>6. Folds!MailHasFolder'
    BY <2>1 DEF FolderInv, Folds!MailHasFolder, Folds!folderExists, Folds!live
  <2>7. \A t \in Slots : (t = s /\ asked'[t] = Folds!Idle) \/ (t # s /\ asked'[t] = asked[t])
    BY <1>0, <2>1
  <2>8. \A t \in Slots, j \in Ids : HandlesOf(t, j)' <=> t # s /\ HandlesOf(t, j)
    BY <1>0, <2>7 DEF HandlesOf
  <2>9. OneHandler'
    BY <2>1, <2>8 DEF FolderInv, OneHandler, Folds!live
  <2>10. StoringHas'
    <3>1. ASSUME NEW t \in Slots, asked'[t].kind = "putObjects"
    PROVE asked'[t].id \in bytes' /\ asked'[t].folder \in FolderIds
      <4>1. t # s /\ asked'[t] = asked[t] /\ asked[t].id \in bytes /\ asked[t].id \in Ids
              /\ asked[t].folder \in FolderIds
        BY <1>0, <2>7, <3>1 DEF FolderInv, StoringHas, Concerned
      <4>2. asked[t].id # asked[s].id
        BY <2>3, <3>1, <4>1 DEF FolderInv, OneHandler, HandlesOf
      <4>. QED BY <2>4, <4>1, <4>2
    <3>. QED BY <1>0, <2>7, <3>1 DEF FolderInv, StoringHas
  <2>11. RowsTell'
    BY <2>1, <2>3, <2>4 DEF FolderInv, RowsTell, Folds!live
  <2>12. ASSUME NEW j \in Ids, j \in bytes', ~Folds!live(j)
         PROVE  j \in stranded' \/ \E t \in Slots : HandlesOf(t, j)'
    <3>1. CASE j = asked[s].id
      BY <2>4, <2>12, <3>1
    <3>2. ASSUME NEW t \in Slots, HandlesOf(t, j), j # asked[s].id PROVE HandlesOf(t, j)'
      BY <2>8, <3>2 DEF HandlesOf
    <3>. QED BY <2>4, <2>12, <3>1, <3>2 DEF FolderInv, Folds!ObjectsFollowRows, HandlesOf
  <2>13. Folds!ObjectsFollowRows'
    BY <2>1, <2>11, <2>12 DEF RowsTell, Folds!ObjectsFollowRows, HandlesOf, Folds!live
  <2>. QED BY <2>5, <2>6, <2>9, <2>10, <2>11, <2>13 DEF FolderInv
<1>. QED BY <1>1, <1>2, <1>3

LEMMA NextFolderInv == ASSUME FolderConstants, FolderInv, [Folds!Next]_(Folds!vars) PROVE FolderInv'
<1>1. CASE UNCHANGED Folds!vars
  <2>1. Folds!TypeOK' /\ IsFiniteSet(bumps)'
    BY <1>1 DEF Folds!vars, FolderInv, Folds!TypeOK
  <2>2. Folds!MailHasFolder'
    BY <1>1 DEF Folds!vars, FolderInv, Folds!MailHasFolder, Folds!folderExists, Folds!live
  <2>3. OneHandler' /\ StoringHas' /\ RowsTell' /\ Folds!ObjectsFollowRows'
    BY <1>1, RowsMove DEF Folds!vars, Folds!live
  <2>. QED BY <2>1, <2>2, <2>3 DEF FolderInv
<1>2. ASSUME NEW s \in Slots,
             \/ Folds!dropObjects(s) \/ Folds!discardDraft(s) \/ Folds!moveEmail(s)
                  \/ Folds!bumpReputation(s) \/ Folds!storeRow(s)
             \/ Folds!saveDraft(s, None)
             \/ \E i \in Ids :
                  \/ Folds!deleteEmail(s, i) \/ Folds!toolDiscardDraft(s, i)
                  \/ Folds!saveDraft(s, i) \/ Folds!createDraft(s, i)
                  \/ \E f \in FolderIds : Folds!startMove(s, i, f) \/ Folds!storeAttachments(s, i, f)
      PROVE  FolderInv'
  BY <1>2, MoveStep, DraftStep, CreateStep, ObjectStep
<1>. QED BY <1>1, <1>2, FoldersStep, ToolStep DEF Folds!Next

\* However folders go while mail is on its way, and whatever call fails or is
\* overtaken: all mail has a folder, and objects follow their rows.
THEOREM FoldersStaySound ==
  ASSUME FolderConstants PROVE Folds!Spec =>
           [](Folds!TypeOK /\ Folds!MailHasFolder /\ Folds!ObjectsFollowRows)
<1>1. Folds!Init => FolderInv
  BY InitFolderInv
<1>2. FolderInv /\ [Folds!Next]_(Folds!vars) => FolderInv'
  BY NextFolderInv
<1>3. FolderInv => Folds!TypeOK /\ Folds!MailHasFolder /\ Folds!ObjectsFollowRows
  BY DEF FolderInv
<1>. QED BY <1>1, <1>2, <1>3, PTL DEF Folds!Spec

=============================================================================
