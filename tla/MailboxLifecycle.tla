-------------------------- MODULE MailboxLifecycle --------------------------
(***************************************************************************)
(* The life of one mailbox address: its settings blob and its ACL blob in  *)
(* R2, the rows of its Durable Object, the attachment objects of those     *)
(* rows and the state of its agent.  Each is written by requests that      *)
(* interleave at every await: settings saves, block rules, ACL changes,    *)
(* creation, deletion with its background reap, the hourly honeypot reap   *)
(* and the delivery of mail.  R2 has no transactions, so a read and the    *)
(* write that follows from it are two steps.                               *)
(***************************************************************************)
EXTENDS Naturals, FiniteSets

CONSTANTS
  Slots,        \* requests that may be in flight at once
  Cron,         \* the scheduled handler, at most one instance
  Users,        \* callers with a verified e-mail
  Groups,       \* Access groups
  Mails,        \* messages sent to the address, each at most once
  Rules,        \* block rules
  None,         \* no blob, no caller, no argument
  Kinds,        \* the kinds of request this instance admits
  MaxCreates,   \* bound: creations of the mailbox
  MaxFaults,    \* bound: failed or lost background steps
  MaxRules      \* BLOCKLIST_MAX

ASSUME NoneIsFresh == None \notin Users \cup Groups \cup Mails \cup Rules
ASSUME CronIsFresh == Cron \notin Slots
ASSUME BoundsAreNaturals ==
  {MaxCreates, MaxFaults, MaxRules} \subseteq Nat

VARIABLES
  trap,      \* whether the address is a honeypot's (a random local part)
  expired,   \* whether the honeypot's expires_at has passed
  blob,      \* mailboxes/<id>.json: None, or its honeypot state and its rules
  acl,       \* mailboxes-acl/<id>.json: None, or owner, members and groups
  rows,      \* messages in the Durable Object, with the creation they belong to
  objects,   \* messages whose attachment object is in R2
  agent,     \* whether the agent's Durable Object holds state
  schema,    \* whether the live instance of the mailbox object has its tables
  creates,   \* creations so far
  faults,    \* background steps that failed so far
  stray,     \* whether a write of an older request landed with no mailbox there
  misread,   \* whether a settings read lost its body and went on with {}
  op         \* what every request is doing

vars == <<trap, expired, blob, acl, rows, objects, agent, schema,
          creates, faults, stray, misread, op>>
store == <<trap, expired, blob, acl, rows, objects, agent, schema,
           creates, faults, stray, misread>>

Workers == Slots \cup {Cron}

\* A stored ACL grants the owner, the members and the members of the groups.
MailboxAcl ==
  [owner : Users, members : SUBSET Users, groups : SUBSET Groups]

Honeypot == {"no", "live", "off"}
Blob == [honeypot : Honeypot, rules : SUBSET Rules]

BlobKinds == {"save", "addRule", "dropRule"}
AclKinds == {"lockDown", "addMember", "removeMember", "transfer",
             "addGroup", "removeGroup"}
ReapSteps == {"keys", "objects", "resetMailbox", "resetAgent", "acl"}

\* A missing object is none of the stored ones.
ASSUME NoneIsNoBlob == None \notin Blob \cup MailboxAcl

Idle == [kind |-> "idle", pc |-> "", who |-> None, arg |-> None,
         blob |-> None, acl |-> None, keys |-> {}]

Start(s, kind, pc) == [Idle EXCEPT !.kind = kind, !.pc = pc]

Request ==
  [kind : {"idle", "create", "trap", "delete", "reap", "deliver", "cron",
           "putAcl", "putBlob"},
   pc : {"", "put", "acl", "folders", "write", "delete", "store", "count"}
          \cup ReapSteps,
   who : Users \cup {None},
   arg : Mails \cup {None},
   blob : Blob \cup {None},
   acl : MailboxAcl \cup {None},
   keys : SUBSET Mails]

TypeOK ==
  /\ trap \in BOOLEAN /\ expired \in BOOLEAN
  /\ blob \in Blob \cup {None}
  /\ acl \in MailboxAcl \cup {None}
  /\ rows \subseteq Mails \X (0 .. MaxCreates)
  /\ objects \subseteq Mails
  /\ agent \in BOOLEAN /\ schema \in BOOLEAN
  /\ creates \in 0 .. MaxCreates /\ faults \in 0 .. MaxFaults
  /\ stray \in BOOLEAN /\ misread \in BOOLEAN
  /\ op \in [Workers -> Request]

Init ==
  /\ trap \in BOOLEAN /\ expired = FALSE
  /\ blob = None /\ acl = None
  /\ rows = {} /\ objects = {}
  /\ agent = FALSE /\ schema = TRUE
  /\ creates = 0 /\ faults = 0 /\ stray = FALSE /\ misread = FALSE
  /\ op = [s \in Workers |-> Idle]

\* No mailbox at the address, or one that a reap is about to wipe.
absent == blob = None \/ \E t \in Workers : op[t].kind = "reap"

(* ---------------------------------------------------- access control --- *)

\* callerInAcl: no ACL admits everyone, a scoped mailbox admits its members
\* and the members of its groups; memberOf are the groups of the caller's
\* token.
callerInAcl(a, who, memberOf) ==
  IF a = None THEN TRUE
  ELSE who # None /\ (who \in a.members \/ a.groups \cap memberOf # {})

\* requireMailbox: the blob exists and the caller is admitted.
requireMailbox(who) ==
  blob # None /\ \E memberOf \in SUBSET Groups : callerInAcl(acl, who, memberOf)

\* Mutation of lockDownAcl: the new list lacks its groups.
noGroupsField(who) == [owner |-> who, members |-> {who}]

lockDownAcl(who) == [owner |-> who, members |-> {who}, groups |-> {}]

\* The change each owner-only route makes to the list it read; None is a
\* refusal or a request that is already satisfied.
addMember(a, x) ==
  IF x \in a.members THEN None ELSE [a EXCEPT !.members = @ \cup {x}]
transferOwner(a, x) ==
  IF x \notin a.members THEN None ELSE [a EXCEPT !.owner = x]

\* Mutation of removeMember: the owner may remove himself.
removeAnyMember(a, x) == [a EXCEPT !.members = @ \ {x}]

removeMember(a, x) ==
  IF x = a.owner THEN None ELSE [a EXCEPT !.members = @ \ {x}]

addGroup(a, g) ==
  IF g \in a.groups THEN None ELSE [a EXCEPT !.groups = @ \cup {g}]
removeGroup(a, g) == [a EXCEPT !.groups = @ \ {g}]

changedAcl(kind, a, x) ==
  CASE kind = "addMember" -> addMember(a, x)
    [] kind = "transfer" -> transferOwner(a, x)
    [] kind = "removeMember" -> removeMember(a, x)
    [] kind = "addGroup" -> addGroup(a, x)
    [] kind = "removeGroup" -> removeGroup(a, x)

\* POST /acl and the loop body of bulk-lockdown: the mailbox has no ACL when
\* the request reads it.
readLockDown(s, who) ==
  /\ op[s].kind = "idle" /\ "lockDown" \in Kinds
  /\ requireMailbox(who) /\ acl = None
  /\ op' = [op EXCEPT ![s] = [Start(s, "putAcl", "write") EXCEPT
                                !.acl = lockDownAcl(who)]]
  /\ UNCHANGED store

\* The other ACL routes read the list, let only its owner on, and compute
\* the list they will put.
readAcl(s, who, kind, x) ==
  /\ op[s].kind = "idle" /\ kind \in Kinds
  /\ requireMailbox(who) /\ acl # None /\ who = acl.owner
  /\ x \in (IF kind \in {"addGroup", "removeGroup"} THEN Groups ELSE Users)
  /\ changedAcl(kind, acl, x) # None
  /\ op' = [op EXCEPT ![s] = [Start(s, "putAcl", "write") EXCEPT
                                !.acl = changedAcl(kind, acl, x)]]
  /\ UNCHANGED store

\* writeMailboxAcl: an unconditional put of the list computed at the read.
writeAcl(s) ==
  /\ op[s].kind = "putAcl"
  /\ acl' = op[s].acl
  /\ stray' = (stray \/ absent)
  /\ op' = [op EXCEPT ![s] = Idle]
  /\ UNCHANGED <<trap, expired, blob, rows, objects, agent, schema,
                 creates, faults, misread>>

(* ---------------------------------------------------- settings writes --- *)

\* Mutation of preserveOwnedMailboxFields: the incoming block is written.
writeIncoming(existing) == [honeypot |-> "no", rules |-> existing.rules]

\* preserveOwnedMailboxFields: a settings save keeps the honeypot block and
\* the rules it read.
preserveOwnedMailboxFields(existing) ==
  [honeypot |-> existing.honeypot, rules |-> existing.rules]

appendRule(b, r) == [b EXCEPT !.rules = @ \cup {r}]
dropRule(b, r) == [b EXCEPT !.rules = @ \ {r}]

\* What obj.json().catch(() => ({})) makes of a body that cannot be read.
noBody == [honeypot |-> "no", rules |-> {}]

readBlob(s, who, kind, r) ==
  /\ op[s].kind = "idle" /\ kind \in Kinds
  /\ requireMailbox(who)
  /\ (kind = "save") <=> (r = None)
  /\ \E existing \in {blob, noBody} :
       /\ \/ existing = blob /\ UNCHANGED <<faults, misread>>
          \/ existing = noBody /\ faults < MaxFaults /\ faults' = faults + 1 /\ misread' = TRUE
       /\ kind = "addRule" => Cardinality(existing.rules \cup {r}) =< MaxRules
       /\ kind = "dropRule" => r \in existing.rules
       /\ op' = [op EXCEPT ![s] = [Start(s, "putBlob", "write") EXCEPT
            !.blob = CASE kind = "save" -> preserveOwnedMailboxFields(existing)
                       [] kind = "addRule" -> appendRule(existing, r)
                       [] kind = "dropRule" -> dropRule(existing, r)]]
  /\ UNCHANGED <<trap, expired, blob, acl, rows, objects, agent, schema, creates, stray>>

\* The put is unconditional: it brings a blob deleted since the read back.
writeBlob(s) ==
  /\ op[s].kind = "putBlob"
  /\ blob' = op[s].blob
  /\ op' = [op EXCEPT ![s] = Idle]
  /\ UNCHANGED <<trap, expired, acl, rows, objects, agent, schema,
                 creates, faults, stray, misread>>

(* ------------------------------------------------------------ creation --- *)

\* POST /mailboxes and POST /honeypots: the address is free at the check.
beginCreate(s, who) ==
  /\ op[s].kind = "idle" /\ "create" \in Kinds
  /\ blob = None /\ creates < MaxCreates
  /\ trap => who = None
  /\ op' = [op EXCEPT ![s] = [Start(s, IF trap THEN "trap" ELSE "create", "put")
                                EXCEPT !.who = who]]
  /\ UNCHANGED store

putBlob(s) ==
  /\ op[s].kind \in {"create", "trap"} /\ op[s].pc = "put"
  /\ creates < MaxCreates
  /\ blob' = [honeypot |-> IF op[s].kind = "trap" THEN "live" ELSE "no",
              rules |-> {}]
  /\ creates' = creates + 1
  /\ expired' = FALSE
  /\ op' = [op EXCEPT ![s].pc = IF op[s].who = None THEN "folders" ELSE "acl"]
  /\ UNCHANGED <<trap, acl, rows, objects, agent, schema, faults, stray, misread>>

\* The owner ACL, when the token carried an e-mail; a honeypot has none.
putOwnerAcl(s) ==
  /\ op[s].kind = "create" /\ op[s].pc = "acl"
  /\ acl' = lockDownAcl(op[s].who)
  /\ stray' = (stray \/ absent)
  /\ op' = [op EXCEPT ![s].pc = "folders"]
  /\ UNCHANGED <<trap, expired, blob, rows, objects, agent, schema,
                 creates, faults, misread>>

\* getFolders, which answers or fails: either way the request ends.
getFolders(s) ==
  /\ op[s].pc = "folders"
  /\ op' = [op EXCEPT ![s] = Idle]
  /\ UNCHANGED store

(* ------------------------------------------------------------ deletion --- *)

beginDelete(s, who) ==
  /\ op[s].kind = "idle" /\ "delete" \in Kinds
  /\ requireMailbox(who)
  /\ op' = [op EXCEPT ![s] = Start(s, "delete", "delete")]
  /\ UNCHANGED store

\* The blob goes first; the reap follows in the background of the request,
\* or inside the scheduled handler.
deleteBlob(s) ==
  /\ op[s].pc = "delete"
  /\ blob' = None
  /\ op' = [op EXCEPT ![s] = Start(s, "reap", "keys")]
  /\ UNCHANGED <<trap, expired, acl, rows, objects, agent, schema,
                 creates, faults, stray, misread>>

\* Mutation of nextReapStep: the objects go after the tables.
wipeBeforeListing ==
  [keys |-> "resetMailbox", objects |-> "resetAgent",
   resetMailbox |-> "objects", resetAgent |-> "acl"]

\* reapMailbox, one awaited call at a time.  A call that fails is logged and
\* the next one runs all the same.
nextReapStep ==
  [keys |-> "objects", objects |-> "resetMailbox",
   resetMailbox |-> "resetAgent", resetAgent |-> "acl"]

reaping(s, step) == op[s].kind = "reap" /\ op[s].pc = step

stepOn(s, keys) ==
  op' = [op EXCEPT ![s].pc = nextReapStep[op[s].pc], ![s].keys = keys]

listAllAttachmentKeys(s) ==
  /\ reaping(s, "keys") /\ schema
  /\ stepOn(s, {r[1] : r \in rows})
  /\ UNCHANGED store

deleteObjects(s) ==
  /\ reaping(s, "objects")
  /\ objects' = objects \ op[s].keys
  /\ stepOn(s, op[s].keys)
  /\ UNCHANGED <<trap, expired, blob, acl, rows, agent, schema, creates, faults, stray, misread>>

\* deleteAll drops the rows and the tables; the tables come back when the
\* object is next constructed.
resetMailbox(s) ==
  /\ reaping(s, "resetMailbox")
  /\ rows' = {} /\ schema' = FALSE
  /\ stepOn(s, {})
  /\ UNCHANGED <<trap, expired, blob, acl, objects, agent, creates, faults, stray, misread>>

resetAgent(s) ==
  /\ reaping(s, "resetAgent")
  /\ agent' = FALSE
  /\ stepOn(s, {})
  /\ UNCHANGED <<trap, expired, blob, acl, rows, objects, schema, creates, faults, stray, misread>>

deleteMailboxAcl(s) ==
  /\ reaping(s, "acl")
  /\ acl' = None
  /\ op' = [op EXCEPT ![s] = Idle]
  /\ UNCHANGED <<trap, expired, blob, rows, objects, agent, schema,
                 creates, faults, stray, misread>>

\* A call of the reap that throws; listing also throws without its tables.
failReapStep(s) ==
  /\ op[s].kind = "reap"
  /\ faults < MaxFaults \/ (op[s].pc = "keys" /\ ~schema)
  /\ faults' = IF faults < MaxFaults THEN faults + 1 ELSE faults
  /\ IF op[s].pc = "acl" THEN op' = [op EXCEPT ![s] = Idle]
     ELSE stepOn(s, op[s].keys)
  /\ UNCHANGED <<trap, expired, blob, acl, rows, objects, agent, schema, creates, stray, misread>>

\* The isolate that runs a request goes away between two of its calls.
lose(s) ==
  /\ op[s].kind # "idle" /\ faults < MaxFaults
  /\ faults' = faults + 1
  /\ op' = [op EXCEPT ![s] = Idle]
  /\ UNCHANGED <<trap, expired, blob, acl, rows, objects, agent, schema, creates, stray, misread>>

\* The mailbox object is evicted and constructed again: its migrations run.
reconstruct ==
  /\ ~schema /\ schema' = TRUE
  /\ UNCHANGED <<trap, expired, blob, acl, rows, objects, agent,
                 creates, faults, stray, misread, op>>

(* ----------------------------------------------------------- honeypots --- *)

expire ==
  /\ trap /\ blob # None /\ ~expired /\ expired' = TRUE
  /\ UNCHANGED <<trap, blob, acl, rows, objects, agent, schema,
                 creates, faults, stray, misread, op>>

\* reapExpiredHoneypots: the hourly handler reads the settings of every
\* mailbox and deletes the honeypots past their date.
reapExpiredHoneypots ==
  /\ op[Cron].kind = "idle"
  /\ blob # None /\ blob.honeypot # "no" /\ expired
  /\ op' = [op EXCEPT ![Cron] = Start(Cron, "cron", "delete")]
  /\ UNCHANGED store

(* ------------------------------------------------------------ delivery --- *)

\* receiveEmail admits mail for an address whose blob exists.
beginDelivery(s, m) ==
  /\ op[s].kind = "idle" /\ "deliver" \in Kinds
  /\ blob # None
  /\ m \notin objects /\ \A t \in Workers : op[t].arg # m
  /\ m \notin {r[1] : r \in rows}
  /\ op' = [op EXCEPT ![s] = [Start(s, "deliver", "store") EXCEPT
                                !.arg = m, !.blob = blob]]
  /\ UNCHANGED store

\* The attachment object, then the row, then the agent sees the message.
storeEmail(s) ==
  /\ op[s].kind = "deliver" /\ op[s].pc = "store" /\ schema
  /\ objects' = objects \cup {op[s].arg}
  /\ rows' = rows \cup {<<op[s].arg, creates>>}
  /\ agent' = (agent \/ op[s].blob.honeypot = "no")
  /\ stray' = (stray \/ absent)
  /\ op' = [op EXCEPT ![s] =
              IF op[s].blob.honeypot = "live" THEN [@ EXCEPT !.pc = "count"]
              ELSE Idle]
  /\ UNCHANGED <<trap, expired, blob, acl, schema, creates, faults, misread>>

\* Without its tables the object refuses the row; the object stays in R2.
refuseEmail(s) ==
  /\ op[s].kind = "deliver" /\ op[s].pc = "store" /\ ~schema
  /\ objects' = objects \cup {op[s].arg}
  /\ stray' = TRUE
  /\ op' = [op EXCEPT ![s] = Idle]
  /\ UNCHANGED <<trap, expired, blob, acl, rows, agent, schema, creates, faults, misread>>

\* handleHoneypotInbound: over its cap (the count of stored mail is left open)
\* the honeypot is flagged disabled, by a read of the blob here and a put
\* later; otherwise the message is published to the hub, or not, which
\* changes nothing here.
handleHoneypotInbound(s, overCap) ==
  /\ op[s].kind = "deliver" /\ op[s].pc = "count"
  /\ IF overCap /\ blob # None
     THEN op' = [op EXCEPT ![s] = [Start(s, "putBlob", "write") EXCEPT
                                     !.blob = [blob EXCEPT !.honeypot = "off"]]]
     ELSE op' = [op EXCEPT ![s] = Idle]
  /\ UNCHANGED store

(* ---------------------------------------------------------------------- *)

Admit(s) ==
  \E who \in Users \cup {None} :
    \/ beginCreate(s, who)
    \/ beginDelete(s, who)
    \/ \E r \in Rules \cup {None} : \E kind \in BlobKinds : readBlob(s, who, kind, r)
    \/ who # None /\ readLockDown(s, who)
    \/ \E kind \in AclKinds \ {"lockDown"}, x \in Users \cup Groups :
         readAcl(s, who, kind, x)

Advance(s) ==
  \/ writeAcl(s) \/ writeBlob(s)
  \/ putBlob(s) \/ putOwnerAcl(s) \/ getFolders(s)
  \/ deleteBlob(s)
  \/ listAllAttachmentKeys(s) \/ deleteObjects(s) \/ resetMailbox(s)
  \/ resetAgent(s) \/ deleteMailboxAcl(s) \/ failReapStep(s)
  \/ storeEmail(s) \/ refuseEmail(s) \/ \E overCap \in BOOLEAN : handleHoneypotInbound(s, overCap)

Next ==
  \/ \E s \in Slots : Admit(s) \/ \E m \in Mails : beginDelivery(s, m)
  \/ \E s \in Workers : Advance(s) \/ lose(s)
  \/ reconstruct \/ expire \/ reapExpiredHoneypots

Spec == Init /\ [][Next]_vars

(* ---------------------------------------------------------- properties --- *)

\* "All emails permitted to access the mailbox (always includes owner)"
\* (lib/mailbox-acl.ts): the owner routes never leave a list whose owner is
\* not on it, however their reads and puts interleave.
OwnerIsMember == acl # None => acl.owner \in acl.members

\* reapMailbox lists the attachment keys before it wipes the tables that hold
\* them, and drops the agent's state and the ACL: when a mailbox is gone and
\* nothing is in flight, something of it is left only if a call failed or a
\* request admitted earlier wrote after the deletion.
NothingLeftBehind ==
  (blob = None /\ faults = 0 /\ ~stray /\ \A s \in Workers : op[s].kind = "idle")
    => rows = {} /\ objects = {} /\ ~agent /\ acl = None

\* The rate cap's flag and the operator's honeypot block survive every other
\* writer of the blob, however reads and puts interleave: a honeypot turns into
\* a user's mailbox only where a settings write lost the body it read.
TrapStaysTrap ==
  [][trap /\ blob' # None => misread' \/ blob'.honeypot # "no"]_vars

\* "this endpoint must never clear or rewrite either" (workers/index.ts:1277),
\* the honeypot block and the rules, says the settings save of itself.
SaveClearsNothing ==
  [][trap /\ blob # None /\ blob' # None => blob'.honeypot # "no"]_vars

\* DELETE /mailboxes/:id says of its background reap that what it leaves is
\* "a cleanup cost, never a correctness bug" (index.ts): the reap of a
\* deleted mailbox takes no mail of the one created at the address since.
SuccessorKeepsMail ==
  [][\A r \in rows : blob # None /\ r[2] = creates => r \in rows']_vars
=============================================================================
