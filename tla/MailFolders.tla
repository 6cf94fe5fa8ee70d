---------------------------- MODULE MailFolders ----------------------------
(***************************************************************************)
(* The folders, messages and attachments of one mailbox as its users, the  *)
(* agent's and the MCP server's tools change them.  Rows live in the       *)
(* Durable Object, where a call is atomic and deleting a row cascades;     *)
(* attachment bytes live in R2, one object per attachment, and are written *)
(* and removed by the callers in calls of their own.                       *)
(***************************************************************************)
EXTENDS Naturals, FiniteSets

CONSTANTS
  Ids,         \* messages
  FolderIds,   \* folder ids: the system folders and the slugs of Names
  Names,       \* names a user gives to a folder
  Slug,        \* slugify: [Names -> FolderIds \cup {None}], None for ""
  Blocked,     \* messages of the sender a block rule is made for
  Verified,    \* folders whose policy says treat_as_verified
  Slots,       \* requests in flight
  None,
  MaxFaults,   \* bound: calls that fail
  MaxBumps     \* bound: reputation writes counted

System == {"inbox", "sent", "trash", "archive", "spam", "draft", "quarantine"}

VARIABLES
  folders,   \* [FolderIds -> name, or None]
  emails,    \* [Ids -> row, or None]
  objects,   \* messages whose attachment objects are in R2
  bumps,     \* the favourable reputation writes of moves: <<message, number>>
  stranded,  \* messages whose row went without their objects
  faults,
  op         \* [Slots -> request]

vars == <<folders, emails, objects, bumps, stranded, faults, op>>

\* A row and its attachments: none, stored in R2, or listed without bytes.
Row == [folder : FolderIds, files : {"none", "stored", "listed"}]
\* from: the message left a folder that is not verified.
Idle == [kind |-> "idle", id |-> None, folder |-> None, from |-> FALSE]
Kinds == {"idle", "move", "bump", "dropObjects", "putObjects", "newDraft", "discard"}

TypeOK ==
  /\ folders \in [FolderIds -> Names \cup FolderIds \cup {None}]
  /\ emails \in [Ids -> Row \cup {None}]
  /\ objects \subseteq Ids /\ stranded \subseteq Ids
  /\ bumps \subseteq Ids \X (1 .. MaxBumps) /\ faults \in 0 .. MaxFaults
  /\ op \in [Slots -> [kind : Kinds, id : Ids \cup {None},
                       folder : FolderIds \cup {None}, from : BOOLEAN]]

\* The seeded folders keep their ids as names here: only equality matters.
Init ==
  /\ folders = [f \in FolderIds |-> IF f \in System THEN f ELSE None]
  /\ emails = [i \in Ids |-> None]
  /\ objects = {} /\ stranded = {} /\ faults = 0
  /\ bumps = {}
  /\ op = [s \in Slots |-> Idle]

live(i) == emails[i] # None
folderExists(f) == f # None /\ folders[f] # None
finish(s) == op' = [op EXCEPT ![s] = Idle]
begin(s, r) == op[s] = Idle /\ op' = [op EXCEPT ![s] = r]
fail(s) == faults < MaxFaults /\ faults' = faults + 1 /\ finish(s)
\* An id no row has and no request is about to use (crypto.randomUUID).
fresh(i) == ~live(i) /\ i \notin objects \cup stranded /\ \A s \in Slots : op[s].id # i

(* --------------------------------------------------------------- folders --- *)

createFolder(name) ==
  /\ Slug[name] # None /\ folders[Slug[name]] = None
  /\ \A f \in FolderIds : folders[f] # name
  /\ folders' = [folders EXCEPT ![Slug[name]] = name]
  /\ UNCHANGED <<emails, objects, bumps, stranded, faults, op>>

updateFolder(f, name) ==
  /\ folderExists(f)
  /\ \A g \in FolderIds \ {f} : folders[g] # name
  /\ folders' = [folders EXCEPT ![f] = name]
  /\ UNCHANGED <<emails, objects, bumps, stranded, faults, op>>

\* Deleting a folder's row deletes its messages and their attachment rows;
\* nobody learns their keys.
deleteFolder(f) ==
  /\ folderExists(f) /\ f \notin System
  /\ folders' = [folders EXCEPT ![f] = None]
  /\ emails' = [i \in Ids |-> IF live(i) /\ emails[i].folder = f THEN None ELSE emails[i]]
  /\ stranded' = stranded \cup {i \in objects : live(i) /\ emails[i].folder = f}
  /\ UNCHANGED <<objects, bumps, faults, op>>

(* -------------------------------------------------------------- messages --- *)

\* createEmail: the folder is looked up by id (or by name, see
\* InboxWalk!folderIds); a missing one is an error.
createEmail(i, row) ==
  /\ folderExists(row.folder) /\ ~live(i)
  /\ emails' = [emails EXCEPT ![i] = row]

\* Mutation of deleteEmail: the attachments' objects are removed first.
objectsFirst(s, i) ==
  /\ op[s] = Idle /\ live(i)
  /\ objects' = objects \ {i}
  /\ op' = [op EXCEPT ![s] = [Idle EXCEPT !.kind = "discard", !.id = i]]
  /\ UNCHANGED <<folders, emails, bumps, stranded, faults>>

\* DELETE /emails/:id: the row goes, then the objects its reply named.
deleteEmail(s, i) ==
  /\ live(i)
  /\ emails' = [emails EXCEPT ![i] = None]
  /\ IF emails[i].files # "none"
       THEN begin(s, [Idle EXCEPT !.kind = "dropObjects", !.id = i])
       ELSE op[s] = Idle /\ UNCHANGED op
  /\ UNCHANGED <<folders, objects, bumps, stranded, faults>>

dropObjects(s) ==
  /\ op[s].kind = "dropObjects"
  /\ \/ /\ objects' = objects \ {op[s].id} /\ finish(s)
        /\ UNCHANGED <<stranded, faults>>
     \/ /\ fail(s) /\ stranded' = stranded \cup ({op[s].id} \cap objects)
        /\ UNCHANGED objects
  /\ UNCHANGED <<folders, emails, bumps>>

\* delete_email and the delete that ends discard_draft ignore the keys.
deleteRowOnly(i) ==
  /\ live(i)
  /\ emails' = [emails EXCEPT ![i] = None]
  /\ stranded' = stranded \cup (objects \cap {i})

toolDeleteEmail(i) ==
  deleteRowOnly(i) /\ UNCHANGED <<folders, objects, bumps, faults, op>>

\* discard_draft reads the row, and deletes it only if it is a draft.
toolDiscardDraft(s, i) ==
  /\ live(i) /\ emails[i].folder = "draft"
  /\ begin(s, [Idle EXCEPT !.kind = "discard", !.id = i])
  /\ UNCHANGED <<folders, emails, objects, bumps, stranded, faults>>

discardDraft(s) ==
  /\ op[s].kind = "discard" /\ finish(s)
  /\ IF live(op[s].id) THEN deleteRowOnly(op[s].id) ELSE UNCHANGED <<emails, stranded>>
  /\ UNCHANGED <<folders, objects, bumps, faults>>

(* ---------------------------------------------------------------- moving --- *)

moved(i, f) == IF live(i) THEN [emails EXCEPT ![i].folder = f] ELSE emails

\* POST /emails/:id/move: a snapshot of the message, then the move, then the
\* reputation of its sender if the move entered a verified folder.
startMove(s, i, f) ==
  /\ live(i)
  /\ begin(s, [kind |-> "move", id |-> i, folder |-> f, from |-> emails[i].folder \notin Verified])
  /\ UNCHANGED <<folders, emails, objects, bumps, stranded, faults>>

moveEmail(s) ==
  /\ op[s].kind = "move"
  /\ IF folderExists(op[s].folder)
       THEN /\ emails' = moved(op[s].id, op[s].folder)
            /\ op' = [op EXCEPT ![s].kind = "bump"]
       ELSE finish(s) /\ UNCHANGED emails
  /\ UNCHANGED <<folders, objects, bumps, stranded, faults>>

bumpReputation(s) ==
  /\ op[s].kind = "bump"
  /\ \/ /\ finish(s) /\ UNCHANGED faults
        /\ IF op[s].folder \in Verified /\ op[s].from
             THEN /\ Cardinality(bumps) < MaxBumps
                  /\ bumps' = bumps \cup {<<op[s].id, Cardinality(bumps) + 1>>}
             ELSE UNCHANGED bumps
     \/ fail(s) /\ UNCHANGED bumps
  /\ UNCHANGED <<folders, emails, objects, stranded>>

toolMoveEmail(i, f) ==
  /\ folderExists(f) /\ live(i)
  /\ emails' = moved(i, f)
  /\ UNCHANGED <<folders, objects, bumps, stranded, faults, op>>

\* A new block rule files the sender's mail in Inbox and Archive into Spam.
moveEmailsFromSender ==
  /\ emails' = [i \in Ids |->
       IF live(i) /\ i \in Blocked /\ emails[i].folder \in {"inbox", "archive"}
         THEN [emails[i] EXCEPT !.folder = "spam"] ELSE emails[i]]
  /\ UNCHANGED <<folders, objects, bumps, stranded, faults, op>>

(* --------------------------------------------------- mail and drafts come --- *)

\* Inbound mail and sends store the attachments, then the row; a row that
\* cannot be written leaves the objects behind.
storeAttachments(s, i, f) ==
  /\ fresh(i) /\ f \in {"inbox", "sent", "quarantine"} \cap FolderIds
  /\ objects' = objects \cup {i}
  /\ begin(s, [Idle EXCEPT !.kind = "putObjects", !.id = i, !.folder = f])
  /\ UNCHANGED <<folders, emails, bumps, stranded, faults>>

storeRow(s) ==
  /\ op[s].kind = "putObjects"
  /\ \/ /\ createEmail(op[s].id, [folder |-> op[s].folder, files |-> "stored"]) /\ finish(s)
        /\ UNCHANGED <<stranded, faults>>
     \/ /\ fail(s) /\ stranded' = stranded \cup {op[s].id} /\ UNCHANGED emails
  /\ UNCHANGED <<folders, objects, bumps>>

\* send_email records the attachments it sent without storing their bytes.
toolSendEmail(i) ==
  /\ fresh(i) /\ createEmail(i, [folder |-> "sent", files |-> "listed"])
  /\ UNCHANGED <<folders, objects, bumps, stranded, faults, op>>

\* POST /drafts and update_draft delete the draft they replace, then create
\* the new one; draft_reply and draft_email replace none.
saveDraft(s, old) ==
  /\ begin(s, [Idle EXCEPT !.kind = "newDraft", !.id = old])
  /\ IF old # None /\ live(old) THEN deleteRowOnly(old) ELSE UNCHANGED <<emails, stranded>>
  /\ UNCHANGED <<folders, objects, bumps, faults>>

createDraft(s, i) ==
  /\ op[s].kind = "newDraft"
  /\ \/ /\ fresh(i)
        /\ createEmail(i, [folder |-> "draft", files |-> "none"])
        /\ finish(s) /\ UNCHANGED faults
     \/ fail(s) /\ UNCHANGED emails
  /\ UNCHANGED <<folders, objects, bumps, stranded>>

Next ==
  \/ \E n \in Names : createFolder(n) \/ \E f \in FolderIds : updateFolder(f, n)
  \/ \E f \in FolderIds : deleteFolder(f)
  \/ moveEmailsFromSender
  \/ \E i \in Ids :
       \/ toolDeleteEmail(i) \/ toolSendEmail(i)
       \/ \E f \in FolderIds : toolMoveEmail(i, f)
  \/ \E s \in Slots :
       \/ dropObjects(s) \/ discardDraft(s) \/ moveEmail(s) \/ bumpReputation(s) \/ storeRow(s)
       \/ saveDraft(s, None)
       \/ \E i \in Ids :
            \/ deleteEmail(s, i) \/ toolDiscardDraft(s, i)
            \/ saveDraft(s, i) \/ createDraft(s, i)
            \/ \E f \in FolderIds : startMove(s, i, f) \/ storeAttachments(s, i, f)

Spec == Init /\ [][Next]_vars

(* ------------------------------------------------------------- properties --- *)

\* The folder of every message exists and no system folder ever goes, so
\* delivery, sending and drafts always find theirs (createEmail throws when it
\* does not), whatever folders are deleted while messages are on their way.
MailHasFolder ==
  /\ \A f \in System \cap FolderIds : folderExists(f)
  /\ \A i \in Ids : live(i) => folderExists(emails[i].folder)

\* A message's attachments can be downloaded as long as it has a row: deletes
\* take the row first.  Objects without a row are those of a request under
\* way, or were left by a failed call, by a deleted folder or by the delete
\* tools, which do not remove them.
ObjectsFollowRows ==
  \A i \in Ids :
    /\ live(i) /\ emails[i].files = "stored" => i \in objects
    /\ i \in objects /\ ~live(i) =>
         \/ i \in stranded
         \/ \E s \in Slots : op[s].id = i /\ op[s].kind \in {"dropObjects", "putObjects"}

\* workers/index.ts:1555 promises that the reputation write is idempotent:
\* moving a message out of a verified folder and back does not count twice.
MoveCountsOnce == \A b, c \in bumps : b[1] = c[1] => b = c
=============================================================================
