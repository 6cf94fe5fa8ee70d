---------------------------- MODULE ClientCache ----------------------------
(***************************************************************************)
(* The web client's cache of one mailbox.  Every query on screen holds the *)
(* answer of its last fetch; the mutations change the server and then make *)
(* the cache catch up: flag changes patch the lists and the open message   *)
(* at once and are rolled back when they fail, the others wait for the     *)
(* server.  What the server holds of a message is a flag.                  *)
(***************************************************************************)
EXTENDS Naturals

CONSTANTS
  Emails,
  Mutations,     \* calls of mutate()
  None,
  MaxPolls       \* bound: fetches begun by the interval or by opening a view

\* The lists, the open thread, the unified inbox, and one detail per message.
Queries == {"list", "thread", "unified"} \cup Emails

VARIABLES
  server,   \* [Emails -> BOOLEAN]
  cache,    \* [Queries -> [Emails -> BOOLEAN]]; a detail is read at its own message
  fetch,    \* [Queries -> a fetch: none, asked, or its answer on the way]
  mut,      \* [Mutations -> the mutation]
  polls,
  lost      \* whether a change was made that the client was not told of

vars == <<server, cache, fetch, mut, polls, lost>>

Flags == [Emails -> BOOLEAN]
NoFlags == [e \in Emails |-> FALSE]
NoFetch == [pc |-> "none", data |-> NoFlags]
Asked == [pc |-> "asked", data |-> NoFlags]
NotCalled == [kind |-> "none", pc |-> "idle", id |-> None, to |-> FALSE, before |-> None]

TypeOK ==
  /\ server \in Flags /\ cache \in [Queries -> Flags]
  /\ fetch \in [Queries -> [pc : {"none", "asked", "back"}, data : Flags]]
  /\ \A m \in Mutations :
       /\ mut[m].kind \in {"none", "flag", "thread"}
       /\ mut[m].pc \in {"idle", "sent", "applied", "gaveUp", "done"}
       /\ mut[m].before = None \/ mut[m].before \in [Queries -> Flags]
  /\ polls \in 0 .. MaxPolls /\ lost \in BOOLEAN

Init ==
  /\ server = NoFlags
  /\ cache = [q \in Queries |-> server]
  /\ fetch = [q \in Queries |-> NoFetch]
  /\ mut = [m \in Mutations |-> NotCalled]
  /\ polls = 0 /\ lost = FALSE

(* --------------------------------------------------------------- queries --- *)

poll(q) ==
  /\ fetch[q].pc = "none" /\ polls < MaxPolls
  /\ fetch' = [fetch EXCEPT ![q] = Asked] /\ polls' = polls + 1
  /\ UNCHANGED <<server, cache, mut, lost>>

\* The server reads what it will answer.
answer(q) ==
  /\ fetch[q].pc = "asked"
  /\ fetch' = [fetch EXCEPT ![q] = [pc |-> "back", data |-> server]]
  /\ UNCHANGED <<server, cache, mut, polls, lost>>

\* The answer arrives.  A thread also fills the details of its messages.
receive(q) ==
  /\ fetch[q].pc = "back"
  /\ cache' = [p \in Queries |->
                 IF p = q \/ (q = "thread" /\ p \in Emails) THEN fetch[q].data ELSE cache[p]]
  /\ fetch' = [fetch EXCEPT ![q] = NoFetch]
  /\ UNCHANGED <<server, mut, polls, lost>>

\* invalidateQueries: every query on screen is fetched anew; a fetch under way
\* is cancelled.
invalidateEmailData == fetch' = [q \in Queries |-> Asked]

(* ------------------------------------------------------------- mutations --- *)

patch(q, e, to) == [cache[q] EXCEPT ![e] = to]

\* useUpdateEmail, onMutate: cancel the fetches of the lists, remember what
\* the caches held, patch the lists and the detail.
updateEmail(m, e, to) ==
  /\ mut[m].pc = "idle"
  /\ mut' = [mut EXCEPT ![m] = [kind |-> "flag", pc |-> "sent", id |-> e, to |-> to, before |-> cache]]
  /\ fetch' = [fetch EXCEPT !["list"] = NoFetch]
  /\ cache' = [cache EXCEPT !["list"] = patch("list", e, to), ![e] = patch(e, e, to)]
  /\ UNCHANGED <<server, polls, lost>>

\* useMarkThreadRead, and like it the moves and deletes: nothing at once.
markThreadRead(m) ==
  /\ mut[m].pc = "idle"
  /\ mut' = [mut EXCEPT ![m] = [NotCalled EXCEPT !.kind = "thread", !.pc = "sent", !.to = TRUE]]
  /\ UNCHANGED <<server, cache, fetch, polls, lost>>

\* The request reaches the server; for a client that gave up it is late.
apply(m) ==
  /\ mut[m].pc \in {"sent", "gaveUp"}
  /\ server' = [e \in Emails |-> IF mut[m].id \in {None, e} THEN mut[m].to ELSE server[e]]
  /\ lost' = (lost \/ mut[m].pc = "gaveUp")
  /\ mut' = [mut EXCEPT ![m].pc = IF @ = "sent" THEN "applied" ELSE "done"]
  /\ UNCHANGED <<cache, fetch, polls>>

succeed(m) ==
  /\ mut[m].pc = "applied"
  /\ mut' = [mut EXCEPT ![m] = [NotCalled EXCEPT !.pc = "done"]]
  /\ invalidateEmailData
  /\ UNCHANGED <<server, cache, polls, lost>>

\* Mutation of fail: a failed flag change is rolled back and left at that.
rollBackOnly(m) ==
  /\ mut[m].pc \in {"sent", "applied"}
  /\ mut' = [mut EXCEPT ![m] = [NotCalled EXCEPT !.pc = "done"]]
  /\ IF mut[m].kind = "flag"
       THEN cache' = [cache EXCEPT !["list"] = mut[m].before["list"],
                                   ![mut[m].id] = mut[m].before[mut[m].id]]
       ELSE UNCHANGED cache
  /\ lost' = (lost \/ (mut[m].kind = "thread" /\ mut[m].pc = "applied"))
  /\ UNCHANGED <<server, fetch, polls>>

\* An error: the request was refused, its reply was lost, or it timed out and
\* may still be carried out.  A flag change restores the lists and the detail
\* as they were and refetches; the others do not refetch.
fail(m) ==
  /\ mut[m].pc \in {"sent", "applied"}
  /\ \E pc \in {"done", "gaveUp"} :
       /\ pc = "gaveUp" => mut[m].pc = "sent"
       /\ mut' = [mut EXCEPT ![m] = [@ EXCEPT !.pc = pc, !.before = None]]
  /\ IF mut[m].kind = "flag"
       THEN /\ cache' = [cache EXCEPT !["list"] = mut[m].before["list"],
                                      ![mut[m].id] = mut[m].before[mut[m].id]]
            /\ invalidateEmailData /\ UNCHANGED lost
       ELSE /\ lost' = (lost \/ mut[m].pc = "applied")
            /\ UNCHANGED <<cache, fetch>>
  /\ UNCHANGED <<server, polls>>

Next ==
  \/ \E q \in Queries : poll(q) \/ answer(q) \/ receive(q)
  \/ \E m \in Mutations :
       \/ markThreadRead(m) \/ apply(m) \/ succeed(m) \/ fail(m)
       \/ \E e \in Emails, to \in BOOLEAN : updateEmail(m, e, to)

Spec == Init /\ [][Next]_vars

(* ------------------------------------------------------------- properties --- *)

quiet ==
  /\ \A q \in Queries : fetch[q].pc = "none"
  /\ \A m \in Mutations : mut[m].pc \in {"idle", "done"}

\* Once no call is under way, every view shows what the server holds, although
\* optimistic patches, rollbacks to older snapshots and answers read before a
\* change have crossed each other; unless a change was made whose success the
\* client never heard of and, for the mutations that refetch on success only,
\* could not know of.
ViewsAgreeWithServer ==
  quiet /\ ~lost =>
    /\ \A q \in {"list", "thread", "unified"} : cache[q] = server
    /\ \A e \in Emails : cache[e][e] = server[e]
=============================================================================
