------------------------- MODULE SidecarPollProofs -------------------------
(***************************************************************************)
(* What holds of the sidecar poller for every number of ticks, messages,   *)
(* faults and every pair of caps, and of the reports that arrive as mail   *)
(* for any mail, rows and overlapping enrichments.                         *)
(***************************************************************************)
EXTENDS SidecarPoll, FiniteSetTheorems, WellFoundedInduction, TLAPS

(* The inductive invariants. *)

\* Where a poll goes through a listing, and where it holds one message of it.
Stored == {"scoring", "labelling", "auditing", "casing"}
Counting == {"probing", "relabelling", "storing", "scoring"}
Working == {"probing", "relabelling"} \cup Handling
Looping == {"looping"} \cup Working

\* The numbers of a poll's activation belong together.
Shaped(r) ==
    /\ r.at \in Looping => r.from # Unset /\ r.next >= 1 /\ r.to \in {Unset, r.upto}
    /\ r.at \in Working => r.next <= r.upto
    /\ r.at \in Counting => r.n < BatchCap
    /\ r.at = "gapping" => r.from # Unset /\ r.to # Unset

\* What a poll has left behind is accounted for: up to the cursor it read, up
\* to the message it is at, and up to where it will put the cursor.
Backed(r) ==
    /\ \A m \in Mail : m <= r.from => Accounted(m)
    /\ r.at \in Looping => \A m \in Mail : m < r.next => Accounted(m)
    /\ r.at \in Stored \cup {"relabelling"} => Taken(r.next)
    /\ r.at = "closing" => r.from = Unset \/ <<r.from, r.to>> \in gaps

PollsOK == \A p \in Tick : Shaped(poll[p]) /\ Backed(poll[p])

SkipInv == TypeOK /\ PollsOK /\ NothingSkipped

\* One poll at a time is between its lease and the end of its batch, and the
\* lease is held while it is.
Live(p) == poll[p].at \notin {"idle", "read", "failing"}
LeaseHeld == ~robbed =>
    /\ \A p \in Tick : Live(p) => lease
    /\ \A p, q \in Tick : Live(p) /\ Live(q) => p = q

\* A message about to be stored is not stored yet.
StoringFresh == ~robbed => \A p \in Tick : At(p, "storing") => ~Taken(poll[p].next)

OnceInv == SkipInv /\ LeaseHeld /\ StoringFresh /\ IngestedOnce
-----------------------------------------------------------------------------
(* Lemmas about the records and the tables. *)

\* What a poll's activation is made of.
LEMMA PollParts == \A r \in Polls :
    /\ r.at \in Places /\ r.from \in Mail \cup {0, Unset} /\ r.upto \in 0..MaxMail
    /\ r.to \in Mail \cup {0, Unset} /\ r.next \in 0..(MaxMail + 1) /\ r.n \in 0..BatchCap
BY DEF Polls

\* The numbers a poll works with are integers.
LEMMA Numbers ==
    /\ MaxMail \in Nat /\ MaxFaults \in Nat /\ BatchCap \in Nat /\ BatchCap > 0
    /\ PageCap \in Nat /\ PageCap > 0
    /\ Mail \subseteq Nat /\ Unset \in Int
BY PollAssumption DEF Mail, Unset

\* A poll moved to another place is a poll.
LEMMA MovedPoll == \A r \in Polls : \A a \in Places : [r EXCEPT !.at = a] \in Polls
BY DEF Polls

\* An activation replaced by another leaves activations.
LEMMA BecomeType == \A p, r :
    poll \in [Tick -> Polls] /\ r \in Polls /\ Become(p, r) => poll' \in [Tick -> Polls]
BY DEF Become

\* Only the poll that steps changes.
LEMMA BecomeAt == \A p \in Tick : \A r :
    poll \in [Tick -> Polls] /\ Become(p, r)
    => poll'[p] = r /\ \A q \in Tick : q # p => poll'[q] = poll[q]
BY DEF Become

\* Rows, refusals, gaps and the start of monitoring are only added to.
Grows ==
    /\ rows' \in [Mail -> Nat] /\ \A m \in Mail : rows'[m] >= rows[m]
    /\ refused \subseteq refused'
    /\ gaps \subseteq gaps'
    /\ start' \in Nat /\ start' >= start

\* What is stored stays stored.
LEMMA TakenGrows == \A m : TypeOK /\ Grows /\ Taken(m) => Taken(m)'
BY DEF TypeOK, Grows, Taken

\* What is accounted for stays accounted for.
LEMMA AccountedGrows == \A m \in Mail : TypeOK /\ Grows /\ Accounted(m) => Accounted(m)'
<1> SUFFICES ASSUME NEW m \in Mail, TypeOK, Grows, Accounted(m) PROVE Accounted(m)'
    OBVIOUS
<1>1. CASE Taken(m)
    BY <1>1, TakenGrows DEF Accounted, Handled
<1>2. CASE m \in refused
    BY <1>2 DEF Grows, Accounted, Handled
<1>3. CASE InGap(m)
    BY <1>3 DEF Grows, Accounted, InGap
<1>4. CASE m <= start
    BY <1>4, Numbers DEF TypeOK, Grows, Accounted
<1> QED BY <1>1, <1>2, <1>3, <1>4 DEF Accounted, Handled

\* What backs a poll goes on backing it.
LEMMA BackedGrows == \A r : TypeOK /\ Grows /\ Backed(r) => Backed(r)'
<1> SUFFICES ASSUME NEW r, TypeOK, Grows, Backed(r) PROVE Backed(r)'
    OBVIOUS
<1>1. \A m \in Mail : Accounted(m) => Accounted(m)'
    BY AccountedGrows
<1>2. Taken(r.next) => Taken(r.next)'
    BY TakenGrows
<1>3. gaps \subseteq gaps'
    BY DEF Grows
<1> QED BY <1>1, <1>2, <1>3 DEF Backed

\* A table nobody writes grows.
LEMMA SameGrows == TypeOK /\ UNCHANGED <<rows, refused, gaps, start>> => Grows
BY Numbers DEF TypeOK, Grows

\* One poll's step leaves all polls in order if it leaves its own so.
LEMMA PollStep == \A p \in Tick : \A r \in Polls :
    SkipInv /\ Grows /\ Become(p, r) /\ Shaped(r) /\ Backed(r)' => PollsOK'
<1> SUFFICES ASSUME NEW p \in Tick, NEW r \in Polls,
                    SkipInv, Grows, Become(p, r), Shaped(r), Backed(r)',
                    NEW q \in Tick
             PROVE  Shaped(poll'[q]) /\ Backed(poll[q])'
    BY DEF PollsOK, Shaped
<1>1. TypeOK /\ poll \in [Tick -> Polls]
    BY DEF SkipInv, TypeOK
<1>2. CASE q = p
    BY <1>1, <1>2, BecomeAt
<1>3. CASE q # p
    <2>1. poll'[q] = poll[q]
        BY <1>1, <1>3, BecomeAt
    <2>2. Shaped(poll[q]) /\ Backed(poll[q])
        BY DEF SkipInv, PollsOK
    <2>3. \A x : Backed(x) => Backed(x)'
        BY <1>1, BackedGrows
    <2> QED BY <2>1, <2>2, <2>3
<1> QED BY <1>2, <1>3

\* The cursor may rest where it is.
LEMMA CursorRests == SkipInv /\ Grows /\ cursor' = cursor => NothingSkipped'
BY AccountedGrows DEF SkipInv, NothingSkipped

\* A step that writes no table and not the cursor.
LEMMA QuietStep == \A p \in Tick : \A r \in Polls :
    SkipInv /\ UNCHANGED <<rows, refused, gaps, start, cursor>>
    /\ Become(p, r) /\ Shaped(r) /\ Backed(r)
    => poll' \in [Tick -> Polls] /\ PollsOK' /\ NothingSkipped'
<1> SUFFICES ASSUME NEW p \in Tick, NEW r \in Polls, SkipInv,
                    UNCHANGED <<rows, refused, gaps, start, cursor>>,
                    Become(p, r), Shaped(r), Backed(r)
             PROVE  poll' \in [Tick -> Polls] /\ PollsOK' /\ NothingSkipped'
    OBVIOUS
<1>1. TypeOK /\ poll \in [Tick -> Polls]
    BY DEF SkipInv, TypeOK
<1>2. Grows
    BY <1>1, SameGrows
<1>3. Backed(r)'
    BY <1>1, <1>2, BackedGrows
<1> QED BY <1>1, <1>2, <1>3, PollStep, CursorRests, BecomeType

\* The facts a step of one poll starts from.
LEMMA PollFacts == \A p \in Tick :
    SkipInv => TypeOK /\ poll[p] \in Polls /\ Shaped(poll[p]) /\ Backed(poll[p])
BY DEF SkipInv, PollsOK, TypeOK

\* Every other change of an activation leaves an activation.
LEMMA ChangedPoll == \A r \in Polls : \A a \in Places :
    /\ \A f \in Mail \cup {0, Unset} : [r EXCEPT !.at = a, !.from = f] \in Polls
    /\ \A t \in Mail \cup {0, Unset} : [r EXCEPT !.at = a, !.to = t] \in Polls
    /\ \A k \in 0..(MaxMail + 1) :
        /\ [r EXCEPT !.at = a, !.next = k] \in Polls
        /\ [r EXCEPT !.at = a, !.next = k, !.good = TRUE] \in Polls
        /\ [r EXCEPT !.at = a, !.next = k, !.bad = TRUE] \in Polls
    /\ [r EXCEPT !.at = a, !.applied = TRUE, !.good = TRUE] \in Polls
    /\ [r EXCEPT !.at = a, !.bad = TRUE] \in Polls
<1> SUFFICES ASSUME NEW r \in Polls, NEW a \in Places
             PROVE  /\ \A f \in Mail \cup {0, Unset} : [r EXCEPT !.at = a, !.from = f] \in Polls
                    /\ \A t \in Mail \cup {0, Unset} : [r EXCEPT !.at = a, !.to = t] \in Polls
                    /\ \A k \in 0..(MaxMail + 1) :
                        /\ [r EXCEPT !.at = a, !.next = k] \in Polls
                        /\ [r EXCEPT !.at = a, !.next = k, !.good = TRUE] \in Polls
                        /\ [r EXCEPT !.at = a, !.next = k, !.bad = TRUE] \in Polls
                    /\ [r EXCEPT !.at = a, !.applied = TRUE, !.good = TRUE] \in Polls
                    /\ [r EXCEPT !.at = a, !.bad = TRUE] \in Polls
    OBVIOUS
<1>1. \A f \in Mail \cup {0, Unset} : [r EXCEPT !.at = a, !.from = f] \in Polls
    BY DEF Polls
<1>2. \A t \in Mail \cup {0, Unset} : [r EXCEPT !.at = a, !.to = t] \in Polls
    BY DEF Polls
<1>3. \A k \in 0..(MaxMail + 1) : [r EXCEPT !.at = a, !.next = k] \in Polls
    BY DEF Polls
<1>4. \A k \in 0..(MaxMail + 1) : [r EXCEPT !.at = a, !.next = k, !.good = TRUE] \in Polls
    BY DEF Polls
<1>5. \A k \in 0..(MaxMail + 1) : [r EXCEPT !.at = a, !.next = k, !.bad = TRUE] \in Polls
    BY DEF Polls
<1>6. [r EXCEPT !.at = a, !.applied = TRUE, !.good = TRUE] \in Polls
    BY DEF Polls
<1>7. [r EXCEPT !.at = a, !.bad = TRUE] \in Polls
    BY DEF Polls
<1> QED BY <1>1, <1>2, <1>3, <1>4, <1>5, <1>6, <1>7

\* Mail that arrived, and the message a poll holds, are positions.
LEMMA ArrivedPosition == TypeOK => arrived \in Mail \cup {0} /\ arrived # Unset
BY Numbers DEF TypeOK, Mail, Unset

\* The message a poll works on is a message.
LEMMA HeldMail == \A r \in Polls : Shaped(r) /\ r.at \in Working => r.next \in Mail
BY Numbers, PollParts DEF Shaped, Looping, Mail

\* A message cut short is a message.
LEMMA CutShortType == \A p \in Tick :
    SkipInv /\ CutShort(p)
    => hurt' \subseteq Mail /\ unseen' \subseteq Mail /\ UNCHANGED <<robbed, start>>
<1> SUFFICES ASSUME NEW p \in Tick, SkipInv, CutShort(p)
             PROVE  hurt' \subseteq Mail /\ unseen' \subseteq Mail /\ UNCHANGED <<robbed, start>>
    OBVIOUS
<1>1. TypeOK /\ poll[p] \in Polls /\ Shaped(poll[p])
    BY PollFacts
<1>2. poll[p].at \in Handling => poll[p].next \in Mail
    BY <1>1, HeldMail DEF Working
<1>3. 1..cursor \subseteq Mail
    BY <1>1, Numbers DEF TypeOK, Mail, Unset
<1> QED BY <1>1, <1>2, <1>3 DEF CutShort, TypeOK

\* A tick that does not run is a poll in order.
LEMMA IdleOK == Idle \in Polls /\ Shaped(Idle) /\ Backed(Idle)
<1>1. Idle \in Polls
    BY Numbers DEF Idle, Polls, Places
<1>2. Shaped(Idle)
    BY DEF Idle, Shaped, Looping, Working, Counting, Handling
<1>3. Backed(Idle)
    BY Numbers DEF Idle, Backed, Looping, Working, Handling, Stored, Unset, Mail
<1> QED BY <1>1, <1>2, <1>3
-----------------------------------------------------------------------------
(* The steps that only look, wait or note a failure. *)

\* The cursor read is accounted for up to itself.
LEMMA ReadStateStep == \A p \in Tick : SkipInv /\ ReadState(p) => SkipInv'
<1> SUFFICES ASSUME NEW p \in Tick, SkipInv, ReadState(p) PROVE SkipInv'
    OBVIOUS
<1> DEFINE r == [Idle EXCEPT !.at = "read", !.from = cursor]
<1>1. TypeOK /\ poll[p] \in Polls /\ Shaped(poll[p]) /\ Backed(poll[p])
    BY PollFacts
<1>2. r \in Polls
    BY <1>1, IdleOK, ChangedPoll DEF TypeOK, Places
<1>3. Shaped(r)
    BY IdleOK DEF Idle, Shaped, Looping, Working, Counting, Handling
<1>4. Backed(r)
    BY DEF SkipInv, NothingSkipped, Backed, Idle, Looping, Working, Handling, Stored
<1>5. Become(p, r) /\ UNCHANGED <<rows, refused, gaps, start, cursor>>
    BY DEF ReadState, ghosts, mails, record
<1>6. poll' \in [Tick -> Polls] /\ PollsOK' /\ NothingSkipped'
    BY <1>2, <1>3, <1>4, <1>5, QuietStep
<1>7. TypeOK'
    BY <1>1, <1>6 DEF ReadState, TypeOK, gmail, ghosts, mails, record
<1> QED BY <1>6, <1>7 DEF SkipInv

\* A held lease ends the tick.
LEMMA AcquireLeaseStep == \A p \in Tick : SkipInv /\ AcquireLease(p) => SkipInv'
<1> SUFFICES ASSUME NEW p \in Tick, SkipInv, AcquireLease(p) PROVE SkipInv'
    OBVIOUS
<1> DEFINE r == IF lease THEN Idle ELSE [poll[p] EXCEPT !.at = "leased"]
<1>1. TypeOK /\ poll[p] \in Polls /\ Shaped(poll[p]) /\ Backed(poll[p])
    BY PollFacts
<1>2. r \in Polls
    BY <1>1, IdleOK, MovedPoll DEF Places
<1>3. Shaped(r)
    BY <1>1, IdleOK, PollParts, Numbers DEF AcquireLease, At, Polls, Shaped, Looping,
       Working, Counting, Handling
<1>4. Backed(r)
    BY <1>1, PollParts, Numbers, IdleOK DEF AcquireLease, At, Polls, Backed, Looping,
       Working, Handling, Stored
<1>5. Become(p, r) /\ UNCHANGED <<rows, refused, gaps, start, cursor>>
    BY DEF AcquireLease, Goto, ghosts, mails, record
<1>6. poll' \in [Tick -> Polls] /\ PollsOK' /\ NothingSkipped'
    BY <1>2, <1>3, <1>4, <1>5, QuietStep
<1>7. TypeOK'
    BY <1>1, <1>6, Numbers DEF AcquireLease, TypeOK, gmail, ghosts, mails, record
<1> QED BY <1>6, <1>7 DEF SkipInv

\* A first poll puts the cursor at now.
LEMMA AnchorStep == \A p \in Tick : SkipInv /\ Anchor(p) => SkipInv'
<1> SUFFICES ASSUME NEW p \in Tick, SkipInv, Anchor(p) PROVE SkipInv'
    OBVIOUS
<1> DEFINE r == [poll[p] EXCEPT !.at = "closing", !.to = arrived]
<1>1. TypeOK /\ poll[p] \in Polls /\ Shaped(poll[p]) /\ Backed(poll[p])
    BY PollFacts
<1>2. r \in Polls
    BY <1>1, ChangedPoll, ArrivedPosition DEF Places
<1>3. Shaped(r)
    BY <1>1, PollParts, Numbers DEF Anchor, At, Polls, Shaped, Looping, Working, Counting,
       Handling
<1>4. Backed(r)
    BY <1>1, PollParts, Numbers DEF Anchor, At, Polls, Backed, Looping, Working, Handling,
       Stored
<1>5. Become(p, r) /\ UNCHANGED <<rows, refused, gaps, start, cursor>>
    BY DEF Anchor, ghosts, mails, record
<1>6. poll' \in [Tick -> Polls] /\ PollsOK' /\ NothingSkipped'
    BY <1>2, <1>3, <1>4, <1>5, QuietStep
<1>7. TypeOK'
    BY <1>1, <1>6, Numbers DEF Anchor, TypeOK, gmail, ghosts, mails, record
<1> QED BY <1>6, <1>7 DEF SkipInv

\* A poll about to record a gap.
LEMMA ListExpiredStep == \A p \in Tick : SkipInv /\ ListExpired(p) => SkipInv'
<1> SUFFICES ASSUME NEW p \in Tick, SkipInv, ListExpired(p) PROVE SkipInv'
    OBVIOUS
<1> DEFINE r == [poll[p] EXCEPT !.at = "gapping", !.to = arrived]
<1>1. TypeOK /\ poll[p] \in Polls /\ Shaped(poll[p]) /\ Backed(poll[p])
    BY PollFacts
<1>2. r \in Polls
    BY <1>1, ChangedPoll, ArrivedPosition DEF Places
<1>3. Shaped(r)
    BY <1>1, PollParts, Numbers DEF ListExpired, At, Polls, Shaped, Looping, Working,
       Counting, Handling, TypeOK, Unset
<1>4. Backed(r)
    BY <1>1, PollParts, Numbers DEF ListExpired, At, Polls, Backed, Looping, Working,
       Handling, Stored, TypeOK, Unset
<1>5. Become(p, r) /\ UNCHANGED <<rows, refused, gaps, start, cursor>>
    BY DEF ListExpired, ghosts, mails, record
<1>6. poll' \in [Tick -> Polls] /\ PollsOK' /\ NothingSkipped'
    BY <1>2, <1>3, <1>4, <1>5, QuietStep
<1>7. TypeOK'
    BY <1>1, <1>6, Numbers DEF ListExpired, TypeOK, gmail, ghosts, mails, record
<1> QED BY <1>6, <1>7 DEF SkipInv

\* A poll renews its lease.
LEMMA HeartbeatStep == \A p \in Tick : SkipInv /\ Heartbeat(p) => SkipInv'
<1> SUFFICES ASSUME NEW p \in Tick, SkipInv, Heartbeat(p) PROVE SkipInv'
    OBVIOUS
<1> DEFINE r == [poll[p] EXCEPT !.at = "probing"]
<1>1. TypeOK /\ poll[p] \in Polls /\ Shaped(poll[p]) /\ Backed(poll[p])
    BY PollFacts
<1>2. r \in Polls
    BY <1>1, MovedPoll DEF Places
<1>3. Shaped(r)
    BY <1>1, PollParts, Numbers DEF Heartbeat, At, Polls, Shaped, Looping, Working,
       Counting, Handling, More, Capped
<1>4. Backed(r)
    BY <1>1, PollParts, Numbers DEF Heartbeat, At, Polls, Backed, Looping, Working,
       Handling, Stored, More, Capped
<1>5. Become(p, r) /\ UNCHANGED <<rows, refused, gaps, start, cursor>>
    BY DEF Heartbeat, Goto, ghosts, mails, record
<1>6. poll' \in [Tick -> Polls] /\ PollsOK' /\ NothingSkipped'
    BY <1>2, <1>3, <1>4, <1>5, QuietStep
<1>7. TypeOK'
    BY <1>1, <1>6, Numbers DEF Heartbeat, TypeOK, gmail, ghosts, mails, record
<1> QED BY <1>6, <1>7 DEF SkipInv

\* A message that is not stored.
LEMMA FreshStep == \A p \in Tick : SkipInv /\ Fresh(p) => SkipInv'
<1> SUFFICES ASSUME NEW p \in Tick, SkipInv, Fresh(p) PROVE SkipInv'
    OBVIOUS
<1> DEFINE r == [poll[p] EXCEPT !.at = "storing"]
<1>1. TypeOK /\ poll[p] \in Polls /\ Shaped(poll[p]) /\ Backed(poll[p])
    BY PollFacts
<1>2. r \in Polls
    BY <1>1, MovedPoll DEF Places, Handling
<1>3. Shaped(r)
    BY <1>1, PollParts, Numbers DEF Fresh, Fetched, At, Polls, Shaped, Looping, Working, Counting,
       Handling
<1>4. Backed(r)
    BY <1>1, PollParts, Numbers DEF Fresh, Fetched, At, Polls, Backed, Looping, Working, Handling,
       Stored
<1>5. Become(p, r) /\ UNCHANGED <<rows, refused, gaps, start, cursor>>
    BY DEF Fresh, Fetched, Goto, ghosts, mails, record
<1>6. poll' \in [Tick -> Polls] /\ PollsOK' /\ NothingSkipped'
    BY <1>2, <1>3, <1>4, <1>5, QuietStep
<1>7. TypeOK'
    BY <1>1, <1>6, Numbers DEF Fresh, Fetched, TypeOK, gmail, ghosts, mails, record
<1> QED BY <1>6, <1>7 DEF SkipInv

\* A label write.
LEMMA ApplyLabelStep == \A p \in Tick : SkipInv /\ ApplyLabel(p) => SkipInv'
<1> SUFFICES ASSUME NEW p \in Tick, SkipInv, ApplyLabel(p) PROVE SkipInv'
    OBVIOUS
<1> DEFINE r == [poll[p] EXCEPT !.at = "auditing", !.applied = TRUE, !.good = TRUE]
<1>1. TypeOK /\ poll[p] \in Polls /\ Shaped(poll[p]) /\ Backed(poll[p])
    BY PollFacts
<1>2. r \in Polls
    BY <1>1, ChangedPoll DEF Places, Handling
<1>3. Shaped(r)
    BY <1>1, PollParts, Numbers DEF ApplyLabel, At, Polls, Shaped, Looping, Working,
       Counting, Handling
<1>4. Backed(r)
    BY <1>1, PollParts, Numbers DEF ApplyLabel, At, Polls, Backed, Looping, Working,
       Handling, Stored
<1>5. Become(p, r) /\ UNCHANGED <<rows, refused, gaps, start, cursor>>
    BY DEF ApplyLabel, ghosts, mails, record
<1>6. poll' \in [Tick -> Polls] /\ PollsOK' /\ NothingSkipped'
    BY <1>2, <1>3, <1>4, <1>5, QuietStep
<1>7. TypeOK'
    BY <1>1, <1>6, Numbers DEF ApplyLabel, TypeOK, gmail, ghosts, mails, record
<1> QED BY <1>6, <1>7 DEF SkipInv

\* A label write that fails.
LEMMA LabelFailsStep == \A p \in Tick : SkipInv /\ LabelFails(p) => SkipInv'
<1> SUFFICES ASSUME NEW p \in Tick, SkipInv, LabelFails(p) PROVE SkipInv'
    OBVIOUS
<1> DEFINE r == [poll[p] EXCEPT !.at = "auditing", !.bad = TRUE]
<1>1. TypeOK /\ poll[p] \in Polls /\ Shaped(poll[p]) /\ Backed(poll[p])
    BY PollFacts
<1>2. r \in Polls
    BY <1>1, ChangedPoll DEF Places, Handling
<1>3. Shaped(r)
    BY <1>1, PollParts, Numbers DEF LabelFails, At, Polls, Shaped, Looping, Working,
       Counting, Handling
<1>4. Backed(r)
    BY <1>1, PollParts, Numbers DEF LabelFails, At, Polls, Backed, Looping, Working,
       Handling, Stored
<1>5. Become(p, r) /\ UNCHANGED <<rows, refused, gaps, start, cursor>>
    BY DEF LabelFails, ghosts, mails, record
<1>6. poll' \in [Tick -> Polls] /\ PollsOK' /\ NothingSkipped'
    BY <1>2, <1>3, <1>4, <1>5, QuietStep
<1>7. TypeOK'
    BY <1>1, <1>6, Numbers DEF LabelFails, TypeOK, gmail, ghosts, mails, record, Miss
<1> QED BY <1>6, <1>7 DEF SkipInv

\* A call that fails.
LEMMA FailStep == \A p \in Tick : SkipInv /\ Fail(p) => SkipInv'
<1> SUFFICES ASSUME NEW p \in Tick, SkipInv, Fail(p) PROVE SkipInv'
    OBVIOUS
<1> DEFINE r == [poll[p] EXCEPT !.at = "failing"]
<1>1. TypeOK /\ poll[p] \in Polls /\ Shaped(poll[p]) /\ Backed(poll[p])
    BY PollFacts
<1>2. r \in Polls
    BY <1>1, MovedPoll DEF Places
<1>3. Shaped(r)
    BY <1>1, PollParts, Numbers DEF Fail, At, Polls, Shaped, Looping, Working, Counting,
       Handling
<1>4. Backed(r)
    BY <1>1, PollParts, Numbers DEF Fail, At, Polls, Backed, Looping, Working, Handling,
       Stored
<1>5. Become(p, r) /\ UNCHANGED <<rows, refused, gaps, start, cursor>>
    BY DEF Fail, Goto, CutShort, ghosts, mails, record
<1>6. poll' \in [Tick -> Polls] /\ PollsOK' /\ NothingSkipped'
    BY <1>2, <1>3, <1>4, <1>5, QuietStep
<1>7. TypeOK'
    BY <1>1, <1>6, CutShortType, Numbers
       DEF Fail, TypeOK, gmail, ghosts, mails, record, Miss
<1> QED BY <1>6, <1>7 DEF SkipInv

\* The catch block.
LEMMA RecoverStep == \A p \in Tick : SkipInv /\ Recover(p) => SkipInv'
<1> SUFFICES ASSUME NEW p \in Tick, SkipInv, Recover(p) PROVE SkipInv'
    OBVIOUS
<1> DEFINE r == Idle
<1>1. TypeOK /\ poll[p] \in Polls /\ Shaped(poll[p]) /\ Backed(poll[p])
    BY PollFacts
<1>2. r \in Polls
    BY IdleOK
<1>3. Shaped(r)
    BY IdleOK
<1>4. Backed(r)
    BY IdleOK
<1>5. Become(p, r) /\ UNCHANGED <<rows, refused, gaps, start, cursor>>
    BY DEF Recover, ghosts, mails, record
<1>6. poll' \in [Tick -> Polls] /\ PollsOK' /\ NothingSkipped'
    BY <1>2, <1>3, <1>4, <1>5, QuietStep
<1>7. lease' \in BOOLEAN /\ robbed' \in BOOLEAN /\ failed' \in 0..MaxFaults
    <2>1. CASE lease' = FALSE /\ UNCHANGED failed
              /\ robbed' = (robbed \/ \E q \in Tick \ {p} : ~(poll[q].at \in {"idle", "read"}))
        BY <1>1, <2>1 DEF TypeOK
    <2>2. CASE Miss("recover") /\ UNCHANGED <<lease, robbed>>
        BY <1>1, <2>2, Numbers DEF TypeOK, Miss
    <2> QED BY <2>1, <2>2 DEF Recover
<1>8. TypeOK'
    BY <1>1, <1>6, <1>7 DEF Recover, TypeOK, gmail, mails, record
<1> QED BY <1>6, <1>8 DEF SkipInv

\* A tick that dies.
LEMMA CrashStep == \A p \in Tick : SkipInv /\ Crash(p) => SkipInv'
<1> SUFFICES ASSUME NEW p \in Tick, SkipInv, Crash(p) PROVE SkipInv'
    OBVIOUS
<1> DEFINE r == Idle
<1>1. TypeOK /\ poll[p] \in Polls /\ Shaped(poll[p]) /\ Backed(poll[p])
    BY PollFacts
<1>2. r \in Polls
    BY IdleOK
<1>3. Shaped(r)
    BY IdleOK
<1>4. Backed(r)
    BY IdleOK
<1>5. Become(p, r) /\ UNCHANGED <<rows, refused, gaps, start, cursor>>
    BY DEF Crash, CutShort, ghosts, mails, record
<1>6. poll' \in [Tick -> Polls] /\ PollsOK' /\ NothingSkipped'
    BY <1>2, <1>3, <1>4, <1>5, QuietStep
<1>7. TypeOK'
    BY <1>1, <1>6, CutShortType, Numbers
       DEF Crash, TypeOK, gmail, ghosts, mails, record, Miss
<1> QED BY <1>6, <1>7 DEF SkipInv
-----------------------------------------------------------------------------
(* The steps through a listing. *)

\* A poll that has the message it is at accounted for may go on to the next.
LEMMA Onward == \A r, q \in Polls :
    /\ Shaped(r) /\ Backed(r) /\ r.at \in Working /\ Accounted(r.next)
    /\ q.at = "looping" /\ q.next = r.next + 1
    /\ q.from = r.from /\ q.to = r.to /\ q.upto = r.upto
    => Shaped(q) /\ Backed(q)
<1> SUFFICES ASSUME NEW r \in Polls, NEW q \in Polls,
                    Shaped(r), Backed(r), r.at \in Working, Accounted(r.next),
                    q.at = "looping", q.next = r.next + 1,
                    q.from = r.from, q.to = r.to, q.upto = r.upto
             PROVE  Shaped(q) /\ Backed(q)
    OBVIOUS
<1>1. r.next \in Mail /\ r.next \in 1..MaxMail
    BY HeldMail DEF Mail
<1>2. Shaped(q)
    <2>1. q.next >= 1
        BY <1>1, Numbers
    <2> QED BY <2>1 DEF Shaped, Looping, Working, Counting, Handling
<1>3. \A m \in Mail : m < q.next => m < r.next \/ m = r.next
    BY <1>1, Numbers DEF Mail
<1>4. Backed(q)
    BY <1>3 DEF Backed, Looping, Working, Handling, Stored
<1> QED BY <1>2, <1>4

\* The place of the next message is one a poll can be at.
LEMMA NextPlace == \A r \in Polls :
    Shaped(r) /\ r.at \in Working => r.next + 1 \in 0..(MaxMail + 1)
BY HeldMail, Numbers DEF Mail

\* A stored message is accounted for.
LEMMA TakenAccounted == \A m : Taken(m) => Accounted(m)
BY DEF Accounted, Handled

\* Everything before the listing's first message is accounted for.
LEMMA ListStep == \A p \in Tick : SkipInv /\ List(p) => SkipInv'
<1> SUFFICES ASSUME NEW p \in Tick, SkipInv, List(p) PROVE SkipInv'
    OBVIOUS
<1> DEFINE r == [poll[p] EXCEPT
        !.at = "looping",
        !.next = poll[p].from + 1,
        !.upto = IF arrived > poll[p].from + PageCap THEN poll[p].from + PageCap ELSE arrived,
        !.to = IF arrived > poll[p].from + PageCap THEN Unset ELSE arrived]
<1>1. TypeOK /\ poll[p] \in Polls /\ Shaped(poll[p]) /\ Backed(poll[p])
    BY PollFacts
<1>2. r \in Polls
    <2>1. poll[p].from \in 0..MaxMail /\ arrived \in 0..MaxMail
        BY <1>1, Numbers DEF List, TypeOK, Polls, Mail, Unset
    <2>2. poll[p].from + 1 \in 0..(MaxMail + 1)
        BY <2>1, Numbers
    <2>3. (IF arrived > poll[p].from + PageCap THEN poll[p].from + PageCap ELSE arrived)
              \in 0..MaxMail
        BY <2>1, Numbers
    <2>4. (IF arrived > poll[p].from + PageCap THEN Unset ELSE arrived)
              \in Mail \cup {0, Unset}
        BY <1>1, ArrivedPosition
    <2> QED BY <1>1, <2>2, <2>3, <2>4 DEF Polls, Places
<1>0. arrived \in 0..MaxMail /\ poll[p].from \in Mail \cup {0}
    BY <1>1, PollParts DEF List, TypeOK
<1>3. Shaped(r)
    BY <1>0, <1>1, Numbers DEF List, At, Polls, Shaped, Looping, Working, Counting,
       Handling, Unset, Mail
<1>4. Backed(r)
    <2>1. poll[p].from \in Int
        BY <1>1, PollParts, Numbers
    <2>2. \A m \in Mail : m <= poll[p].from => Accounted(m)
        BY <1>1 DEF Backed
    <2>3. r.at = "looping" /\ r.next = poll[p].from + 1 /\ r.from = poll[p].from
        BY <1>1 DEF Polls
    <2>4. \A m \in Mail : m < r.next => Accounted(m)
        BY <2>1, <2>2, <2>3, Numbers
    <2> HIDE DEF r
    <2> QED BY <2>2, <2>3, <2>4 DEF Backed, Stored, Looping, Handling
<1>5. Become(p, r) /\ UNCHANGED <<rows, refused, gaps, start, cursor>>
    BY DEF List, ghosts, mails, record
<1>6. poll' \in [Tick -> Polls] /\ PollsOK' /\ NothingSkipped'
    BY <1>2, <1>3, <1>4, <1>5, QuietStep
<1>7. TypeOK'
    BY <1>1, <1>6, Numbers DEF List, TypeOK, gmail, ghosts, mails, record
<1> QED BY <1>6, <1>7 DEF SkipInv

\* A stored message is not stored again.
LEMMA ReplayedStep == \A p \in Tick : SkipInv /\ Replayed(p) => SkipInv'
<1> SUFFICES ASSUME NEW p \in Tick, SkipInv, Replayed(p) PROVE SkipInv'
    OBVIOUS
<1> DEFINE r == IF mode = "active" /\ audit[poll[p].next] = "pending"
               THEN [poll[p] EXCEPT !.at = "relabelling"]
               ELSE [poll[p] EXCEPT !.at = "looping", !.next = @ + 1]
<1>1. TypeOK /\ poll[p] \in Polls /\ Shaped(poll[p]) /\ Backed(poll[p])
    BY PollFacts
<1>2. r \in Polls
    BY <1>1, MovedPoll, ChangedPoll, NextPlace DEF Replayed, Fetched, At, Places, Working
<1>3. Shaped(r)
    BY <1>1, <1>2, Onward, TakenAccounted, PollParts, Numbers
       DEF Replayed, Fetched, At, Polls, Shaped, Looping, Working, Counting, Handling
<1>4. Backed(r)
    BY <1>1, <1>2, Onward, TakenAccounted, PollParts, Numbers
       DEF Replayed, Fetched, At, Polls, Backed, Looping, Working, Handling, Stored
<1>5. Become(p, r) /\ UNCHANGED <<rows, refused, gaps, start, cursor>>
    BY DEF Replayed, Fetched, Goto, NextMail, ghosts, mails, record
<1>6. poll' \in [Tick -> Polls] /\ PollsOK' /\ NothingSkipped'
    BY <1>2, <1>3, <1>4, <1>5, QuietStep
<1>7. TypeOK'
    BY <1>1, <1>6 DEF Replayed, Fetched, TypeOK, gmail, ghosts, mails, record
<1> QED BY <1>6, <1>7 DEF SkipInv

\* A case for a flagged message.
LEMMA OpenCaseStep == \A p \in Tick : SkipInv /\ OpenCase(p) => SkipInv'
<1> SUFFICES ASSUME NEW p \in Tick, SkipInv, OpenCase(p) PROVE SkipInv'
    OBVIOUS
<1> DEFINE r == [poll[p] EXCEPT !.at = "looping", !.next = @ + 1]
<1>1. TypeOK /\ poll[p] \in Polls /\ Shaped(poll[p]) /\ Backed(poll[p])
    BY PollFacts
<1>2. r \in Polls
    BY <1>1, ChangedPoll, NextPlace DEF OpenCase, At, Places, Working, Handling
<1>3. Shaped(r)
    BY <1>1, <1>2, Onward, TakenAccounted
       DEF OpenCase, At, Polls, Working, Handling, Backed, Stored
<1>4. Backed(r)
    BY <1>1, <1>2, Onward, TakenAccounted
       DEF OpenCase, At, Polls, Working, Handling, Backed, Stored
<1>5. Become(p, r) /\ UNCHANGED <<rows, refused, gaps, start, cursor>>
    BY DEF OpenCase, NextMail, ghosts, mails, record
<1>6. poll' \in [Tick -> Polls] /\ PollsOK' /\ NothingSkipped'
    BY <1>2, <1>3, <1>4, <1>5, QuietStep
<1>7. TypeOK'
    BY <1>1, <1>6, HeldMail DEF OpenCase, TypeOK, gmail, ghosts, mails, record, At,
       Working, Handling
<1> QED BY <1>6, <1>7 DEF SkipInv

\* A label write made up for.
LEMMA RelabelStep == \A p \in Tick : SkipInv /\ Relabel(p) => SkipInv'
<1> SUFFICES ASSUME NEW p \in Tick, SkipInv, Relabel(p) PROVE SkipInv'
    OBVIOUS
<1> DEFINE r == [poll[p] EXCEPT !.at = "looping", !.next = @ + 1, !.good = TRUE]
<1>1. TypeOK /\ poll[p] \in Polls /\ Shaped(poll[p]) /\ Backed(poll[p])
    BY PollFacts
<1>2. r \in Polls
    BY <1>1, ChangedPoll, NextPlace DEF Relabel, At, Places, Working, Handling
<1>3. Shaped(r)
    BY <1>1, <1>2, Onward, TakenAccounted
       DEF Relabel, At, Polls, Working, Handling, Backed, Stored
<1>4. Backed(r)
    BY <1>1, <1>2, Onward, TakenAccounted
       DEF Relabel, At, Polls, Working, Handling, Backed, Stored
<1>5. Become(p, r) /\ UNCHANGED <<rows, refused, gaps, start, cursor>>
    BY DEF Relabel, ghosts, mails, record
<1>6. poll' \in [Tick -> Polls] /\ PollsOK' /\ NothingSkipped'
    BY <1>2, <1>3, <1>4, <1>5, QuietStep
<1>7. TypeOK'
    BY <1>1, <1>6 DEF Relabel, TypeOK, gmail, ghosts, mails, record
<1> QED BY <1>6, <1>7 DEF SkipInv

\* A label write that fails once more.
LEMMA RelabelFailsStep == \A p \in Tick : SkipInv /\ RelabelFails(p) => SkipInv'
<1> SUFFICES ASSUME NEW p \in Tick, SkipInv, RelabelFails(p) PROVE SkipInv'
    OBVIOUS
<1> DEFINE r == [poll[p] EXCEPT !.at = "looping", !.next = @ + 1, !.bad = TRUE]
<1>1. TypeOK /\ poll[p] \in Polls /\ Shaped(poll[p]) /\ Backed(poll[p])
    BY PollFacts
<1>2. r \in Polls
    BY <1>1, ChangedPoll, NextPlace DEF RelabelFails, At, Places, Working, Handling
<1>3. Shaped(r)
    BY <1>1, <1>2, Onward, TakenAccounted
       DEF RelabelFails, At, Polls, Working, Handling, Backed, Stored
<1>4. Backed(r)
    BY <1>1, <1>2, Onward, TakenAccounted
       DEF RelabelFails, At, Polls, Working, Handling, Backed, Stored
<1>5. Become(p, r) /\ UNCHANGED <<rows, refused, gaps, start, cursor>>
    BY DEF RelabelFails, ghosts, mails, record
<1>6. poll' \in [Tick -> Polls] /\ PollsOK' /\ NothingSkipped'
    BY <1>2, <1>3, <1>4, <1>5, QuietStep
<1>7. TypeOK'
    BY <1>1, <1>6, Numbers DEF RelabelFails, TypeOK, gmail, ghosts, mails, record, Miss
<1> QED BY <1>6, <1>7 DEF SkipInv

\* The audit row, then the case of a flagged message.
LEMMA AuditStep == \A p \in Tick : SkipInv /\ Audit(p) => SkipInv'
<1> SUFFICES ASSUME NEW p \in Tick, SkipInv, Audit(p) PROVE SkipInv'
    OBVIOUS
<1> DEFINE r == IF verdict[poll[p].next] = "flagged"
               THEN [poll[p] EXCEPT !.at = "casing"]
               ELSE [poll[p] EXCEPT !.at = "looping", !.next = @ + 1]
<1>1. TypeOK /\ poll[p] \in Polls /\ Shaped(poll[p]) /\ Backed(poll[p])
    BY PollFacts
<1>2. r \in Polls
    BY <1>1, MovedPoll, ChangedPoll, NextPlace DEF Audit, At, Places, Working, Handling
<1>3. Shaped(r)
    BY <1>1, <1>2, Onward, TakenAccounted, PollParts, Numbers
       DEF Audit, At, Polls, Shaped, Backed, Stored, Looping, Working, Counting, Handling
<1>4. Backed(r)
    BY <1>1, <1>2, Onward, TakenAccounted, PollParts, Numbers
       DEF Audit, At, Polls, Backed, Looping, Working, Handling, Stored
<1>5. Become(p, r) /\ UNCHANGED <<rows, refused, gaps, start, cursor>>
    BY DEF Audit, Goto, NextMail, ghosts, mails, record
<1>6. poll' \in [Tick -> Polls] /\ PollsOK' /\ NothingSkipped'
    BY <1>2, <1>3, <1>4, <1>5, QuietStep
<1>7. TypeOK'
    BY <1>1, <1>6 DEF Audit, TypeOK, gmail, ghosts, mails, record
<1> QED BY <1>6, <1>7 DEF SkipInv

\* The verdict: no row of the audit without one.
LEMMA ScoreStep == \A p \in Tick : SkipInv /\ Score(p) => SkipInv'
<1> SUFFICES ASSUME NEW p \in Tick, SkipInv, Score(p) PROVE SkipInv'
    OBVIOUS
<1>1. PICK v \in {"none", "clean", "flagged"} :
          /\ verdict' = [verdict EXCEPT ![poll[p].next] = v]
          /\ Become(p, [poll[p] EXCEPT
                !.n = @ + 1,
                !.applied = FALSE,
                !.next = IF v = "none" THEN @ + 1 ELSE @,
                !.at = IF v = "none" THEN "looping"
                       ELSE IF mode = "active" THEN "labelling" ELSE "auditing"])
    BY DEF Score
<1> DEFINE r == [poll[p] EXCEPT
                !.n = @ + 1,
                !.applied = FALSE,
                !.next = IF v = "none" THEN @ + 1 ELSE @,
                !.at = IF v = "none" THEN "looping"
                       ELSE IF mode = "active" THEN "labelling" ELSE "auditing"]
<1>2. TypeOK /\ poll[p] \in Polls /\ Shaped(poll[p]) /\ Backed(poll[p])
    BY PollFacts
<1>3. poll[p].at = "scoring"
    BY DEF Score, At
<1>4. poll[p].next + 1 \in 0..(MaxMail + 1) /\ poll[p].n + 1 \in 0..BatchCap
    BY <1>2, <1>3, NextPlace, PollParts, Numbers DEF Shaped, Counting, Working, Handling
<1>5. r \in Polls
    BY <1>2, <1>4 DEF Polls, Places, Handling
<1>6. /\ r.at = IF v = "none" THEN "looping"
                ELSE IF mode = "active" THEN "labelling" ELSE "auditing"
      /\ r.next = IF v = "none" THEN poll[p].next + 1 ELSE poll[p].next
      /\ r.from = poll[p].from /\ r.to = poll[p].to /\ r.upto = poll[p].upto
    BY <1>2 DEF Polls
<1>7. Become(p, r)
    BY <1>1
<1> HIDE DEF r
<1>8. ASSUME v = "none" PROVE Shaped(r) /\ Backed(r)
    <2>1. Accounted(poll[p].next)
        BY <1>2, <1>3, TakenAccounted DEF Backed, Stored
    <2>2. Shaped(r) /\ Backed(r)
        BY <1>2, <1>3, <1>5, <1>6, <1>8, <2>1, Onward DEF Working, Handling
    <2> QED BY <2>2
<1>9. ASSUME v # "none" PROVE Shaped(r) /\ Backed(r)
    <2>1. Shaped(r)
        BY <1>2, <1>3, <1>6, <1>9 DEF Shaped, Looping, Working, Counting, Handling
    <2>2. Backed(r)
        BY <1>2, <1>3, <1>6, <1>9 DEF Backed, Looping, Working, Handling, Stored
    <2> QED BY <2>1, <2>2
<1>10. Shaped(r) /\ Backed(r)
    BY <1>8, <1>9
<1>11. UNCHANGED <<rows, refused, gaps, start, cursor>>
    BY DEF Score, ghosts, record
<1>12. poll' \in [Tick -> Polls] /\ PollsOK' /\ NothingSkipped'
    BY <1>5, <1>7, <1>10, <1>11, QuietStep
<1>13. TypeOK'
    BY <1>1, <1>2, <1>12 DEF Score, TypeOK, gmail, ghosts, record
<1> QED BY <1>12, <1>13 DEF SkipInv
-----------------------------------------------------------------------------
(* The steps that write a table. *)

\* The recorded gap backs the cursor about to be written.
LEMMA RecordGapStep == \A p \in Tick : SkipInv /\ RecordGap(p) => SkipInv'
<1> SUFFICES ASSUME NEW p \in Tick, SkipInv, RecordGap(p) PROVE SkipInv'
    OBVIOUS
<1>1. TypeOK /\ poll[p] \in Polls /\ Shaped(poll[p]) /\ Backed(poll[p])
    BY PollFacts
<1>2. PICK r \in Polls : r = [poll[p] EXCEPT !.at = "closing"]
    BY <1>1, MovedPoll DEF Places
<1>3. Grows
    BY <1>1, Numbers DEF RecordGap, Grows, TypeOK, mails, ghosts
<1>4. r.at = "closing" /\ r.from = poll[p].from /\ r.to = poll[p].to
    BY <1>1, <1>2 DEF Polls
<1>5. Become(p, r) /\ gaps' = gaps \cup {<<r.from, r.to>>}
    BY <1>2, <1>4 DEF RecordGap, Goto
<1>6. Shaped(r)
    BY <1>4 DEF Shaped, Looping, Working, Counting, Handling
<1>7. \A m \in Mail : m <= r.from => Accounted(m)'
    BY <1>1, <1>3, <1>4, AccountedGrows DEF Backed
<1>8. Backed(r)'
    BY <1>4, <1>5, <1>7 DEF Backed, Looping, Working, Handling, Stored
<1>9. poll' \in [Tick -> Polls] /\ PollsOK' /\ NothingSkipped'
    BY <1>1, <1>2, <1>3, <1>5, <1>6, <1>8, PollStep, CursorRests, BecomeType
       DEF RecordGap, TypeOK
<1>10. gaps' \subseteq (Mail \cup {0}) \X (Mail \cup {0})
    BY <1>1, <1>4, <1>5, PollParts DEF RecordGap, At, Shaped, TypeOK
<1>11. TypeOK'
    BY <1>1, <1>9, <1>10 DEF RecordGap, TypeOK, gmail, mails, ghosts
<1> QED BY <1>9, <1>11 DEF SkipInv

\* A step that writes a table on behalf of the message its poll is at.
LEMMA WriteStep == \A p \in Tick : \A r \in Polls : \A k \in Mail :
    /\ poll[p].next = k /\ SkipInv /\ Grows /\ Become(p, r) /\ cursor' = cursor
    /\ poll[p].at \in Working /\ r.from = poll[p].from
    /\ \/ r.at = "failing"
       \/ /\ r.at \in {"looping", "scoring"}
          /\ r.to = poll[p].to /\ r.upto = poll[p].upto
          /\ r.at = "looping" => r.next = k + 1 /\ Accounted(k)'
          /\ r.at = "scoring" => r.next = k /\ Taken(k)' /\ r.n < BatchCap
    => poll' \in [Tick -> Polls] /\ PollsOK' /\ NothingSkipped'
<1> SUFFICES ASSUME NEW p \in Tick, NEW r \in Polls, NEW k \in Mail,
                    poll[p].next = k, SkipInv, Grows, Become(p, r), cursor' = cursor,
                    poll[p].at \in Working, r.from = poll[p].from,
                    \/ r.at = "failing"
                    \/ /\ r.at \in {"looping", "scoring"}
                       /\ r.to = poll[p].to /\ r.upto = poll[p].upto
                       /\ r.at = "looping" => r.next = k + 1 /\ Accounted(k)'
                       /\ r.at = "scoring" => r.next = k /\ Taken(k)' /\ r.n < BatchCap
             PROVE  poll' \in [Tick -> Polls] /\ PollsOK' /\ NothingSkipped'
    OBVIOUS
<1>1. TypeOK /\ poll \in [Tick -> Polls] /\ poll[p] \in Polls
      /\ Shaped(poll[p]) /\ Backed(poll[p])
    BY PollFacts DEF TypeOK
<1>2. k \in 1..MaxMail
    BY DEF Mail
<1>3. \A m \in Mail : (m <= r.from => Accounted(m)') /\ (m < k => Accounted(m)')
    BY <1>1, AccountedGrows DEF Backed, Looping
<1>4. \A m \in Mail : m < k + 1 => m < k \/ m = k
    BY <1>2, Numbers DEF Mail
<1>5. k + 1 >= 1
    BY <1>2, Numbers
<1>6. Shaped(r)
    BY <1>1, <1>5 DEF Shaped, Looping, Working, Counting, Handling
<1>7. Backed(r)'
    BY <1>3, <1>4 DEF Backed, Looping, Working, Handling, Stored
<1> QED BY <1>1, <1>6, <1>7, PollStep, CursorRests, BecomeType

\* A refused message is accounted for.
LEMMA RefuseStep == \A p \in Tick : SkipInv /\ Refuse(p) => SkipInv'
<1> SUFFICES ASSUME NEW p \in Tick, SkipInv, Refuse(p) PROVE SkipInv'
    OBVIOUS
<1>1. TypeOK /\ poll[p] \in Polls /\ Shaped(poll[p]) /\ Backed(poll[p])
    BY PollFacts
<1>2. poll[p].at = "storing" /\ poll[p].at \in Working
    BY DEF Refuse, At, Working, Handling
<1>3. poll[p].next + 1 \in 0..(MaxMail + 1) /\ poll[p].n + 1 \in 0..BatchCap
    BY <1>1, <1>2, NextPlace, PollParts, Numbers DEF Shaped, Counting
<1>4. PICK r \in Polls :
          r = [poll[p] EXCEPT !.at = "looping", !.next = @ + 1, !.n = @ + 1]
    BY <1>1, <1>3 DEF Polls, Places
<1>11. PICK k \in Mail : k = poll[p].next
    BY <1>1, <1>2, HeldMail
<1>5. Grows
    BY <1>1, Numbers DEF Refuse, Grows, TypeOK, record, ghosts
<1>6. r.at = "looping" /\ r.from = poll[p].from /\ r.to = poll[p].to
      /\ r.upto = poll[p].upto /\ r.next = k + 1
    BY <1>1, <1>4, <1>11 DEF Polls
<1>7. Accounted(k)'
    BY <1>11 DEF Refuse, Accounted, Handled
<1>8. Become(p, r) /\ cursor' = cursor
    BY <1>4 DEF Refuse
<1>9. poll' \in [Tick -> Polls] /\ PollsOK' /\ NothingSkipped'
    BY <1>2, <1>11, <1>5, <1>6, <1>7, <1>8, WriteStep
<1>10. TypeOK'
    BY <1>1, <1>2, <1>9, HeldMail DEF Refuse, TypeOK, gmail, record, ghosts
<1> QED BY <1>9, <1>10 DEF SkipInv

\* One row more for the message a poll is at.
StoresOne(p) == rows' = [rows EXCEPT ![poll[p].next] = @ + 1]

\* A row more, or none, is only growth.
LEMMA StoresOneGrows == \A p \in Tick :
    SkipInv /\ poll[p].at \in Working /\ UNCHANGED <<refused, gaps, start>>
    /\ (StoresOne(p) \/ rows' = rows)
    => Grows
<1> SUFFICES ASSUME NEW p \in Tick, SkipInv, poll[p].at \in Working,
                    UNCHANGED <<refused, gaps, start>>, StoresOne(p) \/ rows' = rows
             PROVE  Grows
    OBVIOUS
<1>1. TypeOK /\ poll[p] \in Polls /\ Shaped(poll[p])
    BY PollFacts
<1>2. poll[p].next \in Mail
    BY <1>1, HeldMail
<1>3. rows' \in [Mail -> Nat] /\ \A m \in Mail : rows'[m] >= rows[m]
    BY <1>1, <1>2 DEF TypeOK, StoresOne
<1> QED BY <1>1, <1>3, Numbers DEF Grows, TypeOK

\* The row is the message's account.
LEMMA StoreStep == \A p \in Tick : SkipInv /\ Store(p) => SkipInv'
<1> SUFFICES ASSUME NEW p \in Tick, SkipInv, Store(p) PROVE SkipInv'
    OBVIOUS
<1>1. TypeOK /\ poll[p] \in Polls /\ Shaped(poll[p]) /\ Backed(poll[p])
    BY PollFacts
<1>2. poll[p].at = "storing" /\ poll[p].at \in Working
    BY DEF Store, At, Working, Handling
<1>3. PICK k \in Mail : k = poll[p].next
    BY <1>1, <1>2, HeldMail
<1>4. PICK r \in Polls : r = [poll[p] EXCEPT !.at = "scoring"]
    BY <1>1, MovedPoll DEF Places, Handling
<1>5. Grows
    BY <1>2, StoresOneGrows DEF Store, StoresOne, record, ghosts
<1>6. r.at = "scoring" /\ r.from = poll[p].from /\ r.to = poll[p].to
      /\ r.upto = poll[p].upto /\ r.next = k /\ r.n < BatchCap
    BY <1>1, <1>2, <1>3, <1>4 DEF Polls, Shaped, Counting
<1>7. Taken(k)'
    BY <1>1, <1>3 DEF Store, Taken, TypeOK
<1>8. Become(p, r) /\ cursor' = cursor
    BY <1>4 DEF Store, Goto
<1>9. poll' \in [Tick -> Polls] /\ PollsOK' /\ NothingSkipped'
    BY <1>2, <1>3, <1>5, <1>6, <1>7, <1>8, WriteStep
<1>10. TypeOK'
    BY <1>1, <1>5, <1>9 DEF Store, Grows, TypeOK, gmail, record, ghosts
<1> QED BY <1>9, <1>10 DEF SkipInv

\* A receiveEmail that throws, whether or not its row is there.
LEMMA ReceiveFailsStep == \A p \in Tick : SkipInv /\ ReceiveFails(p) => SkipInv'
<1> SUFFICES ASSUME NEW p \in Tick, SkipInv, ReceiveFails(p) PROVE SkipInv'
    OBVIOUS
<1>1. TypeOK /\ poll[p] \in Polls /\ Shaped(poll[p]) /\ Backed(poll[p])
    BY PollFacts
<1>2. poll[p].at = "storing" /\ poll[p].at \in Working
    BY DEF ReceiveFails, At, Working, Handling
<1>3. PICK r \in Polls : r = [poll[p] EXCEPT !.at = "failing"]
    BY <1>1, MovedPoll DEF Places
<1>4. hurt' \subseteq Mail /\ unseen' \subseteq Mail /\ UNCHANGED <<robbed, start>>
    BY CutShortType DEF ReceiveFails
<1>5. Grows
    BY <1>2, <1>4, StoresOneGrows DEF ReceiveFails, StoresOne, record
<1>6. r.at = "failing" /\ r.from = poll[p].from
    BY <1>1, <1>3 DEF Polls
<1>7. Become(p, r) /\ cursor' = cursor
    BY <1>3 DEF ReceiveFails, Goto
<1>8. poll' \in [Tick -> Polls] /\ PollsOK' /\ NothingSkipped'
    BY <1>1, <1>2, <1>5, <1>6, <1>7, HeldMail, WriteStep
<1>9. failed' \in 0..MaxFaults
    BY <1>1, Numbers DEF ReceiveFails, Miss, TypeOK
<1>10. TypeOK'
    BY <1>1, <1>4, <1>5, <1>8, <1>9 DEF ReceiveFails, Grows, TypeOK, gmail, record
<1> QED BY <1>8, <1>10 DEF SkipInv

\* The cursor moves to where everything before it is accounted for.
LEMMA PatchStep == \A p \in Tick :
    /\ SkipInv /\ Ending(p) /\ Patch(p) /\ UNCHANGED <<rows, refused, gaps>>
    => Grows /\ NothingSkipped' /\ cursor' \in Mail \cup {0, Unset} /\ start' \in 0..MaxMail
<1> SUFFICES ASSUME NEW p \in Tick, SkipInv, Ending(p), Patch(p),
                    UNCHANGED <<rows, refused, gaps>>
             PROVE  Grows /\ NothingSkipped' /\ cursor' \in Mail \cup {0, Unset}
                    /\ start' \in 0..MaxMail
    OBVIOUS
<1>1. TypeOK /\ poll[p] \in Polls /\ Shaped(poll[p]) /\ Backed(poll[p])
    BY PollFacts
<1>2. Target(p) \in Mail \cup {0, Unset}
    BY <1>1, PollParts DEF Target
<1>3. start' \in 0..MaxMail /\ start' >= start
    <2>1. poll[p].to \in Int /\ poll[p].to <= MaxMail /\ start \in 0..MaxMail
        <3>1. poll[p].to \in Mail \cup {0, Unset}
            BY <1>1, PollParts
        <3>2. start \in 0..MaxMail
            BY <1>1 DEF TypeOK
        <3> QED BY <3>1, <3>2, Numbers DEF Mail, Unset
    <2>2. (start' = poll[p].to /\ poll[p].to > start) \/ start' = start
        BY DEF Patch
    <2> QED BY <2>1, <2>2, Numbers
<1>4. Grows
    BY <1>1, <1>3, Numbers DEF Grows, TypeOK
<1>5. cursor' \in Mail \cup {0, Unset}
    BY <1>1, <1>2 DEF Patch, TypeOK
<1>6. ASSUME NEW m \in Mail, m <= cursor', Target(p) # Unset PROVE Accounted(m)'
    <2>1. cursor' = poll[p].to /\ poll[p].to # Unset
        BY <1>6 DEF Patch, Target
    <2>2. CASE At(p, "looping")
        <3>1. ~More(p) /\ poll[p].to = poll[p].upto
            BY <1>1, <1>6, <2>2 DEF Target, At, Shaped, Looping
        <3>2. m < poll[p].next
            BY <1>1, <1>6, <2>1, <3>1, PollParts, Numbers DEF More, Mail
        <3> QED BY <1>1, <1>4, <2>2, <3>2, AccountedGrows DEF Backed, Looping, At
    <2>3. CASE At(p, "closing") /\ poll[p].from = Unset
        <3>1. m <= start'
            BY <1>1, <1>6, <2>1, <2>3, PollParts, Numbers DEF Patch, TypeOK, Mail, Unset
        <3> QED BY <3>1 DEF Accounted
    <2>4. CASE At(p, "closing") /\ poll[p].from # Unset
        <3>1. <<poll[p].from, poll[p].to>> \in gaps
            BY <1>1, <2>4 DEF Backed, At
        <3>2. CASE m <= poll[p].from
            BY <1>1, <1>4, <3>2, AccountedGrows DEF Backed
        <3>3. CASE poll[p].from < m
            BY <1>4, <1>6, <2>1, <3>1, <3>3 DEF Grows, Accounted, InGap
        <3>4. poll[p].from \in Int /\ m \in Int
            BY <1>1, PollParts, Numbers DEF Mail
        <3> QED BY <3>2, <3>3, <3>4
    <2> QED BY <2>2, <2>3, <2>4 DEF Ending
<1>7. ASSUME NEW m \in Mail, m <= cursor', Target(p) = Unset PROVE Accounted(m)'
    BY <1>1, <1>4, <1>7, AccountedGrows DEF Patch, SkipInv, NothingSkipped
<1>8. NothingSkipped'
    BY <1>6, <1>7 DEF NothingSkipped
<1> QED BY <1>3, <1>4, <1>5, <1>8

\* The closing patch of a poll that goes idle.
LEMMA CloseStep == \A p \in Tick : SkipInv /\ Close(p) => SkipInv'
<1> SUFFICES ASSUME NEW p \in Tick, SkipInv, Close(p) PROVE SkipInv'
    OBVIOUS
<1>1. TypeOK /\ poll[p] \in Polls
    BY PollFacts
<1>2. Grows /\ NothingSkipped' /\ cursor' \in Mail \cup {0, Unset} /\ start' \in 0..MaxMail
    BY PatchStep DEF Close, mails, record
<1>3. Backed(Idle)'
    BY <1>1, <1>2, IdleOK, BackedGrows
<1>4. poll' \in [Tick -> Polls] /\ PollsOK'
    BY <1>1, <1>2, <1>3, IdleOK, PollStep, BecomeType DEF Close, TypeOK
<1>5. lease' \in BOOLEAN /\ labelError' \in BOOLEAN /\ unseen' \subseteq Mail
    BY <1>1 DEF Close, Patch, SignalAfter, TypeOK, Polls
<1>6. TypeOK'
    BY <1>1, <1>2, <1>4, <1>5 DEF Close, TypeOK, gmail, mails, record
<1> QED BY <1>2, <1>4, <1>6 DEF SkipInv

\* The closing patch of a poll that then takes its catch block.
LEMMA CloseUnansweredStep == \A p \in Tick : SkipInv /\ CloseUnanswered(p) => SkipInv'
<1> SUFFICES ASSUME NEW p \in Tick, SkipInv, CloseUnanswered(p) PROVE SkipInv'
    OBVIOUS
<1>1. TypeOK /\ poll[p] \in Polls /\ Shaped(poll[p]) /\ Backed(poll[p])
    BY PollFacts
<1>2. Grows /\ NothingSkipped' /\ cursor' \in Mail \cup {0, Unset} /\ start' \in 0..MaxMail
    BY PatchStep DEF CloseUnanswered, mails, record
<1>3. PICK r \in Polls : r = [poll[p] EXCEPT !.at = "failing"]
    BY <1>1, MovedPoll DEF Places
<1>4. r.at = "failing" /\ r.from = poll[p].from
    BY <1>1, <1>3 DEF Polls
<1>5. Shaped(r)
    BY <1>4 DEF Shaped, Looping, Working, Counting, Handling
<1>6. Backed(r)'
    BY <1>1, <1>2, <1>4, AccountedGrows DEF Backed, Looping, Working, Handling, Stored
<1>7. poll' \in [Tick -> Polls] /\ PollsOK'
    BY <1>1, <1>2, <1>3, <1>5, <1>6, PollStep, BecomeType DEF CloseUnanswered, Goto, TypeOK
<1>8. lease' \in BOOLEAN /\ labelError' \in BOOLEAN /\ unseen' \subseteq Mail
    BY <1>1 DEF CloseUnanswered, Patch, SignalAfter, TypeOK, Polls
<1>9. failed' \in 0..MaxFaults
    BY <1>1, Numbers DEF CloseUnanswered, Miss, TypeOK
<1>10. TypeOK'
    BY <1>1, <1>2, <1>7, <1>8, <1>9 DEF CloseUnanswered, TypeOK, gmail, mails, record
<1> QED BY <1>2, <1>7, <1>10 DEF SkipInv

\* Gmail and the lease's clock touch neither the tables nor the polls.
LEMMA OutsideStep == SkipInv /\ (Arrive \/ DeleteInGmail \/ Forget \/ LeaseExpires) => SkipInv'
<1> SUFFICES ASSUME SkipInv, Arrive \/ DeleteInGmail \/ Forget \/ LeaseExpires PROVE SkipInv'
    OBVIOUS
<1>1. TypeOK
    BY DEF SkipInv
<1>2. UNCHANGED <<rows, refused, gaps, start, cursor, poll>>
    BY DEF Arrive, DeleteInGmail, Forget, LeaseExpires, mails, record, ghosts
<1>3. Grows
    BY <1>1, <1>2, SameGrows
<1>4. PollsOK'
    <2>1. \A r : Backed(r) => Backed(r)'
        BY <1>1, <1>3, BackedGrows
    <2> QED BY <1>2, <2>1 DEF SkipInv, PollsOK, Shaped
<1>5. NothingSkipped'
    BY <1>2, <1>3, CursorRests
<1>6. TypeOK'
    <2>1. CASE Arrive
        <3>0. arrived \in 0..MaxMail /\ cursed \subseteq Mail
            BY <1>1 DEF TypeOK
        <3>1. arrived' \in 0..MaxMail /\ arrived' \in Mail
            BY <2>1, <3>0, Numbers DEF Arrive, Mail
        <3>3. cursed' \subseteq Mail
            BY <2>1, <3>0, <3>1 DEF Arrive
        <3>2. failed' \in 0..MaxFaults
            BY <1>1, <2>1, Numbers DEF TypeOK, Arrive, Miss
        <3> QED BY <1>1, <2>1, <3>1, <3>2, <3>3 DEF TypeOK, Arrive, mails, record, ghosts
    <2>2. CASE Forget
        BY <1>1, <2>2, Numbers DEF TypeOK, Forget, Miss, mails, record, ghosts
    <2>3. CASE LeaseExpires
        BY <1>1, <2>3 DEF TypeOK, LeaseExpires, gmail, mails, record, ghosts
    <2>4. CASE DeleteInGmail
        <3>1. deleted' \subseteq Mail /\ failed' \in 0..MaxFaults
            BY <1>1, <2>4, Numbers DEF TypeOK, DeleteInGmail, Miss, Mail
        <3> QED BY <1>1, <2>4, <3>1 DEF TypeOK, DeleteInGmail, mails, record, ghosts
    <2> QED BY <2>1, <2>2, <2>3, <2>4
<1> QED BY <1>4, <1>5, <1>6 DEF SkipInv
-----------------------------------------------------------------------------
(* The theorems. *)

\* Nothing is behind the cursor at first.
LEMMA SkipInit == Init => SkipInv
<1> SUFFICES ASSUME Init PROVE SkipInv
    OBVIOUS
<1>1. TypeOK
    <2>1. poll \in [Tick -> Polls]
        BY IdleOK DEF Init
    <2>2. arrived \in 0..MaxMail /\ forgotten \in 0..MaxMail /\ start \in 0..MaxMail
          /\ failed \in 0..MaxFaults
        BY Numbers DEF Init
    <2> QED BY <2>1, <2>2 DEF Init, TypeOK
<1>2. PollsOK
    BY IdleOK DEF Init, PollsOK
<1>3. NothingSkipped
    BY Numbers DEF Init, NothingSkipped, Mail, Unset
<1> QED BY <1>1, <1>2, <1>3 DEF SkipInv

\* Every step keeps the invariant.
LEMMA SkipStep == SkipInv /\ [Next]_vars => SkipInv'
<1> SUFFICES ASSUME SkipInv, [Next]_vars PROVE SkipInv'
    OBVIOUS
<1>1. CASE Arrive \/ DeleteInGmail \/ Forget \/ LeaseExpires
    BY <1>1, OutsideStep
<1>2. ASSUME NEW p \in Tick, Run(p) PROVE SkipInv'
    <2>1. CASE ReadState(p) \/ AcquireLease(p) \/ Anchor(p) \/ List(p) \/ ListExpired(p)
               \/ RecordGap(p)
        BY <2>1, ReadStateStep, AcquireLeaseStep, AnchorStep, ListStep, ListExpiredStep,
           RecordGapStep
    <2>2. CASE Heartbeat(p) \/ Replayed(p) \/ Fresh(p) \/ Refuse(p) \/ Store(p) \/ Score(p)
        BY <2>2, HeartbeatStep, ReplayedStep, FreshStep, RefuseStep, StoreStep, ScoreStep
    <2>3. CASE ApplyLabel(p) \/ LabelFails(p) \/ Audit(p) \/ OpenCase(p) \/ Relabel(p)
               \/ RelabelFails(p)
        BY <2>3, ApplyLabelStep, LabelFailsStep, AuditStep, OpenCaseStep, RelabelStep,
           RelabelFailsStep
    <2>4. CASE Close(p) \/ CloseUnanswered(p) \/ Fail(p) \/ ReceiveFails(p) \/ Recover(p)
        BY <2>4, CloseStep, CloseUnansweredStep, FailStep, ReceiveFailsStep, RecoverStep
    <2> QED BY <1>2, <2>1, <2>2, <2>3, <2>4 DEF Run
<1>3. ASSUME NEW p \in Tick, Crash(p) PROVE SkipInv'
    BY <1>3, CrashStep
<1>4. CASE UNCHANGED vars
    <2>1. UNCHANGED <<rows, refused, gaps, start, cursor, poll>> /\ TypeOK'
        BY <1>4 DEF vars, gmail, mails, record, ghosts, SkipInv, TypeOK
    <2>2. Grows
        BY <2>1, SameGrows DEF SkipInv
    <2>3. \A r : Backed(r) => Backed(r)'
        BY <2>2, BackedGrows DEF SkipInv
    <2>4. PollsOK'
        BY <2>1, <2>3 DEF SkipInv, PollsOK, Shaped
    <2> QED BY <2>1, <2>2, <2>4, CursorRests DEF SkipInv
<1> QED BY <1>1, <1>2, <1>3, <1>4 DEF Next

\* The poller's variables keep their types, and the cursor passes no message
\* that is not stored, refused, in a recorded gap or older than monitoring,
\* whatever the number of overlapping ticks, the caps and the faults.
THEOREM CursorSkipsNothing == Spec => [](TypeOK /\ NothingSkipped)
<1>1. SkipInv => TypeOK /\ NothingSkipped
    BY DEF SkipInv
<1> QED BY SkipInit, SkipStep, <1>1, PTL DEF Spec
-----------------------------------------------------------------------------
(* Exclusion by the lease, and what it buys. *)

\* What most steps of a poll do to the lease: a poll that is live was and keeps
\* the lease, one that is not may free the lease it held.
Calm(p) ==
    /\ \A q \in Tick : q # p => poll'[q] = poll[q]
    /\ rows' = rows /\ robbed' = robbed
    /\ \/ Live(p)' /\ Live(p) /\ (lease' = lease \/ lease' = TRUE)
       \/ ~Live(p)' /\ (lease' = lease \/ Live(p))
    /\ At(p, "storing")' => ~Taken(poll[p].next) /\ poll'[p].next = poll[p].next

\* A calm step keeps exclusion, freshness and single storage.
LEMMA CalmKeeps == \A p \in Tick :
    OnceInv /\ Calm(p) => LeaseHeld' /\ StoringFresh' /\ IngestedOnce'
<1> SUFFICES ASSUME NEW p \in Tick, OnceInv, Calm(p)
             PROVE  LeaseHeld' /\ StoringFresh' /\ IngestedOnce'
    OBVIOUS
<1>1. LeaseHeld'
    <2> SUFFICES ASSUME ~robbed'
                 PROVE  /\ \A q \in Tick : Live(q)' => lease'
                        /\ \A q, x \in Tick : Live(q)' /\ Live(x)' => q = x
        BY DEF LeaseHeld
    <2>1. /\ \A q \in Tick : Live(q) => lease
          /\ \A q, x \in Tick : Live(q) /\ Live(x) => q = x
        BY DEF OnceInv, LeaseHeld, Calm
    <2>2. \A q \in Tick : q # p => (Live(q)' <=> Live(q))
        BY DEF Calm, Live
    <2>3. CASE Live(p)' /\ Live(p) /\ (lease' = lease \/ lease' = TRUE)
        BY <2>1, <2>2, <2>3
    <2>4. CASE ~Live(p)' /\ (lease' = lease \/ Live(p))
        BY <2>1, <2>2, <2>4
    <2> QED BY <2>3, <2>4 DEF Calm
<1>2. StoringFresh'
    BY DEF OnceInv, StoringFresh, Calm, At, Taken
<1>3. IngestedOnce'
    BY DEF OnceInv, IngestedOnce, Calm
<1> QED BY <1>1, <1>2, <1>3

\* Reading the state takes no lease.
LEMMA ReadStateCalm == \A p \in Tick : TypeOK /\ ReadState(p) => Calm(p)
BY DEF TypeOK, Polls, ReadState, Calm, Live, At, Taken, Become, Goto, NextMail, mails,
   ghosts, Idle

\* Anchoring stores nothing.
LEMMA AnchorCalm == \A p \in Tick : TypeOK /\ Anchor(p) => Calm(p)
BY DEF TypeOK, Polls, Anchor, Calm, Live, At, Taken, Become, Goto, NextMail, mails, ghosts,
   Idle

\* An expired listing stores nothing.
LEMMA ListExpiredCalm == \A p \in Tick : TypeOK /\ ListExpired(p) => Calm(p)
BY DEF TypeOK, Polls, ListExpired, Calm, Live, At, Taken, Become, Goto, NextMail, mails,
   ghosts, Idle

\* A gap event is no row.
LEMMA RecordGapCalm == \A p \in Tick : TypeOK /\ RecordGap(p) => Calm(p)
BY DEF TypeOK, Polls, RecordGap, Calm, Live, At, Taken, Become, Goto, NextMail, mails,
   ghosts, Idle

\* The heartbeat renews the lease of a live poll.
LEMMA HeartbeatCalm == \A p \in Tick : TypeOK /\ Heartbeat(p) => Calm(p)
BY DEF TypeOK, Polls, Heartbeat, Calm, Live, At, Taken, Become, Goto, NextMail, mails,
   ghosts, Idle

\* Only a message that is not stored is about to be.
LEMMA FreshCalm == \A p \in Tick : TypeOK /\ Fresh(p) => Calm(p)
BY DEF TypeOK, Polls, Fresh, Fetched, Calm, Live, At, Taken, Become, Goto, NextMail, mails, ghosts,
   Idle

\* A label is no row.
LEMMA ApplyLabelCalm == \A p \in Tick : TypeOK /\ ApplyLabel(p) => Calm(p)
BY DEF TypeOK, Polls, ApplyLabel, Calm, Live, At, Taken, Become, Goto, NextMail, mails,
   ghosts, Idle

\* Nor is a failed one.
LEMMA LabelFailsCalm == \A p \in Tick : TypeOK /\ LabelFails(p) => Calm(p)
BY DEF TypeOK, Polls, LabelFails, Calm, Live, At, Taken, Become, Goto, NextMail, mails,
   ghosts, Idle

\* A case is no row.
LEMMA OpenCaseCalm == \A p \in Tick : TypeOK /\ OpenCase(p) => Calm(p)
BY DEF TypeOK, Polls, OpenCase, Calm, Live, At, Taken, Become, Goto, NextMail, mails,
   ghosts, Idle

\* A label made up for is no row.
LEMMA RelabelCalm == \A p \in Tick : TypeOK /\ Relabel(p) => Calm(p)
BY DEF TypeOK, Polls, Relabel, Calm, Live, At, Taken, Become, Goto, NextMail, mails,
   ghosts, Idle

\* Nor is one that fails again.
LEMMA RelabelFailsCalm == \A p \in Tick : TypeOK /\ RelabelFails(p) => Calm(p)
BY DEF TypeOK, Polls, RelabelFails, Calm, Live, At, Taken, Become, Goto, NextMail, mails,
   ghosts, Idle

\* A listing stores nothing.
LEMMA ListCalm == \A p \in Tick : TypeOK /\ List(p) => Calm(p)
BY DEF TypeOK, Polls, List, Calm, Live, At, Taken, Become, Goto, NextMail, mails, ghosts

\* A refused message is not stored.
LEMMA RefuseCalm == \A p \in Tick : TypeOK /\ Refuse(p) => Calm(p)
BY DEF TypeOK, Polls, Refuse, Calm, Live, At, Taken, Become, Goto, NextMail, mails, ghosts,
   Ending, Patch, Idle

\* The verdict leaves the count of rows alone.
LEMMA ScoreCalm == \A p \in Tick : TypeOK /\ Score(p) => Calm(p)
BY DEF TypeOK, Polls, Score, Calm, Live, At, Taken, Become, Goto, NextMail, mails, ghosts,
   Ending, Patch, Idle

\* The closing patch frees the poll's own lease.
LEMMA CloseCalm == \A p \in Tick : TypeOK /\ Close(p) => Calm(p)
BY DEF TypeOK, Polls, Close, Calm, Live, At, Taken, Become, Goto, NextMail, mails, ghosts,
   Ending, Patch, Idle

\* So does one whose reply is lost.
LEMMA CloseUnansweredCalm == \A p \in Tick : TypeOK /\ CloseUnanswered(p) => Calm(p)
BY DEF TypeOK, Polls, CloseUnanswered, Calm, Live, At, Taken, Become, Goto, NextMail,
   mails, ghosts, Ending, Patch, Idle

\* A failing poll is no longer live.
LEMMA FailCalm == \A p \in Tick : TypeOK /\ Fail(p) => Calm(p)
BY DEF TypeOK, Polls, Fail, Calm, Live, At, Taken, Become, Goto, NextMail, mails, ghosts,
   CutShort, Idle

\* Nor is a dead one.
LEMMA CrashCalm == \A p \in Tick : TypeOK /\ Crash(p) => Calm(p)
BY DEF TypeOK, Polls, Crash, Calm, Live, At, Taken, Become, Goto, NextMail, mails, ghosts,
   CutShort, Idle

\* A replayed message is not stored again.
LEMMA ReplayedCalm == \A p \in Tick : TypeOK /\ Replayed(p) => Calm(p)
<1> SUFFICES ASSUME NEW p \in Tick, TypeOK, Replayed(p) PROVE Calm(p)
    OBVIOUS
<1>1. CASE mode = "active" /\ audit[poll[p].next] = "pending"
    <2>1. Goto(p, "relabelling")
        BY <1>1 DEF Replayed, Fetched
    <2> QED BY <2>1 DEF TypeOK, Polls, Replayed, Fetched, Calm, Live, At, Become, Goto, mails, ghosts
<1>2. CASE ~(mode = "active" /\ audit[poll[p].next] = "pending")
    <2>1. NextMail(p)
        BY <1>2 DEF Replayed, Fetched
    <2> QED BY <2>1 DEF TypeOK, Polls, Replayed, Fetched, Calm, Live, At, Become, NextMail, mails,
       ghosts
<1> QED BY <1>1, <1>2

\* An audit row is no row of the mailbox.
LEMMA AuditCalm == \A p \in Tick : TypeOK /\ Audit(p) => Calm(p)
<1> SUFFICES ASSUME NEW p \in Tick, TypeOK, Audit(p) PROVE Calm(p)
    OBVIOUS
<1>1. CASE verdict[poll[p].next] = "flagged"
    <2>1. Goto(p, "casing")
        BY <1>1 DEF Audit
    <2> QED BY <2>1 DEF TypeOK, Polls, Audit, Calm, Live, At, Become, Goto, mails, ghosts
<1>2. CASE ~(verdict[poll[p].next] = "flagged")
    <2>1. NextMail(p)
        BY <1>2 DEF Audit
    <2> QED BY <2>1 DEF TypeOK, Polls, Audit, Calm, Live, At, Become, NextMail, mails,
       ghosts
<1> QED BY <1>1, <1>2

\* A lease is only acquired when no poll is live.
LEMMA AcquireLeaseExcludes == \A p \in Tick :
    OnceInv /\ AcquireLease(p) => LeaseHeld' /\ StoringFresh' /\ IngestedOnce'
<1> SUFFICES ASSUME NEW p \in Tick, OnceInv, AcquireLease(p)
             PROVE  LeaseHeld' /\ StoringFresh' /\ IngestedOnce'
    OBVIOUS
<1>1. poll \in [Tick -> Polls] /\ poll[p] \in Polls /\ poll[p].at = "read"
    BY DEF OnceInv, SkipInv, TypeOK, AcquireLease, At
<1>2. rows' = rows /\ robbed' = robbed /\ lease' = TRUE
    BY DEF AcquireLease, mails, ghosts
<1>3. /\ \A q \in Tick : q # p => poll'[q] = poll[q]
      /\ poll'[p] = IF lease THEN Idle ELSE [poll[p] EXCEPT !.at = "leased"]
    BY <1>1 DEF AcquireLease, Become, Goto
<1>4. poll'[p].at = IF lease THEN "idle" ELSE "leased"
    BY <1>1, <1>3 DEF Polls, Idle
<1>5. LeaseHeld'
    BY <1>2, <1>3, <1>4 DEF OnceInv, LeaseHeld, Live
<1>6. StoringFresh'
    BY <1>2, <1>3, <1>4 DEF OnceInv, StoringFresh, At, Taken
<1>7. IngestedOnce'
    BY <1>2 DEF OnceInv, IngestedOnce
<1> QED BY <1>5, <1>6, <1>7

\* A catch block that frees the lease of a live poll is a robbery.
LEMMA RecoverExcludes == \A p \in Tick :
    OnceInv /\ Recover(p) => LeaseHeld' /\ StoringFresh' /\ IngestedOnce'
<1> SUFFICES ASSUME NEW p \in Tick, OnceInv, Recover(p)
             PROVE  LeaseHeld' /\ StoringFresh' /\ IngestedOnce'
    OBVIOUS
<1>1. poll \in [Tick -> Polls]
    BY DEF OnceInv, SkipInv, TypeOK
<1>2. rows' = rows /\ (robbed => robbed')
    <2>1. rows' = rows
        BY DEF Recover, mails
    <2>2. robbed => robbed'
        BY ZenonT(30) DEF Recover
    <2> QED BY <2>1, <2>2
<1>3. poll'[p] = Idle /\ \A q \in Tick : q # p => poll'[q] = poll[q]
    BY <1>1 DEF Recover, Become
<1>4. poll'[p].at = "idle"
    BY <1>3 DEF Idle
<1>5. LeaseHeld'
    <2>1. CASE /\ lease' = FALSE
               /\ robbed' = (robbed \/ \E q \in Tick \ {p} : ~(poll[q].at \in {"idle", "read"}))
        <3>1. ~robbed' => \A q \in Tick : ~Live(q)'
            BY <1>3, <1>4, <2>1 DEF Live
        <3> QED BY <3>1 DEF LeaseHeld
    <2>2. CASE lease' = lease /\ robbed' = robbed
        <3>1. \A q \in Tick : Live(q)' => Live(q)
            BY <1>3, <1>4 DEF Live
        <3> QED BY <2>2, <3>1 DEF OnceInv, LeaseHeld
    <2> QED BY <2>1, <2>2 DEF Recover
<1>6. StoringFresh'
    BY <1>2, <1>3, <1>4 DEF OnceInv, StoringFresh, At, Taken
<1>7. IngestedOnce'
    BY <1>2 DEF OnceInv, IngestedOnce
<1> QED BY <1>5, <1>6, <1>7

\* A row is stored by the one poll that is live, for a message not stored yet.
LEMMA StoringExcludes == \A p \in Tick :
    OnceInv /\ (Store(p) \/ ReceiveFails(p)) => LeaseHeld' /\ StoringFresh' /\ IngestedOnce'
<1> SUFFICES ASSUME NEW p \in Tick, OnceInv, Store(p) \/ ReceiveFails(p)
             PROVE  LeaseHeld' /\ StoringFresh' /\ IngestedOnce'
    OBVIOUS
<1>1. TypeOK /\ SkipInv /\ poll \in [Tick -> Polls] /\ poll[p] \in Polls
    BY DEF OnceInv, SkipInv, TypeOK
<1>2. At(p, "storing") /\ Live(p) /\ poll[p].at \in Working
    BY DEF Store, ReceiveFails, At, Live, Working, Handling
<1>3. PICK k \in Mail : k = poll[p].next
    BY <1>1, <1>2, PollFacts, HeldMail
<1>4. robbed' = robbed /\ lease' = lease
    BY DEF Store, ReceiveFails, CutShort, ghosts
<1>5. \A q \in Tick : q # p => poll'[q] = poll[q]
    BY <1>1 DEF Store, ReceiveFails, Goto, Become
<1>6. poll'[p].at \in {"scoring", "failing"}
    BY <1>1 DEF Store, ReceiveFails, Goto, Become, Polls
<1>7. LeaseHeld'
    <2>1. \A q \in Tick : Live(q)' => Live(q)
        BY <1>2, <1>5 DEF Live
    <2> QED BY <1>4, <2>1 DEF OnceInv, LeaseHeld
<1>8. StoringFresh'
    <2>1. ~robbed => \A q \in Tick : q # p => ~At(q, "storing")
        BY <1>2 DEF OnceInv, LeaseHeld, Live, At
    <2> QED BY <1>4, <1>5, <1>6, <2>1 DEF StoringFresh, At
<1>9. IngestedOnce'
    <2> SUFFICES ASSUME ~robbed, NEW x \in Mail, NEW y \in Mail, KeyOf[x] = KeyOf[y]
                 PROVE  rows'[x] + (IF x = y THEN 0 ELSE rows'[y]) <= 1
        BY <1>4 DEF IngestedOnce
    <2>1. rows \in [Mail -> Nat] /\ rows[x] + (IF x = y THEN 0 ELSE rows[y]) <= 1
        BY <1>1 DEF OnceInv, IngestedOnce, TypeOK
    <2>2. rows' = rows \/ rows' = [rows EXCEPT ![k] = @ + 1]
        BY <1>3 DEF Store, ReceiveFails
    <2>3. \A z \in Mail : KeyOf[z] = KeyOf[k] => rows[z] = 0
        BY <1>2, <1>3, <2>1 DEF OnceInv, StoringFresh, Taken
    <2>4. CASE rows' = rows
        BY <2>1, <2>4
    <2>5. CASE rows' = [rows EXCEPT ![k] = @ + 1] /\ KeyOf[x] = KeyOf[k]
        <3>1. rows[x] = 0 /\ rows[y] = 0 /\ rows[k] = 0
            BY <2>3, <2>5
        <3> QED BY <2>1, <2>5, <3>1
    <2>6. CASE rows' = [rows EXCEPT ![k] = @ + 1] /\ KeyOf[x] # KeyOf[k]
        <3>1. rows'[x] = rows[x] /\ rows'[y] = rows[y]
            BY <2>1, <2>6
        <3> QED BY <2>1, <3>1
    <2> QED BY <2>2, <2>4, <2>5, <2>6
<1> QED BY <1>7, <1>8, <1>9

\* A lease runs out only when no poll is live.
LEMMA OutsideExcludes ==
    OnceInv /\ (Arrive \/ DeleteInGmail \/ Forget \/ LeaseExpires \/ UNCHANGED vars)
    => LeaseHeld' /\ StoringFresh' /\ IngestedOnce'
<1> SUFFICES ASSUME OnceInv, Arrive \/ DeleteInGmail \/ Forget \/ LeaseExpires \/ UNCHANGED vars
             PROVE  LeaseHeld' /\ StoringFresh' /\ IngestedOnce'
    OBVIOUS
<1>1. rows' = rows /\ robbed' = robbed /\ poll' = poll
    BY DEF Arrive, DeleteInGmail, Forget, LeaseExpires, vars, mails, ghosts
<1>2. lease' = lease \/ \A p \in Tick : ~Live(p)
    BY DEF Arrive, DeleteInGmail, Forget, LeaseExpires, vars, Live
<1>3. LeaseHeld'
    BY <1>1, <1>2 DEF OnceInv, LeaseHeld, Live
<1>4. StoringFresh' /\ IngestedOnce'
    BY <1>1 DEF OnceInv, StoringFresh, IngestedOnce, At, Taken
<1> QED BY <1>3, <1>4

\* No poll runs at first.
LEMMA OnceInit == Init => OnceInv
<1> SUFFICES ASSUME Init PROVE OnceInv
    OBVIOUS
<1>1. \A p \in Tick : poll[p].at = "idle"
    BY DEF Init, Idle
<1>2. LeaseHeld /\ StoringFresh
    BY <1>1 DEF LeaseHeld, StoringFresh, Live, At
<1>3. IngestedOnce
    BY DEF Init, IngestedOnce
<1> QED BY <1>2, <1>3, SkipInit DEF OnceInv

\* Every step keeps the larger invariant.
LEMMA OnceStep == OnceInv /\ [Next]_vars => OnceInv'
<1> SUFFICES ASSUME OnceInv, [Next]_vars PROVE OnceInv'
    OBVIOUS
<1>1. SkipInv' /\ TypeOK
    BY SkipStep DEF OnceInv, SkipInv
<1>2. ASSUME NEW p \in Tick, Run(p) \/ Crash(p)
      PROVE  LeaseHeld' /\ StoringFresh' /\ IngestedOnce'
    <2>1. CASE AcquireLease(p) \/ Recover(p) \/ Store(p) \/ ReceiveFails(p)
        BY <2>1, AcquireLeaseExcludes, RecoverExcludes, StoringExcludes
    <2>2. CASE ReadState(p) \/ Anchor(p) \/ List(p) \/ ListExpired(p) \/ RecordGap(p)
               \/ Heartbeat(p)
        BY <1>1, <2>2, CalmKeeps, ReadStateCalm, AnchorCalm, ListCalm, ListExpiredCalm,
           RecordGapCalm, HeartbeatCalm
    <2>3. CASE Replayed(p) \/ Fresh(p) \/ Refuse(p) \/ Score(p) \/ ApplyLabel(p)
               \/ LabelFails(p)
        BY <1>1, <2>3, CalmKeeps, ReplayedCalm, FreshCalm, RefuseCalm, ScoreCalm,
           ApplyLabelCalm, LabelFailsCalm
    <2>4. CASE Audit(p) \/ OpenCase(p) \/ Relabel(p) \/ RelabelFails(p) \/ Close(p)
               \/ CloseUnanswered(p)
        BY <1>1, <2>4, CalmKeeps, AuditCalm, OpenCaseCalm, RelabelCalm, RelabelFailsCalm,
           CloseCalm, CloseUnansweredCalm
    <2>5. CASE Fail(p) \/ Crash(p)
        BY <1>1, <2>5, CalmKeeps, FailCalm, CrashCalm
    <2> QED BY <1>2, <2>1, <2>2, <2>3, <2>4, <2>5 DEF Run
<1>3. CASE Arrive \/ DeleteInGmail \/ Forget \/ LeaseExpires \/ UNCHANGED vars
    BY <1>1, <1>3, OutsideExcludes DEF OnceInv
<1> QED BY <1>1, <1>2, <1>3 DEF Next, OnceInv

\* Overlapping, dying and replaying ticks store a message at most once under
\* its key, as long as no poll frees a lease another poll holds.
THEOREM StoredOnce == Spec => []IngestedOnce
<1>1. OnceInv => IngestedOnce
    BY DEF OnceInv
<1> QED BY OnceInit, OnceStep, <1>1, PTL DEF Spec
-----------------------------------------------------------------------------
(* Copies of the cursor: what a poll writes is never behind it. *)

\* Where a poll has fixed what it will write.
Heading == {"gapping", "closing"} \cup Looping

\* No cursor is ahead of the mail, and a poll that holds the lease heads for
\* the cursor or beyond it, however old the copy is that it started from.
AheadInv ==
    /\ OnceInv
    /\ cursor <= arrived
    /\ \A p \in Tick : poll[p].to <= arrived
    /\ ~robbed => \A p \in Tick : poll[p].at \in Heading => poll[p].to = Unset \/ cursor <= poll[p].to

\* What most steps of a poll do to where it heads.
Heads(p) ==
    /\ \A q \in Tick : q # p => poll'[q] = poll[q]
    /\ arrived' = arrived /\ cursor' = cursor /\ (robbed => robbed')
    /\ poll'[p].to \in {poll[p].to, arrived, Unset}
    /\ poll'[p].at \in Heading =>
         \/ poll[p].at \in Heading /\ poll'[p].to = poll[p].to
         \/ poll'[p].to \in {arrived, Unset}

\* The positions compared are integers.
LEMMA Positions == TypeOK =>
    /\ arrived \in Int /\ arrived >= 0 /\ cursor \in Int
    /\ \A p \in Tick : poll[p].to \in Int
<1> SUFFICES ASSUME TypeOK
             PROVE  /\ arrived \in Int /\ arrived >= 0 /\ cursor \in Int
                    /\ \A p \in Tick : poll[p].to \in Int
    OBVIOUS
<1>1. arrived \in Int /\ arrived >= 0 /\ cursor \in Int
    BY Numbers DEF TypeOK, Mail, Unset
<1>2. ASSUME NEW p \in Tick PROVE poll[p].to \in Int
    <2>1. poll[p] \in Polls
        BY DEF TypeOK
    <2> QED BY <2>1, PollParts, Numbers DEF Mail, Unset
<1> QED BY <1>1, <1>2

\* Such a step leaves no poll behind the cursor.
LEMMA HeadsKeeps == \A p \in Tick :
    AheadInv /\ Heads(p)
    => /\ cursor' <= arrived'
       /\ \A q \in Tick : poll'[q].to <= arrived'
       /\ ~robbed' => \A q \in Tick : poll'[q].at \in Heading => poll'[q].to = Unset \/ cursor' <= poll'[q].to
<1> SUFFICES ASSUME NEW p \in Tick, AheadInv, Heads(p)
             PROVE  /\ cursor' <= arrived'
                    /\ \A q \in Tick : poll'[q].to <= arrived'
                    /\ ~robbed' => \A q \in Tick : poll'[q].at \in Heading =>
                         poll'[q].to = Unset \/ cursor' <= poll'[q].to
    OBVIOUS
<1>1. TypeOK
    BY DEF AheadInv, OnceInv, SkipInv
<1>2. arrived \in Int /\ arrived >= 0 /\ cursor \in Int
    BY <1>1, Positions
<1>3. cursor' <= arrived'
    BY DEF AheadInv, Heads
<1>4. ASSUME NEW q \in Tick PROVE poll'[q].to <= arrived'
    <2>1. CASE q = p
        BY <1>2, <2>1 DEF AheadInv, Heads, Unset
    <2>2. CASE q # p
        BY <2>2 DEF AheadInv, Heads
    <2> QED BY <2>1, <2>2
<1>5. ASSUME ~robbed', NEW q \in Tick, poll'[q].at \in Heading
      PROVE  poll'[q].to = Unset \/ cursor' <= poll'[q].to
    <2>1. CASE q = p
        BY <1>2, <1>5, <2>1 DEF AheadInv, Heads
    <2>2. CASE q # p
        BY <1>5, <2>2 DEF AheadInv, Heads
    <2> QED BY <2>1, <2>2
<1> QED BY <1>3, <1>4, <1>5

\* Every step of a poll but the closing patch is one of them.
LEMMA RunHeads == \A p \in Tick :
    /\ TypeOK
    /\ Run(p) \/ Crash(p)
    /\ ~Close(p) /\ ~CloseUnanswered(p)
    => Heads(p)
<1> SUFFICES ASSUME NEW p \in Tick, TypeOK, Run(p) \/ Crash(p), ~Close(p), ~CloseUnanswered(p)
             PROVE  Heads(p)
    OBVIOUS
<1>0. poll \in [Tick -> Polls] /\ poll[p] \in Polls
    BY DEF TypeOK
<1> USE DEF Heading, Looping, Working, Handling, Become, Goto, NextMail, At, gmail, ghosts, Polls
\* A step of the loop that keeps where the poll heads.
<1>h. ASSUME NEW r, poll' = [poll EXCEPT ![p] = r], poll[p].at \in Heading,
             r.to = poll[p].to, UNCHANGED <<arrived, cursor, robbed>>
      PROVE  Heads(p)
    BY <1>0, <1>h DEF Heads
<1>1. CASE ReadState(p)
    BY <1>0, <1>1 DEF ReadState, Heads, Idle
<1>2. CASE AcquireLease(p)
    BY <1>0, <1>2 DEF AcquireLease, Heads, Idle
<1>3. CASE Anchor(p)
    BY <1>0, <1>3 DEF Anchor, Heads
<1>4. CASE List(p)
    BY <1>0, <1>4 DEF List, Heads
<1>5. CASE ListExpired(p)
    BY <1>0, <1>5 DEF ListExpired, Heads
<1>6. CASE RecordGap(p)
    BY <1>0, <1>6 DEF RecordGap, Heads
<1>7. CASE Heartbeat(p)
    BY <1>0, <1>7 DEF Heartbeat, Heads
<1>8. CASE Replayed(p)
    <2> DEFINE r1 == [poll[p] EXCEPT !.at = "relabelling"]
               r2 == [poll[p] EXCEPT !.at = "looping", !.next = @ + 1]
    <2>1. r1.to = poll[p].to /\ r2.to = poll[p].to
        BY <1>0
    <2>2. poll[p].at \in Heading /\ UNCHANGED <<arrived, cursor, robbed>>
        BY <1>8 DEF Replayed, Fetched
    <2>3. poll' = [poll EXCEPT ![p] = r1] \/ poll' = [poll EXCEPT ![p] = r2]
        BY <1>8, Zenon DEF Replayed, Fetched
    <2> HIDE DEF r1, r2
    <2> QED BY <2>1, <2>2, <2>3, <1>h
<1>9. CASE Fresh(p)
    BY <1>0, <1>9 DEF Fresh, Fetched, Heads
<1>10. CASE Refuse(p)
    BY <1>0, <1>10 DEF Refuse, Heads
<1>11. CASE Store(p)
    BY <1>0, <1>11 DEF Store, Heads
<1>12. CASE Score(p)
    BY <1>0, <1>12 DEF Score, Heads
<1>13. CASE ApplyLabel(p)
    BY <1>0, <1>13 DEF ApplyLabel, Heads
<1>14. CASE LabelFails(p)
    BY <1>0, <1>14 DEF LabelFails, Heads
<1>15. CASE Audit(p)
    <2> DEFINE r1 == [poll[p] EXCEPT !.at = "casing"]
               r2 == [poll[p] EXCEPT !.at = "looping", !.next = @ + 1]
    <2>1. r1.to = poll[p].to /\ r2.to = poll[p].to
        BY <1>0
    <2>2. poll[p].at \in Heading /\ UNCHANGED <<arrived, cursor, robbed>>
        BY <1>15 DEF Audit
    <2>3. poll' = [poll EXCEPT ![p] = r1] \/ poll' = [poll EXCEPT ![p] = r2]
        BY <1>15, Zenon DEF Audit
    <2> HIDE DEF r1, r2
    <2> QED BY <2>1, <2>2, <2>3, <1>h
<1>16. CASE OpenCase(p)
    BY <1>0, <1>16 DEF OpenCase, Heads
<1>17. CASE Relabel(p)
    <2> DEFINE r == [poll[p] EXCEPT !.at = "looping", !.next = @ + 1, !.good = TRUE]
    <2>1. r.to = poll[p].to
        BY <1>0
    <2>2. poll[p].at \in Heading /\ UNCHANGED <<arrived, cursor, robbed>>
        BY <1>17 DEF Relabel
    <2>3. poll' = [poll EXCEPT ![p] = r]
        BY <1>17, Zenon DEF Relabel
    <2> HIDE DEF r
    <2> QED BY <2>1, <2>2, <2>3, <1>h
<1>18. CASE RelabelFails(p)
    <2> DEFINE r == [poll[p] EXCEPT !.at = "looping", !.next = @ + 1, !.bad = TRUE]
    <2>1. r.to = poll[p].to
        BY <1>0
    <2>2. poll[p].at \in Heading /\ UNCHANGED <<arrived, cursor, robbed>>
        BY <1>18 DEF RelabelFails
    <2>3. poll' = [poll EXCEPT ![p] = r]
        BY <1>18, Zenon DEF RelabelFails
    <2> HIDE DEF r
    <2> QED BY <2>1, <2>2, <2>3, <1>h
<1>19. CASE Fail(p)
    BY <1>0, <1>19 DEF Fail, CutShort, Heads
<1>20. CASE ReceiveFails(p)
    BY <1>0, <1>20 DEF ReceiveFails, CutShort, Heads
<1>21. CASE Recover(p)
    <2>1. robbed => robbed'
        BY <1>21, Zenon DEF Recover
    <2>2. poll' = [poll EXCEPT ![p] = Idle] /\ arrived' = arrived /\ cursor' = cursor
        BY <1>21 DEF Recover
    <2> QED BY <1>0, <2>1, <2>2 DEF Heads, Idle
<1>22. CASE Crash(p)
    BY <1>0, <1>22 DEF Crash, CutShort, Heads, Idle
<1> HIDE DEF Heading, Looping, Working, Handling, Become, Goto, NextMail, At, gmail, ghosts, Polls
<1> QED BY <1>1, <1>2, <1>3, <1>4, <1>5, <1>6, <1>7, <1>8, <1>9, <1>10, <1>11, <1>12, <1>13, <1>14,
           <1>15, <1>16, <1>17, <1>18, <1>19, <1>20, <1>21, <1>22 DEF Run

\* The closing patch writes a cursor no older than the one it replaces, and no
\* other poll holds the lease meanwhile.
LEMMA PatchAhead == \A p \in Tick :
    AheadInv /\ (Close(p) \/ CloseUnanswered(p))
    => /\ ~robbed => cursor' >= cursor
       /\ cursor' <= arrived'
       /\ \A q \in Tick : poll'[q].to <= arrived'
       /\ ~robbed' => \A q \in Tick : poll'[q].at \in Heading => poll'[q].to = Unset \/ cursor' <= poll'[q].to
<1> SUFFICES ASSUME NEW p \in Tick, AheadInv, Close(p) \/ CloseUnanswered(p)
             PROVE  /\ ~robbed => cursor' >= cursor
                    /\ cursor' <= arrived'
                    /\ \A q \in Tick : poll'[q].to <= arrived'
                    /\ ~robbed' => \A q \in Tick : poll'[q].at \in Heading =>
                         poll'[q].to = Unset \/ cursor' <= poll'[q].to
    OBVIOUS
<1>1. TypeOK /\ poll \in [Tick -> Polls] /\ poll[p] \in Polls
    BY DEF AheadInv, OnceInv, SkipInv, TypeOK
<1>2. arrived \in Int /\ arrived >= 0 /\ cursor \in Int /\ poll[p].to \in Int
    BY <1>1, Positions
<1>3. poll[p].at \in Heading /\ poll[p].at \in {"looping", "closing"}
    BY DEF Close, CloseUnanswered, Ending, At, Heading, Looping
<1>4. cursor' = cursor \/ (cursor' = poll[p].to /\ poll[p].to # Unset)
    BY DEF Close, CloseUnanswered, Patch, Target
<1>5. arrived' = arrived /\ robbed' = robbed
    BY DEF Close, CloseUnanswered, gmail
<1>6. ~robbed => cursor' >= cursor
    BY <1>2, <1>3, <1>4 DEF AheadInv
<1>7. cursor' <= arrived'
    BY <1>4, <1>5 DEF AheadInv
<1>8. \A q \in Tick : q # p => poll'[q] = poll[q]
    BY <1>1 DEF Close, CloseUnanswered, Goto, Become
<1>9. poll'[p].at \notin Heading /\ poll'[p].to \in {poll[p].to, Unset}
    BY <1>1 DEF Close, CloseUnanswered, Goto, Become, Idle, Polls, Heading, Looping, Working, Handling
<1>10. ASSUME NEW q \in Tick PROVE poll'[q].to <= arrived'
    <2>1. CASE q = p
        BY <1>2, <1>5, <1>9, <2>1 DEF AheadInv, Unset
    <2>2. CASE q # p
        BY <1>5, <1>8, <2>2 DEF AheadInv
    <2> QED BY <2>1, <2>2
<1>11. ASSUME ~robbed', NEW q \in Tick PROVE poll'[q].at \notin Heading
    <2>1. CASE q = p
        BY <1>9, <2>1
    <2>2. CASE q # p
        <3>1. Live(p) /\ \A a, b \in Tick : Live(a) /\ Live(b) => a = b
            BY <1>3, <1>5, <1>11 DEF AheadInv, OnceInv, LeaseHeld, Live
        <3>2. ~Live(q)
            BY <2>2, <3>1
        <3> QED BY <1>8, <2>2, <3>2 DEF Live, Heading, Looping, Working, Handling
    <2> QED BY <2>1, <2>2
<1> QED BY <1>6, <1>7, <1>10, <1>11

\* No poll heads anywhere at first.
LEMMA AheadInit == Init => AheadInv
<1> SUFFICES ASSUME Init PROVE AheadInv
    OBVIOUS
<1>1. cursor <= arrived /\ \A p \in Tick : poll[p].to <= arrived
    BY DEF Init, Idle, Unset
<1>2. \A p \in Tick : poll[p].at \notin Heading
    BY DEF Init, Idle, Heading, Looping, Working, Handling
<1> QED BY <1>1, <1>2, OnceInit DEF AheadInv

\* Every step keeps the cursor where it is or moves it on.
LEMMA AheadStep == AheadInv /\ [Next]_vars => AheadInv' /\ [~robbed => cursor' >= cursor]_cursor
<1> SUFFICES ASSUME AheadInv, [Next]_vars
             PROVE  AheadInv' /\ [~robbed => cursor' >= cursor]_cursor
    OBVIOUS
<1>1. OnceInv' /\ TypeOK
    BY OnceStep DEF AheadInv, OnceInv, SkipInv
<1>2. ASSUME NEW p \in Tick, Run(p) \/ Crash(p), ~Close(p), ~CloseUnanswered(p)
      PROVE  AheadInv' /\ cursor' = cursor
    <2>1. Heads(p)
        BY <1>1, <1>2, RunHeads
    <2> QED BY <1>1, <2>1, HeadsKeeps DEF AheadInv, Heads
<1>3. ASSUME NEW p \in Tick, Close(p) \/ CloseUnanswered(p)
      PROVE  AheadInv' /\ (~robbed => cursor' >= cursor)
    BY <1>1, <1>3, PatchAhead DEF AheadInv
<1>4. CASE Arrive \/ DeleteInGmail \/ Forget \/ LeaseExpires \/ UNCHANGED vars
    <2>1. poll' = poll /\ cursor' = cursor /\ robbed' = robbed
        BY <1>4 DEF Arrive, DeleteInGmail, Forget, LeaseExpires, vars, ghosts
    <2>2. arrived' = arrived \/ arrived' = arrived + 1
        BY <1>4 DEF Arrive, DeleteInGmail, Forget, LeaseExpires, vars, gmail
    <2>3. arrived \in Int /\ cursor \in Int /\ \A p \in Tick : poll[p].to \in Int
        BY <1>1, Positions
    <2>4. cursor' <= arrived' /\ \A p \in Tick : poll'[p].to <= arrived'
        BY <2>1, <2>2, <2>3 DEF AheadInv
    <2> QED BY <1>1, <2>1, <2>4 DEF AheadInv
<1> QED BY <1>2, <1>3, <1>4 DEF Next

\* Overlapping polls that started from an old copy of the cursor never move it
\* back, as long as no poll frees a lease another poll holds.
THEOREM CursorMovesOn == Spec => CursorAdvances
<1> QED BY AheadInit, AheadStep, PTL DEF Spec, CursorAdvances
-----------------------------------------------------------------------------
(* The audit row and the case of scored mail. *)

\* A poll that still owes message m its audit row or its case.
Owing(p, m) == poll[p].next = m /\ poll[p].at \in {"labelling", "auditing", "casing"}

\* What Audited asks for a message.
Recorded(m) == audit[m] # "none" /\ (verdict[m] = "flagged" => m \in cases)

\* Scored mail nobody owes anything is recorded; a case follows its audit row.
AuditInv ==
    /\ SkipInv
    /\ \A m \in Mail :
         verdict[m] # "none" /\ m \notin hurt /\ (\A p \in Tick : ~Owing(p, m)) => Recorded(m)
    /\ \A p \in Tick : At(p, "casing") => audit[poll[p].next] # "none"

\* What every step of a poll but the scoring does to what it owes.
Settles(p) ==
    /\ \A q \in Tick : q # p => poll'[q] = poll[q]
    /\ verdict' = verdict
    /\ \A m \in Mail : audit[m] # "none" => audit'[m] # "none"
    /\ cases \subseteq cases' /\ hurt \subseteq hurt'
    /\ \A m \in Mail : Owing(p, m) => Owing(p, m)' \/ m \in hurt' \/ Recorded(m)'
    /\ At(p, "casing")' => audit'[poll'[p].next] # "none"

\* Such a step leaves no scored message behind unrecorded.
LEMMA SettlesKeeps == \A p \in Tick : AuditInv /\ SkipInv' /\ Settles(p) => AuditInv'
<1> SUFFICES ASSUME NEW p \in Tick, AuditInv, SkipInv', Settles(p) PROVE AuditInv'
    OBVIOUS
<1>1. ASSUME NEW m \in Mail, verdict'[m] # "none", m \notin hurt', \A q \in Tick : ~Owing(q, m)'
      PROVE  Recorded(m)'
    <2>1. CASE Owing(p, m)
        BY <1>1, <2>1 DEF Settles
    <2>2. CASE ~Owing(p, m)
        <3>1. \A q \in Tick : ~Owing(q, m)
            BY <1>1, <2>2 DEF Settles, Owing
        <3>2. Recorded(m)
            BY <1>1, <3>1 DEF AuditInv, Settles
        <3> QED BY <3>2 DEF Recorded, Settles
    <2> QED BY <2>1, <2>2
<1>2. ASSUME NEW q \in Tick, At(q, "casing")' PROVE audit'[poll'[q].next] # "none"
    <2>1. CASE q = p
        BY <1>2, <2>1 DEF Settles
    <2>2. CASE q # p
        <3>1. poll[q] \in Polls /\ Shaped(poll[q])
            BY DEF AuditInv, SkipInv, PollsOK, TypeOK
        <3>2. poll'[q] = poll[q] /\ poll[q].at = "casing"
            BY <1>2, <2>2 DEF Settles, At
        <3>3. poll[q].next \in Mail
            BY <3>1, <3>2, HeldMail DEF Working, Handling
        <3> QED BY <3>2, <3>3 DEF AuditInv, Settles, At
    <2> QED BY <2>1, <2>2
<1> QED BY <1>1, <1>2 DEF AuditInv

\* A step of a poll that owes nothing and records nothing.
LEMMA OwesNothing == \A p \in Tick :
    /\ TypeOK
    /\ \A q \in Tick : q # p => poll'[q] = poll[q]
    /\ poll[p].at \notin {"labelling", "auditing", "casing"}
    /\ poll'[p].at # "casing"
    /\ UNCHANGED <<verdict, cases>> /\ hurt \subseteq hurt'
    /\ audit' = audit \/ \E k \in Mail : audit' = [audit EXCEPT ![k] = "final"]
    => Settles(p)
<1> SUFFICES ASSUME NEW p \in Tick, TypeOK,
                    \A q \in Tick : q # p => poll'[q] = poll[q],
                    poll[p].at \notin {"labelling", "auditing", "casing"},
                    poll'[p].at # "casing",
                    UNCHANGED <<verdict, cases>>, hurt \subseteq hurt',
                    audit' = audit \/ \E k \in Mail : audit' = [audit EXCEPT ![k] = "final"]
             PROVE  Settles(p)
    OBVIOUS
<1>1. \A m \in Mail : audit[m] # "none" => audit'[m] # "none"
    BY DEF TypeOK
<1>2. \A m \in Mail : ~Owing(p, m)
    BY DEF Owing
<1> QED BY <1>1, <1>2 DEF Settles, At

\* The steps that owe nothing before they end.
Resting(p) ==
    \/ ReadState(p) \/ AcquireLease(p) \/ Anchor(p) \/ List(p) \/ ListExpired(p)
    \/ RecordGap(p) \/ Heartbeat(p) \/ Replayed(p) \/ Fresh(p) \/ Refuse(p) \/ Store(p)
    \/ Relabel(p) \/ RelabelFails(p) \/ Close(p) \/ CloseUnanswered(p) \/ Recover(p)
    \/ ReceiveFails(p)

\* They settle what the poll owes, which is nothing.
LEMMA RestingSettles == \A p \in Tick : SkipInv /\ Resting(p) => Settles(p)
<1> SUFFICES ASSUME NEW p \in Tick, SkipInv, Resting(p) PROVE Settles(p)
    OBVIOUS
<1>0. TypeOK /\ poll \in [Tick -> Polls] /\ poll[p] \in Polls
    BY DEF SkipInv, TypeOK
<1>1. poll[p].at \in Working => poll[p].next \in Mail
    BY <1>0, HeldMail DEF SkipInv, PollsOK
<1> USE DEF Become, Goto, NextMail, At, ghosts, record, mails, Polls
<1>2. CASE ReadState(p)
    BY <1>0, <1>2, OwesNothing DEF ReadState, Idle
<1>3. CASE AcquireLease(p)
    BY <1>0, <1>3, OwesNothing DEF AcquireLease, Idle
<1>4. CASE Anchor(p)
    BY <1>0, <1>4, OwesNothing DEF Anchor
<1>5. CASE List(p)
    BY <1>0, <1>5, OwesNothing DEF List
<1>6. CASE ListExpired(p)
    BY <1>0, <1>6, OwesNothing DEF ListExpired
<1>7. CASE RecordGap(p)
    BY <1>0, <1>7, OwesNothing DEF RecordGap
<1>8. CASE Heartbeat(p)
    BY <1>0, <1>8, OwesNothing DEF Heartbeat
<1>9. CASE Replayed(p)
    BY <1>0, <1>9, OwesNothing DEF Replayed, Fetched
<1>10. CASE Fresh(p)
    BY <1>0, <1>10, OwesNothing DEF Fresh, Fetched
<1>11. CASE Refuse(p)
    BY <1>0, <1>11, OwesNothing DEF Refuse
<1>12. CASE Store(p)
    BY <1>0, <1>12, OwesNothing DEF Store
<1>13. CASE Relabel(p)
    BY <1>0, <1>1, <1>13, OwesNothing DEF Relabel, Working
<1>14. CASE RelabelFails(p)
    BY <1>0, <1>14, OwesNothing DEF RelabelFails
<1>15. CASE Close(p)
    BY <1>0, <1>15, OwesNothing DEF Close, Idle, Ending, Patch
<1>16. CASE CloseUnanswered(p)
    BY <1>0, <1>16, OwesNothing DEF CloseUnanswered, Idle, Ending, Patch
<1>17. CASE Recover(p)
    BY <1>0, <1>17, OwesNothing DEF Recover, Idle
<1>18. CASE ReceiveFails(p)
    BY <1>0, <1>18, OwesNothing DEF ReceiveFails, CutShort
<1> HIDE DEF Become, Goto, NextMail, At, ghosts, record, mails, Polls
<1> QED BY <1>2, <1>3, <1>4, <1>5, <1>6, <1>7, <1>8, <1>9, <1>10, <1>11, <1>12, <1>13, <1>14, <1>15, <1>16, <1>17, <1>18 DEF Resting

\* A failing or a dying poll leaves the message it holds among the hurt ones.
LEMMA CutSettles == \A p \in Tick : SkipInv /\ (Fail(p) \/ Crash(p)) => Settles(p)
<1> SUFFICES ASSUME NEW p \in Tick, SkipInv, Fail(p) \/ Crash(p) PROVE Settles(p)
    OBVIOUS
<1>1. TypeOK /\ poll \in [Tick -> Polls] /\ poll[p] \in Polls
    BY DEF SkipInv, TypeOK
<1>2. CutShort(p) /\ UNCHANGED <<verdict, audit, cases>>
    BY DEF Fail, Crash, mails, record
<1>3. poll'[p].at \in {"failing", "idle"} /\ \A q \in Tick : q # p => poll'[q] = poll[q]
    BY <1>1 DEF Fail, Crash, Goto, Become, Idle, Polls
<1>4. \A m \in Mail : Owing(p, m) => m \in hurt'
    BY <1>2 DEF CutShort, Owing, Handling
<1>5. hurt \subseteq hurt'
    BY <1>2 DEF CutShort
<1> QED BY <1>2, <1>3, <1>4, <1>5 DEF Settles, At

\* After its label write, landed or not, the poll owes the audit row.
LEMMA LabelSettles == \A p \in Tick :
    SkipInv /\ (ApplyLabel(p) \/ LabelFails(p)) => Settles(p)
<1> SUFFICES ASSUME NEW p \in Tick, SkipInv, ApplyLabel(p) \/ LabelFails(p) PROVE Settles(p)
    OBVIOUS
<1>1. poll \in [Tick -> Polls] /\ poll[p] \in Polls
    BY DEF SkipInv, TypeOK
<1>2. UNCHANGED <<verdict, audit, cases, hurt>>
    BY DEF ApplyLabel, LabelFails, mails, record, ghosts
<1>3. /\ poll'[p].at = "auditing" /\ poll'[p].next = poll[p].next
      /\ \A q \in Tick : q # p => poll'[q] = poll[q]
    BY <1>1 DEF ApplyLabel, LabelFails, Become, Polls
<1>4. \A m \in Mail : Owing(p, m) => Owing(p, m)'
    BY <1>3 DEF Owing
<1> QED BY <1>2, <1>3, <1>4 DEF Settles, At

\* The audit row leaves the case to open, where the mail is flagged.
LEMMA AuditSettles == \A p \in Tick : SkipInv /\ Audit(p) => Settles(p)
<1> SUFFICES ASSUME NEW p \in Tick, SkipInv, Audit(p) PROVE Settles(p)
    OBVIOUS
<1>1. TypeOK /\ poll \in [Tick -> Polls] /\ poll[p] \in Polls
    BY DEF SkipInv, TypeOK
<1>2. poll[p].at = "auditing" /\ poll[p].next \in Mail
    BY <1>1, HeldMail DEF Audit, At, SkipInv, PollsOK, Working, Handling
<1>3. UNCHANGED <<verdict, cases, hurt>> /\ \A q \in Tick : q # p => poll'[q] = poll[q]
    BY <1>1 DEF Audit, Goto, NextMail, Become, mails, ghosts
<1>4. audit'[poll[p].next] # "none" /\ \A m \in Mail : audit[m] # "none" => audit'[m] # "none"
    BY <1>1, <1>2 DEF Audit, TypeOK
<1>5. CASE verdict[poll[p].next] = "flagged"
    <2>1. poll'[p].at = "casing" /\ poll'[p].next = poll[p].next
        BY <1>1, <1>5 DEF Audit, Goto, Become, Polls
    <2>2. \A m \in Mail : Owing(p, m) => Owing(p, m)'
        BY <2>1 DEF Owing
    <2> QED BY <1>3, <1>4, <2>1, <2>2 DEF Settles, At
<1>6. CASE verdict[poll[p].next] # "flagged"
    <2>1. poll'[p].at = "looping"
        BY <1>1, <1>6 DEF Audit, NextMail, Become, Polls
    <2>2. \A m \in Mail : Owing(p, m) => Recorded(m)'
        BY <1>3, <1>4, <1>6 DEF Owing, Recorded
    <2> QED BY <1>3, <1>4, <2>1, <2>2 DEF Settles, At
<1> QED BY <1>5, <1>6

\* The case completes the record of a flagged message.
LEMMA OpenCaseSettles == \A p \in Tick : AuditInv /\ OpenCase(p) => Settles(p)
<1> SUFFICES ASSUME NEW p \in Tick, AuditInv, OpenCase(p) PROVE Settles(p)
    OBVIOUS
<1>1. TypeOK /\ poll \in [Tick -> Polls] /\ poll[p] \in Polls
    BY DEF AuditInv, SkipInv, TypeOK
<1>2. /\ UNCHANGED <<verdict, audit, hurt>> /\ cases' = cases \cup {poll[p].next}
      /\ poll'[p].at = "looping" /\ \A q \in Tick : q # p => poll'[q] = poll[q]
    BY <1>1 DEF OpenCase, NextMail, Become, mails, ghosts, Polls
<1>3. audit[poll[p].next] # "none"
    BY DEF AuditInv, OpenCase
<1>4. \A m \in Mail : Owing(p, m) => Recorded(m)'
    BY <1>2, <1>3 DEF Owing, Recorded
<1> QED BY <1>2, <1>4 DEF Settles, At

\* A poll that scores a message owes it the rest from then on.
LEMMA ScoreKeepsAudit == \A p \in Tick : AuditInv /\ SkipInv' /\ Score(p) => AuditInv'
<1> SUFFICES ASSUME NEW p \in Tick, AuditInv, SkipInv', Score(p) PROVE AuditInv'
    OBVIOUS
<1>1. TypeOK /\ poll \in [Tick -> Polls] /\ poll[p] \in Polls /\ poll[p].at = "scoring"
    BY DEF AuditInv, SkipInv, TypeOK, Score, At
<1>2. UNCHANGED <<audit, cases, hurt>> /\ \A q \in Tick : q # p => poll'[q] = poll[q]
    BY <1>1 DEF Score, Become, record, ghosts
<1>3. PICK v \in {"none", "clean", "flagged"} :
        /\ verdict' = [verdict EXCEPT ![poll[p].next] = v]
        /\ v = "none" => poll'[p].at = "looping"
        /\ v # "none" => poll'[p].next = poll[p].next /\ poll'[p].at \in {"labelling", "auditing"}
    <2>1. PICK v \in {"none", "clean", "flagged"} :
            /\ verdict' = [verdict EXCEPT ![poll[p].next] = v]
            /\ poll' = [poll EXCEPT ![p] = [poll[p] EXCEPT
                   !.n = poll[p].n + 1,
                   !.applied = FALSE,
                   !.next = IF v = "none" THEN poll[p].next + 1 ELSE poll[p].next,
                   !.at = IF v = "none" THEN "looping"
                          ELSE IF mode = "active" THEN "labelling" ELSE "auditing"]]
        BY DEF Score, Become
    <2>2. poll'[p].at = IF v = "none" THEN "looping"
                        ELSE IF mode = "active" THEN "labelling" ELSE "auditing"
        BY <1>1, <2>1 DEF Polls
    <2>3. poll'[p].next = IF v = "none" THEN poll[p].next + 1 ELSE poll[p].next
        BY <1>1, <2>1 DEF Polls
    <2> QED BY <2>1, <2>2, <2>3
<1>4. ASSUME NEW m \in Mail, verdict'[m] # "none", m \notin hurt', \A q \in Tick : ~Owing(q, m)'
      PROVE  Recorded(m)'
    <2>1. m # poll[p].next
        BY <1>1, <1>3, <1>4 DEF Owing, TypeOK
    <2>2. verdict'[m] = verdict[m]
        BY <1>1, <1>3, <2>1 DEF TypeOK
    <2>3. \A q \in Tick : ~Owing(q, m)
        BY <1>1, <1>2, <1>4 DEF Owing
    <2> QED BY <1>2, <1>4, <2>2, <2>3 DEF AuditInv, Recorded
<1>5. ASSUME NEW q \in Tick, At(q, "casing")' PROVE audit'[poll'[q].next] # "none"
    <2>1. q # p
        BY <1>3, <1>5 DEF At
    <2> QED BY <1>2, <1>5, <2>1 DEF AuditInv, At
<1> QED BY <1>4, <1>5 DEF AuditInv

\* Every step keeps scored mail recorded or owed.
LEMMA AuditInvStep == AuditInv /\ [Next]_vars => AuditInv'
<1> SUFFICES ASSUME AuditInv, [Next]_vars PROVE AuditInv'
    OBVIOUS
<1>1. SkipInv /\ SkipInv'
    BY SkipStep DEF AuditInv
<1>2. ASSUME NEW p \in Tick, Run(p) \/ Crash(p) PROVE AuditInv'
    <2>1. CASE Score(p)
        BY <1>1, <2>1, ScoreKeepsAudit
    <2>2. CASE Resting(p)
        BY <1>1, <2>2, RestingSettles, SettlesKeeps
    <2>3. CASE Fail(p) \/ Crash(p)
        BY <1>1, <2>3, CutSettles, SettlesKeeps
    <2>4. CASE ApplyLabel(p) \/ LabelFails(p)
        BY <1>1, <2>4, LabelSettles, SettlesKeeps
    <2>5. CASE Audit(p)
        BY <1>1, <2>5, AuditSettles, SettlesKeeps
    <2>6. CASE OpenCase(p)
        BY <1>1, <2>6, OpenCaseSettles, SettlesKeeps
    <2> QED BY <1>2, <2>1, <2>2, <2>3, <2>4, <2>5, <2>6 DEF Run, Resting
<1>3. CASE Arrive \/ DeleteInGmail \/ Forget \/ LeaseExpires \/ UNCHANGED vars
    <2>1. UNCHANGED <<verdict, audit, cases, hurt, poll>>
        BY <1>3 DEF Arrive, DeleteInGmail, Forget, LeaseExpires, vars, mails, record, ghosts
    <2> QED BY <1>1, <2>1 DEF AuditInv, Recorded, Owing, At
<1> QED BY <1>2, <1>3 DEF Next

\* Nothing is scored at first.
LEMMA AuditInvInit == Init => AuditInv
<1> SUFFICES ASSUME Init PROVE AuditInv
    OBVIOUS
<1>1. \A m \in Mail : verdict[m] = "none"
    BY DEF Init
<1>2. \A p \in Tick : poll[p].at = "idle"
    BY DEF Init, Idle
<1> QED BY <1>1, <1>2, SkipInit DEF AuditInv, At

\* Busy polls apart, scored mail is recorded.
LEMMA AuditInvEnough == AuditInv => Audited
BY DEF AuditInv, Audited, Recorded, Owing, Busy, Handling

\* A scored message has its audit row, and its case when flagged, once no poll
\* holds it and unless its handling was cut short, for every number of
\* overlapping ticks and whatever its label write did.
THEOREM AuditedAlways == Spec => []Audited
<1> QED BY AuditInvInit, AuditInvStep, AuditInvEnough, PTL DEF Spec

-----------------------------------------------------------------------------
(* Pending labels. *)

\* A missing label that health shows, or that a poll under way will raise.
Signalled(m) ==
    \/ labelError \/ m \in unseen \/ InGap(m) \/ m <= start
    \/ \E p \in Tick : Live(p) /\ poll[p].bad

\* A poll remembers a failed label write of every message it passed whose
\* label is missing, and of the one it is at.
Passed(p) ==
    poll[p].at \in Looping =>
      \A m \in Mail : poll[p].from < m /\ m < poll[p].next /\ audit[m] = "pending" => poll[p].bad
Noticed(p) ==
    /\ poll[p].from <= cursor
    /\ Passed(p)
    /\ At(p, "scoring") => audit[poll[p].next] = "none"
    /\ At(p, "auditing") /\ mode = "active" /\ ~poll[p].applied => poll[p].bad
    /\ At(p, "casing") /\ audit[poll[p].next] = "pending" => poll[p].bad

AllSignalled == \A m \in Mail : audit[m] = "pending" /\ m <= cursor => Signalled(m)

PendInv ==
    /\ AheadInv
    /\ \A m \in Mail : audit[m] # "none" => Taken(m)
    /\ mode = "observe" => \A m \in Mail : audit[m] # "pending"
    /\ ~robbed => (\A p \in Tick : Noticed(p)) /\ AllSignalled

\* What is common to all steps of a poll.
Alone(p) ==
    /\ \A q \in Tick : q # p => poll'[q] = poll[q]
    /\ mode' = mode /\ (robbed => robbed')
    /\ \A m \in Mail : rows[m] > 0 => rows'[m] > 0

\* A step that writes no audit row, no cursor and no signal.
Mute(p) ==
    /\ Alone(p)
    /\ UNCHANGED <<cursor, labelError, audit, unseen, start>> /\ gaps \subseteq gaps'
    /\ poll[p].bad /\ Live(p) => poll'[p].bad /\ Live(p)'

\* What the invariant says without the signals.
LEMMA PendParts == PendInv =>
    /\ TypeOK /\ SkipInv /\ OnceInv /\ AheadInv
    /\ poll \in [Tick -> Polls] /\ cursor \in Int /\ start \in Int /\ Mail \subseteq Int
<1> SUFFICES ASSUME PendInv
             PROVE  /\ TypeOK /\ SkipInv /\ OnceInv /\ AheadInv
                    /\ poll \in [Tick -> Polls] /\ cursor \in Int /\ start \in Int
                    /\ Mail \subseteq Int
    OBVIOUS
<1>1. TypeOK /\ SkipInv /\ OnceInv /\ AheadInv
    BY DEF PendInv, AheadInv, OnceInv, SkipInv
<1>2. poll \in [Tick -> Polls] /\ start \in Int /\ Mail \subseteq Int
    BY <1>1, Numbers DEF TypeOK, Mail
<1>3. cursor \in Int
    BY <1>1, Positions
<1> QED BY <1>1, <1>2, <1>3

\* The numbers of a poll are integers.
LEMMA PollNumbers == \A p \in Tick : PendInv =>
    /\ poll[p] \in Polls /\ poll[p].from \in Int /\ poll[p].next \in Int /\ poll[p].to \in Int
    /\ poll[p].upto \in Int /\ Unset <= cursor
<1> SUFFICES ASSUME NEW p \in Tick, PendInv
             PROVE  /\ poll[p] \in Polls
                    /\ poll[p].from \in Int /\ poll[p].next \in Int /\ poll[p].to \in Int
                    /\ poll[p].upto \in Int /\ Unset <= cursor
    OBVIOUS
<1>1. poll[p] \in Polls
    BY PendParts
<1>2. Unset <= cursor
    BY PendParts, Numbers DEF TypeOK, Unset, Mail
<1> QED BY <1>1, <1>2, PollParts, Numbers DEF Mail

\* Such a step hides no missing label.
LEMMA MuteKeeps == \A p \in Tick :
    PendInv /\ AheadInv' /\ Mute(p) /\ (~robbed => Noticed(p)') => PendInv'
<1> SUFFICES ASSUME NEW p \in Tick, PendInv, AheadInv', Mute(p), ~robbed => Noticed(p)'
             PROVE  PendInv'
    OBVIOUS
<1>1. \A m \in Mail : audit'[m] # "none" => Taken(m)'
    BY DEF PendInv, Mute, Alone, Taken
<1>2. mode' = "observe" => \A m \in Mail : audit'[m] # "pending"
    BY DEF PendInv, Mute, Alone
<1>3. ASSUME ~robbed', NEW q \in Tick PROVE Noticed(q)'
    <2>1. CASE q = p
        BY <1>3, <2>1 DEF Mute, Alone
    <2>2. CASE q # p
        <3>1. Noticed(q) /\ poll'[q] = poll[q] /\ audit' = audit /\ cursor' = cursor /\ mode' = mode
            BY <1>3, <2>2 DEF PendInv, Mute, Alone
        <3> QED BY <3>1 DEF Noticed, Passed, At
    <2> QED BY <2>1, <2>2
<1>4. ASSUME ~robbed', NEW m \in Mail, audit'[m] = "pending", m <= cursor' PROVE Signalled(m)'
    <2>1. Signalled(m)
        BY <1>4 DEF PendInv, Mute, Alone, AllSignalled
    <2>2. InGap(m) => InGap(m)'
        BY DEF Mute, InGap
    <2>3. ASSUME NEW q \in Tick, Live(q), poll[q].bad PROVE Live(q)' /\ poll'[q].bad
        BY <2>3 DEF Mute, Alone, Live
    <2> QED BY <2>1, <2>2, <2>3 DEF Signalled, Mute
<1> QED BY <1>1, <1>2, <1>3, <1>4 DEF PendInv, AllSignalled

\* A poll that stays at its message has still noticed what it passed.
LEMMA NoticedStays == \A p \in Tick :
    /\ Noticed(p) /\ UNCHANGED <<audit, cursor, mode>>
    /\ poll'[p].from = poll[p].from /\ poll'[p].next = poll[p].next
    /\ poll[p].bad => poll'[p].bad
    /\ poll[p].at \in Looping
    /\ poll'[p].at = "scoring" => audit[poll[p].next] = "none"
    /\ poll'[p].at = "auditing" /\ mode = "active" /\ ~poll'[p].applied => poll'[p].bad
    /\ poll'[p].at # "casing"
    => Noticed(p)'
BY DEF Noticed, Passed, At

\* So has one that goes on to the next message, if it noticed the one it leaves.
LEMMA NoticedAdvances == \A p \in Tick :
    /\ PendInv /\ Noticed(p) /\ UNCHANGED <<cursor, mode>>
    /\ poll'[p].from = poll[p].from /\ poll'[p].next = poll[p].next + 1
    /\ poll[p].bad => poll'[p].bad
    /\ poll[p].at \in Looping /\ poll'[p].at = "looping"
    /\ \A m \in Mail : m # poll[p].next => audit'[m] = audit[m]
    /\ audit'[poll[p].next] = "pending" => poll'[p].bad
    => Noticed(p)'
<1> SUFFICES ASSUME NEW p \in Tick, PendInv, Noticed(p), UNCHANGED <<cursor, mode>>,
                    poll'[p].from = poll[p].from, poll'[p].next = poll[p].next + 1,
                    poll[p].bad => poll'[p].bad,
                    poll[p].at \in Looping, poll'[p].at = "looping",
                    \A m \in Mail : m # poll[p].next => audit'[m] = audit[m],
                    audit'[poll[p].next] = "pending" => poll'[p].bad
             PROVE  Noticed(p)'
    OBVIOUS
<1>1. poll[p].from \in Int /\ poll[p].next \in Int /\ Mail \subseteq Int
    BY PollNumbers, PendParts
<1>2. ASSUME NEW m \in Mail, poll'[p].from < m, m < poll'[p].next, audit'[m] = "pending"
      PROVE  poll'[p].bad
    <2>1. CASE m = poll[p].next
        BY <1>2, <2>1
    <2>2. CASE m # poll[p].next
        <3>1. m < poll[p].next /\ poll[p].from < m /\ audit[m] = "pending"
            BY <1>1, <1>2, <2>2
        <3> QED BY <3>1 DEF Noticed, Passed
    <2> QED BY <2>1, <2>2
<1> QED BY <1>2 DEF Noticed, Passed, At

\* A poll outside its listing has passed nothing.
LEMMA NoticedOutside == \A p \in Tick :
    poll'[p].at \notin Looping /\ poll'[p].from <= cursor' => Noticed(p)'
BY DEF Noticed, Passed, At, Looping, Working, Handling

\* The steps that write no audit row, no cursor and no signal.
Muted(p) ==
    \/ ReadState(p) \/ AcquireLease(p) \/ Anchor(p) \/ List(p) \/ ListExpired(p)
    \/ RecordGap(p) \/ Heartbeat(p) \/ Replayed(p) \/ Fresh(p) \/ Refuse(p) \/ Store(p)
    \/ Score(p) \/ ApplyLabel(p) \/ LabelFails(p) \/ OpenCase(p) \/ RelabelFails(p)
    \/ Recover(p)

\* They are mute.
LEMMA MutedMute == \A p \in Tick : TypeOK /\ Muted(p) => Mute(p)
<1> SUFFICES ASSUME NEW p \in Tick, TypeOK, Muted(p) PROVE Mute(p)
    OBVIOUS
<1>0. poll \in [Tick -> Polls] /\ poll[p] \in Polls
    BY DEF TypeOK
<1> USE DEF Become, Goto, NextMail, At, gmail, ghosts, record, mails, Polls
<1>2. CASE ReadState(p)
    BY <1>0, <1>2 DEF ReadState, Mute, Alone, Live, Idle
<1>3. CASE AcquireLease(p)
    BY <1>0, <1>3 DEF AcquireLease, Mute, Alone, Live, Idle
<1>4. CASE Anchor(p)
    BY <1>0, <1>4 DEF Anchor, Mute, Alone, Live
<1>5. CASE List(p)
    BY <1>0, <1>5 DEF List, Mute, Alone, Live
<1>6. CASE ListExpired(p)
    BY <1>0, <1>6 DEF ListExpired, Mute, Alone, Live
<1>7. CASE RecordGap(p)
    BY <1>0, <1>7 DEF RecordGap, Mute, Alone, Live
<1>8. CASE Heartbeat(p)
    BY <1>0, <1>8 DEF Heartbeat, Mute, Alone, Live
<1>9. CASE Replayed(p)
    <2>1. Goto(p, "relabelling") \/ NextMail(p)
        BY <1>9 DEF Replayed, Fetched
    <2>2. CASE Goto(p, "relabelling")
        BY <1>0, <1>9, <2>2 DEF Replayed, Fetched, Mute, Alone, Live
    <2>3. CASE NextMail(p)
        BY <1>0, <1>9, <2>3 DEF Replayed, Fetched, Mute, Alone, Live
    <2> QED BY <2>1, <2>2, <2>3
<1>10. CASE Fresh(p)
    BY <1>0, <1>10 DEF Fresh, Fetched, Mute, Alone, Live
<1>11. CASE Refuse(p)
    BY <1>0, <1>11 DEF Refuse, Mute, Alone, Live
<1>12. CASE Store(p)
    <2>1. \A m \in Mail : rows[m] > 0 => rows'[m] > 0
        <3>1. rows' = [rows EXCEPT ![poll[p].next] = rows[poll[p].next] + 1] /\ rows \in [Mail -> Nat]
            BY <1>0, <1>12 DEF Store, TypeOK
        <3> QED BY <3>1
    <2> QED BY <1>0, <1>12, <2>1 DEF Store, Mute, Alone, Live
<1>13. CASE Score(p)
    BY <1>0, <1>13 DEF Score, Mute, Alone, Live
<1>14. CASE ApplyLabel(p)
    BY <1>0, <1>14 DEF ApplyLabel, Mute, Alone, Live
<1>15. CASE LabelFails(p)
    BY <1>0, <1>15 DEF LabelFails, Mute, Alone, Live
<1>16. CASE OpenCase(p)
    BY <1>0, <1>16 DEF OpenCase, Mute, Alone, Live
<1>17. CASE RelabelFails(p)
    BY <1>0, <1>17 DEF RelabelFails, Mute, Alone, Live
<1>18. CASE Recover(p)
    <2>1. robbed => robbed'
        BY <1>18, Zenon DEF Recover
    <2>2. poll' = [poll EXCEPT ![p] = Idle] /\ poll[p].at = "failing"
        BY <1>18 DEF Recover
    <2>3. UNCHANGED <<cursor, labelError, audit, unseen, start, gaps, rows, mode>>
        BY <1>18 DEF Recover
    <2> QED BY <1>0, <2>1, <2>2, <2>3 DEF Mute, Alone, Live
<1> HIDE DEF Become, Goto, NextMail, At, gmail, ghosts, record, mails, Polls
<1> QED BY <1>2, <1>3, <1>4, <1>5, <1>6, <1>7, <1>8, <1>9, <1>10, <1>11, <1>12, <1>13, <1>14, <1>15, <1>16, <1>17, <1>18 DEF Muted

\* Every one of them leaves its poll with all it passed noticed.
LEMMA StartNotices == \A p \in Tick :
    /\ PendInv /\ ~robbed
    /\ \/ ReadState(p) \/ AcquireLease(p) \/ Anchor(p) \/ List(p) \/ ListExpired(p)
       \/ RecordGap(p) \/ Recover(p)
    => Noticed(p)'
<1> SUFFICES ASSUME NEW p \in Tick, PendInv, ~robbed,
                    \/ ReadState(p) \/ AcquireLease(p) \/ Anchor(p) \/ List(p) \/ ListExpired(p)
                    \/ RecordGap(p) \/ Recover(p)
             PROVE  Noticed(p)'
    OBVIOUS
<1>0. poll \in [Tick -> Polls] /\ poll[p] \in Polls /\ poll[p].from <= cursor
    BY PendParts DEF PendInv, Noticed
<1>1. poll[p].from \in Int /\ Unset <= cursor /\ cursor \in Int
    BY PollNumbers, PendParts
<1>2. CASE List(p)
    <2>1. poll'[p].at = "looping" /\ poll'[p].from = poll[p].from /\ poll'[p].next = poll[p].from + 1
        BY <1>0, <1>2 DEF List, Become, Polls
    <2>2. cursor' = cursor
        BY <1>2 DEF List
    <2>3. \A m \in Mail : ~(poll'[p].from < m /\ m < poll'[p].next)
        BY <1>1, <2>1, PendParts
    <2> QED BY <1>0, <2>1, <2>2, <2>3 DEF Noticed, Passed, At
<1>3. CASE ~List(p)
    <2> DEFINE Out == /\ poll'[p].at \in {"read", "idle", "leased", "closing", "gapping"}
                      /\ poll'[p].from \in {cursor, Unset, poll[p].from} /\ cursor' = cursor
    <2>1. Out
        <3>1. CASE ReadState(p)
            BY <1>0, <3>1 DEF ReadState, Become, Goto, Polls, Idle
        <3>2. CASE AcquireLease(p)
            BY <1>0, <3>2 DEF AcquireLease, Become, Goto, Polls, Idle
        <3>3. CASE Anchor(p)
            BY <1>0, <3>3 DEF Anchor, Become, Goto, Polls
        <3>4. CASE ListExpired(p)
            BY <1>0, <3>4 DEF ListExpired, Become, Goto, Polls
        <3>5. CASE RecordGap(p)
            BY <1>0, <3>5 DEF RecordGap, Become, Goto, Polls
        <3>6. CASE Recover(p)
            BY <1>0, <3>6 DEF Recover, Become, Goto, Polls, Idle
        <3> QED BY <1>3, <3>1, <3>2, <3>3, <3>4, <3>5, <3>6
    <2>2. poll'[p].at \notin Looping
        BY <2>1 DEF Looping, Working, Handling
    <2>3. poll'[p].from <= cursor'
        BY <1>0, <1>1, <2>1
    <2> QED BY <2>2, <2>3, NoticedOutside
<1> QED BY <1>2, <1>3

\* What the invariant says of the message a poll is at.
LEMMA AtMessage == \A p \in Tick :
    PendInv /\ ~robbed /\ poll[p].at \in Working
    => /\ poll[p].next \in Mail /\ Noticed(p)
       /\ mode # "active" => audit[poll[p].next] # "pending"
       /\ ~Taken(poll[p].next) => audit[poll[p].next] = "none"
       /\ At(p, "storing") => audit[poll[p].next] = "none"
<1> SUFFICES ASSUME NEW p \in Tick, PendInv, ~robbed, poll[p].at \in Working
             PROVE  /\ poll[p].next \in Mail /\ Noticed(p)
                    /\ mode # "active" => audit[poll[p].next] # "pending"
                    /\ ~Taken(poll[p].next) => audit[poll[p].next] = "none"
                    /\ At(p, "storing") => audit[poll[p].next] = "none"
    OBVIOUS
<1>1. poll[p] \in Polls /\ Shaped(poll[p]) /\ TypeOK
    BY PendParts, PollFacts
<1>2. poll[p].next \in Mail
    BY <1>1, HeldMail
<1>3. mode # "active" => mode = "observe"
    BY <1>1, PollAssumption DEF TypeOK
<1>4. ~Taken(poll[p].next) => audit[poll[p].next] = "none"
    BY <1>2 DEF PendInv
<1>5. At(p, "storing") => ~Taken(poll[p].next)
    BY PendParts DEF OnceInv, StoringFresh
<1> QED BY <1>2, <1>3, <1>4, <1>5 DEF PendInv

\* The steps of a poll that stays at its message.
LEMMA StayNotices == \A p \in Tick :
    /\ PendInv /\ ~robbed
    /\ \/ Fresh(p) \/ Store(p) \/ ApplyLabel(p) \/ LabelFails(p)
       \/ Heartbeat(p)
    => Noticed(p)'
<1> SUFFICES ASSUME NEW p \in Tick, PendInv, ~robbed,
                    \/ Fresh(p) \/ Store(p) \/ ApplyLabel(p) \/ LabelFails(p)
                    \/ Heartbeat(p)
             PROVE  Noticed(p)'
    OBVIOUS
<1>0. poll \in [Tick -> Polls] /\ poll[p] \in Polls /\ Noticed(p)
    BY PendParts DEF PendInv
<1> DEFINE Stay == /\ UNCHANGED <<audit, cursor, mode>>
                   /\ poll'[p].from = poll[p].from /\ poll'[p].next = poll[p].next
                   /\ poll[p].bad => poll'[p].bad
                   /\ poll[p].at \in Looping /\ poll'[p].at # "casing"
                   /\ poll'[p].at = "scoring" => poll[p].at = "storing"
                   /\ poll'[p].at = "auditing" => poll'[p].applied \/ poll'[p].bad
<1>1. Stay
    <2>1. CASE Fresh(p)
        BY <1>0, <2>1 DEF Fresh, Fetched, Become, Goto, Polls, At, Looping, Working, Handling, record, gmail
    <2>2. CASE Store(p)
        BY <1>0, <2>2 DEF Store, Become, Goto, Polls, At, Looping, Working, Handling, record, gmail
    <2>3. CASE ApplyLabel(p)
        BY <1>0, <2>3 DEF ApplyLabel, Become, Goto, Polls, At, Looping, Working, Handling, record, gmail
    <2>4. CASE LabelFails(p)
        BY <1>0, <2>4 DEF LabelFails, Become, Goto, Polls, At, Looping, Working, Handling, record, gmail
    <2>5. CASE Heartbeat(p)
        BY <1>0, <2>5 DEF Heartbeat, Become, Goto, Polls, At, Looping, Working, Handling, record, gmail
    <2> QED BY <2>1, <2>2, <2>3, <2>4, <2>5
<1>2. poll'[p].at = "scoring" => audit[poll[p].next] = "none"
    BY <1>1, AtMessage DEF At, Working, Handling
<1> QED BY <1>0, <1>1, <1>2, NoticedStays

\* A message found stored whose label is missing is looked at again; the others
\* are left behind with their label in place.
LEMMA ReplayedNotices == \A p \in Tick : PendInv /\ ~robbed /\ Replayed(p) => Noticed(p)'
<1> SUFFICES ASSUME NEW p \in Tick, PendInv, ~robbed, Replayed(p) PROVE Noticed(p)'
    OBVIOUS
<1>0. poll \in [Tick -> Polls] /\ poll[p] \in Polls /\ poll[p].at = "probing"
    BY PendParts DEF Replayed, Fetched, At
<1>1. UNCHANGED <<audit, cursor, mode>>
    BY DEF Replayed, Fetched, record, gmail
<1>2. poll[p].at \in Working /\ poll[p].at \in Looping
    BY <1>0 DEF Looping, Working
<1>3. CASE mode = "active" /\ audit[poll[p].next] = "pending"
    <2>1. /\ poll'[p].from = poll[p].from /\ poll'[p].next = poll[p].next
          /\ poll[p].bad => poll'[p].bad
          /\ poll'[p].at = "relabelling"
        BY <1>0, <1>3 DEF Replayed, Fetched, Goto, Become, Polls
    <2>2. Noticed(p)
        BY <1>2, AtMessage
    <2> QED BY <1>1, <1>2, <2>1, <2>2, NoticedStays
<1>4. CASE ~(mode = "active" /\ audit[poll[p].next] = "pending")
    <2>1. /\ poll'[p].from = poll[p].from /\ poll'[p].next = poll[p].next + 1
          /\ poll[p].bad => poll'[p].bad
          /\ poll'[p].at = "looping"
        <3>1. NextMail(p)
            BY <1>4 DEF Replayed, Fetched
        <3> QED BY <1>0, <3>1 DEF NextMail, Become, Polls
    <2>2. audit[poll[p].next] # "pending" /\ Noticed(p)
        BY <1>2, <1>4, AtMessage
    <2> QED BY <1>1, <1>2, <2>1, <2>2, NoticedAdvances
<1> QED BY <1>3, <1>4

\* A message that is scored has no audit row yet.
LEMMA ScoreNotices == \A p \in Tick : PendInv /\ ~robbed /\ Score(p) => Noticed(p)'
<1> SUFFICES ASSUME NEW p \in Tick, PendInv, ~robbed, Score(p) PROVE Noticed(p)'
    OBVIOUS
<1>0. poll \in [Tick -> Polls] /\ poll[p] \in Polls /\ poll[p].at = "scoring"
    BY PendParts DEF Score, At
<1>1. UNCHANGED <<audit, cursor, mode>>
    BY DEF Score, record, gmail
<1>2. poll[p].at \in Working /\ poll[p].at \in Looping
    BY <1>0 DEF Looping, Working, Handling
<1>3. Noticed(p) /\ audit[poll[p].next] = "none"
    BY <1>0, <1>2, AtMessage DEF Noticed, At
<1>4. PICK v \in {"none", "clean", "flagged"} :
            poll' = [poll EXCEPT ![p] = [poll[p] EXCEPT
                   !.n = poll[p].n + 1,
                   !.applied = FALSE,
                   !.next = IF v = "none" THEN poll[p].next + 1 ELSE poll[p].next,
                   !.at = IF v = "none" THEN "looping"
                          ELSE IF mode = "active" THEN "labelling" ELSE "auditing"]]
    BY DEF Score, Become
<1>5. poll'[p].from = poll[p].from /\ poll'[p].bad = poll[p].bad
    BY <1>0, <1>4 DEF Polls
<1>6. CASE v = "none"
    <2>1. poll'[p].next = poll[p].next + 1 /\ poll'[p].at = "looping"
        BY <1>0, <1>4, <1>6 DEF Polls
    <2> QED BY <1>1, <1>2, <1>3, <1>5, <2>1, NoticedAdvances
<1>7. CASE v # "none"
    <2>1. poll'[p].next = poll[p].next
        BY <1>0, <1>4, <1>7 DEF Polls
    <2>2. poll'[p].at = IF mode = "active" THEN "labelling" ELSE "auditing"
        BY <1>0, <1>4, <1>7 DEF Polls
    <2> QED BY <1>1, <1>2, <1>3, <1>5, <2>1, <2>2, NoticedStays
<1> QED BY <1>6, <1>7

\* A poll that leaves a message without writing its audit row.
LEMMA LeaveNotices == \A p \in Tick :
    PendInv /\ ~robbed /\ (Refuse(p) \/ OpenCase(p) \/ RelabelFails(p)) => Noticed(p)'
<1> SUFFICES ASSUME NEW p \in Tick, PendInv, ~robbed,
                    Refuse(p) \/ OpenCase(p) \/ RelabelFails(p)
             PROVE  Noticed(p)'
    OBVIOUS
<1>0. poll \in [Tick -> Polls] /\ poll[p] \in Polls
    BY PendParts
<1>1. UNCHANGED <<audit, cursor, mode>>
    BY DEF Refuse, OpenCase, RelabelFails, record, gmail
<1>2. poll[p].at \in Working /\ poll[p].at \in Looping
    BY DEF Refuse, OpenCase, RelabelFails, At, Looping, Working, Handling
<1>3. /\ poll'[p].from = poll[p].from /\ poll'[p].next = poll[p].next + 1
      /\ poll[p].bad => poll'[p].bad
      /\ poll'[p].at = "looping"
    BY <1>0 DEF Refuse, OpenCase, RelabelFails, NextMail, Become, Polls
<1>4. Noticed(p)
    BY DEF PendInv
<1>5. audit[poll[p].next] = "pending" => poll'[p].bad
    <2>1. CASE Refuse(p)
        BY <1>2, <2>1, AtMessage DEF Refuse
    <2>2. CASE OpenCase(p)
        BY <1>3, <1>4, <2>2 DEF OpenCase, Noticed
    <2>3. CASE RelabelFails(p)
        BY <1>0, <2>3 DEF RelabelFails, Become, Polls
    <2> QED BY <2>1, <2>2, <2>3
<1> QED BY <1>1, <1>2, <1>3, <1>4, <1>5, NoticedAdvances

\* Together: the mute steps keep the invariant.
LEMMA MutedKeeps == \A p \in Tick : PendInv /\ AheadInv' /\ Muted(p) => PendInv'
<1> SUFFICES ASSUME NEW p \in Tick, PendInv, AheadInv', Muted(p) PROVE PendInv'
    OBVIOUS
<1>1. Mute(p)
    BY PendParts, MutedMute
<1>2. ~robbed => Noticed(p)'
    BY StartNotices, StayNotices, ReplayedNotices, ScoreNotices, LeaveNotices DEF Muted
<1> QED BY <1>1, <1>2, MuteKeeps

\* A step of a live poll that writes the audit row of the message it is at.
Marks(p) ==
    /\ Alone(p) /\ Live(p) /\ Live(p)'
    /\ UNCHANGED <<cursor, labelError, unseen, start, robbed, gaps>>
    /\ poll[p].bad => poll'[p].bad
    /\ \A m \in Mail : m # poll[p].next => audit'[m] = audit[m]
    /\ Taken(poll[p].next)
    /\ audit'[poll[p].next] = "pending" => mode # "observe" /\ poll'[p].bad

\* No other poll goes through a listing while a live one steps.
LEMMA OthersNoticed == \A p, q \in Tick :
    /\ PendInv /\ ~robbed /\ Live(p) /\ q # p /\ poll'[q] = poll[q]
    /\ cursor' \in Int /\ cursor' >= cursor
    => Noticed(q)' /\ ~Live(q)
<1> SUFFICES ASSUME NEW p \in Tick, NEW q \in Tick, PendInv, ~robbed, Live(p), q # p,
                    poll'[q] = poll[q], cursor' \in Int, cursor' >= cursor
             PROVE  Noticed(q)' /\ ~Live(q)
    OBVIOUS
<1>1. ~Live(q)
    BY PendParts DEF OnceInv, LeaseHeld
<1>2. poll'[q].at \notin Looping
    BY <1>1 DEF Live, Looping, Working, Handling
<1>3. poll[q].from <= cursor /\ poll[q].from \in Int /\ cursor \in Int
    BY PollNumbers, PendParts DEF PendInv, Noticed
<1>4. poll'[q].from <= cursor'
    BY <1>3
<1> QED BY <1>1, <1>2, <1>4, NoticedOutside

\* Such a step leaves a missing label to a poll that remembers it.
LEMMA MarksKeeps == \A p \in Tick :
    PendInv /\ AheadInv' /\ Marks(p) /\ (~robbed => Noticed(p)') => PendInv'
<1> SUFFICES ASSUME NEW p \in Tick, PendInv, AheadInv', Marks(p), ~robbed => Noticed(p)'
             PROVE  PendInv'
    OBVIOUS
<1>1. \A m \in Mail : audit'[m] # "none" => Taken(m)'
    <2>1. \A m : Taken(m) => Taken(m)'
        BY DEF Marks, Alone, Taken
    <2> QED BY <2>1 DEF PendInv, Marks
<1>2. mode' = "observe" => \A m \in Mail : audit'[m] # "pending"
    BY DEF PendInv, Marks, Alone
<1>3. ASSUME ~robbed', NEW q \in Tick PROVE Noticed(q)'
    <2>1. CASE q = p
        BY <1>3, <2>1 DEF Marks
    <2>2. CASE q # p
        BY <1>3, <2>2, OthersNoticed, PendParts DEF Marks, Alone
    <2> QED BY <2>1, <2>2
<1>4. ASSUME ~robbed', NEW m \in Mail, audit'[m] = "pending", m <= cursor' PROVE Signalled(m)'
    <2>1. CASE m = poll[p].next
        BY <1>4, <2>1 DEF Marks, Signalled
    <2>2. CASE m # poll[p].next
        <3>1. Signalled(m)
            BY <1>4, <2>2 DEF PendInv, Marks, AllSignalled
        <3>2. InGap(m) => InGap(m)'
            BY DEF Marks, InGap
        <3>3. ASSUME NEW q \in Tick, Live(q), poll[q].bad PROVE Live(q)' /\ poll'[q].bad
            BY <3>3 DEF Marks, Alone, Live
        <3> QED BY <3>1, <3>2, <3>3 DEF Signalled, Marks
    <2> QED BY <2>1, <2>2
<1> QED BY <1>1, <1>2, <1>3, <1>4 DEF PendInv, AllSignalled

\* An active mailbox's audit row is pending only when its poll noticed the
\* failed label.
LEMMA AuditKeepsPending == \A p \in Tick : PendInv /\ AheadInv' /\ Audit(p) => PendInv'
<1> SUFFICES ASSUME NEW p \in Tick, PendInv, AheadInv', Audit(p) PROVE PendInv'
    OBVIOUS
<1>0. poll \in [Tick -> Polls] /\ poll[p] \in Polls /\ poll[p].at = "auditing"
    BY PendParts DEF Audit, At
<1>1. Shaped(poll[p]) /\ Backed(poll[p]) /\ TypeOK
    BY PendParts, PollFacts
<1>2. poll[p].at \in Working /\ poll[p].at \in Looping /\ poll[p].next \in Mail
    BY <1>0, <1>1, HeldMail DEF Looping, Working, Handling
<1>3. /\ UNCHANGED <<mode, rows, cursor, labelError, unseen, start, robbed, gaps>>
      /\ \A m \in Mail : m # poll[p].next => audit'[m] = audit[m]
      /\ audit'[poll[p].next] = IF poll[p].applied \/ mode = "observe" THEN "final" ELSE "pending"
    BY <1>1, <1>2 DEF Audit, TypeOK, gmail, mails, ghosts
<1>4. /\ \A q \in Tick : q # p => poll'[q] = poll[q]
      /\ poll'[p].from = poll[p].from
      /\ poll[p].bad => poll'[p].bad
      /\ \/ poll'[p].at = "casing" /\ poll'[p].next = poll[p].next
         \/ poll'[p].at = "looping" /\ poll'[p].next = poll[p].next + 1
    <2>1. Goto(p, "casing") \/ NextMail(p)
        BY DEF Audit
    <2>2. CASE Goto(p, "casing")
        BY <1>0, <2>2 DEF Goto, Become, Polls
    <2>3. CASE NextMail(p)
        BY <1>0, <2>3 DEF NextMail, Become, Polls
    <2> QED BY <2>1, <2>2, <2>3
<1>5. Taken(poll[p].next)
    BY <1>0, <1>1 DEF Backed, Stored
<1>6. Live(p) /\ Live(p)'
    BY <1>0, <1>4 DEF Live
<1>7. ~robbed => (audit'[poll[p].next] = "pending" => poll[p].bad)
    <2> SUFFICES ASSUME ~robbed, audit'[poll[p].next] = "pending" PROVE poll[p].bad
        OBVIOUS
    <2>1. ~poll[p].applied /\ mode # "observe"
        BY <1>3
    <2>2. mode = "active"
        BY <1>1, <2>1, PollAssumption DEF TypeOK
    <2> QED BY <1>0, <2>1, <2>2 DEF PendInv, Noticed, At
<1>8. CASE robbed
    <2>1. \A m \in Mail : audit'[m] # "none" => Taken(m)'
        BY <1>3, <1>5 DEF PendInv, Taken
    <2>2. mode' = "observe" => \A m \in Mail : audit'[m] # "pending"
        BY <1>3 DEF PendInv
    <2> QED BY <1>3, <1>8, <2>1, <2>2 DEF PendInv
<1>9. CASE ~robbed
    <2>1. Marks(p)
        BY <1>3, <1>4, <1>5, <1>6, <1>7, <1>9 DEF Marks, Alone
    <2>2. Noticed(p)
        BY <1>9 DEF PendInv
    <2>3. CASE poll'[p].at = "casing" /\ poll'[p].next = poll[p].next
        <3>1. poll'[p].from <= cursor'
            BY <1>3, <1>4, <2>2 DEF Noticed
        <3>2. ASSUME NEW m \in Mail, poll'[p].from < m, m < poll'[p].next, audit'[m] = "pending"
              PROVE  poll'[p].bad
            <4>1. m # poll[p].next
                BY <2>3, <3>2, PendParts, PollNumbers
            <4> QED BY <1>2, <1>3, <1>4, <2>2, <2>3, <3>2, <4>1 DEF Noticed, Passed
        <3>3. audit'[poll'[p].next] = "pending" => poll'[p].bad
            BY <1>4, <1>7, <1>9, <2>3
        <3>4. Noticed(p)'
            BY <2>3, <3>1, <3>2, <3>3 DEF Noticed, Passed, At
        <3> QED BY <2>1, <3>4, MarksKeeps
    <2>4. CASE poll'[p].at = "looping" /\ poll'[p].next = poll[p].next + 1
        <3>1. Noticed(p)'
            BY <1>2, <1>3, <1>4, <1>7, <1>9, <2>2, <2>4, NoticedAdvances
        <3> QED BY <2>1, <3>1, MarksKeeps
    <2> QED BY <1>4, <2>3, <2>4
<1> QED BY <1>8, <1>9

\* A label that landed at last leaves nothing to signal.
LEMMA RelabelKeepsPending == \A p \in Tick : PendInv /\ AheadInv' /\ Relabel(p) => PendInv'
<1> SUFFICES ASSUME NEW p \in Tick, PendInv, AheadInv', Relabel(p) PROVE PendInv'
    OBVIOUS
<1>0. poll \in [Tick -> Polls] /\ poll[p] \in Polls /\ poll[p].at = "relabelling"
    BY PendParts DEF Relabel, At
<1>1. Shaped(poll[p]) /\ Backed(poll[p]) /\ TypeOK
    BY PendParts, PollFacts
<1>2. poll[p].at \in Working /\ poll[p].at \in Looping /\ poll[p].next \in Mail
    BY <1>0, <1>1, HeldMail DEF Looping, Working, Handling
<1>3. /\ UNCHANGED <<mode, rows, cursor, labelError, unseen, start, robbed, gaps>>
      /\ \A m \in Mail : m # poll[p].next => audit'[m] = audit[m]
      /\ audit'[poll[p].next] = "final"
    BY <1>1, <1>2 DEF Relabel, TypeOK, gmail, mails, ghosts
<1>4. /\ \A q \in Tick : q # p => poll'[q] = poll[q]
      /\ poll'[p].from = poll[p].from
      /\ poll[p].bad => poll'[p].bad
      /\ poll'[p].at = "looping" /\ poll'[p].next = poll[p].next + 1
    BY <1>0 DEF Relabel, Become, Polls
<1>5. Taken(poll[p].next)
    BY <1>0, <1>1 DEF Backed, Stored
<1>6. Marks(p)
    BY <1>0, <1>3, <1>4, <1>5 DEF Marks, Alone, Live
<1>7. ~robbed => Noticed(p)'
    BY <1>2, <1>3, <1>4, NoticedAdvances DEF PendInv
<1> QED BY <1>6, <1>7, MarksKeeps

\* A poll cut short gives up what it remembers, and says so.
LEMMA CutKeepsPending == \A p \in Tick :
    PendInv /\ AheadInv' /\ (Fail(p) \/ ReceiveFails(p) \/ Crash(p)) => PendInv'
<1> SUFFICES ASSUME NEW p \in Tick, PendInv, AheadInv', Fail(p) \/ ReceiveFails(p) \/ Crash(p)
             PROVE  PendInv'
    OBVIOUS
<1>0. poll \in [Tick -> Polls] /\ poll[p] \in Polls /\ TypeOK
    BY PendParts
<1>1. /\ CutShort(p) /\ UNCHANGED <<mode, cursor, labelError, audit, gaps, robbed, start>>
      /\ \A m \in Mail : rows[m] > 0 => rows'[m] > 0
    <2>1. CutShort(p) /\ UNCHANGED <<mode, cursor, labelError, audit, gaps>>
        BY DEF Fail, ReceiveFails, Crash, gmail, mails, record
    <2>2. \A m \in Mail : rows[m] > 0 => rows'[m] > 0
        <3>1. rows' = rows \/ rows' = [rows EXCEPT ![poll[p].next] = rows[poll[p].next] + 1]
            BY DEF Fail, ReceiveFails, Crash, mails
        <3>2. rows \in [Mail -> Nat]
            BY <1>0 DEF TypeOK
        <3> QED BY <3>1, <3>2
    <2> QED BY <2>1, <2>2 DEF CutShort
<1>2. /\ \A q \in Tick : q # p => poll'[q] = poll[q]
      /\ poll'[p].at \in {"failing", "idle"} /\ poll'[p].from \in {poll[p].from, Unset}
    BY <1>0 DEF Fail, ReceiveFails, Crash, Goto, Become, Idle, Polls
<1>3. /\ unseen \subseteq unseen'
      /\ poll[p].bad => \A m \in 1..cursor : audit[m] = "pending" => m \in unseen'
    BY <1>1 DEF CutShort
<1>4. \A m \in Mail : audit'[m] # "none" => Taken(m)'
    BY <1>1 DEF PendInv, Taken
<1>5. mode' = "observe" => \A m \in Mail : audit'[m] # "pending"
    BY <1>1 DEF PendInv
<1>6. ASSUME ~robbed', NEW q \in Tick PROVE Noticed(q)'
    <2>1. CASE q = p
        <3>1. poll'[p].at \notin Looping
            BY <1>2 DEF Looping, Working, Handling
        <3>2. poll'[p].from <= cursor'
            BY <1>1, <1>2, <1>6, PollNumbers DEF PendInv, Noticed
        <3> QED BY <2>1, <3>1, <3>2, NoticedOutside
    <2>2. CASE q # p
        <3>1. Noticed(q) /\ poll'[q] = poll[q] /\ audit' = audit /\ cursor' = cursor /\ mode' = mode
            BY <1>1, <1>2, <1>6, <2>2 DEF PendInv
        <3> QED BY <3>1 DEF Noticed, Passed, At
    <2> QED BY <2>1, <2>2
<1>7. ASSUME ~robbed', NEW m \in Mail, audit'[m] = "pending", m <= cursor' PROVE Signalled(m)'
    <2>1. Signalled(m)
        BY <1>1, <1>7 DEF PendInv, AllSignalled
    <2>2. m \in 1..cursor
        BY <1>1, <1>7, PendParts DEF Mail
    <2>3. CASE poll[p].bad
        BY <1>1, <1>3, <1>7, <2>2, <2>3 DEF Signalled
    <2>4. CASE ~poll[p].bad
        <3>1. ASSUME NEW q \in Tick, Live(q), poll[q].bad PROVE Live(q)' /\ poll'[q].bad
            BY <1>2, <2>4, <3>1 DEF Live
        <3>2. InGap(m) => InGap(m)'
            BY <1>1 DEF InGap
        <3> QED BY <1>1, <1>3, <2>1, <3>1, <3>2 DEF Signalled
    <2> QED BY <2>3, <2>4
<1> QED BY <1>4, <1>5, <1>6, <1>7 DEF PendInv, AllSignalled

\* The closing patch shows what its poll remembers, and moves the cursor past no
\* missing label the poll did not notice.
LEMMA CloseKeepsPending == \A p \in Tick :
    PendInv /\ AheadInv' /\ (Close(p) \/ CloseUnanswered(p)) => PendInv'
<1> SUFFICES ASSUME NEW p \in Tick, PendInv, AheadInv', Close(p) \/ CloseUnanswered(p)
             PROVE  PendInv'
    OBVIOUS
<1>0. poll \in [Tick -> Polls] /\ poll[p] \in Polls /\ TypeOK /\ AheadInv
    BY PendParts
<1>1. Shaped(poll[p]) /\ Backed(poll[p])
    BY PendParts, PollFacts
<1>2. Patch(p) /\ Ending(p) /\ UNCHANGED <<mode, rows, audit, gaps, robbed>>
    BY DEF Close, CloseUnanswered, gmail, mails, record
<1>3. /\ \A q \in Tick : q # p => poll'[q] = poll[q]
      /\ poll'[p].at \in {"failing", "idle"} /\ poll'[p].from \in {poll[p].from, Unset}
    BY <1>0 DEF Close, CloseUnanswered, Goto, Become, Idle, Polls
<1>4. /\ labelError' = (poll[p].bad \/ (labelError /\ ~poll[p].good))
      /\ unseen' = IF poll[p].good /\ ~poll[p].bad
                   THEN unseen \cup {m \in Mail : audit[m] = "pending"} ELSE unseen
      /\ start' = IF poll[p].from = Unset /\ poll[p].to > start THEN poll[p].to ELSE start
      /\ cursor' = IF Target(p) = Unset THEN cursor ELSE Target(p)
    BY <1>2 DEF Patch, SignalAfter
<1>5. /\ poll[p].from \in Int /\ poll[p].to \in Int /\ poll[p].next \in Int
      /\ poll[p].upto \in Int /\ cursor \in Int /\ start \in Int /\ Mail \subseteq Int
      /\ Unset <= cursor
    BY PendParts, PollNumbers
<1>6. cursor' \in Int /\ Live(p)
    BY <1>2, <1>4, <1>5, Numbers DEF Target, Ending, At, Live
<1>7. ~robbed => cursor' >= cursor
    BY <1>0, PatchAhead
<1>8. \A m \in Mail : audit'[m] # "none" => Taken(m)'
    BY <1>2 DEF PendInv, Taken
<1>9. mode' = "observe" => \A m \in Mail : audit'[m] # "pending"
    BY <1>2 DEF PendInv
<1>10. ASSUME ~robbed', NEW q \in Tick PROVE Noticed(q)'
    <2>1. ~robbed
        BY <1>2, <1>10
    <2>2. CASE q = p
        <3>1. poll'[p].at \notin Looping
            BY <1>3 DEF Looping, Working, Handling
        <3>2. poll[p].from <= cursor
            BY <2>1 DEF PendInv, Noticed
        <3>3. poll'[p].from <= cursor'
            BY <1>3, <1>5, <1>6, <1>7, <2>1, <3>2, Numbers
        <3> QED BY <2>2, <3>1, <3>3, NoticedOutside
    <2>3. CASE q # p
        BY <1>3, <1>6, <1>7, <2>1, <2>3, OthersNoticed
    <2> QED BY <2>2, <2>3
<1>11. ASSUME ~robbed', NEW m \in Mail, audit'[m] = "pending", m <= cursor' PROVE Signalled(m)'
    <2>1. ~robbed /\ audit[m] = "pending" /\ m \in Int
        BY <1>2, <1>5, <1>11
    <2>2. CASE poll[p].bad
        BY <1>4, <2>2 DEF Signalled
    <2>3. CASE poll[p].good /\ ~poll[p].bad
        BY <1>4, <2>1, <2>3 DEF Signalled
    <2>4. CASE ~poll[p].good /\ ~poll[p].bad
        <3>1. labelError => labelError'
            BY <1>4, <2>4
        <3>2. unseen' = unseen
            BY <1>4, <2>4
        <3>3. start' >= start /\ start' \in Int
            BY <1>4, <1>5
        <3>4. InGap(m) => InGap(m)'
            BY <1>2 DEF InGap
        <3>5. CASE m <= cursor
            <4>1. Signalled(m)
                BY <2>1, <3>5 DEF PendInv, AllSignalled
            <4>2. \A q \in Tick : ~(Live(q) /\ poll[q].bad)
                BY <1>6, <2>1, <2>4, PendParts DEF OnceInv, LeaseHeld
            <4>3. m <= start => m <= start'
                BY <1>5, <2>1, <3>3
            <4> QED BY <3>1, <3>2, <3>4, <4>1, <4>2, <4>3 DEF Signalled
        <3>6. CASE ~(m <= cursor)
            <4>1. Target(p) # Unset /\ cursor' = Target(p)
                BY <1>4, <1>11, <3>6
            <4>2. cursor' = poll[p].to /\ ~(At(p, "looping") /\ More(p))
                BY <4>1 DEF Target
            <4>3. poll[p].from < m /\ m <= poll[p].to /\ poll[p].to # Unset
                <5>1. poll[p].from <= cursor
                    BY <2>1 DEF PendInv, Noticed
                <5> QED BY <1>5, <1>11, <2>1, <3>6, <4>1, <4>2, <5>1
            <4>4. CASE At(p, "looping")
                <5>1. poll[p].at \in Looping /\ poll[p].upto < poll[p].next
                    BY <1>5, <4>2, <4>4 DEF At, More, Looping
                <5>2. poll[p].to = poll[p].upto
                    BY <1>1, <4>3, <5>1 DEF Shaped
                <5>3. m < poll[p].next
                    BY <1>5, <2>1, <4>3, <5>1, <5>2
                <5>4. poll[p].bad
                    BY <2>1, <4>3, <5>1, <5>3 DEF PendInv, Noticed, Passed
                <5> QED BY <2>4, <5>4
            <4>5. CASE At(p, "closing")
                <5>1. CASE poll[p].from = Unset
                    <6>1. m <= start'
                        BY <1>4, <1>5, <2>1, <4>3, <5>1
                    <6> QED BY <6>1 DEF Signalled
                <5>2. CASE <<poll[p].from, poll[p].to>> \in gaps
                    <6>1. InGap(m)
                        BY <4>3, <5>2 DEF InGap
                    <6> QED BY <3>4, <6>1 DEF Signalled
                <5> QED BY <1>1, <4>5, <5>1, <5>2 DEF Backed, At
            <4> QED BY <1>2, <4>4, <4>5 DEF Ending
        <3> QED BY <3>5, <3>6
    <2> QED BY <2>2, <2>3, <2>4
<1> QED BY <1>8, <1>9, <1>10, <1>11 DEF PendInv, AllSignalled

\* Every step keeps missing labels signalled.
LEMMA PendStep == PendInv /\ [Next]_vars => PendInv'
<1> SUFFICES ASSUME PendInv, [Next]_vars PROVE PendInv'
    OBVIOUS
<1>1. AheadInv'
    BY AheadStep DEF PendInv
<1>2. ASSUME NEW p \in Tick, Run(p) \/ Crash(p) PROVE PendInv'
    <2>1. CASE Muted(p)
        BY <1>1, <2>1, MutedKeeps
    <2>2. CASE Audit(p)
        BY <1>1, <2>2, AuditKeepsPending
    <2>3. CASE Relabel(p)
        BY <1>1, <2>3, RelabelKeepsPending
    <2>4. CASE Fail(p) \/ ReceiveFails(p) \/ Crash(p)
        BY <1>1, <2>4, CutKeepsPending
    <2>5. CASE Close(p) \/ CloseUnanswered(p)
        BY <1>1, <2>5, CloseKeepsPending
    <2> QED BY <1>2, <2>1, <2>2, <2>3, <2>4, <2>5 DEF Run, Muted
<1>3. CASE Arrive \/ DeleteInGmail \/ Forget \/ LeaseExpires \/ UNCHANGED vars
    <2>1. /\ UNCHANGED <<rows, mode, audit, cursor, labelError, unseen, start, robbed, gaps, poll>>
        BY <1>3 DEF Arrive, DeleteInGmail, Forget, LeaseExpires, vars, gmail, mails, record, ghosts
    <2>2. (\A m \in Mail : audit[m] # "none" => Taken(m))' /\ (mode' = "observe" => \A m \in Mail : audit'[m] # "pending")
        BY <2>1 DEF PendInv, Taken
    <2>3. ~robbed' => (\A p \in Tick : Noticed(p)')
        BY <2>1 DEF PendInv, Noticed, Passed, At
    <2>4. ~robbed' => AllSignalled'
        BY <2>1 DEF PendInv, AllSignalled, Signalled, InGap, Live
    <2> QED BY <1>1, <2>2, <2>3, <2>4 DEF PendInv
<1> QED BY <1>2, <1>3 DEF Next

\* No label is missing at first.
LEMMA PendInit == Init => PendInv
<1> SUFFICES ASSUME Init PROVE PendInv
    OBVIOUS
<1>1. \A m \in Mail : audit[m] = "none"
    BY DEF Init
<1>2. \A p \in Tick : poll[p].at = "idle" /\ poll[p].from = Unset /\ cursor = Unset
    BY DEF Init, Idle
<1>3. \A p \in Tick : Noticed(p)
    BY <1>2, Numbers DEF Noticed, Passed, At, Looping, Working, Handling
<1> QED BY <1>1, <1>3, AheadInit DEF PendInv, AllSignalled

\* What a missing label is signalled by is what health shows, or a poll that
\* will raise it.
LEMMA PendEnough == PendInv => PendingShown
BY DEF PendInv, PendingShown, AllSignalled, Signalled

\* A label that never landed behind the cursor is shown until some label write
\* succeeds, for any number of overlapping ticks and any order of failures, as
\* long as no poll frees a lease another poll holds.
THEOREM PendingAlwaysShown == Spec => []PendingShown
<1> QED BY PendInit, PendStep, PendEnough, PTL DEF Spec

\* The state row, the tables and the activations of all ticks keep their types.
THEOREM TypeCorrect == Spec => []TypeOK
<1> QED BY CursorSkipsNothing, PTL

-----------------------------------------------------------------------------
(* Machine reports that arrive as mail: ReportBook. *)

CONSTANTS None, Inboxes, HostOf, AsnOf, Provider, Invalid, MaxBytes, MaxRecords, MaxCount, RufLimit,
          Window, DayLength, MaxTime, MaxMisses
VARIABLES mail, pc, now, reports, sources, tasks, ruf, ghost, faults
Book == INSTANCE ReportBook WITH MaxFaults <- MaxMisses

isLine(x) == x = [name |-> x.name, text |-> x.text]
\* What the constants are: a mailbox is sent finitely many messages, the
\* addresses of a report are known to the lookups, a message's headers are lines.
ReportConstants ==
  /\ \A box \in Inboxes : IsFiniteSet(DOMAIN box) /\ \A m \in DOMAIN box :
       /\ Book!dmarcOf(box[m]) # None => Book!ipsOf(Book!dmarcOf(box[m])) \subseteq Book!Addresses
       /\ DOMAIN box[m].files \subseteq Nat
       /\ \A i \in DOMAIN box[m].files :
            box[m].files[i].mime = "rfc822" /\ box[m].files[i].body # None =>
              \A k \in DOMAIN box[m].files[i].body.doc : isLine(box[m].files[i].body.doc[k])
  /\ RufLimit \in Nat /\ Window \in Nat /\ MaxTime \in Nat /\ MaxMisses \in Nat

\* An enrichment: what it has named is in the table, and what it is to place was
\* there when it read the table and is placed by none, or by one it overlaps.
TaskFits(t) ==
  /\ t = [todo |-> t.todo, all |-> t.all, had |-> t.had, geo |-> t.geo]
  /\ t.all \subseteq Book!Addresses /\ t.todo \subseteq t.all /\ t.geo \subseteq t.all
  /\ \A ip \in t.all \ t.todo : ip \in DOMAIN sources
  /\ \A ip \in t.geo :
       ip \in t.had /\ ip \in DOMAIN sources /\ (ip \in ghost.placed => ip \in ghost.lapped)
Overlap == \A m, o \in Book!Messages : m # o /\ tasks[m] # None /\ tasks[o] # None =>
             \A ip \in tasks[m].geo : ip \in tasks[o].geo => ip \in ghost.lapped
SourceInv ==
  /\ ghost = [named |-> ghost.named, placed |-> ghost.placed, lapped |-> ghost.lapped,
              marked |-> ghost.marked, together |-> ghost.together]
  /\ DOMAIN sources \subseteq Book!Addresses
  /\ \A ip \in DOMAIN sources :
       sources[ip] = [label |-> sources[ip].label, legitimate |-> sources[ip].legitimate,
                      asn |-> sources[ip].asn]
  /\ Book!SourcesKept
  /\ DOMAIN tasks = Book!Messages
  /\ \A m \in Book!Messages : tasks[m] # None => TaskFits(tasks[m])
  /\ Overlap

Where == {"new", "tls", "ruf", "counted", "diverted", "passed"}
StoreInv ==
  /\ mail \in Inboxes /\ DOMAIN pc = Book!Messages /\ (\A m \in Book!Messages : pc[m] \in Where)
  /\ now \in 0 .. MaxTime /\ faults \in 0 .. MaxMisses
  /\ \A r \in reports : r.how \in {"dmarc", "tls"} /\ r.id \in Book!Messages /\ r.at \in 0 .. now
  /\ \A r \in ruf : r.id \in Book!Messages /\ r.at \in 0 .. now
  /\ Book!DivertedIsStored

\* A failure report about to be stored, or stored.
Accepts(m) == mail[m].ruf.enabled /\ Book!parseDmarcRuf(mail[m].files, mail[m].ruf.retain) # None
RufInv ==
  /\ IsFiniteSet(ruf) /\ ghost.together \in Nat
  /\ \A m \in Book!waiting : Accepts(m)
  /\ \A r \in ruf : Accepts(r.id) /\ r.row = Book!parseDmarcRuf(mail[r.id].files, mail[r.id].ruf.retain)
  /\ Cardinality(Book!recentRuf) + Cardinality(Book!waiting)
       <= RufLimit + Book!Max({0, ghost.together - 1})

(* ------------------------------------------------------------ the sources *)

LEMMA PutRow == ASSUME NEW ip, NEW row, Book!put(ip, row) PROVE
  /\ DOMAIN sources' = DOMAIN sources \cup {ip} /\ sources'[ip] = row /\ Book!rowOf(ip)' = row
  /\ \A j : j # ip => Book!rowOf(j)' = Book!rowOf(j)
  /\ \A j \in DOMAIN sources : j # ip => sources'[j] = sources[j]
BY DEF Book!put, Book!rowOf

LEMMA RowOfFits == ASSUME SourceInv, NEW ip
  PROVE  Book!rowOf(ip) = [label |-> Book!rowOf(ip).label, legitimate |-> Book!rowOf(ip).legitimate,
                      asn |-> Book!rowOf(ip).asn]
<1>1. CASE ip \in DOMAIN sources
  BY <1>1 DEF SourceInv, Book!rowOf
<1>2. CASE ip \notin DOMAIN sources
  <2>1. Book!rowOf(ip) = [label |-> None, legitimate |-> FALSE, asn |-> None]
    BY <1>2 DEF Book!rowOf, Book!blankSource
  <2>. QED BY <2>1
<1>. QED BY <1>1, <1>2

\* A row put in the place of another, and what the ghosts say of it.
LEMMA PutKeeps ==
  ASSUME SourceInv, NEW ip \in Book!Addresses, NEW row, Book!put(ip, row),
         row = [label |-> row.label, legitimate |-> row.legitimate, asn |-> row.asn],
         row.label # None <=> ip \in ghost'.named, row.legitimate <=> ip \in ghost'.marked,
         row.asn \in {None, AsnOf[ip]}, ip \in ghost'.placed \ ghost'.lapped => row.asn # None,
         \A j : j # ip => /\ j \in ghost'.named <=> j \in ghost.named
                          /\ j \in ghost'.marked <=> j \in ghost.marked
                          /\ j \in ghost'.placed <=> j \in ghost.placed,
         ghost.lapped \subseteq ghost'.lapped
  PROVE  /\ Book!SourcesKept' /\ DOMAIN sources' \subseteq Book!Addresses
         /\ \A j \in DOMAIN sources' :
              sources'[j] = [label |-> sources'[j].label, legitimate |-> sources'[j].legitimate,
                             asn |-> sources'[j].asn]
<1>1. /\ DOMAIN sources' = DOMAIN sources \cup {ip} /\ sources'[ip] = row /\ Book!rowOf(ip)' = row
      /\ \A j : j # ip => Book!rowOf(j)' = Book!rowOf(j)
      /\ \A j \in DOMAIN sources : j # ip => sources'[j] = sources[j]
  BY PutRow
<1>2. Book!SourcesKept'
  <2>. SUFFICES ASSUME NEW j \in Book!Addresses
       PROVE  /\ Book!rowOf(j)'.label # None <=> j \in ghost'.named
              /\ Book!rowOf(j)'.legitimate <=> j \in ghost'.marked
              /\ Book!rowOf(j)'.asn \in {None, AsnOf[j]}
              /\ j \in ghost'.placed \ ghost'.lapped => Book!rowOf(j)'.asn # None
    BY DEF Book!SourcesKept
  <2>1. CASE j = ip
    BY <1>1, <2>1
  <2>2. CASE j # ip
    <3>1. /\ Book!rowOf(j).label # None <=> j \in ghost.named
          /\ Book!rowOf(j).legitimate <=> j \in ghost.marked
          /\ Book!rowOf(j).asn \in {None, AsnOf[j]}
          /\ j \in ghost.placed \ ghost.lapped => Book!rowOf(j).asn # None
      BY DEF SourceInv, Book!SourcesKept
    <3>. QED BY <1>1, <2>2, <3>1
  <2>. QED BY <2>1, <2>2
<1>3. \A j \in DOMAIN sources' :
        sources'[j] = [label |-> sources'[j].label, legitimate |-> sources'[j].legitimate,
          asn |-> sources'[j].asn]
  <2>. SUFFICES ASSUME NEW j \in DOMAIN sources'
       PROVE  sources'[j] = [label |-> sources'[j].label, legitimate |-> sources'[j].legitimate,
                asn |-> sources'[j].asn]
    OBVIOUS
  <2>1. CASE j = ip
    BY <1>1, <2>1
  <2>2. CASE j # ip
    BY <1>1, <2>2 DEF SourceInv
  <2>. QED BY <2>1, <2>2
<1>. QED BY <1>1, <1>2, <1>3 DEF SourceInv

LEMMA SameSources == ASSUME SourceInv, UNCHANGED <<mail, sources, tasks>>, NEW n,
  ghost' = [ghost EXCEPT !.together = n]
  PROVE SourceInv' /\ ghost'.together = n
<1>1. ghost = [named |-> ghost.named, placed |-> ghost.placed, lapped |-> ghost.lapped,
               marked |-> ghost.marked, together |-> ghost.together]
  BY DEF SourceInv
<1>2. ghost' = [named |-> ghost.named, placed |-> ghost.placed, lapped |-> ghost.lapped,
                marked |-> ghost.marked, together |-> n]
  BY <1>1
<1>3. ghost'.named = ghost.named /\ ghost'.placed = ghost.placed /\ ghost'.lapped = ghost.lapped
      /\ ghost'.marked = ghost.marked /\ ghost'.together = n
  BY <1>2
<1>4. ghost' = [named |-> ghost'.named, placed |-> ghost'.placed, lapped |-> ghost'.lapped,
                marked |-> ghost'.marked, together |-> ghost'.together]
  BY <1>2, <1>3
<1>. QED BY <1>3, <1>4 DEF SourceInv, Book!SourcesKept, Book!rowOf, Overlap, TaskFits, Book!Messages

\* A report's enrichment starts, or ends, or nothing happens to them.
LEMMA TasksKeep ==
  ASSUME SourceInv, UNCHANGED <<mail, sources, ghost>>, NEW m \in Book!Messages, NEW t,
         tasks' = [tasks EXCEPT ![m] = t], t # None => TaskFits(t) /\ t.geo = {}
  PROVE  SourceInv'
<1>1. DOMAIN tasks' = Book!Messages /\ tasks'[m] = t
      /\ \A o \in Book!Messages : o # m => tasks'[o] = tasks[o]
  BY DEF SourceInv
<1>2. \A o \in Book!Messages : tasks'[o] # None => TaskFits(tasks'[o])
  BY <1>1 DEF SourceInv
<1>3. \A o \in Book!Messages : tasks'[o] # None => TaskFits(tasks[o])'
  BY <1>2 DEF TaskFits
<1>4. Overlap'
  <2>. SUFFICES ASSUME NEW o \in Book!Messages, NEW q \in Book!Messages, o # q, tasks'[o] # None,
         tasks'[q] # None,
                       NEW ip \in tasks'[o].geo, ip \in tasks'[q].geo
       PROVE  ip \in ghost.lapped
    BY DEF Overlap, Book!Messages
  <2>1. o # m /\ q # m
    BY <1>1
  <2>. QED BY <1>1, <2>1 DEF SourceInv, Overlap
<1>. QED BY <1>1, <1>3, <1>4 DEF SourceInv, Book!SourcesKept, Book!rowOf, Book!Messages

\* TaskFits of an enrichment after a step.
FitsNext(t) ==
  /\ t = [todo |-> t.todo, all |-> t.all, had |-> t.had, geo |-> t.geo]
  /\ t.all \subseteq Book!Addresses /\ t.todo \subseteq t.all /\ t.geo \subseteq t.all
  /\ \A ip \in t.all \ t.todo : ip \in DOMAIN sources'
  /\ \A ip \in t.geo :
       ip \in t.had /\ ip \in DOMAIN sources' /\ (ip \in ghost'.placed => ip \in ghost'.lapped)

\* An enrichment goes on, others stay; lapped only grows.
LEMMA TaskGoesOn ==
  ASSUME SourceInv, UNCHANGED mail, NEW m \in Book!Messages, tasks[m] # None, NEW t,
           tasks' = [tasks EXCEPT ![m] = t],
         t # None => FitsNext(t) /\ \A ip \in t.geo : ip \in tasks[m].geo
                                                   \/ \A o \in Book!Messages \ {m} : tasks[o] # None =>
                                                        (ip \in tasks[o].geo => ip \in ghost'.lapped),
         DOMAIN sources \subseteq DOMAIN sources', ghost.lapped \subseteq ghost'.lapped,
         \A o \in Book!Messages \ {m} : tasks[o] # None =>
           \A ip \in tasks[o].geo : ip \in ghost'.placed => ip \in ghost'.lapped
  PROVE  /\ DOMAIN tasks' = Book!Messages
         /\ (\A o \in Book!Messages : tasks'[o] # None => TaskFits(tasks[o])') /\ Overlap'
<1>1. DOMAIN tasks' = Book!Messages /\ tasks'[m] = t
      /\ \A o \in Book!Messages : o # m => tasks'[o] = tasks[o]
  BY DEF SourceInv
<1>2. \A o \in Book!Messages : tasks'[o] # None => TaskFits(tasks[o])'
  <2>. SUFFICES ASSUME NEW o \in Book!Messages, tasks'[o] # None PROVE TaskFits(tasks[o])'
    OBVIOUS
  <2>1. CASE o = m
    BY <1>1, <2>1 DEF TaskFits, FitsNext
  <2>2. CASE o # m
    <3>1. TaskFits(tasks[o]) /\ tasks'[o] = tasks[o]
      BY <1>1, <2>2 DEF SourceInv
    <3>2. \A ip \in tasks[o].geo : ip \in ghost'.placed => ip \in ghost'.lapped
      BY <1>1, <2>2
    <3>. QED BY <3>1, <3>2 DEF TaskFits
  <2>. QED BY <2>1, <2>2
<1>3. Overlap'
  <2>. SUFFICES ASSUME NEW o \in Book!Messages, NEW q \in Book!Messages, o # q, tasks'[o] # None,
         tasks'[q] # None,
                       NEW ip \in tasks'[o].geo, ip \in tasks'[q].geo
       PROVE  ip \in ghost'.lapped
    BY DEF Overlap, Book!Messages
  <2>1. \A a, b \in Book!Messages : a # b /\ tasks[a] # None /\ tasks[b] # None
          /\ ip \in tasks[a].geo /\ ip \in tasks[b].geo
          => ip \in ghost'.lapped
    BY DEF SourceInv, Overlap
  <2>2. CASE o # m /\ q # m
    BY <1>1, <2>1, <2>2
  <2>3. CASE o = m
    BY <1>1, <2>1, <2>3
  <2>4. CASE q = m
    BY <1>1, <2>1, <2>4
  <2>. QED BY <2>2, <2>3, <2>4
<1>. QED BY <1>1, <1>2, <1>3

LEMMA NamedKeeps == ASSUME ReportConstants, SourceInv, NEW m \in Book!Messages,
  Book!enrichDmarcSources(m)
  PROVE SourceInv' /\ ghost'.together = ghost.together
<1>. DEFINE old == tasks[m]
<1>1. PICK ip \in old.todo : \E host \in Book!resolvePtr(ip) :
        /\ Book!put(ip, [Book!rowOf(ip) EXCEPT !.label =
             IF @ # None THEN @ ELSE Book!buildDmarcSourceLabel(host)])
        /\ ghost' = (IF host = None THEN ghost ELSE [ghost EXCEPT !.named = @ \cup {ip}])
        /\ tasks' = [tasks EXCEPT ![m].todo = @ \ {ip}]
  BY DEF Book!enrichDmarcSources
<1>2. PICK host \in Book!resolvePtr(ip) :
        /\ Book!put(ip, [Book!rowOf(ip) EXCEPT !.label =
             IF @ # None THEN @ ELSE Book!buildDmarcSourceLabel(host)])
        /\ ghost' = (IF host = None THEN ghost ELSE [ghost EXCEPT !.named = @ \cup {ip}])
        /\ tasks' = [tasks EXCEPT ![m].todo = @ \ {ip}]
  BY <1>1
<1>. DEFINE was == Book!rowOf(ip)
            label == IF was.label # None THEN was.label ELSE Book!buildDmarcSourceLabel(host)
            row == [was EXCEPT !.label = label]
            t == [old EXCEPT !.todo = old.todo \ {ip}]
<1>3. old # None /\ TaskFits(old) /\ UNCHANGED mail
  BY DEF Book!enrichDmarcSources, SourceInv
<1>4. ip \in Book!Addresses
  BY <1>3 DEF TaskFits
<1>5. Book!put(ip, row) /\ tasks' = [tasks EXCEPT ![m] = t]
  BY <1>2
<1>6. was = [label |-> was.label, legitimate |-> was.legitimate, asn |-> was.asn]
  BY RowOfFits
<1>7. /\ was.label # None <=> ip \in ghost.named
      /\ was.legitimate <=> ip \in ghost.marked
      /\ was.asn \in {None, AsnOf[ip]}
      /\ ip \in ghost.placed \ ghost.lapped => was.asn # None
  BY <1>4 DEF SourceInv, Book!SourcesKept
<1>8. (host = None => label = was.label) /\ (host # None => label # None)
  BY DEF Book!buildDmarcSourceLabel
<1>. HIDE DEF was, label
<1>9. row = [label |-> label, legitimate |-> was.legitimate, asn |-> was.asn]
  BY <1>6
<1>. HIDE DEF row
<1>10. row.label = label /\ row.legitimate = was.legitimate /\ row.asn = was.asn
       /\ row = [label |-> row.label, legitimate |-> row.legitimate, asn |-> row.asn]
  BY <1>9
<1>11. /\ ghost' = [named |-> ghost'.named, placed |-> ghost'.placed, lapped |-> ghost'.lapped,
                    marked |-> ghost'.marked, together |-> ghost'.together]
       /\ ghost'.placed = ghost.placed /\ ghost'.lapped = ghost.lapped /\ ghost'.marked = ghost.marked
       /\ ghost'.together = ghost.together
       /\ ghost'.named = IF host = None THEN ghost.named ELSE ghost.named \cup {ip}
  <2>1. ghost = [named |-> ghost.named, placed |-> ghost.placed, lapped |-> ghost.lapped,
                 marked |-> ghost.marked, together |-> ghost.together]
    BY DEF SourceInv
  <2>2. CASE host = None
    BY <1>2, <2>1, <2>2
  <2>3. CASE host # None
    <3>1. ghost' = [named |-> ghost.named \cup {ip}, placed |-> ghost.placed, lapped |-> ghost.lapped,
                    marked |-> ghost.marked, together |-> ghost.together]
      BY <1>2, <2>1, <2>3
    <3>. QED BY <2>3, <3>1
  <2>. QED BY <2>2, <2>3
<1>12. row.label # None <=> ip \in ghost'.named
  BY <1>7, <1>8, <1>10, <1>11
<1>13. /\ Book!SourcesKept' /\ DOMAIN sources' \subseteq Book!Addresses
       /\ \A j \in DOMAIN sources' :
            sources'[j] = [label |-> sources'[j].label, legitimate |-> sources'[j].legitimate,
              asn |-> sources'[j].asn]
  <2>1. \A j : j # ip => /\ j \in ghost'.named <=> j \in ghost.named
                         /\ j \in ghost'.marked <=> j \in ghost.marked
                         /\ j \in ghost'.placed <=> j \in ghost.placed
    BY <1>11
  <2>. QED BY <1>4, <1>5, <1>7, <1>10, <1>11, <1>12, <2>1, PutKeeps
<1>14. DOMAIN sources' = DOMAIN sources \cup {ip}
  BY <1>5, PutRow
<1>15. FitsNext(t) /\ t.geo = old.geo
  <2>1. old = [todo |-> old.todo, all |-> old.all, had |-> old.had, geo |-> old.geo]
    BY <1>3 DEF TaskFits
  <2>2. TaskFits(old)
    BY <1>3
  <2>. HIDE DEF old
  <2>3. t = [todo |-> old.todo \ {ip}, all |-> old.all, had |-> old.had, geo |-> old.geo]
    BY <2>1
  <2>. HIDE DEF t
  <2>4. t = [todo |-> t.todo, all |-> t.all, had |-> t.had, geo |-> t.geo] /\ t.todo = old.todo \ {ip}
        /\ t.all = old.all /\ t.had = old.had /\ t.geo = old.geo
    BY <2>3
  <2>. QED BY <1>11, <1>14, <2>2, <2>4 DEF TaskFits, FitsNext
<1>16. \A o \in Book!Messages \ {m} : tasks[o] # None =>
         \A j \in tasks[o].geo : j \in ghost'.placed => j \in ghost'.lapped
  BY <1>11 DEF SourceInv, TaskFits
<1>. HIDE DEF t
<1>17. /\ DOMAIN tasks' = Book!Messages
       /\ (\A o \in Book!Messages : tasks'[o] # None => TaskFits(tasks[o])') /\ Overlap'
  BY <1>3, <1>5, <1>11, <1>14, <1>15, <1>16, TaskGoesOn
<1>18. Book!Messages' = Book!Messages
  BY <1>3 DEF Book!Messages
<1>. QED BY <1>11, <1>13, <1>17, <1>18 DEF SourceInv

LEMMA GeoStarts == ASSUME ReportConstants, SourceInv, NEW m \in Book!Messages, Book!startGeo(m)
  PROVE SourceInv' /\ ghost'.together = ghost.together
<1>. DEFINE old == tasks[m]
            need == {ip \in old.all : Book!rowOf(ip).asn = None}
            others == UNION {tasks[o].geo : o \in {x \in Book!Messages \ {m} : tasks[x] # None}}
            task == [old EXCEPT !.had = DOMAIN sources, !.geo = need]
            t == IF task.geo = {} THEN None ELSE task
<1>1. old # None /\ TaskFits(old) /\ old.todo = {} /\ UNCHANGED <<mail, sources>>
  BY DEF Book!startGeo, SourceInv
<1>2. tasks' = [tasks EXCEPT ![m] = t]
        /\ ghost' = [ghost EXCEPT !.lapped = ghost.lapped \cup (need \cap others)]
  BY DEF Book!startGeo, Book!finished
<1>3. ghost' = [named |-> ghost.named, placed |-> ghost.placed,
                lapped |-> ghost.lapped \cup (need \cap others),
                marked |-> ghost.marked, together |-> ghost.together]
  <2>1. ghost = [named |-> ghost.named, placed |-> ghost.placed, lapped |-> ghost.lapped,
                 marked |-> ghost.marked, together |-> ghost.together]
    BY DEF SourceInv
  <2>. HIDE DEF need, others
  <2>. QED BY <1>2, <2>1
<1>4. /\ ghost' = [named |-> ghost'.named, placed |-> ghost'.placed, lapped |-> ghost'.lapped,
                   marked |-> ghost'.marked, together |-> ghost'.together]
      /\ ghost'.named = ghost.named /\ ghost'.placed = ghost.placed /\ ghost'.marked = ghost.marked
      /\ ghost'.together = ghost.together /\ ghost'.lapped = ghost.lapped \cup (need \cap others)
  <2>. HIDE DEF need, others
  <2>. QED BY <1>3
<1>5. \A ip \in need : ip \in old.all /\ ip \in DOMAIN sources
      /\ (ip \in ghost.placed => ip \in ghost.lapped)
  <2>. SUFFICES ASSUME NEW ip \in need
       PROVE  ip \in old.all /\ ip \in DOMAIN sources /\ (ip \in ghost.placed => ip \in ghost.lapped)
    OBVIOUS
  <2>1. ip \in old.all /\ ip \in Book!Addresses /\ ip \in DOMAIN sources /\ Book!rowOf(ip).asn = None
    BY <1>1 DEF TaskFits
  <2>. QED BY <2>1 DEF SourceInv, Book!SourcesKept
<1>6. task = [todo |-> old.todo, all |-> old.all, had |-> DOMAIN sources, geo |-> need]
  <2>1. old = [todo |-> old.todo, all |-> old.all, had |-> old.had, geo |-> old.geo]
    BY <1>1 DEF TaskFits
  <2>2. task = [old EXCEPT !.had = DOMAIN sources, !.geo = need]
    OBVIOUS
  <2>. HIDE DEF old, need, task
  <2>. QED BY <2>1, <2>2
<1>7. TaskFits(old)
  BY <1>1
<1>8. \A ip \in need : \A o \in Book!Messages \ {m} : tasks[o] # None => (ip \in tasks[o].geo =>
        ip \in ghost'.lapped)
  BY <1>4
<1>. HIDE DEF need, others, task
<1>9. task = [todo |-> task.todo, all |-> task.all, had |-> task.had, geo |-> task.geo]
      /\ task.todo = old.todo /\ task.all = old.all /\ task.had = DOMAIN sources /\ task.geo = need
  BY <1>6
<1>. HIDE DEF old
<1>10. FitsNext(task)
  <2>1. \A ip \in task.geo : ip \in task.had /\ ip \in DOMAIN sources'
        /\ (ip \in ghost'.placed => ip \in ghost'.lapped)
    BY <1>1, <1>4, <1>5, <1>9
  <2>. QED BY <1>1, <1>5, <1>7, <1>9, <2>1 DEF TaskFits, FitsNext
<1>11. t # None => FitsNext(t) /\ \A ip \in t.geo : \A o \in Book!Messages \ {m} : tasks[o] # None =>
                                                       (ip \in tasks[o].geo => ip \in ghost'.lapped)
  BY <1>8, <1>9, <1>10
<1>12. \A o \in Book!Messages \ {m} : tasks[o] # None =>
         \A j \in tasks[o].geo : j \in ghost'.placed => j \in ghost'.lapped
  BY <1>4 DEF SourceInv, TaskFits
<1>. HIDE DEF t
<1>13. ghost.lapped \subseteq ghost'.lapped
  BY <1>4
<1>14. /\ DOMAIN tasks' = Book!Messages
       /\ (\A o \in Book!Messages : tasks'[o] # None => TaskFits(tasks[o])') /\ Overlap'
  BY <1>1, <1>2, <1>11, <1>12, <1>13, TaskGoesOn DEF old
<1>15. Book!SourcesKept'
  BY <1>1, <1>4, <1>13 DEF SourceInv, Book!SourcesKept, Book!rowOf
<1>16. Book!Messages' = Book!Messages
  BY <1>1 DEF Book!Messages
<1>. QED BY <1>1, <1>4, <1>14, <1>15, <1>16 DEF SourceInv

LEMMA PlacedKeeps ==
  ASSUME ReportConstants, SourceInv, NEW m \in Book!Messages, NEW ip \in Book!Addresses,
           Book!enrichDmarcSourcesGeo(m, ip)
  PROVE  SourceInv' /\ ghost'.together = ghost.together
<1>. DEFINE old == tasks[m]
            was == Book!rowOf(ip)
            task == [old EXCEPT !.geo = old.geo \ {ip}]
            t == IF task.geo = {} THEN None ELSE task
<1>1. old # None /\ TaskFits(old) /\ ip \in old.geo /\ UNCHANGED mail
  BY DEF Book!enrichDmarcSourcesGeo, SourceInv
<1>2. ip \in old.had /\ ip \in DOMAIN sources /\ (ip \in ghost.placed => ip \in ghost.lapped)
  BY <1>1 DEF TaskFits
<1>3. PICK asn \in Book!lookupIpGeo(ip) :
        /\ Book!put(ip, [was EXCEPT !.asn = asn])
        /\ ghost' = (IF asn = None THEN ghost ELSE [ghost EXCEPT !.placed = @ \cup {ip}])
        /\ tasks' = [tasks EXCEPT ![m] = t]
  BY <1>2 DEF Book!enrichDmarcSourcesGeo, Book!finished
<1>. DEFINE row == [was EXCEPT !.asn = asn]
<1>4. was = [label |-> was.label, legitimate |-> was.legitimate, asn |-> was.asn]
  BY RowOfFits
<1>5. /\ was.label # None <=> ip \in ghost.named
      /\ was.legitimate <=> ip \in ghost.marked
  BY DEF SourceInv, Book!SourcesKept
<1>6. asn \in {None, AsnOf[ip]}
  BY DEF Book!lookupIpGeo
<1>7. Book!put(ip, row)
  BY <1>3
<1>. HIDE DEF was
<1>8. row = [label |-> was.label, legitimate |-> was.legitimate, asn |-> asn]
  BY <1>4
<1>. HIDE DEF row
<1>9. row.label = was.label /\ row.legitimate = was.legitimate /\ row.asn = asn
      /\ row = [label |-> row.label, legitimate |-> row.legitimate, asn |-> row.asn]
  BY <1>8
<1>10. /\ ghost' = [named |-> ghost'.named, placed |-> ghost'.placed, lapped |-> ghost'.lapped,
                    marked |-> ghost'.marked, together |-> ghost'.together]
       /\ ghost'.named = ghost.named /\ ghost'.lapped = ghost.lapped /\ ghost'.marked = ghost.marked
       /\ ghost'.together = ghost.together
       /\ ghost'.placed = IF asn = None THEN ghost.placed ELSE ghost.placed \cup {ip}
  <2>1. ghost = [named |-> ghost.named, placed |-> ghost.placed, lapped |-> ghost.lapped,
                 marked |-> ghost.marked, together |-> ghost.together]
    BY DEF SourceInv
  <2>2. CASE asn = None
    BY <1>3, <2>1, <2>2
  <2>3. CASE asn # None
    <3>1. ghost' = [named |-> ghost.named, placed |-> ghost.placed \cup {ip}, lapped |-> ghost.lapped,
                    marked |-> ghost.marked, together |-> ghost.together]
      BY <1>3, <2>1, <2>3
    <3>. QED BY <2>3, <3>1
  <2>. QED BY <2>2, <2>3
<1>11. ip \in ghost'.placed \ ghost'.lapped => row.asn # None
  BY <1>2, <1>9, <1>10
<1>12. /\ Book!SourcesKept' /\ DOMAIN sources' \subseteq Book!Addresses
       /\ \A j \in DOMAIN sources' :
            sources'[j] = [label |-> sources'[j].label, legitimate |-> sources'[j].legitimate,
              asn |-> sources'[j].asn]
  <2>1. \A j : j # ip => /\ j \in ghost'.named <=> j \in ghost.named
                         /\ j \in ghost'.marked <=> j \in ghost.marked
                         /\ j \in ghost'.placed <=> j \in ghost.placed
    BY <1>10
  <2>. QED BY <1>5, <1>6, <1>7, <1>9, <1>10, <1>11, <2>1, PutKeeps
<1>13. DOMAIN sources' = DOMAIN sources \cup {ip}
  BY <1>7, PutRow
<1>14. FitsNext(task) /\ task.geo = old.geo \ {ip}
  <2>1. old = [todo |-> old.todo, all |-> old.all, had |-> old.had, geo |-> old.geo]
    BY <1>1 DEF TaskFits
  <2>2. TaskFits(old)
    BY <1>1
  <2>. HIDE DEF old
  <2>3. task = [todo |-> old.todo, all |-> old.all, had |-> old.had, geo |-> old.geo \ {ip}]
    BY <2>1
  <2>. HIDE DEF task
  <2>4. task = [todo |-> task.todo, all |-> task.all, had |-> task.had, geo |-> task.geo]
        /\ task.todo = old.todo /\ task.all = old.all /\ task.had = old.had /\ task.geo = old.geo \ {ip}
    BY <2>3
  <2>. QED BY <1>10, <1>13, <2>2, <2>4 DEF TaskFits, FitsNext
<1>15. \A o \in Book!Messages \ {m} : tasks[o] # None =>
         \A j \in tasks[o].geo : j \in ghost'.placed => j \in ghost'.lapped
  <2>. SUFFICES ASSUME NEW o \in Book!Messages \ {m}, tasks[o] # None, NEW j \in tasks[o].geo,
         j \in ghost'.placed
       PROVE  j \in ghost'.lapped
    OBVIOUS
  <2>1. CASE j = ip
    BY <1>1, <1>10, <2>1 DEF SourceInv, Overlap
  <2>2. CASE j # ip
    BY <1>10, <2>2 DEF SourceInv, TaskFits
  <2>. QED BY <2>1, <2>2
<1>. HIDE DEF task
<1>16. t # None => FitsNext(t) /\ \A j \in t.geo : j \in old.geo
  BY <1>14
<1>. HIDE DEF t
<1>17. /\ DOMAIN tasks' = Book!Messages
       /\ (\A o \in Book!Messages : tasks'[o] # None => TaskFits(tasks[o])') /\ Overlap'
  BY <1>1, <1>3, <1>10, <1>13, <1>15, <1>16, TaskGoesOn
<1>18. Book!Messages' = Book!Messages
  BY <1>1 DEF Book!Messages
<1>. QED BY <1>10, <1>12, <1>17, <1>18 DEF SourceInv

LEMMA MarkedKeeps ==
  ASSUME ReportConstants, SourceInv, NEW ip \in Book!Addresses, NEW on \in BOOLEAN,
           Book!setSourceLegitimate(ip, on)
  PROVE  SourceInv' /\ ghost'.together = ghost.together
<1>. DEFINE was == Book!rowOf(ip)
            row == [was EXCEPT !.legitimate = on]
            marked == IF on THEN ghost.marked \cup {ip} ELSE ghost.marked \ {ip}
<1>1. Book!put(ip, row) /\ ghost' = [ghost EXCEPT !.marked = marked] /\ UNCHANGED <<mail, tasks>>
  BY DEF Book!setSourceLegitimate
<1>2. was = [label |-> was.label, legitimate |-> was.legitimate, asn |-> was.asn]
  BY RowOfFits
<1>3. /\ was.label # None <=> ip \in ghost.named
      /\ was.asn \in {None, AsnOf[ip]}
      /\ ip \in ghost.placed \ ghost.lapped => was.asn # None
  BY DEF SourceInv, Book!SourcesKept
<1>. HIDE DEF was
<1>4. row = [label |-> was.label, legitimate |-> on, asn |-> was.asn]
  BY <1>2
<1>. HIDE DEF row
<1>5. row.label = was.label /\ row.legitimate = on /\ row.asn = was.asn
      /\ row = [label |-> row.label, legitimate |-> row.legitimate, asn |-> row.asn]
  BY <1>4
<1>6. ghost = [named |-> ghost.named, placed |-> ghost.placed, lapped |-> ghost.lapped,
               marked |-> ghost.marked, together |-> ghost.together]
  BY DEF SourceInv
<1>7. (on <=> ip \in marked) /\ \A j : j # ip => (j \in marked <=> j \in ghost.marked)
  OBVIOUS
<1>. HIDE DEF marked
<1>8. ghost' = [named |-> ghost.named, placed |-> ghost.placed, lapped |-> ghost.lapped,
                marked |-> marked, together |-> ghost.together]
  BY <1>1, <1>6
<1>9. /\ ghost' = [named |-> ghost'.named, placed |-> ghost'.placed, lapped |-> ghost'.lapped,
                   marked |-> ghost'.marked, together |-> ghost'.together]
      /\ ghost'.named = ghost.named /\ ghost'.placed = ghost.placed /\ ghost'.lapped = ghost.lapped
      /\ ghost'.marked = marked /\ ghost'.together = ghost.together
  BY <1>8
<1>10. row.legitimate <=> ip \in ghost'.marked
  <2>1. row.legitimate = on /\ ghost'.marked = marked
    BY <1>5, <1>9
  <2>. QED BY <1>7, <2>1, Zenon
<1>11. /\ Book!SourcesKept' /\ DOMAIN sources' \subseteq Book!Addresses
       /\ \A j \in DOMAIN sources' :
            sources'[j] = [label |-> sources'[j].label, legitimate |-> sources'[j].legitimate,
              asn |-> sources'[j].asn]
  <2>1. \A j : j # ip => /\ j \in ghost'.named <=> j \in ghost.named
                         /\ j \in ghost'.marked <=> j \in ghost.marked
                         /\ j \in ghost'.placed <=> j \in ghost.placed
    BY <1>7, <1>9
  <2>2. /\ row.label # None <=> ip \in ghost'.named
        /\ row.asn \in {None, AsnOf[ip]}
        /\ ip \in ghost'.placed \ ghost'.lapped => row.asn # None
        /\ ghost.lapped \subseteq ghost'.lapped
    BY <1>3, <1>5, <1>9
  <2>. QED BY <1>1, <1>5, <1>10, <2>1, <2>2, PutKeeps
<1>12. DOMAIN sources' = DOMAIN sources \cup {ip}
  BY <1>1, PutRow
<1>13. \A o \in Book!Messages : tasks[o] # None => TaskFits(tasks[o])'
  BY <1>1, <1>9, <1>12 DEF SourceInv, TaskFits
<1>14. Overlap' /\ Book!Messages' = Book!Messages
  BY <1>1, <1>9 DEF SourceInv, Overlap, Book!Messages
<1>. QED BY <1>1, <1>9, <1>11, <1>13, <1>14 DEF SourceInv

LEMMA DmarcKeeps ==
  ASSUME ReportConstants, StoreInv, SourceInv, NEW m \in Book!Messages, UNCHANGED <<mail, sources,
           ghost>>,
         Book!dmarcOf(mail[m]) # None,
         tasks' = [tasks EXCEPT ![m] =
                     [todo |-> Book!getNewDmarcSourceIps(Book!dmarcOf(mail[m])),
                       all |-> Book!ipsOf(Book!dmarcOf(mail[m])),
                      had |-> None, geo |-> {}]]
  PROVE  SourceInv'
<1>. DEFINE report == Book!dmarcOf(mail[m])
            t == [todo |-> Book!getNewDmarcSourceIps(report), all |-> Book!ipsOf(report),
              had |-> None, geo |-> {}]
<1>1. Book!ipsOf(report) \subseteq Book!Addresses
  BY DEF StoreInv, ReportConstants, Book!Messages
<1>2. Book!getNewDmarcSourceIps(report) \subseteq Book!ipsOf(report)
      /\ \A ip \in Book!ipsOf(report) \ Book!getNewDmarcSourceIps(report) : ip \in DOMAIN sources
  BY DEF Book!getNewDmarcSourceIps, Book!rowOf, Book!blankSource
<1>. HIDE DEF report
<1>3. t = [todo |-> t.todo, all |-> t.all, had |-> t.had, geo |-> t.geo]
      /\ t.todo = Book!getNewDmarcSourceIps(report) /\ t.all = Book!ipsOf(report) /\ t.geo = {}
  OBVIOUS
<1>. HIDE DEF t
<1>4. TaskFits(t)
  BY <1>1, <1>2, <1>3 DEF TaskFits
<1>. QED BY <1>3, <1>4, TasksKeep DEF t, report

(* ------------------------------------------------------------ the reports *)

\* A try ends diverted with the report stored, or hands the message on.
Tried(m, how, next, report) ==
  \E where \in {next, "diverted"} :
    /\ pc' = [pc EXCEPT ![m] = where]
    /\ reports' = reports \/ \E x : reports' = reports \cup {Book!stored(how, m, x)}
    /\ where = "diverted" => report # None /\ reports' = reports \cup {Book!stored(how, m, report)}
    /\ faults' = faults \/ Book!fault
    /\ UNCHANGED <<mail, now, ruf>>

LEMMA DmarcTried == ASSUME NEW m, Book!ingestDmarcReport(m) PROVE
  /\ pc[m] = "new" /\ UNCHANGED <<mail, sources, ghost>>
  /\ Tried(m, "dmarc", "tls", IF Book!isDmarcReport(mail[m]) THEN Book!dmarcOf(mail[m]) ELSE None)
  /\ \/ tasks' = tasks
     \/ /\ Book!dmarcOf(mail[m]) # None
        /\ tasks' = [tasks EXCEPT ![m] =
             [todo |-> Book!getNewDmarcSourceIps(Book!dmarcOf(mail[m])),
               all |-> Book!ipsOf(Book!dmarcOf(mail[m])),
              had |-> None, geo |-> {}]]
<1>. DEFINE report == IF Book!isDmarcReport(mail[m]) THEN Book!dmarcOf(mail[m]) ELSE None
<1>1. pc[m] = "new" /\ UNCHANGED <<mail, now, sources, ruf, ghost>>
      /\ Book!try(m, report, Book!insertDmarcReport, "dmarc", "tls")
  BY DEF Book!ingestDmarcReport
<1>2. report # None => report = Book!dmarcOf(mail[m])
  OBVIOUS
<1>. HIDE DEF report
<1>3. Tried(m, "dmarc", "tls", report)
  BY <1>1 DEF Book!try, Tried, Book!goTo, Book!insertDmarcReport
<1>4. tasks' = tasks \/ (report # None /\ Book!insertDmarcReport(m, report))
  BY <1>1 DEF Book!try
<1>5. \/ tasks' = tasks
      \/ /\ Book!dmarcOf(mail[m]) # None
         /\ tasks' = [tasks EXCEPT ![m] =
              [todo |-> Book!getNewDmarcSourceIps(Book!dmarcOf(mail[m])),
                all |-> Book!ipsOf(Book!dmarcOf(mail[m])),
               had |-> None, geo |-> {}]]
  BY <1>2, <1>4 DEF Book!insertDmarcReport
<1>. QED BY <1>1, <1>3, <1>5 DEF report

LEMMA TlsTried == ASSUME NEW m, Book!ingestTlsRptReport(m) PROVE
  /\ pc[m] = "tls" /\ UNCHANGED <<mail, sources, tasks, ghost>>
  /\ Tried(m, "tls", "ruf", IF Book!isTlsRptReport(mail[m]) THEN Book!tlsOf(mail[m]) ELSE None)
<1>. DEFINE report == IF Book!isTlsRptReport(mail[m]) THEN Book!tlsOf(mail[m]) ELSE None
<1>1. pc[m] = "tls" /\ UNCHANGED <<mail, now, sources, ruf, ghost>>
      /\ Book!try(m, report, Book!insertTlsRptReport, "tls", "ruf")
  BY DEF Book!ingestTlsRptReport
<1>. HIDE DEF report
<1>2. Tried(m, "tls", "ruf", report) /\ tasks' = tasks
  BY <1>1 DEF Book!try, Tried, Book!goTo, Book!insertTlsRptReport
<1>. QED BY <1>1, <1>2 DEF report

LEMMA StoredFits == ASSUME NEW how, NEW m, NEW x, NEW r, r = Book!stored(how, m, x)
  PROVE r.how = how /\ r.id = m /\ r.at = now /\ r.rows = x.rows
BY DEF Book!stored

LEMMA TriedKeeps ==
  ASSUME ReportConstants, StoreInv, NEW m \in Book!Messages, NEW how \in {"dmarc", "tls"},
           NEW next \in {"tls", "ruf"},
         NEW report, Tried(m, how, next, report),
         report # None => IF how = "dmarc" THEN report = Book!dmarcOf(mail[m]) ELSE report =
           Book!tlsOf(mail[m])
  PROVE  StoreInv'
<1>1. PICK where \in {next, "diverted"} :
        /\ pc' = [pc EXCEPT ![m] = where]
        /\ reports' = reports \/ \E x : reports' = reports \cup {Book!stored(how, m, x)}
        /\ where = "diverted" => report # None /\ reports' = reports \cup {Book!stored(how, m, report)}
        /\ faults' = faults \/ Book!fault
        /\ UNCHANGED <<mail, now, ruf>>
  BY DEF Tried
<1>2. DOMAIN pc' = Book!Messages /\ pc'[m] = where
      /\ (\A o \in Book!Messages : o # m => pc'[o] = pc[o]) /\ Book!Messages' = Book!Messages
  BY <1>1 DEF StoreInv, Book!Messages
<1>3. faults' \in 0 .. MaxMisses
  BY <1>1 DEF StoreInv, Book!fault, ReportConstants
<1>4. now \in 0 .. now
  BY DEF StoreInv, ReportConstants
<1>5. \A r \in reports' : r.how \in {"dmarc", "tls"} /\ r.id \in Book!Messages /\ r.at \in 0 .. now
  <2>1. CASE reports' = reports
    BY <2>1 DEF StoreInv
  <2>2. CASE \E x : reports' = reports \cup {Book!stored(how, m, x)}
    <3>1. PICK x : reports' = reports \cup {Book!stored(how, m, x)}
      BY <2>2
    <3>. QED BY <1>4, <3>1, StoredFits DEF StoreInv
  <2>. QED BY <1>1, <2>1, <2>2
<1>6. reports \subseteq reports'
  BY <1>1
<1>7. Book!DivertedIsStored'
  <2>. SUFFICES ASSUME NEW o \in Book!Messages, pc'[o] = "diverted"
       PROVE  (\E r \in reports' : r.id = o /\ Book!whole(r)') \/ \E r \in ruf : r.id = o
    BY <1>1, <1>2 DEF Book!DivertedIsStored
  <2>1. CASE o # m
    <3>1. (\E r \in reports : r.id = o /\ Book!whole(r)) \/ \E r \in ruf : r.id = o
      BY <1>2, <2>1 DEF StoreInv, Book!DivertedIsStored
    <3>2. \A r : Book!whole(r)' <=> Book!whole(r)
      BY <1>1 DEF Book!whole
    <3>. QED BY <1>6, <3>1, <3>2
  <2>2. CASE o = m
    <3>1. report # None /\ Book!stored(how, m, report) \in reports'
      BY <1>1, <1>2, <2>2
    <3>2. PICK r \in reports' : r.how = how /\ r.id = m /\ r.rows = report.rows
      BY <3>1 DEF Book!stored
    <3>3. mail' = mail
      BY <1>1
    <3>4. Book!whole(r)'
      <4>1. CASE how = "dmarc"
        <5>1. report = Book!dmarcOf(mail'[r.id]) /\ r.how = "dmarc"
          BY <3>1, <3>2, <3>3, <4>1
        <5>. QED BY <3>1, <3>2, <5>1 DEF Book!whole
      <4>2. CASE how = "tls"
        <5>1. report = Book!tlsOf(mail'[r.id]) /\ r.how # "dmarc"
          BY <3>1, <3>2, <3>3, <4>2
        <5>. QED BY <3>1, <3>2, <5>1 DEF Book!whole
      <4>. QED BY <4>1, <4>2
    <3>. QED BY <2>2, <3>2, <3>4
  <2>. QED BY <2>1, <2>2
<1>8. \A o \in Book!Messages : pc'[o] \in Where
  BY <1>2 DEF StoreInv, Where
<1>. QED BY <1>1, <1>2, <1>3, <1>5, <1>7, <1>8 DEF StoreInv

(* ------------------------------------------------------------ the storing *)

LEMMA StoreSame ==
  ASSUME StoreInv, UNCHANGED <<mail, pc, now, reports, ruf>>, faults' \in 0 .. MaxMisses
  PROVE  StoreInv'
<1>1. \A r : Book!whole(r)' <=> Book!whole(r)
  BY DEF Book!whole
<1>2. Book!DivertedIsStored'
  BY <1>1 DEF StoreInv, Book!DivertedIsStored, Book!Messages
<1>. QED BY <1>2 DEF StoreInv, Book!Messages

\* A failure report moves on, the reports of the other two stay.
LEMMA StoreMoves ==
  ASSUME StoreInv, UNCHANGED <<mail, now, reports>>, NEW m \in Book!Messages, NEW where \in Where,
         pc' = [pc EXCEPT ![m] = where], faults' \in 0 .. MaxMisses,
         ruf \subseteq ruf', \A r \in ruf' : r.id \in Book!Messages /\ r.at \in 0 .. now,
         where = "diverted" => \E r \in ruf' : r.id = m
  PROVE  StoreInv'
<1>1. \A r : Book!whole(r)' <=> Book!whole(r)
  BY DEF Book!whole
<1>2. DOMAIN pc' = Book!Messages /\ pc'[m] = where
      /\ (\A o \in Book!Messages : o # m => pc'[o] = pc[o]) /\ Book!Messages' = Book!Messages
  BY DEF StoreInv, Book!Messages
<1>3. Book!DivertedIsStored'
  <2>. SUFFICES ASSUME NEW o \in Book!Messages, pc'[o] = "diverted"
       PROVE  (\E r \in reports : r.id = o /\ Book!whole(r)) \/ \E r \in ruf' : r.id = o
    BY <1>1, <1>2 DEF Book!DivertedIsStored
  <2>1. CASE o = m
    BY <1>2, <2>1
  <2>2. CASE o # m
    <3>1. (\E r \in reports : r.id = o /\ Book!whole(r)) \/ \E r \in ruf : r.id = o
      BY <1>2, <2>2 DEF StoreInv, Book!DivertedIsStored
    <3>. QED BY <3>1
  <2>. QED BY <2>1, <2>2
<1>4. \A o \in Book!Messages : pc'[o] \in Where
  BY <1>2 DEF StoreInv
<1>. QED BY <1>2, <1>3, <1>4 DEF StoreInv

LEMMA TickStores == ASSUME ReportConstants, StoreInv, Book!Tick PROVE StoreInv'
<1>1. now' = now + 1 /\ now' \in 0 .. MaxTime /\ UNCHANGED <<mail, pc, reports, ruf, faults>>
  BY DEF Book!Tick, StoreInv, ReportConstants
<1>2. \A r : Book!whole(r)' <=> Book!whole(r)
  BY <1>1 DEF Book!whole
<1>3. Book!DivertedIsStored'
  BY <1>1, <1>2 DEF StoreInv, Book!DivertedIsStored, Book!Messages
<1>4. \A t \in 0 .. now : t \in 0 .. now'
  BY <1>1 DEF StoreInv, ReportConstants
<1>. QED BY <1>1, <1>3, <1>4 DEF StoreInv, Book!Messages

(* ---------------------------------------------------- the failure reports *)

LEMMA MaxOfTwo == ASSUME NEW a \in Int, NEW b \in Int
  PROVE Book!Max({a, b}) \in Int /\ Book!Max({a, b}) >= a /\ Book!Max({a, b}) >= b
    /\ (Book!Max({a, b}) = a \/ Book!Max({a, b}) = b)
<1>1. \E x \in {a, b} : \A y \in {a, b} : x >= y
  <2>1. CASE a >= b
    BY <2>1
  <2>2. CASE ~(a >= b)
    BY <2>2
  <2>. QED BY <2>1, <2>2
<1>2. Book!Max({a, b}) \in {a, b} /\ \A y \in {a, b} : Book!Max({a, b}) >= y
  BY <1>1 DEF Book!Max
<1>. QED BY <1>2

\* The instance counts as its host does.
LEMMA ReportCardinality == \A S : Book!Cardinality(S) = Cardinality(S)
BY DEF Book!Cardinality, Cardinality

LEMMA Finite == ASSUME ReportConstants, StoreInv, RufInv
  PROVE /\ IsFiniteSet(Book!Messages) /\ IsFiniteSet(Book!waiting) /\ IsFiniteSet(Book!recentRuf)
        /\ Cardinality(Book!waiting) \in Nat /\ Cardinality(Book!recentRuf) \in Nat
<1>1. IsFiniteSet(Book!Messages) /\ IsFiniteSet(ruf)
  BY DEF ReportConstants, StoreInv, RufInv, Book!Messages
<1>2. Book!waiting \in SUBSET Book!Messages /\ Book!recentRuf \in SUBSET ruf
  BY DEF Book!waiting, Book!recentRuf
<1>3. IsFiniteSet(Book!waiting) /\ IsFiniteSet(Book!recentRuf)
  BY <1>1, <1>2, FS_Subset
<1>. QED BY <1>1, <1>3, FS_CardinalityType

LEMMA RufSame ==
  ASSUME RufInv, UNCHANGED <<mail, now, ruf>>, ghost'.together = ghost.together,
           Book!waiting' = Book!waiting
  PROVE  RufInv'
<1>1. \A m : Accepts(m)' <=> Accepts(m)
  BY DEF Accepts
<1>2. Book!recentRuf' = Book!recentRuf
  BY DEF Book!recentRuf
<1>. QED BY <1>1, <1>2 DEF RufInv

LEMMA StillWaiting ==
  ASSUME StoreInv, UNCHANGED mail, NEW m \in Book!Messages, NEW where, pc' = [pc EXCEPT ![m] = where],
         where # "counted", pc[m] # "counted"
  PROVE  Book!waiting' = Book!waiting
<1>1. pc'[m] = where /\ (\A o \in Book!Messages : o # m =>
        pc'[o] = pc[o]) /\ Book!Messages' = Book!Messages
  BY DEF StoreInv, Book!Messages
<1>. QED BY <1>1 DEF Book!waiting

\* A minute has passed for some of the reports.
LEMMA TickRuf == ASSUME ReportConstants, StoreInv, RufInv, Book!Tick PROVE RufInv'
<1>1. now' = now + 1 /\ UNCHANGED <<mail, pc, ruf, ghost>>
  BY DEF Book!Tick
<1>2. Book!waiting' = Book!waiting
  BY <1>1 DEF Book!waiting, Book!Messages
<1>3. \A m : Accepts(m)' <=> Accepts(m)
  BY <1>1 DEF Accepts
<1>4. now \in Nat /\ Window \in Nat /\ \A r \in ruf : r.at \in Nat
  BY DEF StoreInv, ReportConstants
<1>5. Book!recentRuf' \in SUBSET Book!recentRuf
  BY <1>1, <1>4 DEF Book!recentRuf
<1>6. /\ IsFiniteSet(Book!recentRuf) /\ Cardinality(Book!waiting) \in Nat
           /\ Cardinality(Book!recentRuf) \in Nat
  BY Finite
<1>7. Cardinality(Book!recentRuf') <= Cardinality(Book!recentRuf)
        /\ Cardinality(Book!recentRuf') \in Nat
  BY <1>5, <1>6, FS_Subset, FS_CardinalityType
<1>8. Book!Max({0, ghost.together - 1}) \in Int /\ RufLimit \in Nat
  <2>1. ghost.together \in Nat /\ RufLimit \in Nat
    BY DEF RufInv, ReportConstants
  <2>2. ghost.together - 1 \in Int /\ 0 \in Int
    BY <2>1
  <2>. QED BY <2>1, <2>2, MaxOfTwo
<1>9. Cardinality(Book!recentRuf) + Cardinality(Book!waiting) <= RufLimit + Book!Max({0,
        ghost.together - 1})
  BY DEF RufInv
<1>10. Cardinality(Book!recentRuf') + Cardinality(Book!waiting) <= RufLimit + Book!Max({0,
         ghost.together - 1})
  BY <1>6, <1>7, <1>8, <1>9
<1>11. (Cardinality(Book!recentRuf) + Cardinality(Book!waiting) <= RufLimit + Book!Max({0,
         ghost.together - 1}))'
  BY <1>1, <1>2, <1>10
<1>. QED BY <1>1, <1>2, <1>3, <1>11 DEF RufInv

\* Fewer than the limit were stored: with this one and those counted with it, not
\* more than those are above it.
LEMMA CountKeeps == ASSUME ReportConstants, StoreInv, SourceInv, RufInv, NEW m \in Book!Messages,
  Book!countRuf(m)
  PROVE  StoreInv' /\ SourceInv' /\ RufInv'
<1>. DEFINE accepted == /\ Book!isDmarcRuf(mail[m]) /\ mail[m].ruf.enabled
                        /\ Cardinality(Book!recentRuf) < RufLimit
                        /\ Book!parseDmarcRuf(mail[m].files, mail[m].ruf.retain) # None
            most == Book!Max({ghost.together, Cardinality(Book!waiting) + 1})
            where == IF accepted THEN "counted" ELSE "passed"
<1>1. /\ pc[m] = "ruf" /\ pc' = [pc EXCEPT ![m] = where]
      /\ ghost' = IF accepted THEN [ghost EXCEPT !.together = Book!Max({@,
           Cardinality(Book!waiting) + 1})] ELSE ghost
      /\ UNCHANGED <<mail, now, reports, sources, tasks, ruf, faults>>
  BY ReportCardinality DEF Book!countRuf, Book!goTo
<1>2. accepted => Accepts(m) /\ Cardinality(Book!recentRuf) < RufLimit
  BY DEF Accepts
<1>3. where \in {"counted", "passed"} /\ (where = "counted" <=> accepted)
  OBVIOUS
<1>4. /\ IsFiniteSet(Book!recentRuf) /\ IsFiniteSet(Book!waiting)
      /\ Cardinality(Book!waiting) \in Nat /\ Cardinality(Book!recentRuf) \in Nat
  BY Finite
<1>. HIDE DEF accepted, where
<1>5. StoreInv'
  <2>1. where \in Where /\ where # "diverted" /\ faults' \in 0 .. MaxMisses
    BY <1>1, <1>3 DEF Where, StoreInv
  <2>2. ruf' = ruf /\ \A r \in ruf : r.id \in Book!Messages /\ r.at \in 0 .. now
    BY <1>1 DEF StoreInv
  <2>. QED BY <1>1, <2>1, <2>2, StoreMoves
<1>6. CASE ~accepted
  <2>1. ghost' = ghost /\ where = "passed"
    BY <1>1, <1>3, <1>6
  <2>2. Book!waiting' = Book!waiting
    BY <1>1, <2>1, StillWaiting
  <2>3. SourceInv'
    BY <1>1, <2>1 DEF SourceInv, Book!SourcesKept, Book!rowOf, Overlap, TaskFits, Book!Messages
  <2>. QED BY <1>1, <1>5, <2>1, <2>2, <2>3, RufSame
<1>7. CASE accepted
  <2>1. ghost' = [ghost EXCEPT !.together = most]
    BY <1>1, <1>7
  <2>2. ghost.together \in Nat /\ RufLimit \in Nat /\ Cardinality(Book!recentRuf) < RufLimit
    BY <1>2, <1>7 DEF RufInv, ReportConstants
  <2>3. most \in Int /\ most >= Cardinality(Book!waiting) + 1
    <3>1. ghost.together \in Int /\ Cardinality(Book!waiting) + 1 \in Int
      BY <1>4, <2>2
    <3>. QED BY <3>1, MaxOfTwo
  <2>. HIDE DEF most
  <2>4. SourceInv' /\ ghost'.together = most
    BY <1>1, <2>1, SameSources
  <2>5. Book!Max({0, most - 1}) \in Int /\ Book!Max({0, most - 1}) >= most - 1
    BY <2>3, MaxOfTwo
  <2>6. pc'[m] = "counted"
        /\ (\A o \in Book!Messages : o # m => pc'[o] = pc[o]) /\ Book!Messages' = Book!Messages
    BY <1>1, <1>3, <1>7 DEF StoreInv, Book!Messages
  <2>7. Book!waiting' = Book!waiting \cup {m} /\ m \notin Book!waiting
    BY <1>1, <2>6 DEF Book!waiting
  <2>8. Cardinality(Book!waiting \cup {m}) = Cardinality(Book!waiting) + 1
    BY <1>4, <2>7, FS_AddElement
  <2>9. Book!recentRuf' = Book!recentRuf
    BY <1>1 DEF Book!recentRuf
  <2>10. Cardinality(Book!recentRuf) + Cardinality(Book!waiting \cup {m})
           <= RufLimit + Book!Max({0, most - 1})
    BY <1>4, <2>2, <2>3, <2>5, <2>8
  <2>11. (Cardinality(Book!recentRuf) + Cardinality(Book!waiting) <= RufLimit + Book!Max({0,
           ghost.together - 1}))'
    BY <2>4, <2>7, <2>9, <2>10
  <2>12. \A o : Accepts(o)' <=> Accepts(o)
    BY <1>1 DEF Accepts
  <2>13. \A o \in Book!waiting' : Accepts(o)'
    BY <1>2, <1>7, <2>7, <2>12 DEF RufInv
  <2>14. most \in Nat
    BY <1>4, <2>3
  <2>15. \A r \in ruf' : Accepts(r.id)'
           /\ r.row = Book!parseDmarcRuf(mail'[r.id].files, mail'[r.id].ruf.retain)
    BY <1>1, <2>12 DEF RufInv
  <2>16. RufInv'
    BY <1>1, <2>4, <2>11, <2>13, <2>14, <2>15 DEF RufInv
  <2>. QED BY <1>5, <2>4, <2>16
<1>. QED BY <1>6, <1>7

LEMMA InsertKeeps == ASSUME ReportConstants, StoreInv, SourceInv, RufInv, NEW m \in Book!Messages,
  Book!insertDmarcRufRecord(m)
  PROVE  StoreInv' /\ SourceInv' /\ RufInv'
<1>. DEFINE new == [id |-> m, at |-> now, row |-> Book!parseDmarcRuf(mail[m].files, mail[m].ruf.retain)]
<1>1. pc[m] = "counted" /\ UNCHANGED <<mail, now, reports, sources, tasks, ghost>>
  BY DEF Book!insertDmarcRufRecord
<1>2. PICK where \in {"diverted", "passed"} :
        /\ pc' = [pc EXCEPT ![m] = where]
        /\ ruf' = ruf \/ ruf' = ruf \cup {new}
        /\ where = "diverted" => ruf' = ruf \cup {new}
        /\ faults' = faults \/ Book!fault
  BY DEF Book!insertDmarcRufRecord, Book!goTo
<1>3. new.id = m /\ new.at = now /\ new.row = Book!parseDmarcRuf(mail[m].files, mail[m].ruf.retain)
  OBVIOUS
<1>. HIDE DEF new
<1>4. now \in 0 .. now /\ faults' \in 0 .. MaxMisses
  BY <1>2 DEF StoreInv, Book!fault, ReportConstants
<1>5. /\ IsFiniteSet(Book!recentRuf) /\ IsFiniteSet(Book!waiting)
      /\ Cardinality(Book!waiting) \in Nat /\ Cardinality(Book!recentRuf) \in Nat
  BY Finite
<1>6. SourceInv'
  BY <1>1 DEF SourceInv, Book!SourcesKept, Book!rowOf, Overlap, TaskFits, Book!Messages
<1>7. StoreInv'
  <2>1. \A r \in ruf' : r.id \in Book!Messages /\ r.at \in 0 .. now
    BY <1>2, <1>3, <1>4 DEF StoreInv
  <2>2. where = "diverted" => \E r \in ruf' : r.id = m
    BY <1>2, <1>3
  <2>3. ruf \subseteq ruf' /\ where \in Where
    BY <1>2 DEF Where
  <2>. QED BY <1>1, <1>2, <1>4, <2>1, <2>2, <2>3, StoreMoves
<1>8. \A o : Accepts(o)' <=> Accepts(o)
  BY <1>1 DEF Accepts
<1>9. pc'[m] = where /\ (\A o \in Book!Messages : o # m =>
        pc'[o] = pc[o]) /\ Book!Messages' = Book!Messages
  BY <1>1, <1>2 DEF StoreInv, Book!Messages
<1>10. Book!waiting' = Book!waiting \ {m} /\ m \in Book!waiting
  BY <1>1, <1>2, <1>9 DEF Book!waiting
<1>11. Cardinality(Book!waiting \ {m}) = Cardinality(Book!waiting) - 1
  BY <1>5, <1>10, FS_RemoveElement
<1>12. Cardinality(Book!recentRuf') \in Nat
         /\ Cardinality(Book!recentRuf') <= Cardinality(Book!recentRuf) + 1
  <2>1. Book!recentRuf' = Book!recentRuf \/ Book!recentRuf' = Book!recentRuf \cup {new}
    <3>1. Book!recentRuf' = {r \in ruf' : r.at >= now - Window}
      BY <1>1 DEF Book!recentRuf
    <3>2. CASE ruf' = ruf
      BY <3>1, <3>2 DEF Book!recentRuf
    <3>3. CASE ruf' = ruf \cup {new}
      BY <3>1, <3>3 DEF Book!recentRuf
    <3>. QED BY <1>2, <3>2, <3>3
  <2>2. Cardinality(Book!recentRuf \cup {new}) \in {Cardinality(Book!recentRuf),
          Cardinality(Book!recentRuf) + 1}
    BY <1>5, FS_AddElement
  <2>3. Cardinality(Book!recentRuf') \in {Cardinality(Book!recentRuf), Cardinality(Book!recentRuf) + 1}
    BY <2>1, <2>2
  <2>. QED BY <1>5, <2>3
<1>13. Book!Max({0, ghost.together - 1}) \in Int /\ RufLimit \in Nat
  <2>1. ghost.together \in Nat /\ RufLimit \in Nat
    BY DEF RufInv, ReportConstants
  <2>2. ghost.together - 1 \in Int /\ 0 \in Int
    BY <2>1
  <2>. QED BY <2>1, <2>2, MaxOfTwo
<1>14. Cardinality(Book!recentRuf) + Cardinality(Book!waiting) <= RufLimit + Book!Max({0,
         ghost.together - 1})
  BY DEF RufInv
<1>15. Cardinality(Book!recentRuf') + Cardinality(Book!waiting \ {m}) <= RufLimit + Book!Max({0,
         ghost.together - 1})
  BY <1>5, <1>11, <1>12, <1>13, <1>14
<1>16. (Cardinality(Book!recentRuf) + Cardinality(Book!waiting) <= RufLimit + Book!Max({0,
         ghost.together - 1}))'
  BY <1>1, <1>10, <1>15
<1>17. \A o \in Book!waiting' : Accepts(o)'
  BY <1>8, <1>10 DEF RufInv
<1>18. Accepts(m)
  BY <1>10 DEF RufInv
<1>19. \A r \in ruf' : Accepts(r.id)'
         /\ r.row = Book!parseDmarcRuf(mail'[r.id].files, mail'[r.id].ruf.retain)
  <2>1. \A r \in ruf' : Accepts(r.id)
          /\ r.row = Book!parseDmarcRuf(mail[r.id].files, mail[r.id].ruf.retain)
    BY <1>2, <1>3, <1>18 DEF RufInv
  <2>. QED BY <1>1, <1>8, <2>1
<1>20. IsFiniteSet(ruf')
  BY <1>2, FS_AddElement DEF RufInv
<1>21. RufInv'
  BY <1>1, <1>16, <1>17, <1>19, <1>20 DEF RufInv
<1>. QED BY <1>6, <1>7, <1>21

(* ------------------------------------------------------------- every step *)

LEMMA DmarcStep == ASSUME ReportConstants, StoreInv, SourceInv, RufInv, NEW m \in Book!Messages,
  Book!ingestDmarcReport(m)
  PROVE  StoreInv' /\ SourceInv' /\ RufInv'
<1>. DEFINE report == IF Book!isDmarcReport(mail[m]) THEN Book!dmarcOf(mail[m]) ELSE None
<1>1. pc[m] = "new" /\ UNCHANGED <<mail, sources, ghost>> /\ Tried(m, "dmarc", "tls", report)
  BY DmarcTried
<1>2. report # None => report = Book!dmarcOf(mail[m])
  OBVIOUS
<1>. HIDE DEF report
<1>3. StoreInv'
  BY <1>1, <1>2, TriedKeeps
<1>4. SourceInv'
  <2>1. CASE tasks' = tasks
    BY <1>1, <2>1 DEF SourceInv, Book!SourcesKept, Book!rowOf, Overlap, TaskFits, Book!Messages
  <2>2. CASE tasks' # tasks
    <3>1. Book!dmarcOf(mail[m]) # None
          /\ tasks' = [tasks EXCEPT ![m] =
               [todo |-> Book!getNewDmarcSourceIps(Book!dmarcOf(mail[m])),
                 all |-> Book!ipsOf(Book!dmarcOf(mail[m])),
                had |-> None, geo |-> {}]]
      BY <2>2, DmarcTried
    <3>. QED BY <1>1, <3>1, DmarcKeeps
  <2>. QED BY <2>1, <2>2
<1>5. RufInv'
  <2>1. PICK where \in {"tls", "diverted"} : pc' = [pc EXCEPT ![m] = where]
          /\ UNCHANGED <<mail, now, ruf>>
    BY <1>1 DEF Tried
  <2>2. Book!waiting' = Book!waiting
    BY <1>1, <2>1, StillWaiting
  <2>. QED BY <1>1, <2>1, <2>2, RufSame
<1>. QED BY <1>3, <1>4, <1>5

LEMMA TlsStep == ASSUME ReportConstants, StoreInv, SourceInv, RufInv, NEW m \in Book!Messages,
  Book!ingestTlsRptReport(m)
  PROVE  StoreInv' /\ SourceInv' /\ RufInv'
<1>. DEFINE report == IF Book!isTlsRptReport(mail[m]) THEN Book!tlsOf(mail[m]) ELSE None
<1>1. pc[m] = "tls" /\ UNCHANGED <<mail, sources, tasks, ghost>> /\ Tried(m, "tls", "ruf", report)
  BY TlsTried
<1>2. report # None => report = Book!tlsOf(mail[m])
  OBVIOUS
<1>. HIDE DEF report
<1>3. StoreInv'
  BY <1>1, <1>2, TriedKeeps
<1>4. SourceInv'
  BY <1>1 DEF SourceInv, Book!SourcesKept, Book!rowOf, Overlap, TaskFits, Book!Messages
<1>5. RufInv'
  <2>1. PICK where \in {"ruf", "diverted"} : pc' = [pc EXCEPT ![m] = where]
          /\ UNCHANGED <<mail, now, ruf>>
    BY <1>1 DEF Tried
  <2>2. Book!waiting' = Book!waiting
    BY <1>1, <2>1, StillWaiting
  <2>. QED BY <1>1, <2>1, <2>2, RufSame
<1>. QED BY <1>3, <1>4, <1>5

\* An enrichment, its end, or a user's mark: nothing that is stored changes.
LEMMA BesideStep ==
  ASSUME ReportConstants, StoreInv, SourceInv, RufInv, SourceInv', ghost'.together = ghost.together,
         UNCHANGED <<mail, pc, now, reports, ruf>>, faults' = faults \/ Book!fault
  PROVE  StoreInv' /\ SourceInv' /\ RufInv'
<1>1. faults' \in 0 .. MaxMisses
  BY DEF StoreInv, Book!fault, ReportConstants
<1>2. Book!waiting' = Book!waiting
  BY DEF Book!waiting, Book!Messages
<1>. QED BY <1>1, <1>2, StoreSame, RufSame

LEMMA EvictKeeps == ASSUME SourceInv, NEW m \in Book!Messages, Book!evict(m) PROVE SourceInv'
<1>1. UNCHANGED <<mail, sources, ghost>> /\ tasks' = [tasks EXCEPT ![m] = None]
  BY DEF Book!evict
<1>. QED BY <1>1, TasksKeep

LEMMA ReportStep == ASSUME ReportConstants, StoreInv, SourceInv, RufInv, [Book!Next]_(Book!vars)
  PROVE  StoreInv' /\ SourceInv' /\ RufInv'
<1>1. CASE Book!Tick
  <2>1. SourceInv'
    BY <1>1 DEF Book!Tick, SourceInv, Book!SourcesKept, Book!rowOf, Overlap, TaskFits, Book!Messages
  <2>. QED BY <1>1, <2>1, TickStores, TickRuf
<1>2. ASSUME NEW m \in Book!Messages, Book!ingestDmarcReport(m) PROVE StoreInv' /\ SourceInv' /\ RufInv'
  BY <1>2, DmarcStep
<1>3. ASSUME NEW m \in Book!Messages, Book!ingestTlsRptReport(m)
      PROVE StoreInv' /\ SourceInv' /\ RufInv'
  BY <1>3, TlsStep
<1>4. ASSUME NEW m \in Book!Messages, Book!countRuf(m) PROVE StoreInv' /\ SourceInv' /\ RufInv'
  BY <1>4, CountKeeps
<1>5. ASSUME NEW m \in Book!Messages, Book!insertDmarcRufRecord(m)
      PROVE StoreInv' /\ SourceInv' /\ RufInv'
  BY <1>5, InsertKeeps
<1>6. ASSUME NEW m \in Book!Messages, Book!enrichDmarcSources(m)
      PROVE StoreInv' /\ SourceInv' /\ RufInv'
  <2>1. UNCHANGED <<mail, pc, now, reports, ruf>> /\ faults' = faults
    BY <1>6 DEF Book!enrichDmarcSources
  <2>. QED BY <1>6, <2>1, NamedKeeps, BesideStep
<1>7. ASSUME NEW m \in Book!Messages, Book!startGeo(m) PROVE StoreInv' /\ SourceInv' /\ RufInv'
  <2>1. UNCHANGED <<mail, pc, now, reports, ruf>> /\ faults' = faults
    BY <1>7 DEF Book!startGeo
  <2>. QED BY <1>7, <2>1, GeoStarts, BesideStep
<1>8. ASSUME NEW m \in Book!Messages, NEW ip \in Book!Addresses, Book!enrichDmarcSourcesGeo(m, ip)
      PROVE  StoreInv' /\ SourceInv' /\ RufInv'
  <2>1. UNCHANGED <<mail, pc, now, reports, ruf>> /\ faults' = faults
    BY <1>8 DEF Book!enrichDmarcSourcesGeo
  <2>. QED BY <1>8, <2>1, PlacedKeeps, BesideStep
<1>9. ASSUME NEW m \in Book!Messages, Book!evict(m) PROVE StoreInv' /\ SourceInv' /\ RufInv'
  <2>1. UNCHANGED <<mail, pc, now, reports, ruf, ghost>> /\ Book!fault
    BY <1>9 DEF Book!evict
  <2>. QED BY <1>9, <2>1, EvictKeeps, BesideStep
<1>10. ASSUME NEW ip \in Book!Addresses, NEW to \in BOOLEAN, Book!setSourceLegitimate(ip, to)
       PROVE  StoreInv' /\ SourceInv' /\ RufInv'
  <2>1. UNCHANGED <<mail, pc, now, reports, ruf>> /\ faults' = faults
    BY <1>10 DEF Book!setSourceLegitimate
  <2>. QED BY <1>10, <2>1, MarkedKeeps, BesideStep
<1>11. CASE UNCHANGED Book!vars
  <2>1. SourceInv'
    BY <1>11 DEF Book!vars, SourceInv, Book!SourcesKept, Book!rowOf, Overlap, TaskFits,
        Book!Messages
  <2>. QED BY <1>11, <2>1, BesideStep DEF Book!vars
<1>. QED BY <1>1, <1>2, <1>3, <1>4, <1>5, <1>6, <1>7, <1>8, <1>9, <1>10, <1>11 DEF Book!Next

LEMMA ReportStart == ASSUME ReportConstants, Book!Init PROVE StoreInv /\ SourceInv /\ RufInv
<1>1. /\ mail \in Inboxes /\ pc = [m \in Book!Messages |-> "new"] /\ now = 0 /\ reports = {}
           /\ sources = << >>
      /\ ruf = {} /\ faults = 0 /\ tasks = [m \in Book!Messages |-> None]
      /\ ghost = [named |-> {}, placed |-> {}, lapped |-> {}, marked |-> {}, together |-> 0]
  BY DEF Book!Init
<1>2. StoreInv
  <2>1. MaxTime \in Nat /\ MaxMisses \in Nat
    BY DEF ReportConstants
  <2>. QED BY <1>1, <2>1 DEF StoreInv, Where, Book!DivertedIsStored
<1>3. SourceInv
  <2>1. DOMAIN sources = {}
    BY <1>1
  <2>2. \A ip : Book!rowOf(ip) = [label |-> None, legitimate |-> FALSE, asn |-> None]
    BY <2>1 DEF Book!rowOf, Book!blankSource
  <2>3. ghost.named = {} /\ ghost.placed = {} /\ ghost.lapped = {} /\ ghost.marked = {}
          /\ ghost.together = 0
    BY <1>1
  <2>4. Book!SourcesKept
    BY <2>2, <2>3 DEF Book!SourcesKept
  <2>5. ghost = [named |-> ghost.named, placed |-> ghost.placed, lapped |-> ghost.lapped,
                 marked |-> ghost.marked, together |-> ghost.together]
    BY <1>1
  <2>6. DOMAIN tasks = Book!Messages /\ \A m \in Book!Messages : tasks[m] = None
    BY <1>1
  <2>. QED BY <2>1, <2>4, <2>5, <2>6 DEF SourceInv, Overlap
<1>4. RufInv
  <2>1. Book!waiting = {} /\ Book!recentRuf = {} /\ ghost.together = 0 /\ IsFiniteSet(ruf)
    BY <1>1, FS_EmptySet DEF Book!waiting, Book!recentRuf
  <2>2. Cardinality(Book!waiting) = 0 /\ Cardinality(Book!recentRuf) = 0
    BY <2>1, FS_EmptySet
  <2>3. 0 \in Int /\ ghost.together - 1 \in Int /\ RufLimit \in Nat
    BY <2>1 DEF ReportConstants
  <2>4. Book!Max({0, ghost.together - 1}) \in Int /\ Book!Max({0, ghost.together - 1}) >= 0
    BY <2>3, MaxOfTwo
  <2>5. Cardinality(Book!recentRuf) + Cardinality(Book!waiting) <= RufLimit + Book!Max({0,
          ghost.together - 1})
    BY <2>2, <2>3, <2>4
  <2>. QED BY <1>1, <2>1, <2>5 DEF RufInv
<1>. QED BY <1>2, <1>3, <1>4

(* ------------------------------------------------------------- the result *)

LEMMA Smallest ==
  ASSUME NEW T \in SUBSET Nat, T # {}
  PROVE  \E x \in T : \A y \in T : x <= y
<1> DEFINE R == OpToRel(<, Nat)
<1>1. \A x, y \in Nat : x < y => <<x, y>> \in R
  BY DEF OpToRel
<1>2. IsWellFoundedOn(R, Nat)
  BY NatLessThanWellFounded
<1> HIDE DEF R
<1>3. PICK x \in T : \A y \in T : ~(<<y, x>> \in R)
  BY <1>2, WFMin
<1>4. ASSUME NEW y \in T PROVE x <= y
  <2>1. x \in Nat /\ y \in Nat
    OBVIOUS
  <2>2. ~(y < x)
    BY <1>1, <1>3, <2>1
  <2> QED BY <2>1, <2>2
<1> QED BY <1>4

\* A part of the message with that type, the first there is.
PartsOf(files, mime) == {i \in DOMAIN files : files[i].mime = mime /\ files[i].body # None}
LEMMA FirstPart == ASSUME NEW files, DOMAIN files \subseteq Nat, NEW mime, PartsOf(files, mime) # {}
  PROVE  Book!Min(PartsOf(files, mime)) \in PartsOf(files, mime)
<1>1. PartsOf(files, mime) \in SUBSET Nat
  BY DEF PartsOf
<1>2. \E x \in PartsOf(files, mime) : \A y \in PartsOf(files, mime) : x <= y
  BY <1>1, Smallest
<1>. QED BY <1>2 DEF Book!Min

LEMMA Redacted ==
  ASSUME NEW lines, \A k \in DOMAIN lines : isLine(lines[k]),
           NEW i \in DOMAIN Book!redactHeaders(lines),
         Book!redactHeaders(lines)[i].name \in Book!Personal
  PROVE  Book!redactHeaders(lines)[i].text = "redacted"
<1>1. i \in DOMAIN lines /\ Book!redactHeaders(lines)[i] =
        (IF lines[i].name \in Book!Personal THEN [lines[i] EXCEPT !.text = "redacted"] ELSE lines[i])
  BY DEF Book!redactHeaders
<1>2. CASE lines[i].name \in Book!Personal
  <2>1. lines[i] = [name |-> lines[i].name, text |-> lines[i].text]
    BY <1>1 DEF isLine
  <2>2. Book!redactHeaders(lines)[i] = [name |-> lines[i].name, text |-> "redacted"]
    BY <1>1, <1>2, <2>1
  <2>. QED BY <2>2
<1>3. CASE lines[i].name \notin Book!Personal
  BY <1>1, <1>3
<1>. QED BY <1>2, <1>3

LEMMA HeadersKept ==
  ASSUME NEW files, DOMAIN files \subseteq Nat,
         \A i \in DOMAIN files : files[i].mime = "rfc822" /\ files[i].body # None =>
           \A k \in DOMAIN files[i].body.doc : isLine(files[i].body.doc[k]),
         NEW retain, Book!parseDmarcRuf(files, retain) # None, Book!parseDmarcRuf(files,
           retain).headers # None
  PROVE  /\ retain
         /\ \A i \in DOMAIN Book!parseDmarcRuf(files, retain).headers :
              Book!parseDmarcRuf(files, retain).headers[i].name \in Book!Personal =>
                Book!parseDmarcRuf(files, retain).headers[i].text = "redacted"
<1>. DEFINE lines == files[Book!Min(PartsOf(files, "rfc822"))].body.doc
<1>1. Book!parseDmarcRuf(files, retain) =
        [fields |-> files[Book!Min(PartsOf(files, "feedback"))].body.doc,
         headers |-> IF ~retain \/ PartsOf(files, "rfc822") =
           {} THEN None ELSE Book!redactHeaders(lines)]
  BY DEF Book!parseDmarcRuf, PartsOf
<1>2. Book!parseDmarcRuf(files, retain).headers =
        IF ~retain \/ PartsOf(files, "rfc822") = {} THEN None ELSE Book!redactHeaders(lines)
  BY <1>1
<1>3. retain /\ PartsOf(files, "rfc822") # {}
        /\ Book!parseDmarcRuf(files, retain).headers = Book!redactHeaders(lines)
  BY <1>2
<1>4. Book!Min(PartsOf(files, "rfc822")) \in PartsOf(files, "rfc822")
  BY <1>3, FirstPart
<1>5. \A k \in DOMAIN lines : isLine(lines[k])
  BY <1>4 DEF PartsOf
<1>. HIDE DEF lines
<1>. QED BY <1>3, <1>5, Redacted

LEMMA ReportImplied == ASSUME ReportConstants, StoreInv, SourceInv, RufInv
  PROVE  Book!TypeOK /\ Book!DivertedIsStored /\ Book!SourcesKept /\ Book!RufBounded
<1>1. Book!TypeOK
  BY DEF StoreInv, SourceInv, Book!TypeOK, Where
<1>2. Book!RufBounded
  <2>1. Cardinality(Book!recentRuf) + Cardinality(Book!waiting) <= RufLimit + Book!Max({0,
          ghost.together - 1})
    BY DEF RufInv
  <2>2. ASSUME NEW r \in ruf
        PROVE  /\ mail[r.id].ruf.enabled /\ (r.row.headers # None => mail[r.id].ruf.retain)
               /\ r.row.headers # None => \A i \in DOMAIN r.row.headers :
                    r.row.headers[i].name \in Book!Personal => r.row.headers[i].text = "redacted"
    <3>1. r.id \in DOMAIN mail /\ mail \in Inboxes
      BY DEF StoreInv, Book!Messages
    <3>2. /\ DOMAIN mail[r.id].files \subseteq Nat
          /\ \A i \in DOMAIN mail[r.id].files :
               mail[r.id].files[i].mime = "rfc822" /\ mail[r.id].files[i].body # None =>
                 \A k \in DOMAIN mail[r.id].files[i].body.doc : isLine(mail[r.id].files[i].body.doc[k])
      BY <3>1 DEF ReportConstants
    <3>3. /\ mail[r.id].ruf.enabled /\ Book!parseDmarcRuf(mail[r.id].files,
               mail[r.id].ruf.retain) # None
          /\ r.row = Book!parseDmarcRuf(mail[r.id].files, mail[r.id].ruf.retain)
      BY DEF RufInv, Accepts
    <3>. QED BY <3>2, <3>3, HeadersKept
  <2>. QED BY <2>1, <2>2, ReportCardinality DEF Book!RufBounded
<1>. QED BY <1>1, <1>2 DEF StoreInv, SourceInv

\* Any mail interleaved with enrichments, evictions, marks and failures: what is
\* kept from the security pipeline is stored whole, a source's row tells what was
\* looked up and marked, and the failure reports of a window stay within their limit,
\* with the personal headers redacted.
THEOREM ReportsStayKept ==
  ASSUME ReportConstants
  PROVE  Book!Spec => [](Book!TypeOK /\ Book!DivertedIsStored /\ Book!SourcesKept /\ Book!RufBounded)
<1>1. Book!Init => StoreInv /\ SourceInv /\ RufInv
  BY ReportStart
<1>2. (StoreInv /\ SourceInv /\ RufInv) /\ [Book!Next]_(Book!vars) => (StoreInv /\ SourceInv /\ RufInv)'
  BY ReportStep
<1>3. StoreInv /\ SourceInv /\ RufInv =>
        Book!TypeOK /\ Book!DivertedIsStored /\ Book!SourcesKept /\ Book!RufBounded
  BY ReportImplied
<1>. QED BY <1>1, <1>2, <1>3, PTL DEF Book!Spec

=============================================================================
