------------------------------ MODULE Compose ------------------------------
(***************************************************************************)
(* The composer of the web client: the fields a user edits, the delayed    *)
(* risk preview that follows them, and the send that steps up at the tier  *)
(* the preview shows, against the server that decides the tier itself.     *)
(***************************************************************************)
EXTENDS Naturals

CONSTANTS
  Recipients,   \* what To may hold
  Nobody,       \* of these, the empty To
  Texts,        \* subject and body
  Preview,      \* [Recipients \X Texts -> tier] the preflight answers
  Required,     \* [Recipients \X Texts -> tier] the send gate asks for
  None,
  MaxEdits, MaxCalls   \* bounds: edits, and previews and sends begun

VARIABLES
  fields,      \* <<to, text>> in the form
  phrase,      \* the recipient the user typed to confirm, or Nobody
  timer,       \* whether a preview is due
  seq,         \* preflightSeqRef
  previews,    \* previews under way: [seq, fields]
  shown,       \* preflight: None, or its tier and the fields it is about
  send,        \* the send under way, or None
  sent,        \* messages that left: [fields, typed]
  edits, calls

vars == <<fields, phrase, timer, seq, previews, shown, send, sent, edits, calls>>

Fields == Recipients \X Texts
Tiers == 0 .. 2

TypeOK ==
  /\ fields \in Fields /\ phrase \in Recipients /\ timer \in BOOLEAN
  /\ seq \in 0 .. MaxCalls
  /\ previews \subseteq [seq : 1 .. MaxCalls, fields : Fields]
  /\ shown = None \/ shown \in [tier : Tiers, fields : Fields, by : {"preview", "gate"}]
  /\ send = None \/ send \in [pc : {"confirm", "post"}, fields : Fields, tier : Tiers, typed : BOOLEAN]
  /\ sent \subseteq [fields : Fields, typed : BOOLEAN]

Init ==
  /\ fields \in Fields /\ fields[1] = Nobody
  /\ phrase = Nobody /\ timer = FALSE /\ seq = 0 /\ previews = {}
  /\ shown = None /\ send = None /\ sent = {}
  /\ edits = 0 /\ calls = 0

(* --------------------------------------------------------------- editing --- *)

\* Every edit restarts the timer; an empty To clears the preview instead.
edit(f) ==
  /\ edits < MaxEdits /\ f # fields
  /\ fields' = f /\ edits' = edits + 1
  /\ IF f[1] = Nobody THEN timer' = FALSE /\ shown' = None
                  ELSE timer' = TRUE /\ UNCHANGED shown
  /\ UNCHANGED <<phrase, seq, previews, send, sent, calls>>

typePhrase(p) ==
  /\ p # phrase /\ phrase' = p
  /\ UNCHANGED <<fields, timer, seq, previews, shown, send, sent, edits, calls>>

\* startCompose with other options: the fields are initialised anew; the
\* preview's effect runs only if that changed them.
reopen(f) ==
  /\ edits < MaxEdits /\ send = None
  /\ fields' = f /\ phrase' = Nobody /\ shown' = None
  /\ timer' = IF f = fields THEN timer ELSE f[1] # Nobody
  /\ edits' = edits + 1
  /\ UNCHANGED <<seq, previews, send, sent, calls>>

(* --------------------------------------------------------------- preview --- *)

preview(f) == [tier |-> Preview[f], fields |-> f, by |-> "preview"]

firePreview ==
  /\ timer /\ calls < MaxCalls
  /\ timer' = FALSE /\ calls' = calls + 1
  /\ seq' = seq + 1
  /\ previews' = previews \cup {[seq |-> seq + 1, fields |-> fields]}
  /\ UNCHANGED <<fields, phrase, shown, send, sent, edits>>

\* Only the latest preview begun sets what is shown; a failed one shows none.
previewAnswers(p) ==
  /\ p \in previews /\ previews' = previews \ {p}
  /\ IF p.seq = seq
       THEN \E s \in {None, preview(p.fields)} : shown' = s
       ELSE UNCHANGED shown
  /\ UNCHANGED <<fields, phrase, timer, seq, send, sent, edits, calls>>

(* --------------------------------------------------------------- sending --- *)

\* handleSend: tier 2 wants the first recipient typed; tier 1 and 2 step up
\* for exactly the fields as they are now.
handleSend ==
  /\ send = None /\ fields[1] # Nobody /\ calls < MaxCalls
  /\ LET tier == IF shown = None THEN 0 ELSE shown.tier
     IN /\ tier = 2 => phrase = fields[1]
        /\ send' = [pc |-> IF tier = 0 THEN "post" ELSE "confirm", fields |-> fields,
                    tier |-> tier, typed |-> tier = 2]
  /\ calls' = calls + 1
  /\ UNCHANGED <<fields, phrase, timer, seq, previews, shown, sent, edits>>

\* The assertion yields a token for these fields at this tier, or an error.
confirm ==
  /\ send # None /\ send.pc = "confirm"
  /\ \E s \in {None, [send EXCEPT !.pc = "post"]} : send' = s
  /\ UNCHANGED <<fields, phrase, timer, seq, previews, shown, sent, edits, calls>>

\* The server sends what was confirmed at the tier it requires; otherwise it
\* answers with that tier, which the composer adopts for the next attempt.
post ==
  /\ send # None /\ send.pc = "post"
  /\ IF send.tier >= Required[send.fields]
       THEN /\ sent' = sent \cup {[fields |-> send.fields, typed |-> send.typed]}
            /\ UNCHANGED shown
       ELSE /\ shown' = [tier |-> Required[send.fields], fields |-> send.fields, by |-> "gate"]
            /\ UNCHANGED sent
  /\ send' = None
  /\ UNCHANGED <<fields, phrase, timer, seq, previews, edits, calls>>

Next ==
  \/ \E f \in Fields : edit(f) \/ reopen(f)
  \/ \E p \in Recipients : typePhrase(p)
  \/ firePreview \/ \E p \in previews : previewAnswers(p)
  \/ handleSend \/ confirm \/ post

Spec == Init /\ [][Next]_vars

(* ------------------------------------------------------------- properties --- *)

\* useComposeForm.ts:266: a slow earlier preview must not overwrite a newer
\* one.  Once no preview is due or under way, what is shown for a message that
\* has a recipient is about the fields as they stand, or is the tier the send
\* gate asked for, or nothing.
PreviewIsCurrent ==
  (~timer /\ previews = {} /\ fields[1] # Nobody /\ shown # None) =>
    shown = preview(fields) \/ shown.by = "gate"

\* No message the gate puts at tier 2 leaves unless its first recipient was
\* typed at the click that sent it, although the preview may be stale, missing
\* or more lenient than the gate and the fields may change while sending.
TierTwoWasTyped == \A m \in sent : Required[m.fields] = 2 => m.typed
=============================================================================
