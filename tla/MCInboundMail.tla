--------------------------- MODULE MCInboundMail ---------------------------
(***************************************************************************)
(* Small instances of InboundMail: one message delivered at most twice,    *)
(* the settings and facts that lead to different steps, default thresholds.*)
(***************************************************************************)
EXTENDS InboundMail

Plain == [rule |-> "none", report |-> FALSE, mergeable |-> TRUE, attached |-> 2]
Blocked == [Plain EXCEPT !.rule = "drop"]
Spammed == [Plain EXCEPT !.rule = "spam", !.attached = 0]
Report == [Plain EXCEPT !.report = TRUE]

Defaults == [honeypot |-> FALSE, sidecar |-> FALSE, autoDraft |-> TRUE,
             yara |-> FALSE, gateway |-> FALSE, enabled |-> FALSE,
             learning |-> FALSE, demote |-> FALSE, intelBlock |-> TRUE,
             trustAllow |-> TRUE]
Gateway == [Defaults EXCEPT !.enabled = TRUE, !.yara = TRUE, !.gateway = TRUE]
Yara == [Defaults EXCEPT !.enabled = TRUE, !.yara = TRUE]
Learning == [Defaults EXCEPT !.enabled = TRUE, !.learning = TRUE]
Honeypot == [Gateway EXCEPT !.honeypot = TRUE]
Sidecar == [Defaults EXCEPT !.sidecar = TRUE]

\* DEFAULT_RELAY_ACTIONS.
HoldAndDrop == [a \in Actions |->
    CASE a = "quarantine" -> "hold" [] a = "block" -> "drop" [] OTHER -> "relay"]

Clean == [folder |-> "none", flagged |-> FALSE, intel |-> "none", derivedFeeds |-> 0,
          badAttachment |-> FALSE, dmarcPass |-> TRUE, identified |-> TRUE,
          allowlisted |-> FALSE, history |-> FALSE, aggregate |-> 0,
          boosts |-> 0, confident |-> TRUE]
Doubtful == [Clean EXCEPT !.aggregate = 25]
Suspect == [Clean EXCEPT !.aggregate = 35, !.intel = "derived", !.derivedFeeds = 2]
Confirmed == [Clean EXCEPT !.intel = "confirmed"]
Hopeless == [Clean EXCEPT !.aggregate = 95, !.boosts = 35]

OneMessage == {"m1"}
SomeMails == {Report, Blocked, Spammed}
OneMail == {Plain}
Unattached == {[Plain EXCEPT !.attached = 0]}
SomeMailboxes == {Gateway, Learning, Honeypot, Sidecar}
OneGateway == {Gateway}
OneLearning == {Learning}
OneYara == {Yara}
OneFact == {Doubtful}
SomeFacts == {Doubtful, Suspect}
AllFacts == {Doubtful, Suspect, Confirmed, Hopeless}
SomeAdded == {15, 40}
NoneOrMuch == {0, 40}
SomeYara == {30}
AllFaults == Calls
NoFaults == {}
RetryFaults == {"create", "smtpTransient", "mark", "crash"}
AnyFolder == Folders
InboxOnly == {"inbox"}
=============================================================================
