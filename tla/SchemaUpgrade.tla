---------------------------- MODULE SchemaUpgrade ----------------------------
(***************************************************************************)
(* The database of one Durable Object over the releases it lives through:  *)
(* the ordered migrations of durableObject/migrations.ts, run by the       *)
(* constructor at every start, each with the row that records it in one    *)
(* transaction.  Between two starts the release in use writes rows that a  *)
(* later migration finds: folders of the user, mail in Sent.               *)
(***************************************************************************)
EXTENDS Naturals, Sequences, FiniteSets, TLC, SequencesExt, FiniteSetsExt

CONSTANTS
  Kind,      \* "mailbox" or "catchall": which list of migrations
  Releases,  \* lengths of the list in the releases deployed
  Names,     \* names a user gives to a folder
  Slug,      \* slugify: [Names -> folder id]
  Mail,      \* [message -> the addresses of its recipient, cc and bcc fields]
  None,
  MaxDeaths  \* bound: starts that die

VARIABLES
  release,  \* the number of migrations the deployed code has
  db,       \* what is stored: tables, indexes, folders, emails, graph, applied
  up,       \* "down", "starting", "ready", or "refused" after a throw
  saved,    \* the database when this start began
  deaths

vars == <<release, db, up, saved, deaths>>

Addresses == UNION {ToSet(Mail[m]) : m \in DOMAIN Mail}
Empty == [tables |-> <<>>, indexes |-> {}, folders |-> <<>>, emails |-> <<>>,
          graph |-> [a \in Addresses |-> 0], applied |-> <<>>]

(* -------------------------------------------------------------- statements --- *)

create(t, cols) == [op |-> "create", name |-> t, cols |-> cols, ifNew |-> FALSE]
createNew(t, cols) == [op |-> "create", name |-> t, cols |-> cols, ifNew |-> TRUE]
index(t, cols) == [op |-> "index", name |-> t, cols |-> cols, ifNew |-> FALSE]
indexNew(t, cols) == [op |-> "index", name |-> t, cols |-> cols, ifNew |-> TRUE]
add(t, cols) == [op |-> "add", name |-> t, cols |-> cols]
seed(id, name) == [op |-> "seed", id |-> id, name |-> name]
markSentRead == [op |-> "markSentRead"]
backfill == [op |-> "backfill"]

mentions(m, a) == Cardinality({i \in DOMAIN Mail[m] : Mail[m][i] = a})
takes(d, id, name) == id \in DOMAIN d.folders \/ \E f \in DOMAIN d.folders : d.folders[f].name = name
inSent(d) == {m \in DOMAIN d.emails : d.emails[m].folder = "sent"}

\* One statement, or None when SQLite throws.
exec(d, s) ==
  IF d = None THEN None
  ELSE CASE s.op = "create" ->
              IF s.name \notin DOMAIN d.tables THEN [d EXCEPT !.tables = (s.name :> s.cols) @@ d.tables]
              ELSE IF s.ifNew THEN d ELSE None
         [] s.op = "index" ->
              IF s.name \notin DOMAIN d.tables THEN None
              ELSE IF ~s.cols \subseteq d.tables[s.name] THEN None
              ELSE IF <<s.name, s.cols>> \notin d.indexes
                THEN [d EXCEPT !.indexes = @ \cup {<<s.name, s.cols>>}]
              ELSE IF s.ifNew THEN d ELSE None
         [] s.op = "add" ->
              IF s.name \notin DOMAIN d.tables THEN None
              ELSE IF s.cols \cap d.tables[s.name] # {} THEN None
              ELSE [d EXCEPT !.tables[s.name] = @ \cup s.cols]
         [] s.op = "seed" ->
              IF takes(d, s.id, s.name) THEN None
              ELSE [d EXCEPT !.folders = (s.id :> [name |-> s.name, deletable |-> FALSE]) @@ d.folders]
         [] s.op = "markSentRead" ->
              [d EXCEPT !.emails = [m \in DOMAIN d.emails |->
                 [d.emails[m] EXCEPT !.read = @ \/ m \in inSent(d)]]]
         [] s.op = "backfill" ->
              [d EXCEPT !.graph = [a \in Addresses |->
                 FoldSet(LAMBDA m, n : n + mentions(m, a), 0, inSent(d))]]

(* -------------------------------------------------------------- migrations --- *)

\* 1 to 9: folders, mail, threads, the seeds of Drafts and Quarantine.
initialMigrations == <<
  << create("folders", {"id", "name", "is_deletable"}),
     seed("inbox", "Inbox"), seed("sent", "Sent"), seed("trash", "Trash"),
     seed("archive", "Archive"), seed("spam", "Spam"),
     create("emails", {"id", "folder_id", "subject", "sender", "recipient", "date", "read", "starred", "body"}),
     create("attachments", {"id", "email_id", "filename", "mimetype", "size", "content_id", "disposition"}) >>,
  << add("emails", {"in_reply_to"}), add("emails", {"email_references"}), add("emails", {"thread_id"}),
     index("emails", {"thread_id"}), index("emails", {"in_reply_to"}) >>,
  << seed("draft", "Drafts") >>,
  << add("emails", {"message_id"}) >>,
  << add("emails", {"raw_headers"}) >>,
  << markSentRead >>,
  << add("emails", {"cc"}), add("emails", {"bcc"}) >>,
  << indexNew("emails", {"folder_id"}), indexNew("emails", {"date"}), indexNew("emails", {"folder_id", "date"}) >>,
  << seed("quarantine", "Quarantine") >> >>

\* 10: the security pipeline, the feeds, DMARC and cases.
securityMigration == <<
  add("emails", {"security_verdict"}), add("emails", {"security_score"}),
  add("emails", {"security_explanation"}), add("emails", {"deep_scan_status"}),
  add("attachments", {"scan_status"}), add("attachments", {"scan_verdict"}),
  createNew("urls", {"id", "email_id", "url", "display_text", "is_homograph", "is_shortener",
                     "resolved_url", "page_title", "fetch_status", "verdict", "created_at"}),
  indexNew("urls", {"email_id"}),
  createNew("sender_reputation", {"sender", "first_seen", "last_seen", "message_count", "avg_score", "flagged"}),
  createNew("intel_feed_state", {"feed_id", "url", "last_fetched_at", "etag", "entry_count", "bloom_kv_key"}),
  createNew("dmarc_reports", {"id", "received_at", "org_name", "report_id", "domain", "date_range_begin",
                              "date_range_end", "policy_p", "raw_r2_key"}),
  indexNew("dmarc_reports", {"domain"}), indexNew("dmarc_reports", {"received_at"}),
  createNew("dmarc_records", {"id", "report_id", "source_ip", "count", "disposition", "dkim_result",
                              "spf_result", "header_from"}),
  indexNew("dmarc_records", {"source_ip"}), indexNew("dmarc_records", {"report_id"}),
  createNew("dmarc_sources", {"source_ip", "label", "legitimate", "notes"}),
  createNew("cases", {"id", "created_at", "updated_at", "status", "title", "notes", "shared_to_hub",
                      "hub_event_uuid"}),
  indexNew("cases", {"status"}),
  createNew("case_emails", {"case_id", "email_id"}),
  createNew("case_observables", {"id", "case_id", "kind", "value"}),
  indexNew("case_observables", {"case_id"}) >>

\* 11 to 16: runs, scores and summaries of cases, observed selectors, traces.
caseMigrations == <<
  << indexNew("cases", {"updated_at"}) >>,
  << createNew("pipeline_runs", {"id", "email_id", "started_at", "completed_at", "status", "duration_ms",
                                 "stage_failed"}),
     indexNew("pipeline_runs", {"started_at"}) >>,
  << add("cases", {"score"}) >>,
  << add("cases", {"summary"}), add("cases", {"summary_status"}) >>,
  << createNew("dkim_selectors_observed", {"domain", "selector", "last_seen_iso"}),
     indexNew("dkim_selectors_observed", {"domain"}), indexNew("dkim_selectors_observed", {"last_seen_iso"}) >>,
  << add("emails", {"stage_trace"}), add("cases", {"stage_trace"}) >> >>

\* 17 to 20: TLS reports, failure reports, YARA results.
reportMigrations == <<
  << createNew("tlsrpt_reports", {"id", "received_at", "org_name", "report_id", "domain", "date_range_begin",
                                  "date_range_end", "contact_info", "raw_r2_key"}),
     indexNew("tlsrpt_reports", {"domain"}), indexNew("tlsrpt_reports", {"received_at"}),
     createNew("tlsrpt_records", {"id", "report_id", "policy_type", "policy_domain", "sending_mta_ip",
                                  "receiving_mx_hostname", "result_type", "successful_session_count",
                                  "failed_session_count"}),
     indexNew("tlsrpt_records", {"report_id"}), indexNew("tlsrpt_records", {"policy_domain"}),
     indexNew("tlsrpt_records", {"sending_mta_ip"}) >>,
  << add("cases", {"confidence"}) >>,
  << createNew("dmarc_ruf_records", {"id", "received_at", "original_mail_from", "source_ip", "failure_type",
                                     "reported_domain", "feedback_type", "auth_results", "original_headers"}),
     indexNew("dmarc_ruf_records", {"received_at"}), indexNew("dmarc_ruf_records", {"reported_domain"}),
     indexNew("dmarc_ruf_records", {"source_ip"}) >>,
  << createNew("yaramail_scan_results", {"email_id", "results", "scanned_at"}) >> >>

\* 21 to 25: provenance, senders, policies, networks, single use.
senderMigrations == <<
  << add("emails", {"created_by"}) >>,
  << createNew("sender_graph", {"sender_name", "sender_address", "message_count", "first_seen", "last_seen"}),
     indexNew("sender_graph", {"sender_name"}) >>,
  << add("dmarc_reports", {"policy_adkim"}), add("dmarc_reports", {"policy_aspf"}),
     add("dmarc_reports", {"policy_sp"}), add("dmarc_reports", {"policy_pct"}),
     add("dmarc_records", {"auth_results_json"}) >>,
  << add("dmarc_sources", {"asn"}), add("dmarc_sources", {"country"}) >>,
  << createNew("consumed_jti", {"jti", "consumed_at"}) >> >>

\* 26 to 31: the sidecar's state and audit, the relay's outcome.
sidecarMigrations == <<
  << create("sidecar_state", {"id", "history_cursor", "access_token", "token_expires_at", "label_ids",
                              "last_poll_at", "last_error", "consecutive_failures"}),
     create("sidecar_audit", {"id", "ts", "gmail_message_id", "email_id", "action", "score",
                              "labels_applied", "mode"}),
     index("sidecar_audit", {"ts"}), add("emails", {"body_reaped_at"}) >>,
  << add("emails", {"relay_status"}) >>,
  << create("sidecar_events", {"id", "ts", "kind", "old_cursor", "new_cursor", "detail"}),
     index("sidecar_events", {"ts"}) >>,
  << add("emails", {"provider_message_id"}), indexNew("emails", {"provider_message_id"}) >>,
  << add("sidecar_state", {"poll_lease_until"}) >>,
  << add("sidecar_state", {"label_error"}), add("sidecar_state", {"label_failure_count"}),
     indexNew("sidecar_audit", {"gmail_message_id"}) >> >>

\* 32 to 37: the recipients' history with its backfill, the model's cache, blocked
\* mail, feedback, the URL scanner.
sendRiskMigrations == <<
  << add("emails", {"send_risk"}),
     createNew("recipient_graph", {"address", "domain", "send_count", "first_sent", "last_sent"}),
     indexNew("recipient_graph", {"domain"}), backfill >>,
  << createNew("send_risk_llm_cache", {"key", "label", "confidence", "created_at"}),
     indexNew("send_risk_llm_cache", {"created_at"}) >>,
  << createNew("blocked_log", {"id", "ts", "rule_id", "tier", "action", "sender", "subject", "message_id"}),
     indexNew("blocked_log", {"ts"}) >>,
  << add("emails", {"blocked_by_rule"}) >>,
  << createNew("email_feedback", {"email_id", "label", "created_at", "verdict_action", "verdict_score"}) >>,
  << add("urls", {"scan_uuid"}), add("urls", {"scan_status"}), add("urls", {"scan_malicious"}),
     add("urls", {"scan_categories"}), add("urls", {"scan_final_url"}) >> >>

mailboxMigrations ==
  initialMigrations \o <<securityMigration>> \o caseMigrations \o reportMigrations
    \o senderMigrations \o sidecarMigrations \o sendRiskMigrations

catchallIntelMigrations == <<
  << create("probe_rollup", {"source_ip", "sender_domain", "count", "distinct_localparts", "max_score",
                             "first_seen", "last_seen"}),
     create("probe_localparts", {"source_ip", "sender_domain", "localpart", "last_seen"}),
     create("probe_recent", {"id", "ts", "source_ip", "sender_domain", "sender", "localpart",
                             "subject_snippet", "score", "band", "signals_json"}),
     index("probe_recent", {"ts"}) >>,
  << add("probe_recent", {"resolved_url"}), add("probe_recent", {"domain_age_days"}),
     add("probe_recent", {"redirect_chain_length"}) >>,
  << createNew("harvest_alert_log", {"source_ip", "sender_domain", "alerted_at", "distinct_count"}),
     indexNew("harvest_alert_log", {"source_ip", "sender_domain", "alerted_at"}) >> >>

migrations == IF Kind = "mailbox" THEN mailboxMigrations ELSE catchallIntelMigrations
Latest == Len(migrations)

(* ----------------------------------------------- what the code's queries name --- *)

\* The tables of db/schema.ts: mail, then reports, then cases.
mailTables ==
  [folders |-> {"id", "name", "is_deletable"},
   emails |-> {"id", "folder_id", "subject", "sender", "recipient", "cc", "bcc", "date", "read", "starred",
     "body", "in_reply_to", "email_references", "thread_id", "message_id", "provider_message_id",
     "raw_headers", "blocked_by_rule", "security_verdict", "security_score", "security_explanation",
     "stage_trace", "deep_scan_status", "relay_status", "created_by", "send_risk"},
   attachments |-> {"id", "email_id", "filename", "mimetype", "size", "content_id", "disposition",
     "scan_status", "scan_verdict"},
   urls |-> {"id", "email_id", "url", "display_text", "is_homograph", "is_shortener", "resolved_url",
     "page_title", "fetch_status", "verdict", "scan_uuid", "scan_status", "scan_malicious",
     "scan_categories", "scan_final_url", "created_at"},
   pipeline_runs |-> {"id", "email_id", "started_at", "completed_at", "status", "duration_ms", "stage_failed"},
   sender_reputation |-> {"sender", "first_seen", "last_seen", "message_count", "avg_score", "flagged"},
   sender_graph |-> {"sender_name", "sender_address", "message_count", "first_seen", "last_seen"},
   recipient_graph |-> {"address", "domain", "send_count", "first_sent", "last_sent"}]
reportTables ==
  [intel_feed_state |-> {"feed_id", "url", "last_fetched_at", "etag", "entry_count", "bloom_kv_key"},
   dmarc_reports |-> {"id", "received_at", "org_name", "report_id", "domain", "date_range_begin",
     "date_range_end", "policy_p", "policy_adkim", "policy_aspf", "policy_sp", "policy_pct", "raw_r2_key"},
   dmarc_records |-> {"id", "report_id", "source_ip", "count", "disposition", "dkim_result", "spf_result",
     "header_from", "auth_results_json"},
   dmarc_sources |-> {"source_ip", "label", "legitimate", "notes", "asn", "country"}]
otherReportTables ==
  [dmarc_ruf_records |-> {"id", "received_at", "original_mail_from", "source_ip", "failure_type",
     "reported_domain", "feedback_type", "auth_results", "original_headers"},
   email_feedback |-> {"email_id", "label", "created_at", "verdict_action", "verdict_score"},
   tlsrpt_reports |-> {"id", "received_at", "org_name", "report_id", "domain", "date_range_begin",
     "date_range_end", "contact_info", "raw_r2_key"},
   tlsrpt_records |-> {"id", "report_id", "policy_type", "policy_domain", "sending_mta_ip",
     "receiving_mx_hostname", "result_type", "successful_session_count", "failed_session_count"}]
caseTables ==
  [cases |-> {"id", "created_at", "updated_at", "status", "title", "notes", "shared_to_hub",
     "hub_event_uuid", "score", "summary", "summary_status", "stage_trace", "confidence"},
   case_emails |-> {"case_id", "email_id"},
   case_observables |-> {"id", "case_id", "kind", "value"}]
schema == mailTables @@ reportTables @@ caseTables @@ otherReportTables

(* ----------------------------------------------------------------- actions --- *)

Init ==
  /\ release \in Releases /\ db = Empty /\ up = "down" /\ saved = Empty /\ deaths = 0

\* The first request after a deployment or a death constructs the object.
wake ==
  /\ up = "down" /\ up' = "starting" /\ saved' = db
  /\ UNCHANGED <<release, db, deaths>>

\* applyMigrations: the next migration not recorded, in one transaction with its
\* row in d1_migrations; a statement that throws leaves the constructor.
applyMigrations ==
  /\ up = "starting"
  /\ LET n == Len(db.applied) + 1
         ran == IF n > release THEN None ELSE FoldLeft(exec, db, migrations[n])
     IN  IF n > release THEN up' = "ready" /\ UNCHANGED db
         ELSE IF ran = None THEN up' = "refused" /\ UNCHANGED db
         ELSE db' = [ran EXCEPT !.applied = Append(@, n)] /\ UNCHANGED up
  /\ UNCHANGED <<release, saved, deaths>>

\* The object dies while it starts: what it stored so far is kept, or none of it.
die ==
  /\ up = "starting" /\ deaths < MaxDeaths /\ deaths' = deaths + 1
  /\ up' = "down" /\ db' \in {db, saved}
  /\ UNCHANGED <<release, saved>>

\* Every later request constructs the object again.
retry == up = "refused" /\ up' = "down" /\ UNCHANGED <<release, db, saved, deaths>>

deploy ==
  /\ \E r \in Releases : r > release /\ release' = r
  /\ up' = "down"
  /\ db' \in (IF up = "starting" THEN {db, saved} ELSE {db})
  /\ UNCHANGED <<saved, deaths>>

serving == up = "ready" /\ Kind = "mailbox"

createFolder(name) ==
  /\ serving /\ ~takes(db, Slug[name], name)
  /\ db' = [db EXCEPT !.folders = (Slug[name] :> [name |-> name, deletable |-> TRUE]) @@ @]
  /\ UNCHANGED <<release, up, saved, deaths>>

deleteFolder(id) ==
  /\ serving /\ id \in DOMAIN db.folders /\ db.folders[id].deletable
  /\ db' = [db EXCEPT !.folders = [f \in DOMAIN @ \ {id} |-> @[f]]]
  /\ UNCHANGED <<release, up, saved, deaths>>

\* createEmail into Sent.  A release writes what its own schema knows: read mail
\* since 6, the recipients' history since 32.
send(m) ==
  /\ serving /\ m \notin DOMAIN db.emails
  /\ db' = [db EXCEPT
       !.emails = (m :> [folder |-> "sent", read |-> release >= 6]) @@ @,
       !.graph = [a \in Addresses |-> IF release >= 32 /\ a \in ToSet(Mail[m]) THEN @[a] + 1 ELSE @[a]]]
  /\ UNCHANGED <<release, up, saved, deaths>>

moveToTrash(m) ==
  /\ serving /\ m \in DOMAIN db.emails /\ db.emails[m].folder = "sent"
  /\ db' = [db EXCEPT !.emails[m].folder = "trash"]
  /\ UNCHANGED <<release, up, saved, deaths>>

Next ==
  \/ wake \/ applyMigrations \/ die \/ retry \/ deploy
  \/ \E n \in Names : createFolder(n) \/ deleteFolder(Slug[n])
  \/ \E m \in DOMAIN Mail : send(m) \/ moveToTrash(m)

Spec == Init /\ [][Next]_vars

(* -------------------------------------------------------------- properties --- *)

TypeOK ==
  /\ release \in Releases /\ up \in {"down", "starting", "ready", "refused"} /\ deaths \in 0 .. MaxDeaths
  /\ DOMAIN db = DOMAIN Empty /\ DOMAIN db.emails \subseteq DOMAIN Mail
  /\ db.applied \in [1 .. Len(db.applied) -> 1 .. Latest]

\* The schema a fresh deployment of n migrations has.
fresh[n \in 0 .. Latest] ==
  IF n = 0 THEN Empty ELSE FoldLeft(exec, fresh[n - 1], migrations[n])

\* Whatever releases, deaths and users' rows it went through, a database that
\* serves has the schema a fresh deployment of its release has, with every
\* column and table db/schema.ts declares once the release is the latest.
SchemaReached ==
  up = "ready" =>
    /\ db.tables = fresh[release].tables /\ db.indexes = fresh[release].indexes
    /\ release = Latest /\ Kind = "mailbox" =>
         \A t \in DOMAIN schema : t \in DOMAIN db.tables /\ schema[t] \subseteq db.tables[t]

\* Each migration has run exactly once, in the order of the list, and none of
\* them takes mail away or a folder of the user.
RanOnceInOrder ==
  /\ \A n \in DOMAIN db.applied : db.applied[n] = n
  /\ up \in {"starting", "ready"} =>
       /\ DOMAIN saved.emails \subseteq DOMAIN db.emails
       /\ up = "starting" => DOMAIN saved.folders \subseteq DOMAIN db.folders

\* Once the history of recipients exists it knows everyone that mail in Sent was
\* sent to, sent before the upgrade or after it, and mail sent before is read.
HistoryComplete ==
  up = "ready" =>
    /\ release >= 32 =>
         \A a \in Addresses :
           db.graph[a] >= Cardinality({m \in inSent(db) : a \in ToSet(Mail[m])})
    /\ release >= 6 => \A m \in inSent(db) : db.emails[m].read

\* Only a folder the user made, with the name or the slug of one that a later
\* release seeds, keeps an object from starting.
RefusedOnlyByName ==
  up = "refused" =>
    \E n \in Names : Slug[n] \in DOMAIN db.folders /\ db.folders[Slug[n]].deletable
=============================================================================
