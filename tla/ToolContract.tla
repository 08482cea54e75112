---------------------------- MODULE ToolContract ----------------------------
(***************************************************************************)
(* What a tool call is answered with, and what the server logs about the   *)
(* answer: the error taxonomy (src/error.rs), the Contract V1 envelopes    *)
(* (src/contract.rs) and the summary that call_tool writes of an envelope  *)
(* (src/server.rs).                                                        *)
(***************************************************************************)
EXTENDS Naturals, Sequences

\* AnalyticsError; UpstreamApi by the statuses the code looks at.
UpstreamStatus == [upstream_other |-> 400, upstream_forbidden |-> 403,
                   upstream_throttled |-> 429, upstream_down |-> 500]

AuthErrors == {"auth_bootstrap", "token_provider", "missing_token", "malformed_token"}

ScratchpadErrors == {"engine", "limit", "sql_rejected", "timeout", "cancelled", "session_not_found"}

ErrorKinds == {"invalid_argument", "invalid_cursor", "cursor_mismatch", "transport", "upstream_json",
               "policy_denied", "internal"}
              \cup DOMAIN UpstreamStatus \cup AuthErrors \cup ScratchpadErrors

Code(kind) ==
  CASE kind = "invalid_argument"   -> "INVALID_PARAMS"
    [] kind = "invalid_cursor"     -> "INVALID_CURSOR"
    [] kind = "cursor_mismatch"    -> "CURSOR_QUERY_MISMATCH"
    [] kind \in AuthErrors         -> "AUTHENTICATION_FAILED"
    [] kind = "transport"          -> "UPSTREAM_TRANSPORT_ERROR"
    [] kind = "upstream_json"      -> "UPSTREAM_RESPONSE_PARSE_ERROR"
    [] kind = "upstream_down"      -> "UPSTREAM_UNAVAILABLE"
    [] kind \in {"upstream_other", "upstream_forbidden", "upstream_throttled"} -> "UPSTREAM_REJECTED"
    [] kind = "engine"             -> "SCRATCHPAD_ENGINE_ERROR"
    [] kind = "limit"              -> "SCRATCHPAD_LIMIT_EXCEEDED"
    [] kind = "sql_rejected"       -> "SCRATCHPAD_SQL_REJECTED"
    [] kind = "timeout"            -> "SCRATCHPAD_QUERY_TIMEOUT"
    [] kind = "cancelled"          -> "SCRATCHPAD_QUERY_CANCELLED"
    [] kind = "session_not_found"  -> "SCRATCHPAD_SESSION_NOT_FOUND"
    [] kind = "policy_denied"      -> "POLICY_DENIED"
    [] kind = "internal"           -> "INTERNAL_ERROR"

Reason(kind) ==
  CASE kind = "invalid_argument"   -> "invalid_params"
    [] kind \in {"invalid_cursor", "cursor_mismatch"} -> "invalid_cursor"
    [] kind \in AuthErrors         -> "auth_failed"
    [] kind = "transport"          -> "upstream_transport"
    [] kind = "upstream_json"      -> "upstream_response_invalid"
    [] kind = "upstream_down"      -> "upstream_unavailable"
    [] kind \in {"upstream_other", "upstream_forbidden", "upstream_throttled"} -> "upstream_rejected"
    [] kind = "engine"             -> "scratchpad_engine_error"
    [] kind = "limit"              -> "scratchpad_limit_exceeded"
    [] kind = "sql_rejected"       -> "scratchpad_sql_restricted"
    [] kind = "timeout"            -> "scratchpad_timeout"
    [] kind = "cancelled"          -> "scratchpad_cancelled"
    [] kind = "session_not_found"  -> "scratchpad_session_not_found"
    [] kind = "policy_denied"      -> "policy_denied"
    [] kind = "internal"           -> "internal_error"

Category(kind) ==
  CASE kind = "invalid_argument"   -> "validation"
    [] kind \in {"invalid_cursor", "cursor_mismatch"} -> "cursor"
    [] kind \in AuthErrors         -> "auth"
    [] kind = "transport"          -> "transport"
    [] kind = "upstream_json"      -> "upstream_parse"
    [] kind \in DOMAIN UpstreamStatus -> "upstream_api"
    [] kind \in ScratchpadErrors   -> "scratchpad"
    [] kind = "policy_denied"      -> "policy"
    [] kind = "internal"           -> "internal"

\* 0: the field is left out.
StatusCode(kind) == IF kind \in DOMAIN UpstreamStatus THEN UpstreamStatus[kind] ELSE 0

\* ScratchpadSqlPolicyCode
PolicyCodes == {"EMPTY_SQL", "UNTERMINATED_TOKEN", "MULTIPLE_STATEMENTS", "NOT_READ_ONLY_PREFIX",
                "FORBIDDEN_KEYWORD", "FORBIDDEN_FUNCTION", "EXPLAIN_NOT_READ_ONLY",
                "CLASSIFIER_UNAVAILABLE", "SQL_TOO_LARGE",
                "DUCKDB_FORBIDDEN_KEYWORD", "DUCKDB_FORBIDDEN_FUNCTION"}

\* A rejected statement carries the policy's code, an upstream error its status.
EngineCode(kind, policy) ==
  CASE kind \in DOMAIN UpstreamStatus -> "http"
    [] kind = "engine"                -> "duckdb"
    [] kind = "sql_rejected"          -> policy
    [] OTHER                          -> "none"

HasDetail(kind) == kind \in {"invalid_argument", "invalid_cursor", "limit", "timeout",
                             "session_not_found", "missing_token", "malformed_token", "policy_denied"}

HasHint(kind) == kind \notin {"upstream_other", "internal"}

-----------------------------------------------------------------------------
(* Envelopes.  "rows" stands for the tabular fields of meta, "cursor" for    *)
(* next_cursor, "subreports" for how many a funnel answer has.               *)

Reasons == {"none"} \cup {Reason(kind) : kind \in ErrorKinds}

Envelopes ==
  [ok : BOOLEAN, data : {"absent", "null", "value"},
   code : {"none"} \cup {Code(kind) : kind \in ErrorKinds}, reason : Reasons,
   category : {"none"} \cup {Category(kind) : kind \in ErrorKinds},
   engineCode : {"none", "http", "duckdb"} \cup PolicyCodes,
   status : {0} \cup {StatusCode(kind) : kind \in ErrorKinds}, detail : BOOLEAN, hint : BOOLEAN,
   rows : BOOLEAN, cursor : {"absent", "null", "set"}, subreports : {0, 2}]

Success(data, rows, cursor, subreports) ==
  [ok |-> TRUE, data |-> data, code |-> "none", reason |-> "none", category |-> "none",
   engineCode |-> "none", status |-> 0, detail |-> FALSE, hint |-> FALSE,
   rows |-> rows, cursor |-> cursor, subreports |-> subreports]

\* contract::success, and a batch: the metas of its reports are inside data, though
\* docs/payload-contract-v1.md (lines 65 to 76 and 189) wants them in meta.
Plain == Success("value", FALSE, "absent", 0)

\* success_with_meta over ga_projection_payload_and_meta, run_scratchpad_query_contract.
Tabular(summaryOnly, more) ==
  Success(IF summaryOnly THEN "null" ELSE "value", TRUE, IF more THEN "set" ELSE "null", 0)

\* contract_success_funnel: the table and the visualization.
Funnel(summaryOnly) == Success(IF summaryOnly THEN "null" ELSE "value", TRUE, "absent", 2)

Failure(kind, policy) ==
  [ok |-> FALSE, data |-> "absent", code |-> Code(kind), reason |-> Reason(kind),
   category |-> Category(kind), engineCode |-> EngineCode(kind, policy),
   status |-> StatusCode(kind), detail |-> HasDetail(kind), hint |-> HasHint(kind),
   rows |-> FALSE, cursor |-> "absent", subreports |-> 0]

-----------------------------------------------------------------------------
(* Events.  A field that an event does not have is "none".                   *)

BoolLabel(b) == IF b THEN "true" ELSE "false"

Event(name, level) ==
  [name |-> name, level |-> level, ok |-> "none", data |-> "none", error |-> "none",
   reason |-> "none", cursor |-> "none"]

EventNames == {"http.request", "tool.blocked", "tool.start", "upstream_auth.context", "tool.finish",
               "tool.error", "contract.response", "pagination.meta", "pagination.cursor_error",
               "scratchpad.query.error", "scratchpad.query.duration"}

Labels == {"none", "true", "false", "unknown"}

Events == [name : EventNames, level : {"INFO", "WARN", "ERROR"}, ok : Labels, data : Labels,
           error : Labels, reason : Reasons, cursor : Labels]

\* As it would be if a null cursor counted as one.
NextCursorNamed(envelope) ==
  IF envelope.cursor # "absent" THEN "true"
  ELSE IF envelope.subreports > 0 THEN "false" ELSE "unknown"

\* summarize_contract_payload's next_cursor_present.
NextCursorPresent(envelope) ==
  IF envelope.cursor # "absent" THEN BoolLabel(envelope.cursor = "set")
  ELSE IF envelope.subreports > 0 THEN "false" ELSE "unknown"

ContractResponse(envelope) ==
  [Event("contract.response", IF envelope.ok THEN "INFO" ELSE "WARN") EXCEPT
     !.ok = BoolLabel(envelope.ok),
     !.data = BoolLabel(envelope.data # "absent"),
     !.error = BoolLabel(envelope.code # "none"),
     !.reason = envelope.reason]

PaginationMeta(present) == [Event("pagination.meta", "INFO") EXCEPT !.cursor = present]

\* What is said of pages and cursors; funnel subreports have no cursors and say so.
PageEvents(envelope) ==
  (IF envelope.rows THEN <<PaginationMeta(NextCursorPresent(envelope))>> ELSE <<>>)
  \o [k \in 1..envelope.subreports |-> PaginationMeta("false")]
  \o (IF envelope.reason = "invalid_cursor" THEN <<Event("pagination.cursor_error", "WARN")>> ELSE <<>>)

\* emit_contract_observability
ContractEvents(envelope) == <<ContractResponse(envelope)>> \o PageEvents(envelope)
=============================================================================
