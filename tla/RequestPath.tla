----------------------------- MODULE RequestPath -----------------------------
(***************************************************************************)
(* One process from its start to the answer of each request: the layers of *)
(* src/http_runtime.rs in the order a request passes them, call_tool of    *)
(* src/server.rs, a scratchpad_query up to what the engine is given        *)
(* (src/tools.rs, src/sql_safety.rs), the envelope it is answered with and *)
(* the events that are logged about it.                                    *)
(*                                                                         *)
(* Requests share none of this state, so one is followed to its answer.    *)
(* What they do share is in ScratchpadSessions and UpstreamAuth.           *)
(***************************************************************************)
EXTENDS ServerStart, SqlSafety, ToolContract

CONSTANTS
  Traffic(_),       \* the requests a deployment may get
  Decisions         \* what the toolkit's SQL authority may decide

Bytes == Letters \cup Digits \cup Unprintable \cup Punctuation

HostSpelling == {"missing", "malformed", "foreign", "listed"}

\* host is the Host header, authority the one of the URI; an address is unknown where the
\* server was not told it.  A header may hold bytes that are not text.  scratchpad_query
\* stands also for the tools that write their statement themselves.
Requests ==
  [path : {"health", "mcp", "metadata", "other"}, address : {"inside", "outside", "unknown"},
   host : HostSpelling, authority : HostSpelling,
   authorization : {"none", "valid", "invalid"}, proxyAuthorization : BOOLEAN,
   custom : {"none", "text", "binary"},
   tool : {"list_tools", "report", "preview", "batch", "funnel", "listing",
           "scratchpad_session", "scratchpad_query", "unknown", "scratchpad_unknown"},
   sql : Seq(Bytes)]

ASSUME RequestAssumption ==
  /\ \A d \in Deployments : Traffic(d) \subseteq Requests
  /\ None \notin Requests /\ None \notin Envelopes

VARIABLES
  stage,            \* the layer or handler the request is at
  request,
  status,           \* the HTTP answer
  envelope,         \* the tool's answer; None if no tool answered
  clientToken,      \* the request token override is set
  given,            \* what the engine was given to run
  log               \* what the layers, call_tool and the handlers that page log about this
                    \* request, but for pagination.window, which repeats what was asked

vars == <<deployment, phase, discovered, published, sql, at, surface, mode, depth, tag,
          stage, request, status, envelope, clientToken, given, log>>

overHttp == deployment.transport = "http"
env == deployment.env
cli == deployment.cli

Layers == {"auth", "client", "host", "inbound", "route"}
Stages == {"idle", "dispatch", "tool", "query", "lex", "engine", "audit", "answered"} \cup Layers

Statuses == {"none", "ok", "unauthorized", "no_address", "client_forbidden", "host_missing",
             "host_invalid", "host_not_allowed", "auth_header_refused", "not_found"}

Init == /\ StartInit /\ LexerIdle
        /\ stage = "idle" /\ request = None /\ status = "none" /\ envelope = None
        /\ clientToken = FALSE /\ given = <<>> /\ log = <<>>

answering == <<request, status, envelope, clientToken, given, log>>

Arrive ==
  /\ phase = "serving" /\ stage = "idle"
  /\ request' \in Traffic(deployment)
  /\ stage' = IF overHttp THEN "auth" ELSE "dispatch"
  /\ UNCHANGED <<status, envelope, clientToken, given, log, start, lexer>>

-----------------------------------------------------------------------------
(* The layers, outermost first.                                              *)

Pass(next) == stage' = next /\ UNCHANGED <<answering, start, lexer>>

Answer(code) == /\ status' = code /\ stage' = "audit"
                /\ UNCHANGED <<request, envelope, clientToken, given, log, start, lexer>>

\* The toolkit's auth surface: its metadata is open to all, everything else needs a token.
AuthSurface ==
  /\ stage = "auth"
  /\ \/ published = None /\ Pass("client")
     \/ published # None /\ request.path # "metadata" /\ request.authorization = "valid"
          /\ Pass("client")
     \/ published # None /\ request.path = "metadata" /\ Answer("ok")
     \/ published # None /\ request.path # "metadata" /\ request.authorization # "valid"
          /\ Answer("unauthorized")

ClientIpVerdict(address) == CASE address = "inside"  -> "pass"
                              [] address = "outside" -> "client_forbidden"
                              [] address = "unknown" -> "no_address"

ClientIpGuard ==
  /\ stage = "client"
  /\ \/ ClientIpVerdict(request.address) = "pass" /\ Pass("host")
     \/ ClientIpVerdict(request.address) # "pass" /\ Answer(ClientIpVerdict(request.address))

\* The authority of the URI counts only where there is no Host header.
ValidateRequestHost(r) ==
  LET named == IF r.host = "missing" THEN r.authority ELSE r.host
  IN CASE named = "listed"    -> "pass"
       [] named = "missing"   -> "host_missing"
       [] named = "malformed" -> "host_invalid"
       [] named = "foreign"   -> "host_not_allowed"

HostGuard ==
  /\ stage = "host"
  /\ \/ ValidateRequestHost(request) = "pass" /\ Pass("inbound")
     \/ ValidateRequestHost(request) # "pass" /\ Answer(ValidateRequestHost(request))

\* As it would be if the proxy's header were forgotten.
RequestHasAuthorization(r) == r.authorization # "none"

RequestHasInboundAuth(r) == r.authorization # "none" \/ r.proxyAuthorization

InboundAuthRefused(r) ==
  /\ ~AuthEnabled(env)
  /\ r.path = "mcp" /\ RequestHasInboundAuth(r) /\ ~UsesRequestHeader(cli.source)

InboundAuthGuard ==
  /\ stage = "inbound"
  /\ \/ InboundAuthRefused(request) /\ Answer("auth_header_refused")
     \/ ~InboundAuthRefused(request) /\ Pass("route")

Route ==
  /\ stage = "route"
  /\ \/ request.path = "mcp" /\ Pass("dispatch")
     \/ request.path = "health" /\ Answer("ok")
     \/ request.path \in {"metadata", "other"} /\ Answer("not_found")

AuditLevel(code) == IF code = "ok" THEN "INFO" ELSE IF code = "no_address" THEN "ERROR" ELSE "WARN"

\* request_audit sees every answer, also those of the layers below it.
RequestAudit ==
  /\ stage = "audit" /\ stage' = "answered"
  /\ log' = Append(log, Event("http.request", AuditLevel(status)))
  /\ UNCHANGED <<request, status, envelope, clientToken, given, start, lexer>>

-----------------------------------------------------------------------------
(* call_tool                                                                 *)

AllowsTool(profile, tool) ==
  profile = "read_only" => tool \notin {"scratchpad_session", "scratchpad_query", "scratchpad_unknown"}

\* The override is what the configured header holds, if it is text; stdio has no headers.
TokenOverride(r) ==
  /\ overHttp /\ UsesRequestHeader(cli.source)
  /\ IF cli.header = "authorization" THEN r.authorization # "none" ELSE r.custom = "text"

Reply == /\ status' = "ok" /\ stage' = IF overHttp THEN "audit" ELSE "answered"

ListTools ==
  /\ stage = "dispatch" /\ request.tool = "list_tools"
  /\ Reply /\ UNCHANGED <<request, envelope, clientToken, given, log, start, lexer>>

CallTool ==
  /\ stage = "dispatch" /\ request.tool # "list_tools"
  /\ \/ /\ ~AllowsTool(cli.profile, request.tool)
        /\ envelope' = Failure("policy_denied", "none")
        /\ log' = Append(log, Event("tool.blocked", "WARN"))
        /\ Reply /\ UNCHANGED clientToken
     \/ /\ AllowsTool(cli.profile, request.tool)
        /\ clientToken' = TokenOverride(request)
        /\ log' = log \o <<Event("tool.start", "INFO"), Event("upstream_auth.context", "INFO")>>
        /\ stage' = IF request.tool = "scratchpad_query" THEN "query" ELSE "tool"
        /\ UNCHANGED <<envelope, status>>
  /\ UNCHANGED <<request, given, start, lexer>>

\* The handler has answered: the router's result is logged and returned.
Finish(answer, handlerEvents) ==
  /\ envelope' = answer
  /\ log' = log \o handlerEvents \o <<Event("tool.finish", "INFO")>> \o ContractEvents(answer)
  /\ Reply

\* emit_cursor_error, called by the handlers that resolve cursors.
CursorEvents(kind) ==
  IF kind \in {"invalid_cursor", "cursor_mismatch"}
  THEN <<Event("pagination.cursor_error", "WARN")>> ELSE <<>>

UpstreamErrors == DOMAIN UpstreamStatus \cup AuthErrors \cup {"transport", "upstream_json"}

\* How a call may fail: its arguments, the upstream, an answer that has not the shape the
\* tool reads, and "internal" wherever a signature is hashed.  scratchpad_session is every
\* scratchpad tool that writes no statement for its caller, the evidence bundle among them.
ToolErrors(tool) ==
  CASE tool \in {"report", "batch"} ->
         UpstreamErrors \cup {"invalid_argument", "invalid_cursor", "cursor_mismatch", "internal"}
    [] tool = "preview" -> {"invalid_argument", "invalid_cursor", "cursor_mismatch", "internal"}
    [] tool = "funnel"  -> UpstreamErrors \cup {"invalid_argument", "internal"}
    [] tool = "listing" -> UpstreamErrors \cup {"invalid_argument"}
    [] tool = "scratchpad_session" ->
         UpstreamErrors \cup {"invalid_argument", "engine", "limit", "session_not_found",
                              "sql_rejected", "timeout", "internal"}

ToolAnswers(tool) ==
  CASE tool = "report" -> {Tabular(summaryOnly, more) : summaryOnly, more \in BOOLEAN}
    [] tool = "funnel" -> {Funnel(summaryOnly) : summaryOnly \in BOOLEAN}
    [] tool \in {"preview", "batch", "listing", "scratchpad_session"} -> {Plain}

\* preview_report_request resolves its cursor without emit_cursor_error.
HandlerEvents(tool, kind) == IF tool = "preview" THEN <<>> ELSE CursorEvents(kind)

\* Every other tool, by how it may end.  An unknown one is an error of the protocol.  The
\* bundle's own statements can be refused only because max_sql_bytes is too small for them.
RunTool ==
  /\ stage = "tool"
  /\ \/ /\ request.tool \in {"unknown", "scratchpad_unknown"}
        /\ log' = Append(log, Event("tool.error", "WARN"))
        /\ Reply /\ UNCHANGED envelope
     \/ /\ request.tool \notin {"unknown", "scratchpad_unknown"}
        /\ \/ \E answer \in ToolAnswers(request.tool) : Finish(answer, <<>>)
           \/ \E kind \in ToolErrors(request.tool) :
                Finish(Failure(kind, "SQL_TOO_LARGE"), HandlerEvents(request.tool, kind))
  /\ UNCHANGED <<request, clientToken, given, start, lexer>>

-----------------------------------------------------------------------------
(* scratchpad_query                                                          *)

\* run_scratchpad_query_contract up to validate_query_sql: controls, an empty statement,
\* the signature, the cursor, the size.
PrepareQuery ==
  /\ stage = "query"
  /\ LET statement == Trim(request.sql)
         size == SizeVerdict(cli.maxSqlBytes, statement)
     IN \/ \E kind \in {"invalid_argument", "invalid_cursor", "cursor_mismatch", "internal"} :
             /\ Finish(Failure(kind, "none"), CursorEvents(kind))
             /\ UNCHANGED lexer
        \/ /\ statement # <<>> /\ size # "ALLOWED"
           /\ Finish(Failure("sql_rejected", size), <<Event("scratchpad.query.error", "WARN")>>)
           /\ UNCHANGED lexer
        \/ /\ statement # <<>> /\ size = "ALLOWED"
           /\ StartLexer(statement) /\ stage' = "lex"
           /\ UNCHANGED <<status, envelope, log>>
  /\ UNCHANGED <<request, clientToken, given, start>>

LexStep == stage = "lex" /\ Lex /\ UNCHANGED <<stage, answering, start>>

\* SELECT and WITH are wrapped in the two page queries, the rest runs as it is.
DecideQuery ==
  /\ stage = "lex" /\ ~Scanning
  /\ \E decision \in Decisions :
       \/ /\ Verdict(decision) # "ALLOWED"
          /\ Finish(Failure("sql_rejected", Verdict(decision)),
                    <<Event("scratchpad.query.error", "WARN")>>)
          /\ UNCHANGED given
       \/ /\ Verdict(decision) = "ALLOWED"
          /\ given' = IF SupportsWrappedPagination(sql) THEN WrapQuery(sql) ELSE sql
          /\ stage' = "engine"
          /\ UNCHANGED <<status, envelope, log>>
  /\ UNCHANGED <<request, clientToken, start, lexer>>

\* The engine cannot run a subquery whose closing parenthesis is inside a comment.
EngineReadsWhole == SupportsWrappedPagination(sql) => Len(given) \notin Tokens(given).hidden

\* open_connection normalizes the id and admits the session, if there is none yet; the hooks
\* of a tool call have a timeout and no cancellation token.
RunQuery ==
  /\ stage = "engine"
  /\ \/ /\ EngineReadsWhole
        /\ \E summaryOnly, more \in BOOLEAN :
             Finish(Tabular(summaryOnly, more), <<Event("scratchpad.query.duration", "INFO")>>)
     \/ \E kind \in {"invalid_argument", "limit", "engine", "timeout", "internal"} :
          Finish(Failure(kind, "none"), <<Event("scratchpad.query.error", "WARN")>>)
  /\ UNCHANGED <<request, clientToken, given, start, lexer>>

-----------------------------------------------------------------------------

Start == StartNext /\ UNCHANGED <<stage, answering, lexer>>

Handle == \/ AuthSurface \/ ClientIpGuard \/ HostGuard \/ InboundAuthGuard \/ Route \/ RequestAudit
          \/ ListTools \/ CallTool \/ RunTool \/ PrepareQuery \/ LexStep \/ DecideQuery

Next == Start \/ Arrive \/ Handle \/ RunQuery

Spec == Init /\ [][Next]_vars

\* The runtime polls a request that can go on.  Whether a statement ends is GuardedQuery's.
FairSpec == Spec /\ WF_vars(Handle)

-----------------------------------------------------------------------------
(* Properties                                                                *)

StartTypes ==
  /\ deployment \in AllDeployments
  /\ phase \in {"options", "environment", "client", "surface", "bind", "serving", "exited"}
  /\ discovered # None => discovered \in Metadata
  /\ published # None => published \in Surfaces

LexerTypes ==
  /\ sql \in Seq(Bytes) /\ at \in Nat /\ surface \in Seq(Bytes)
  /\ mode \in Modes /\ depth \in Nat /\ tag \in Seq(Bytes)
  /\ mode = "block" <=> depth > 0
  /\ tag # <<>> => mode = "normal"

AnswerTypes ==
  /\ stage \in Stages /\ status \in Statuses
  /\ clientToken \in BOOLEAN
  /\ given \in Seq(Bytes) /\ log \in Seq(Events)
  /\ request = None <=> stage = "idle"
  /\ request # None => request \in Requests
  /\ envelope # None => envelope \in Envelopes
  /\ stage \in Layers \cup {"dispatch", "tool", "query", "lex", "engine"} =>
       status = "none" /\ envelope = None

\* Every variable has its type, and what is tied to the state of the lexer or to the stage
\* is there exactly when it should be: a comment's depth, a dollar tag, an answer.
TypeOK == StartTypes /\ LexerTypes /\ AnswerTypes

Secure(url) == url # None => url.scheme \in {"https", "HTTPS"}

\* HttpSettings::from_env and build_auth_surface_layer: a server that listens beyond
\* loopback has a certificate, and with inbound auth it runs strict OAuth and publishes in
\* clear text nothing that it was configured with or that it made up itself; what remains
\* is an endpoint that the discovery of its https issuer announced to this very server.
\* docs/SECURITY_MODEL.md, lines 53 to 55, does not grant that exception.  With inbound auth
\* there is always a surface, and it can check the tokens its mode is about.
PublishedSecure ==
  phase = "serving" /\ overHttp =>
    /\ env.bind = "public" => TlsFiles(env) /\ AllowNonLoopback(env)
    /\ AuthEnabled(env) <=> published # None
    /\ published # None /\ env.mode = "jwks" => published.jwks # None
    /\ published # None /\ env.mode = "introspection" => published.introspection # None
    /\ published # None /\ env.bind = "public" =>
         /\ StrictOauth(env)
         /\ Secure(published.base) /\ Secure(published.issuer) /\ Secure(published.resource)
         /\ env.jwksUrl # None => Secure(published.jwks)
         /\ env.introspectionUrl # None => Secure(published.introspection)
         /\ \A field \in {"authorization", "token", "jwks", "introspection"} :
              \/ Secure(published[field])
              \/ discovered # None /\ published[field] = discovered[field]

\* The request got past the outermost layer: it bears a token where one is asked for.
Authenticated == published = None \/ request.authorization = "valid"

\* The host the request names, by either spelling, is one of the server's.
NamesHost == \/ request.host = "listed"
             \/ request.host = "missing" /\ request.authority = "listed"

ReachedTool == stage \in {"tool", "query", "lex", "engine"} \/ envelope # None \/ clientToken

\* run_http_server's layers: nobody reaches a tool without a token where one is asked for,
\* from an address or under a host that is not allowed; what is said of the host is said to
\* no one else; a header with credentials reaches the tools only where the server was set up
\* for it, and is used only then; one audit event closes every answer.
GuardsInOrder ==
  overHttp =>
    /\ ReachedTool => /\ Authenticated /\ request.address = "inside" /\ NamesHost
                      /\ request.path = "mcp"
    /\ status \in {"client_forbidden", "no_address", "not_found"} => Authenticated
    /\ status \in {"host_missing", "host_invalid", "host_not_allowed"} =>
         Authenticated /\ request.address = "inside" /\ ~NamesHost
    /\ status = "auth_header_refused" => request.address = "inside" /\ NamesHost
    /\ ReachedTool /\ published = None /\ ~UsesRequestHeader(cli.source) =>
         request.authorization = "none" /\ ~request.proxyAuthorization /\ ~clientToken
    /\ stage = "answered" <=>
         \E k \in DOMAIN log : k = Len(log) /\ log[k].name = "http.request"

Read == stage \in {"lex", "engine", "audit", "answered"} /\ sql # <<>> /\ ~Scanning

\* lexical_surface: the surface is as long as what was consumed, and in the end it is the
\* statement with exactly the bytes of its hidden tokens blanked, nothing moved and nothing
\* else changed; a statement is unterminated exactly if one of its tokens has no end.
SurfaceExact ==
  /\ Len(surface) = at
  /\ Read => /\ Unterminated <=> Tokens(sql).open
             /\ ~Unterminated => surface = Masked(sql, Tokens(sql).hidden)

\* validate_scratchpad_sql, asked of the statement itself: what the engine is given names
\* no forbidden keyword and calls no forbidden function outside of a hidden token, whatever
\* stands between the name and its parenthesis; it ends inside no token, so that wrapping
\* it can at most put the closing parenthesis into a comment of one line.
PolicySound ==
  given # <<>> =>
    LET hidden == Tokens(sql).hidden
        Shown(k, bytes) == k \in DOMAIN sql \ hidden /\ sql[k] \in bytes
        Gap(k) == k \in hidden \/ sql[k] \in Whitespace \cup Unprintable
    IN /\ cli.profile = "scratchpad" /\ Len(sql) <= cli.maxSqlBytes
       /\ ~Tokens(sql).open /\ ~Tokens(given).open
       /\ \A k \in DOMAIN sql : Shown(k, ForbiddenKeywords) =>
            Shown(k - 1, IdentifierPart) \/ Shown(k + 1, IdentifierPart)
       /\ \A k, p \in DOMAIN sql :
            /\ Shown(k, ForbiddenFunctions) /\ ~Shown(k - 1, IdentifierPart)
            /\ k < p /\ \A j \in (k + 1)..(p - 1) : Gap(j)
            => ~Shown(p, {"("})

Logged(name) == {k \in DOMAIN log : log[k].name = name}

\* What the log says of the answer.
LogAgrees ==
  LET answered == envelope # None /\ envelope.reason # "policy_denied"
  IN /\ Logged("tool.blocked") # {} <=> envelope # None /\ envelope.reason = "policy_denied"
     /\ Logged("tool.blocked") # {} => Logged("tool.start") = {}
     /\ Logged("tool.start") # {} <=> Logged("tool.finish") \cup Logged("tool.error") # {}
     /\ Logged("tool.finish") # {} <=> answered
     /\ Logged("contract.response") # {} <=> answered
     /\ \A k, j \in Logged("contract.response") : k = j
     /\ \A k \in Logged("contract.response") :
          /\ log[k].ok = BoolLabel(envelope.ok)
          /\ log[k].level = "WARN" <=> ~envelope.ok
          /\ log[k].data # log[k].error /\ log[k].ok = log[k].data
     /\ Logged("pagination.meta") # {} <=> answered /\ envelope.rows
     /\ \A k \in Logged("pagination.meta") :
          log[k].cursor = BoolLabel(envelope.cursor = "set")
     /\ Logged("pagination.cursor_error") # {} <=> answered /\ envelope.category = "cursor"
     /\ envelope # None => \A k \in Logged("http.request") : log[k].level = "INFO"

\* call_tool and emit_contract_observability: a refused call and only that never starts; a
\* call that starts is finished or an error of the protocol; an answer is logged once, with
\* its outcome and level, has data or an error and never both, and its page is logged with
\* a cursor exactly if it has one; a failed tool is still an answered HTTP request.
EventsAgree == stage = "answered" => LogAgrees

\* A request that arrived is answered or its statement is with the engine: no layer keeps
\* it and the lexer's loop comes to an end.
RequestsAnswered ==
  (stage \notin {"idle", "answered"}) ~> (stage \in {"answered", "engine"})
=============================================================================
