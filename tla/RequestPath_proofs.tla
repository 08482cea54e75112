-------------------------- MODULE RequestPath_proofs --------------------------
(***************************************************************************)
(* What RequestPath promises for every deployment, discovery, request and  *)
(* statement.                                                              *)
(***************************************************************************)
EXTENDS RequestPath, FiniteSetTheorems, TLAPS

-----------------------------------------------------------------------------
(* The lexer                                                                 *)

\* What is trimmed is counted, so it is a number.
LEMMA CountsTyped ==
  ASSUME NEW s \in Seq(Bytes), NEW bytes
  PROVE  Leading(s, bytes) \in Nat /\ Trailing(s, bytes) \in Nat
<1>1. IsFiniteSet(1..Len(s))
  BY FS_Interval
<1>2. \A part \in SUBSET (1..Len(s)) : Cardinality(part) \in Nat
  BY <1>1, FS_Subset, FS_CardinalityType
<1>3. DOMAIN s = 1..Len(s)
  OBVIOUS
<1> QED
  BY <1>2, <1>3 DEF Leading, Trailing

\* Trimmed statements are statements.
LEMMA TrimsTyped ==
  ASSUME NEW s \in Seq(Bytes)
  PROVE  Trim(s) \in Seq(Bytes) /\ TrimForSubquery(s) \in Seq(Bytes)
<1>1. \A m, n \in Nat : SubSeq(s, m + 1, Len(s) - n) \in Seq(Bytes)
  OBVIOUS
<1>2. \A n \in Nat : SubSeq(s, 1, Len(s) - n) \in Seq(Bytes)
  OBVIOUS
<1> QED
  BY <1>1, <1>2, CountsTyped DEF Trim, TrimForSubquery

\* A lexer that starts is well-formed.
LEMMA StartLexerTyped ==
  ASSUME NEW s \in Seq(Bytes), StartLexer(s)
  PROVE  LexerTypes'
BY DEF StartLexer, LexerTypes, Modes

\* Masks are bytes.
LEMMA MasksTyped ==
  ASSUME NEW b \in Bytes
  PROVE  MaskByte(b) \in Bytes /\ MaskHiddenByte(b) \in Bytes
BY DEF MaskByte, MaskHiddenByte, Bytes, Punctuation, Whitespace, Blank, Newline

\* Every turn pushes as many bytes as it consumes.
LEMMA PushTyped ==
  ASSUME LexerTypes, NEW shown \in Seq(Bytes), Push(shown)
  PROVE  sql' \in Seq(Bytes) /\ at' \in Nat /\ surface' \in Seq(Bytes)
BY DEF LexerTypes, Push

LEMMA PushBlanksTyped ==
  ASSUME LexerTypes, NEW n \in Nat, PushBlanks(n)
  PROVE  sql' \in Seq(Bytes) /\ at' \in Nat /\ surface' \in Seq(Bytes)
<1>1. [k \in 1..n |-> Blank] \in Seq(Bytes)
  BY DEF Bytes, Punctuation, Whitespace, Blank
<1> QED
  BY <1>1, PushTyped DEF PushBlanks

LEMMA PushHiddenTyped ==
  ASSUME LexerTypes, Scanning, PushHidden
  PROVE  sql' \in Seq(Bytes) /\ at' \in Nat /\ surface' \in Seq(Bytes)
<1>1. sql[at + 1] \in Bytes
  BY DEF LexerTypes, Scanning
<1>2. <<MaskHiddenByte(sql[at + 1])>> \in Seq(Bytes)
  BY <1>1, MasksTyped
<1> QED
  BY <1>2, PushTyped DEF PushHidden

\* A turn of the lexer keeps its state in order.
LEMMA LexTyped ==
  ASSUME LexerTypes, Lex
  PROVE  LexerTypes'
<1> DEFINE Pushed == sql' \in Seq(Bytes) /\ at' \in Nat /\ surface' \in Seq(Bytes)
           Kept == /\ mode' \in Modes /\ depth' \in Nat /\ tag' \in Seq(Bytes)
                   /\ mode' = "block" <=> depth' > 0
                   /\ tag' # <<>> => mode' = "normal"
<1>0. /\ Scanning
      /\ <<>> \in Seq(Bytes)
      /\ DOMAIN Quote = {"single", "double"}
  BY DEF Lex, Quote
<1>1. CASE InDollarQuote
  <2>1. Len(tag) \in Nat
    BY DEF LexerTypes
  <2>2. PushBlanks(Len(tag)) \/ PushHidden
    BY <1>1 DEF InDollarQuote
  <2>3. Pushed
    <3>1. CASE PushBlanks(Len(tag))
      BY <2>1, <3>1, PushBlanksTyped
    <3>2. CASE PushHidden
      BY <1>0, <3>2, PushHiddenTyped
    <3> QED
      BY <2>2, <3>1, <3>2
  <2>4. Kept
    <3>1. /\ mode' = mode /\ depth' = depth /\ mode = "normal"
          /\ tag' = <<>> \/ tag' = tag
      BY <1>1 DEF InDollarQuote, LexerTypes
    <3> QED
      BY <1>0, <3>1 DEF LexerTypes
  <2> QED
    BY <2>3, <2>4 DEF LexerTypes
<1>2. CASE InNormal
  <2>1. <<MaskByte(sql[at + 1])>> \in Seq(Bytes)
    BY <1>0, MasksTyped DEF LexerTypes, Scanning
  <2>2. ASSUME NEW n \in ParseDollarTag
        PROVE  n \in Nat /\ SubSeq(sql, at + 1, at + n) \in Seq(Bytes)
    BY <1>0, <2>2 DEF ParseDollarTag, LexerTypes, Scanning
  <2>3. Pushed
    <3>1. \/ PushBlanks(2) \/ PushBlanks(1) \/ \E n \in ParseDollarTag : PushBlanks(n)
          \/ Push(<<MaskByte(sql[at + 1])>>)
      BY <1>2 DEF InNormal
    <3>2. CASE Push(<<MaskByte(sql[at + 1])>>)
      BY <2>1, <3>2, PushTyped
    <3>3. ASSUME NEW n \in Nat, PushBlanks(n)
          PROVE  Pushed
      BY <3>3, PushBlanksTyped
    <3> QED
      BY <2>2, <3>1, <3>2, <3>3
  <2>4. Kept
    <3>0. tag = <<>> /\ mode = "normal" /\ depth = 0
      BY <1>2 DEF InNormal, LexerTypes
    <3>1. \/ mode' = "line" /\ UNCHANGED <<depth, tag>>
          \/ mode' = "block" /\ depth' = 1 /\ UNCHANGED tag
          \/ \E m \in DOMAIN Quote : mode' = m /\ UNCHANGED <<depth, tag>>
          \/ \E n \in ParseDollarTag :
               tag' = SubSeq(sql, at + 1, at + n) /\ UNCHANGED <<mode, depth>>
          \/ UNCHANGED <<mode, depth, tag>>
      BY <1>2, Zenon DEF InNormal
    <3>2. tag' \in Seq(Bytes) /\ (tag' # <<>> => mode' = "normal")
      BY <1>0, <2>2, <3>0, <3>1
    <3>3. mode' \in Modes /\ depth' \in Nat /\ (mode' = "block" <=> depth' > 0)
      BY <1>0, <3>0, <3>1 DEF Modes
    <3> QED
      BY <3>2, <3>3
  <2> QED
    BY <2>3, <2>4 DEF LexerTypes
<1>3. CASE InQuotes
  <2>1. Pushed
    BY <1>0, <1>3, PushBlanksTyped, PushHiddenTyped DEF InQuotes
  <2>2. Kept
    BY <1>3 DEF InQuotes, LexerTypes, Modes, Quote
  <2> QED
    BY <2>1, <2>2 DEF LexerTypes
<1>4. CASE InLineComment
  <2>1. <<Newline>> \in Seq(Bytes)
    BY DEF Newline, Bytes, Punctuation, Whitespace
  <2>2. Pushed
    BY <1>4, <2>1, PushBlanksTyped, PushTyped DEF InLineComment
  <2>3. Kept
    BY <1>4 DEF InLineComment, LexerTypes, Modes
  <2> QED
    BY <2>2, <2>3 DEF LexerTypes
<1>5. CASE InBlockComment
  <2>1. Pushed
    BY <1>0, <1>5, PushBlanksTyped, PushHiddenTyped DEF InBlockComment
  <2>2. Kept
    BY <1>5 DEF InBlockComment, LexerTypes, Modes
  <2> QED
    BY <2>1, <2>2 DEF LexerTypes
<1> QED
  BY <1>1, <1>2, <1>3, <1>4, <1>5 DEF Lex

-----------------------------------------------------------------------------
(* Answers and events                                                        *)

InnerEvents == {e \in Events : e.name # "http.request"}

LEMMA LabelTyped ==
  ASSUME NEW b \in BOOLEAN
  PROVE  BoolLabel(b) \in Labels
BY DEF BoolLabel, Labels

LEMMA EventTyped ==
  ASSUME NEW name \in EventNames, NEW level \in {"INFO", "WARN", "ERROR"}
  PROVE  /\ Event(name, level) \in Events
         /\ name # "http.request" => Event(name, level) \in InnerEvents
         /\ Event(name, level).name = name
BY DEF Event, Events, InnerEvents, Labels, Reasons

\* The policy's code fits wherever an engine code is expected.
LEMMA FailureTyped ==
  ASSUME NEW kind \in ErrorKinds, NEW policy \in PolicyCodes \cup {"none"}
  PROVE  Failure(kind, policy) \in Envelopes
<1>1. EngineCode(kind, policy) \in {"none", "http", "duckdb"} \cup PolicyCodes
  BY DEF EngineCode
<1>2. HasDetail(kind) \in BOOLEAN /\ HasHint(kind) \in BOOLEAN
  BY DEF HasDetail, HasHint
<1> QED
  BY <1>1, <1>2 DEF Failure, Envelopes, Reasons

LEMMA SuccessTyped ==
  /\ Plain \in Envelopes
  /\ \A summaryOnly, more \in BOOLEAN : Tabular(summaryOnly, more) \in Envelopes
  /\ \A summaryOnly \in BOOLEAN : Funnel(summaryOnly) \in Envelopes
BY DEF Plain, Tabular, Funnel, Success, Envelopes, Reasons

\* What is logged of an answer is no HTTP audit.
LEMMA ContractEventsTyped ==
  ASSUME NEW answer \in Envelopes
  PROVE  ContractEvents(answer) \in Seq(InnerEvents)
<1>1. ContractResponse(answer) \in InnerEvents
  <2>1. answer.ok \in BOOLEAN /\ answer.reason \in Reasons
    BY DEF Envelopes
  <2>2. /\ Event("contract.response", IF answer.ok THEN "INFO" ELSE "WARN") \in Events
        /\ Event("contract.response", IF answer.ok THEN "INFO" ELSE "WARN").name
             = "contract.response"
    BY <2>1, EventTyped DEF EventNames
  <2>3. /\ BoolLabel(answer.ok) \in Labels /\ BoolLabel(answer.data # "absent") \in Labels
        /\ BoolLabel(answer.code # "none") \in Labels
    BY <2>1, LabelTyped
  <2> QED
    BY <2>1, <2>2, <2>3 DEF ContractResponse, Events, InnerEvents
<1>2. ASSUME NEW present \in Labels
      PROVE  PaginationMeta(present) \in InnerEvents
  <2>1. /\ Event("pagination.meta", "INFO") \in Events
        /\ Event("pagination.meta", "INFO").name = "pagination.meta"
    BY EventTyped DEF EventNames
  <2> QED
    BY <2>1 DEF PaginationMeta, Events, InnerEvents
<1>3. NextCursorPresent(answer) \in Labels
  BY LabelTyped DEF NextCursorPresent, Labels
<1>4. Event("pagination.cursor_error", "WARN") \in InnerEvents
  BY EventTyped DEF EventNames
<1>5. <<ContractResponse(answer)>> \in Seq(InnerEvents)
  BY <1>1
<1>6. (IF answer.rows THEN <<PaginationMeta(NextCursorPresent(answer))>> ELSE <<>>)
        \in Seq(InnerEvents)
  BY <1>2, <1>3
<1>7. [k \in 1..answer.subreports |-> PaginationMeta("false")] \in Seq(InnerEvents)
  <2>1. answer.subreports \in Nat /\ PaginationMeta("false") \in InnerEvents
    BY <1>2 DEF Envelopes, Labels
  <2> QED
    BY <2>1
<1>8. (IF answer.reason = "invalid_cursor" THEN <<Event("pagination.cursor_error", "WARN")>>
       ELSE <<>>) \in Seq(InnerEvents)
  BY <1>4
<1>9. \A s, t \in Seq(InnerEvents) : s \o t \in Seq(InnerEvents)
  OBVIOUS
<1> QED
  BY <1>5, <1>6, <1>7, <1>8, <1>9 DEF ContractEvents, PageEvents

LEMMA CursorEventsTyped ==
  ASSUME NEW kind
  PROVE  /\ CursorEvents(kind) \in Seq(InnerEvents)
         /\ \A tool : HandlerEvents(tool, kind) \in Seq(InnerEvents)
BY EventTyped DEF CursorEvents, HandlerEvents, EventNames

LEMMA ToolErrorsTyped ==
  ASSUME NEW tool \in {"report", "preview", "batch", "funnel", "listing", "scratchpad_session"}
  PROVE  ToolErrors(tool) \subseteq ErrorKinds
BY DEF ToolErrors, UpstreamErrors, ErrorKinds, ScratchpadErrors

LEMMA ToolAnswersTyped ==
  ASSUME NEW tool \in {"report", "preview", "batch", "funnel", "listing", "scratchpad_session"}
  PROVE  ToolAnswers(tool) \subseteq Envelopes
BY SuccessTyped DEF ToolAnswers

\* A verdict is a code, whatever the authority said.
LEMMA VerdictsTyped ==
  ASSUME NEW decision, NEW maxBytes, NEW s
  PROVE  /\ Verdict(decision) \in PolicyCodes \cup {"ALLOWED"}
         /\ SizeVerdict(maxBytes, s) \in PolicyCodes \cup {"ALLOWED"}
<1>1. ScratchpadErrorCode(decision) \in PolicyCodes
  BY DEF ScratchpadErrorCode, DecisionCodes, PolicyCodes
<1> QED
  BY <1>1 DEF Verdict, SizeVerdict, PolicyCodes

LEMMA WrapTyped ==
  ASSUME NEW s \in Seq(Bytes)
  PROVE  WrapQuery(s) \in Seq(Bytes)
<1>0. "(" \in Bytes /\ ")" \in Bytes
  BY DEF Bytes, Punctuation
<1>1. <<"(">> \in Seq(Bytes) /\ <<")">> \in Seq(Bytes)
  BY <1>0
<1>2. \A t, u \in Seq(Bytes) : t \o u \in Seq(Bytes)
  OBVIOUS
<1> QED
  BY <1>1, <1>2, TrimsTyped DEF WrapQuery

-----------------------------------------------------------------------------
(* The start                                                                 *)

\* What the surface is built from is a URL.
LEMMA UrlsTyped ==
  ASSUME NEW e \in Environments
  PROVE  /\ BaseUrl(e) \in Urls /\ Issuer(e) \in Urls /\ FallbackOauthEndpoint(e) \in Urls
         /\ e.jwksUrl \in Urls \cup {None} /\ e.introspectionUrl \in Urls \cup {None}
         /\ e.resourceUrl \in Urls \cup {None}
<1>1. e.issuer \in Urls \cup {None} /\ e.resourceUrl \in Urls \cup {None}
      /\ e.jwksUrl \in Urls \cup {None} /\ e.introspectionUrl \in Urls \cup {None}
  BY DEF Environments
<1>2. \A url \in Urls : url.scheme \in {"https", "HTTPS", "http", "HTTP", "bare"}
  BY DEF Urls
<1>3. \A scheme \in {"https", "HTTPS", "http", "HTTP", "bare"} : Url(scheme) \in Urls
  BY DEF Url, Urls
<1>4. BaseUrl(e) \in Urls
  BY <1>1, <1>2, <1>3 DEF BaseUrl, PublicBaseUrl
<1>5. Issuer(e) \in Urls
  BY <1>1, <1>4 DEF Issuer
<1>6. FallbackOauthEndpoint(e) \in Urls
  BY <1>2, <1>3, <1>5 DEF FallbackOauthEndpoint
<1> QED
  BY <1>1, <1>4, <1>5, <1>6

LEMMA SurfaceTyped ==
  ASSUME NEW e \in Environments, NEW found \in Metadata \cup {None}
  PROVE  Surface(e, found) \in Surfaces
<1>1. found # None => /\ found.authorization \in Urls \cup {None}
                      /\ found.token \in Urls \cup {None}
                      /\ found.jwks \in Urls
                      /\ found.introspection \in Urls \cup {None}
  BY DEF Metadata
<1> QED
  BY <1>1, UrlsTyped DEF Surface, Surfaces, OrElse

\* What the start has settled.  No request is taken before the server listens.
StartSettled ==
  /\ deployment \in Deployments
  /\ phase \in {"options", "environment", "client", "surface"} => published = None
  /\ overHttp /\ phase \in {"client", "surface", "bind", "serving"} => FromEnv(env)
  /\ overHttp /\ phase \in {"bind", "serving"} =>
       /\ ~AuthEnabled(env) => published = None
       /\ AuthEnabled(env) =>
            discovered \in Discoveries \cup {None} /\ published = Surface(env, discovered)
  /\ stage # "idle" => phase = "serving"

\* The stages behind a layer, innermost first.
Tooling == {"dispatch", "tool", "query", "lex", "engine"}
BehindInbound == {"route"} \cup Tooling
BehindHost == {"inbound"} \cup BehindInbound
BehindClient == {"host"} \cup BehindHost
BehindAuth == {"client"} \cup BehindClient

\* The request is at one of the stages, or was.
Reached(stages) == stage \in stages \/ envelope # None \/ clientToken

\* What each layer has made sure of for those behind it, and what its refusal tells.
GuardsPassed ==
  /\ stage = "idle" => status = "none" /\ envelope = None /\ ~clientToken /\ log = <<>>
  /\ stage = "tool" => request.tool \notin {"list_tools", "scratchpad_query"}
  /\ overHttp =>
       /\ Reached(BehindAuth) => Authenticated
       /\ Reached(BehindClient) => request.address = "inside"
       /\ Reached(BehindHost) => NamesHost
       /\ Reached(BehindInbound) => ~InboundAuthRefused(request)
       /\ Reached(Tooling) => request.path = "mcp"
       /\ clientToken => UsesRequestHeader(cli.source)
       /\ status \in {"client_forbidden", "no_address", "not_found"} => Authenticated
       /\ status \in {"host_missing", "host_invalid", "host_not_allowed"} =>
            Authenticated /\ request.address = "inside" /\ ~NamesHost
       /\ status = "auth_header_refused" => request.address = "inside" /\ NamesHost

\* Only the last event of an answered request is an HTTP audit; without HTTP there is none.
AuditLast ==
  /\ stage \in Layers \cup {"audit"} => overHttp
  /\ ~(overHttp /\ stage = "answered") => log \in Seq(InnerEvents)
  /\ overHttp /\ stage = "answered" =>
       log # <<>> /\ log[Len(log)].name = "http.request"

IInv == TypeOK /\ StartSettled /\ GuardsPassed /\ AuditLast

-----------------------------------------------------------------------------
(* What follows from the invariant                                           *)

\* The published endpoints, for whatever the environment and the discovery say.
LEMMA SurfaceSecure ==
  ASSUME NEW e \in Environments, NEW found \in Discoveries \cup {None},
         FromEnv(e), AuthEnabled(e), e.bind = "public"
  PROVE  LET s == Surface(e, found)
         IN /\ Secure(s.base) /\ Secure(s.issuer) /\ Secure(s.resource)
            /\ e.jwksUrl # None => Secure(s.jwks)
            /\ e.introspectionUrl # None => Secure(s.introspection)
            /\ \A field \in {"authorization", "token", "jwks", "introspection"} :
                 \/ Secure(s[field])
                 \/ found # None /\ s[field] = found[field]
<1>1. /\ Secure(e.resourceUrl) /\ Secure(e.issuer)
      /\ Secure(e.jwksUrl) /\ Secure(e.introspectionUrl)
  BY StartAssumption DEF FromEnv, ValidatePublicExposureAuthPosture, EnsureHttpsUrlIfSet, Secure
<1>2. TlsFiles(e)
  BY DEF FromEnv, TlsPosture
<1>3. \A scheme : Secure(Url(scheme)) <=> Url(scheme) = None \/ scheme \in {"https", "HTTPS"}
  BY DEF Secure, Url
<1>4. Secure(BaseUrl(e))
  BY <1>1, <1>2, <1>3 DEF BaseUrl, PublicBaseUrl, Secure
<1>5. Secure(Issuer(e)) /\ Issuer(e) # None
  BY <1>1, <1>4, UrlsTyped, StartAssumption DEF Issuer
<1>6. Secure(FallbackOauthEndpoint(e))
  BY <1>3, <1>5 DEF FallbackOauthEndpoint, Secure
<1> QED
  BY <1>1, <1>4, <1>5, <1>6 DEF Surface, OrElse

LEMMA PublishedFollows ==
  ASSUME TypeOK, StartSettled
  PROVE  PublishedSecure
<1> SUFFICES ASSUME phase = "serving", overHttp
             PROVE  PublishedSecure
  BY DEF PublishedSecure
<1>1. env \in Environments
  BY DEF TypeOK, StartTypes, AllDeployments, env
<1>2. FromEnv(env)
  BY DEF StartSettled
<1>3. env.bind = "public" => TlsFiles(env) /\ AllowNonLoopback(env)
  BY <1>2 DEF FromEnv, TlsPosture
<1>4. CASE ~AuthEnabled(env)
  <2>1. published = None
    BY <1>4 DEF StartSettled
  <2> QED
    BY <1>3, <1>4, <2>1 DEF PublishedSecure
<1>5. CASE AuthEnabled(env)
  <2>1. discovered \in Discoveries \cup {None} /\ published = Surface(env, discovered)
    BY <1>5 DEF StartSettled
  <2>2. published # None
    BY <1>1, <2>1, SurfaceTyped, StartAssumption
  <2>3. ValidateAuthConfigForMode(env)
    BY <1>2, <1>5 DEF FromEnv, AuthFromEnv
  <2>4. /\ env.mode = "jwks" => published.jwks # None
        /\ env.mode = "introspection" => published.introspection # None
    BY <2>1, <2>3 DEF ValidateAuthConfigForMode, Surface, OrElse
  <2>5. env.bind = "public" => StrictOauth(env)
    BY <1>2, <1>3, <1>5 DEF FromEnv, ValidatePublicExposureAuthPosture
  <2>6. env.bind = "public" =>
          /\ Secure(published.base) /\ Secure(published.issuer) /\ Secure(published.resource)
          /\ env.jwksUrl # None => Secure(published.jwks)
          /\ env.introspectionUrl # None => Secure(published.introspection)
          /\ \A field \in {"authorization", "token", "jwks", "introspection"} :
               \/ Secure(published[field])
               \/ discovered # None /\ published[field] = discovered[field]
    BY <1>1, <1>2, <1>5, <2>1, SurfaceSecure
  <2> QED
    BY <1>3, <1>5, <2>2, <2>4, <2>5, <2>6 DEF PublishedSecure
<1> QED
  BY <1>4, <1>5

LEMMA GuardsFollow ==
  ASSUME IInv
  PROVE  GuardsInOrder
<1> SUFFICES ASSUME overHttp
             PROVE  GuardsInOrder
  BY DEF GuardsInOrder
<1>1. GuardsPassed /\ AuditLast /\ TypeOK /\ StartSettled
  BY DEF IInv
<1>2. ReachedTool => Reached(Tooling)
  BY DEF ReachedTool, Reached, Tooling
<1>3. \A stages \in {BehindAuth, BehindClient, BehindHost, BehindInbound} :
        Reached(Tooling) => Reached(stages)
  BY DEF Reached, BehindAuth, BehindClient, BehindHost, BehindInbound
<1>4. ReachedTool => /\ Authenticated /\ request.address = "inside" /\ NamesHost
                     /\ request.path = "mcp" /\ ~InboundAuthRefused(request)
                     /\ clientToken => UsesRequestHeader(cli.source)
  BY <1>1, <1>2, <1>3 DEF GuardsPassed
<1>5. ReachedTool => phase = "serving"
  BY <1>1 DEF ReachedTool, StartSettled, GuardsPassed
<1>6. ReachedTool /\ published = None => ~AuthEnabled(env)
  <2>1. PublishedSecure
    BY <1>1, PublishedFollows
  <2> QED
    BY <1>5, <2>1 DEF PublishedSecure
<1>7. ReachedTool /\ published = None /\ ~UsesRequestHeader(cli.source) =>
        request.authorization = "none" /\ ~request.proxyAuthorization /\ ~clientToken
  <2> SUFFICES ASSUME ReachedTool, published = None, ~UsesRequestHeader(cli.source)
               PROVE  request.authorization = "none" /\ ~request.proxyAuthorization /\ ~clientToken
    OBVIOUS
  <2>1. clientToken \in BOOLEAN
    BY <1>1 DEF TypeOK, AnswerTypes
  <2> QED
    BY <1>4, <1>6, <2>1 DEF InboundAuthRefused, RequestHasInboundAuth
<1>8. stage = "answered" <=> \E k \in DOMAIN log : k = Len(log) /\ log[k].name = "http.request"
  <2>1. CASE stage = "answered"
    <3>1. log \in Seq(Events) /\ log # <<>> /\ log[Len(log)].name = "http.request"
      BY <1>1, <2>1 DEF AuditLast, TypeOK, AnswerTypes
    <3> QED
      BY <2>1, <3>1
  <2>2. CASE stage # "answered"
    <3>1. log \in Seq(InnerEvents)
      BY <1>1, <2>2 DEF AuditLast
    <3>2. \A k \in DOMAIN log : log[k] \in InnerEvents
      BY <3>1
    <3> QED
      BY <2>2, <3>2 DEF InnerEvents
  <2> QED
    BY <2>1, <2>2
<1> QED
  BY <1>1, <1>4, <1>7, <1>8 DEF GuardsInOrder, GuardsPassed

-----------------------------------------------------------------------------
(* The invariant is kept                                                     *)

LEMMA InitKeeps == Init => IInv
<1> SUFFICES ASSUME Init
             PROVE  IInv
  OBVIOUS
<1>1. StartTypes
  BY StartAssumption DEF Init, StartInit, StartTypes
<1>2. LexerTypes
  <2>1. <<>> \in Seq(Bytes)
    OBVIOUS
  <2> QED
    BY <2>1 DEF Init, LexerIdle, LexerTypes, Modes
<1>3. AnswerTypes
  <2>1. <<>> \in Seq(Bytes) /\ <<>> \in Seq(Events)
    OBVIOUS
  <2> QED
    BY <2>1 DEF Init, AnswerTypes, Stages, Layers, Statuses
<1>4. StartSettled
  BY DEF Init, StartInit, StartSettled
<1>5. GuardsPassed
  BY DEF Init, GuardsPassed, Reached, Tooling, BehindInbound, BehindHost, BehindClient, BehindAuth
<1>6. AuditLast
  <2>1. <<>> \in Seq(InnerEvents)
    OBVIOUS
  <2> QED
    BY <2>1 DEF Init, AuditLast, Layers
<1> QED
  BY <1>1, <1>2, <1>3, <1>4, <1>5, <1>6 DEF IInv, TypeOK

\* Where a request is on its way, the start is over.
LEMMA ServingFrame ==
  ASSUME IInv, UNCHANGED start, phase = "serving"
  PROVE  StartTypes' /\ StartSettled'
BY DEF IInv, TypeOK, StartTypes, StartSettled, start, overHttp, env

LEMMA LexerFrame ==
  ASSUME IInv, UNCHANGED lexer
  PROVE  LexerTypes'
BY DEF IInv, TypeOK, LexerTypes, lexer

LEMMA StageServing ==
  ASSUME IInv, stage # "idle"
  PROVE  phase = "serving" /\ request \in Requests /\ request # None
BY DEF IInv, StartSettled, TypeOK, AnswerTypes

LEMMA StartKeeps ==
  ASSUME IInv, Start
  PROVE  IInv'
<1>0. UNCHANGED <<stage, answering, lexer>> /\ deployment' = deployment
  BY DEF Start, StartNext, ReadOptions, ReadEnvironment, BuildServer, BuildAuthSurfaceLayer, Bind,
         Exit
<1>1. phase # "serving" /\ stage = "idle"
  BY DEF Start, StartNext, ReadOptions, ReadEnvironment, BuildServer, BuildAuthSurfaceLayer, Bind,
         IInv, StartSettled
<1>2. StartTypes' /\ StartSettled'
  <2>0. /\ StartTypes /\ StartSettled /\ env' = env /\ overHttp' = overHttp
        /\ stage' = "idle" /\ deployment \in Deployments
    BY <1>0, <1>1 DEF IInv, TypeOK, StartSettled, env, overHttp
  <2>1. CASE ReadOptions
    BY <2>0, <2>1 DEF ReadOptions, Exit, StartTypes, StartSettled, overHttp
  <2>2. CASE ReadEnvironment
    BY <2>0, <2>2 DEF ReadEnvironment, Exit, StartTypes, StartSettled, env
  <2>3. CASE BuildServer
    BY <2>0, <2>3 DEF BuildServer, Exit, StartTypes, StartSettled, overHttp
  <2>4. CASE BuildAuthSurfaceLayer
    <3>1. env \in Environments
      BY <2>0 DEF StartTypes, AllDeployments, env
    <3>2. CASE UNCHANGED <<discovered, published>>
      BY <2>0, <2>4, <3>2 DEF BuildAuthSurfaceLayer, Exit, StartTypes, StartSettled, env
    <3>3. ASSUME discovered' \in Discoveries \cup {None}, AuthEnabled(env),
                 published' = Surface(env, discovered'), phase' = "bind"
          PROVE  StartTypes' /\ StartSettled'
      <4>1. published' \in Surfaces
        BY <3>1, <3>3, SurfaceTyped, StartAssumption
      <4>2. StartTypes'
        BY <1>0, <2>0, <3>3, <4>1, StartAssumption DEF StartTypes
      <4>3. overHttp => FromEnv(env)
        BY <2>0, <2>4 DEF BuildAuthSurfaceLayer, StartSettled
      <4> QED
        BY <1>0, <2>0, <3>3, <4>2, <4>3 DEF StartSettled
    <3> QED
      BY <2>4, <3>2, <3>3 DEF BuildAuthSurfaceLayer, Exit, env
  <2>5. CASE Bind
    BY <2>0, <2>5 DEF Bind, Exit, StartTypes, StartSettled
  <2> QED
    BY <2>1, <2>2, <2>3, <2>4, <2>5 DEF Start, StartNext
<1>3. LexerTypes'
  BY <1>0, LexerFrame
<1>4. AnswerTypes'
  BY <1>0 DEF IInv, TypeOK, AnswerTypes, answering
<1>5. GuardsPassed'
  BY <1>0, <1>1 DEF IInv, GuardsPassed, answering, Reached, Tooling, BehindInbound, BehindHost,
                    BehindClient, BehindAuth
<1>6. AuditLast'
  BY <1>0, <1>1 DEF IInv, AuditLast, answering, Layers
<1> QED
  BY <1>2, <1>3, <1>4, <1>5, <1>6 DEF IInv, TypeOK

LEMMA ArriveKeeps ==
  ASSUME IInv, Arrive
  PROVE  IInv'
<1>1. /\ StartTypes' /\ StartSettled'
      /\ LexerTypes' /\ overHttp' = overHttp
  BY ServingFrame, LexerFrame DEF Arrive, overHttp, start
<1>2. request' \in Requests /\ request' # None
  BY RequestAssumption DEF Arrive, IInv, StartSettled
<1>3. /\ stage = "idle" /\ stage' \in {"auth", "dispatch"} /\ (overHttp => stage' = "auth")
      /\ UNCHANGED <<status, envelope, clientToken, given, log>>
      /\ status = "none" /\ envelope = None /\ ~clientToken /\ log = <<>>
  BY DEF Arrive, IInv, GuardsPassed
<1>4. AnswerTypes'
  BY <1>2, <1>3 DEF IInv, TypeOK, AnswerTypes, Stages, Layers
<1>5. GuardsPassed'
  BY <1>1, <1>3 DEF GuardsPassed, Reached, Tooling, BehindInbound, BehindHost, BehindClient,
                    BehindAuth
<1>6. AuditLast'
  <2>1. <<>> \in Seq(InnerEvents)
    OBVIOUS
  <2> QED
    BY <1>1, <1>3, <2>1 DEF AuditLast, Arrive, Layers
<1> QED
  BY <1>1, <1>4, <1>5, <1>6 DEF IInv, TypeOK

\* A layer that passes the request on, and one that answers it, changes no more than that.
LEMMA PassTyped ==
  ASSUME IInv, stage \in Layers, NEW next \in Layers \cup {"dispatch"}, Pass(next)
  PROVE  TypeOK' /\ StartSettled' /\ AuditLast'
<1>1. stage # "idle" /\ stage # "answered" /\ next \in Stages /\ next # "idle" /\ next # "answered"
  BY DEF Layers, Stages
<1>2. StartTypes' /\ StartSettled' /\ LexerTypes'
  BY <1>1, StageServing, ServingFrame, LexerFrame DEF Pass
<1>3. status = "none" /\ envelope = None
  BY DEF IInv, TypeOK, AnswerTypes
<1>4. AnswerTypes'
  BY <1>1, <1>3 DEF Pass, answering, IInv, TypeOK, AnswerTypes
<1>5. AuditLast'
  BY <1>1 DEF Pass, answering, IInv, AuditLast, overHttp, start
<1> QED
  BY <1>2, <1>4, <1>5 DEF TypeOK

LEMMA AnswerTyped ==
  ASSUME IInv, stage \in Layers, NEW code \in Statuses, Answer(code)
  PROVE  TypeOK' /\ StartSettled' /\ AuditLast'
<1>1. stage # "idle" /\ stage # "answered" /\ stage' = "audit" /\ "audit" \in Stages
      /\ "audit" \notin Layers \cup {"dispatch", "tool", "query", "lex", "engine"}
  BY DEF Layers, Stages, Answer
<1>2. StartTypes' /\ StartSettled' /\ LexerTypes'
  BY <1>1, StageServing, ServingFrame, LexerFrame DEF Answer
<1>3. AnswerTypes'
  BY <1>1 DEF Answer, IInv, TypeOK, AnswerTypes
<1>4. AuditLast'
  BY <1>1 DEF Answer, IInv, AuditLast, overHttp, start
<1> QED
  BY <1>2, <1>3, <1>4 DEF TypeOK

\* What a layer passes on has what it asks for; what it answers says only what may be said.
LEMMA LayersKeep ==
  ASSUME IInv, AuthSurface \/ ClientIpGuard \/ HostGuard \/ InboundAuthGuard \/ Route
  PROVE  IInv'
<1> USE DEF Reached, Tooling, BehindInbound, BehindHost, BehindClient, BehindAuth
<1>0. GuardsPassed /\ UNCHANGED <<request, envelope, clientToken, log, deployment, discovered, published>>
  BY DEF IInv, AuthSurface, ClientIpGuard, HostGuard, InboundAuthGuard, Route, Pass, Answer,
         answering, start
<1>1. /\ Authenticated' = Authenticated /\ NamesHost' = NamesHost
      /\ InboundAuthRefused(request)' = InboundAuthRefused(request)
      /\ overHttp' = overHttp /\ cli' = cli
  BY <1>0 DEF Authenticated, NamesHost, InboundAuthRefused, overHttp, cli, env
<1>2. stage # "idle" => request \in Requests
  BY StageServing
<1>3. CASE AuthSurface
  <2>1. stage \in Layers /\ stage = "auth"
    BY <1>3 DEF AuthSurface, Layers
  <2>2. CASE Pass("client") /\ Authenticated
    <3>1. GuardsPassed'
      BY <1>0, <1>1, <2>1, <2>2 DEF Pass, answering, GuardsPassed
    <3> QED
      BY <2>1, <2>2, <3>1, PassTyped DEF IInv, Layers
  <2>3. CASE Answer("ok") \/ Answer("unauthorized")
    <3>1. GuardsPassed'
      BY <1>0, <1>1, <2>1, <2>3 DEF Answer, GuardsPassed
    <3> QED
      BY <2>1, <2>3, <3>1, AnswerTyped DEF IInv, Statuses
  <2> QED
    BY <1>3, <2>2, <2>3 DEF AuthSurface, Authenticated
<1>4. CASE ClientIpGuard
  <2>1. stage \in Layers /\ stage = "client" /\ request.address \in {"inside", "outside", "unknown"}
    BY <1>2, <1>4 DEF ClientIpGuard, Layers, Requests
  <2>2. CASE Pass("host") /\ request.address = "inside"
    <3>1. GuardsPassed'
      BY <1>0, <1>1, <2>1, <2>2 DEF Pass, answering, GuardsPassed
    <3> QED
      BY <2>1, <2>2, <3>1, PassTyped DEF IInv, Layers
  <2>3. CASE Answer("client_forbidden") \/ Answer("no_address")
    <3>1. GuardsPassed'
      BY <1>0, <1>1, <2>1, <2>3 DEF Answer, GuardsPassed
    <3> QED
      BY <2>1, <2>3, <3>1, AnswerTyped DEF IInv, Statuses
  <2> QED
    BY <1>4, <2>1, <2>2, <2>3 DEF ClientIpGuard, ClientIpVerdict
<1>5. CASE HostGuard
  <2>1. stage \in Layers /\ stage = "host"
        /\ request.host \in HostSpelling /\ request.authority \in HostSpelling
    BY <1>2, <1>5 DEF HostGuard, Layers, Requests
  <2>2. /\ ValidateRequestHost(request)
             \in {"pass", "host_missing", "host_invalid", "host_not_allowed"}
        /\ ValidateRequestHost(request) = "pass" <=> NamesHost
    BY <2>1 DEF ValidateRequestHost, NamesHost, HostSpelling
  <2>3. CASE Pass("inbound") /\ NamesHost
    <3>1. GuardsPassed'
      BY <1>0, <1>1, <2>1, <2>3 DEF Pass, answering, GuardsPassed
    <3> QED
      BY <2>1, <2>3, <3>1, PassTyped DEF IInv, Layers
  <2>4. ASSUME NEW code \in {"host_missing", "host_invalid", "host_not_allowed"},
               Answer(code), ~NamesHost
        PROVE  IInv'
    <3>1. GuardsPassed'
      BY <1>0, <1>1, <2>1, <2>4 DEF Answer, GuardsPassed
    <3> QED
      BY <2>1, <2>4, <3>1, AnswerTyped DEF IInv, Statuses
  <2> QED
    BY <1>5, <2>2, <2>3, <2>4 DEF HostGuard
<1>6. CASE InboundAuthGuard
  <2>1. stage \in Layers /\ stage = "inbound"
    BY <1>6 DEF InboundAuthGuard, Layers
  <2>2. CASE Pass("route") /\ ~InboundAuthRefused(request)
    <3>1. GuardsPassed'
      BY <1>0, <1>1, <2>1, <2>2 DEF Pass, answering, GuardsPassed
    <3> QED
      BY <2>1, <2>2, <3>1, PassTyped DEF IInv, Layers
  <2>3. CASE Answer("auth_header_refused")
    <3>1. GuardsPassed'
      BY <1>0, <1>1, <2>1, <2>3 DEF Answer, GuardsPassed
    <3> QED
      BY <2>1, <2>3, <3>1, AnswerTyped DEF IInv, Statuses
  <2> QED
    BY <1>6, <2>2, <2>3 DEF InboundAuthGuard
<1>7. CASE Route
  <2>1. stage \in Layers /\ stage = "route"
    BY <1>7 DEF Route, Layers
  <2>2. CASE Pass("dispatch") /\ request.path = "mcp"
    <3>1. GuardsPassed'
      BY <1>0, <1>1, <2>1, <2>2 DEF Pass, answering, GuardsPassed
    <3> QED
      BY <2>1, <2>2, <3>1, PassTyped DEF IInv
  <2>3. CASE Answer("ok") \/ Answer("not_found")
    <3>1. GuardsPassed'
      BY <1>0, <1>1, <2>1, <2>3 DEF Answer, GuardsPassed
    <3> QED
      BY <2>1, <2>3, <3>1, AnswerTyped DEF IInv, Statuses
  <2> QED
    BY <1>7, <2>2, <2>3 DEF Route
<1> QED
  BY <1>3, <1>4, <1>5, <1>6, <1>7

LEMMA AuditKeeps ==
  ASSUME IInv, RequestAudit
  PROVE  IInv'
<1>1. /\ stage = "audit" /\ stage' = "answered"
      /\ UNCHANGED <<request, status, envelope, clientToken, given, deployment, discovered, published>>
  BY DEF RequestAudit, start
<1>2. StartTypes' /\ StartSettled' /\ LexerTypes'
  BY <1>1, StageServing, ServingFrame, LexerFrame DEF RequestAudit
<1>3. /\ log \in Seq(InnerEvents) /\ log \in Seq(Events)
      /\ "http.request" \in EventNames /\ AuditLevel(status) \in {"INFO", "WARN", "ERROR"}
  BY <1>1 DEF IInv, AuditLast, TypeOK, AnswerTypes, EventNames, AuditLevel
<1>4. /\ log' \in Seq(Events) /\ log' # <<>>
      /\ log'[Len(log')].name = "http.request"
  <2>1. /\ Event("http.request", AuditLevel(status)) \in Events
        /\ Event("http.request", AuditLevel(status)).name = "http.request"
    BY <1>3, EventTyped
  <2> QED
    BY <1>3, <2>1 DEF RequestAudit
<1>5. AnswerTypes'
  BY <1>1, <1>4 DEF IInv, TypeOK, AnswerTypes, Stages, Layers
<1>6. GuardsPassed'
  BY <1>1 DEF IInv, GuardsPassed, Reached, Tooling, BehindInbound, BehindHost, BehindClient,
              BehindAuth, Authenticated, NamesHost, InboundAuthRefused, overHttp, cli, env
<1>7. AuditLast'
  <2>1. overHttp
    BY <1>1 DEF IInv, AuditLast
  <2> QED
    BY <1>1, <1>4, <2>1 DEF AuditLast, overHttp, Layers
<1> QED
  BY <1>2, <1>5, <1>6, <1>7 DEF IInv, TypeOK

\* Behind the route every guard has been passed, so that what is left to keep is the types.
LEMMA ToolingFrame ==
  ASSUME IInv, stage \in Tooling, stage' \in Stages \ {"idle"}, UNCHANGED <<request, start>>,
         status' \in {"none", "ok"}, clientToken' => clientToken \/ UsesRequestHeader(cli.source),
         stage' = "tool" => request.tool \notin {"list_tools", "scratchpad_query"}
  PROVE  StartTypes' /\ StartSettled' /\ GuardsPassed'
<1>1. stage # "idle"
  BY DEF Tooling
<1>2. StartTypes' /\ StartSettled'
  <2>1. UNCHANGED start /\ phase = "serving"
    BY <1>1, StageServing
  <2>2. StartTypes'
    BY <2>1, ServingFrame
  <2>3. StartSettled'
    BY <2>1 DEF IInv, StartSettled, start, overHttp, env
  <2> QED
    BY <2>2, <2>3
<1>3. overHttp => /\ Authenticated /\ request.address = "inside" /\ NamesHost
                  /\ ~InboundAuthRefused(request) /\ request.path = "mcp"
                  /\ clientToken => UsesRequestHeader(cli.source)
  BY DEF IInv, GuardsPassed, Reached, Tooling, BehindInbound, BehindHost, BehindClient, BehindAuth
<1>4. /\ Authenticated' = Authenticated /\ NamesHost' = NamesHost
      /\ InboundAuthRefused(request)' = InboundAuthRefused(request)
      /\ overHttp' = overHttp /\ cli' = cli /\ request' = request
  BY DEF Authenticated, NamesHost, InboundAuthRefused, overHttp, cli, env, start
<1>5. GuardsPassed'
  BY <1>3, <1>4 DEF GuardsPassed
<1> QED
  BY <1>2, <1>5

\* Every answer of a tool is logged behind what the handler logged, and is an envelope.
LEMMA FinishTyped ==
  ASSUME IInv, stage \in {"tool", "query", "lex", "engine"}, UNCHANGED <<request, start, clientToken, given>>,
         NEW answer \in Envelopes, NEW events \in Seq(InnerEvents), Finish(answer, events)
  PROVE  StartTypes' /\ StartSettled' /\ AnswerTypes' /\ GuardsPassed' /\ AuditLast'
<1>1. /\ stage' = (IF overHttp THEN "audit" ELSE "answered") /\ status' = "ok"
      /\ overHttp' = overHttp /\ envelope' = answer
  BY DEF Finish, Reply, overHttp, start
<1>2. /\ stage' \in Stages \ {"idle"} /\ stage \in Tooling /\ status' \in Statuses
      /\ stage' \notin Layers \cup {"dispatch", "tool", "query", "lex", "engine"}
      /\ stage \notin {"idle", "answered"}
  BY <1>1 DEF Stages, Layers, Tooling, Statuses
<1>3. StartTypes' /\ StartSettled' /\ GuardsPassed'
  BY <1>1, <1>2, ToolingFrame
<1>4. log' \in Seq(InnerEvents)
  <2>1. log \in Seq(InnerEvents)
    BY <1>2 DEF IInv, AuditLast
  <2>2. <<Event("tool.finish", "INFO")>> \in Seq(InnerEvents)
    BY EventTyped DEF EventNames
  <2>3. ContractEvents(answer) \in Seq(InnerEvents)
    BY ContractEventsTyped
  <2>4. \A s, t \in Seq(InnerEvents) : s \o t \in Seq(InnerEvents)
    OBVIOUS
  <2> QED
    BY <2>1, <2>2, <2>3, <2>4 DEF Finish
<1>5. log' \in Seq(Events)
  BY <1>4 DEF InnerEvents
<1>6. AnswerTypes'
  <2>1. request \in Requests /\ request # None
    BY <1>2, StageServing
  <2> QED
    BY <1>1, <1>2, <1>5, <2>1 DEF IInv, TypeOK, AnswerTypes
<1>7. AuditLast'
  BY <1>1, <1>2, <1>4 DEF AuditLast
<1> QED
  BY <1>3, <1>6, <1>7

LEMMA ListToolsKeeps ==
  ASSUME IInv, ListTools
  PROVE  IInv'
<1>1. /\ stage = "dispatch" /\ status' = "ok" /\ overHttp' = overHttp
      /\ stage' = (IF overHttp THEN "audit" ELSE "answered")
      /\ UNCHANGED <<request, envelope, clientToken, given, log, start, lexer>>
  BY DEF ListTools, Reply, overHttp, start
<1>2. stage \in Tooling /\ stage' \in Stages \ {"idle"} /\ status' \in Statuses
  BY <1>1 DEF Stages, Layers, Tooling, Statuses
<1>3. StartTypes' /\ StartSettled' /\ GuardsPassed'
  BY <1>1, <1>2, ToolingFrame
<1>4. LexerTypes'
  BY <1>1, LexerFrame
<1>5. AnswerTypes'
  BY <1>1, <1>2 DEF IInv, TypeOK, AnswerTypes, Layers
<1>6. AuditLast'
  BY <1>1 DEF IInv, AuditLast, Layers
<1> QED
  BY <1>3, <1>4, <1>5, <1>6 DEF IInv, TypeOK

LEMMA CallToolKeeps ==
  ASSUME IInv, CallTool
  PROVE  IInv'
<1>1. /\ stage = "dispatch" /\ stage \in Tooling /\ overHttp' = overHttp
      /\ UNCHANGED <<request, given, start, lexer>>
  BY DEF CallTool, Tooling, overHttp, start
<1>2. /\ request \in Requests /\ request # None /\ log \in Seq(InnerEvents)
      /\ status = "none" /\ envelope = None /\ clientToken \in BOOLEAN
  BY <1>1, StageServing DEF IInv, TypeOK, AnswerTypes, AuditLast
<1>3. LexerTypes'
  BY <1>1, LexerFrame
<1>4. CASE /\ envelope' = Failure("policy_denied", "none")
           /\ log' = Append(log, Event("tool.blocked", "WARN"))
           /\ Reply /\ UNCHANGED clientToken
  <2>1. /\ stage' = (IF overHttp THEN "audit" ELSE "answered") /\ status' = "ok"
        /\ stage' \in Stages \ {"idle"} /\ status' \in Statuses
        /\ stage' \notin Layers \cup {"dispatch", "tool", "query", "lex", "engine"}
    BY <1>4 DEF Reply, Stages, Layers, Statuses
  <2>2. StartTypes' /\ StartSettled' /\ GuardsPassed'
    BY <1>1, <1>4, <2>1, ToolingFrame
  <2>3. log' \in Seq(InnerEvents)
    <3>1. Event("tool.blocked", "WARN") \in InnerEvents
      BY EventTyped DEF EventNames
    <3> QED
      BY <1>2, <1>4, <3>1
  <2>4. envelope' \in Envelopes /\ log' \in Seq(Events)
    BY <1>4, <2>3, FailureTyped DEF ErrorKinds, InnerEvents
  <2>5. AnswerTypes'
    BY <1>1, <1>2, <1>4, <2>1, <2>4 DEF IInv, TypeOK, AnswerTypes
  <2>6. AuditLast'
    BY <1>1, <2>1, <2>3 DEF AuditLast
  <2> QED
    BY <1>3, <2>2, <2>5, <2>6 DEF IInv, TypeOK
<1>5. CASE /\ clientToken' = TokenOverride(request)
           /\ log' = log \o <<Event("tool.start", "INFO"), Event("upstream_auth.context", "INFO")>>
           /\ stage' = (IF request.tool = "scratchpad_query" THEN "query" ELSE "tool")
           /\ UNCHANGED <<envelope, status>>
  <2>1. /\ stage' \in {"query", "tool"} /\ stage' \in Stages \ {"idle"}
        /\ stage' \notin {"answered", "audit"} \cup Layers
    BY <1>5 DEF Stages, Layers
  <2>2. clientToken' \in BOOLEAN /\ (clientToken' => UsesRequestHeader(cli.source))
    BY <1>5 DEF TokenOverride
  <2>3. StartTypes' /\ StartSettled' /\ GuardsPassed'
    <3>1. stage' = "tool" => request.tool \notin {"list_tools", "scratchpad_query"}
      BY <1>5 DEF CallTool
    <3> QED
      BY <1>1, <1>2, <1>5, <2>1, <2>2, <3>1, ToolingFrame
  <2>4. log' \in Seq(InnerEvents)
    <3>1. <<Event("tool.start", "INFO"), Event("upstream_auth.context", "INFO")>> \in Seq(InnerEvents)
      <4>1. /\ Event("tool.start", "INFO") \in InnerEvents
            /\ Event("upstream_auth.context", "INFO") \in InnerEvents
        BY EventTyped DEF EventNames
      <4> QED
        BY <4>1
    <3>2. \A s, t \in Seq(InnerEvents) : s \o t \in Seq(InnerEvents)
      OBVIOUS
    <3> QED
      BY <1>2, <1>5, <3>1, <3>2
  <2>5. log' \in Seq(Events)
    BY <2>4 DEF InnerEvents
  <2>6. AnswerTypes'
    BY <1>1, <1>2, <1>5, <2>1, <2>2, <2>5 DEF IInv, TypeOK, AnswerTypes
  <2>7. AuditLast'
    BY <2>1, <2>4 DEF AuditLast
  <2> QED
    BY <1>3, <2>3, <2>6, <2>7 DEF IInv, TypeOK
<1> QED
  BY <1>4, <1>5 DEF CallTool

LEMMA RunToolKeeps ==
  ASSUME IInv, RunTool
  PROVE  IInv'
<1>1. /\ stage = "tool" /\ stage \in Tooling /\ overHttp' = overHttp
      /\ stage \in {"tool", "query", "lex", "engine"}
      /\ UNCHANGED <<request, clientToken, given, start, lexer>>
  BY DEF RunTool, Tooling, overHttp, start
<1>2. /\ request \in Requests /\ request # None /\ log \in Seq(InnerEvents)
      /\ status = "none" /\ envelope = None
  BY <1>1, StageServing DEF IInv, TypeOK, AnswerTypes, AuditLast
<1>3. LexerTypes'
  BY <1>1, LexerFrame
<1>4. CASE /\ log' = Append(log, Event("tool.error", "WARN"))
           /\ Reply /\ UNCHANGED envelope
  <2>1. /\ stage' = (IF overHttp THEN "audit" ELSE "answered") /\ status' = "ok"
        /\ stage' \in Stages \ {"idle"} /\ status' \in Statuses
        /\ stage' \notin Layers \cup {"dispatch", "tool", "query", "lex", "engine"}
    BY <1>4 DEF Reply, Stages, Layers, Statuses
  <2>2. StartTypes' /\ StartSettled' /\ GuardsPassed'
    BY <1>1, <2>1, ToolingFrame
  <2>3. log' \in Seq(InnerEvents)
    <3>1. Event("tool.error", "WARN") \in InnerEvents
      BY EventTyped DEF EventNames
    <3> QED
      BY <1>2, <1>4, <3>1
  <2>4. log' \in Seq(Events)
    BY <2>3 DEF InnerEvents
  <2>5. AnswerTypes'
    BY <1>1, <1>2, <1>4, <2>1, <2>4 DEF IInv, TypeOK, AnswerTypes
  <2>6. AuditLast'
    BY <1>1, <2>1, <2>3 DEF AuditLast
  <2> QED
    BY <1>3, <2>2, <2>5, <2>6 DEF IInv, TypeOK
<1>5. ASSUME NEW answer \in Envelopes, NEW events \in Seq(InnerEvents), Finish(answer, events)
      PROVE  IInv'
  BY <1>1, <1>3, <1>5, FinishTyped DEF IInv, TypeOK
<1>6. CASE /\ request.tool \notin {"unknown", "scratchpad_unknown"}
           /\ \/ \E answer \in ToolAnswers(request.tool) : Finish(answer, <<>>)
              \/ \E kind \in ToolErrors(request.tool) :
                   Finish(Failure(kind, "SQL_TOO_LARGE"), HandlerEvents(request.tool, kind))
  <2>1. request.tool \in {"report", "preview", "batch", "funnel", "listing", "scratchpad_session"}
    <3>1. request.tool \notin {"list_tools", "scratchpad_query"}
      BY <1>1 DEF IInv, GuardsPassed
    <3> QED
      BY <1>2, <1>6, <3>1 DEF Requests
  <2>2. CASE \E answer \in ToolAnswers(request.tool) : Finish(answer, <<>>)
    <3>1. <<>> \in Seq(InnerEvents)
      OBVIOUS
    <3> QED
      BY <1>5, <2>1, <2>2, <3>1, ToolAnswersTyped
  <2>3. CASE \E kind \in ToolErrors(request.tool) :
               Finish(Failure(kind, "SQL_TOO_LARGE"), HandlerEvents(request.tool, kind))
    <3>1. "SQL_TOO_LARGE" \in PolicyCodes
      BY DEF PolicyCodes
    <3> QED
      BY <1>5, <2>1, <2>3, <3>1, ToolErrorsTyped, FailureTyped, CursorEventsTyped
  <2> QED
    BY <1>6, <2>2, <2>3
<1> QED
  BY <1>4, <1>6 DEF RunTool

LEMMA PrepareQueryKeeps ==
  ASSUME IInv, PrepareQuery
  PROVE  IInv'
<1>1. /\ stage = "query" /\ stage \in Tooling /\ stage \in {"tool", "query", "lex", "engine"}
      /\ UNCHANGED <<request, clientToken, given, start>> /\ overHttp' = overHttp
  BY DEF PrepareQuery, Tooling, overHttp, start
<1>2. /\ request \in Requests /\ request # None /\ log \in Seq(InnerEvents)
      /\ status = "none" /\ envelope = None
  BY <1>1, StageServing DEF IInv, TypeOK, AnswerTypes, AuditLast
<1>3. ASSUME NEW answer \in Envelopes, NEW events \in Seq(InnerEvents), Finish(answer, events),
             UNCHANGED lexer
      PROVE  IInv'
  BY <1>1, <1>3, LexerFrame, FinishTyped DEF IInv, TypeOK
<1>4. ASSUME NEW kind \in {"invalid_argument", "invalid_cursor", "cursor_mismatch", "internal"},
             Finish(Failure(kind, "none"), CursorEvents(kind)), UNCHANGED lexer
      PROVE  IInv'
  <2>1. kind \in ErrorKinds
    BY DEF ErrorKinds
  <2> QED
    BY <1>3, <1>4, <2>1, FailureTyped, CursorEventsTyped
<1>5. ASSUME SizeVerdict(cli.maxSqlBytes, Trim(request.sql)) # "ALLOWED", UNCHANGED lexer,
             Finish(Failure("sql_rejected", SizeVerdict(cli.maxSqlBytes, Trim(request.sql))),
                    <<Event("scratchpad.query.error", "WARN")>>)
      PROVE  IInv'
  <2>1. Failure("sql_rejected", SizeVerdict(cli.maxSqlBytes, Trim(request.sql))) \in Envelopes
    BY <1>5, VerdictsTyped, FailureTyped DEF ErrorKinds, ScratchpadErrors
  <2>2. <<Event("scratchpad.query.error", "WARN")>> \in Seq(InnerEvents)
    BY EventTyped DEF EventNames
  <2> QED
    BY <1>3, <1>5, <2>1, <2>2
<1>6. ASSUME StartLexer(Trim(request.sql)), stage' = "lex", UNCHANGED <<status, envelope, log>>
      PROVE  IInv'
  <2>1. stage' \in Stages \ {"idle"} /\ stage' \notin {"answered", "audit"} \cup Layers
    BY <1>6 DEF Stages, Layers
  <2>2. StartTypes' /\ StartSettled' /\ GuardsPassed'
    BY <1>1, <1>2, <1>6, <2>1, ToolingFrame
  <2>3. LexerTypes'
    BY <1>2, <1>6, TrimsTyped, StartLexerTyped DEF Requests
  <2>4. AnswerTypes'
    BY <1>1, <1>2, <1>6, <2>1 DEF IInv, TypeOK, AnswerTypes
  <2>5. AuditLast'
    BY <1>2, <1>6, <2>1 DEF AuditLast
  <2> QED
    BY <2>2, <2>3, <2>4, <2>5 DEF IInv, TypeOK
<1> QED
  BY <1>4, <1>5, <1>6 DEF PrepareQuery

LEMMA LexStepKeeps ==
  ASSUME IInv, LexStep
  PROVE  IInv'
<1>1. /\ stage = "lex" /\ stage' = "lex" /\ stage \in Tooling /\ stage' \in Stages \ {"idle"}
      /\ UNCHANGED <<answering, start>> /\ status = "none"
      /\ stage \notin Layers \cup {"idle", "audit", "answered"}
  BY DEF LexStep, Tooling, Stages, Layers, IInv, TypeOK, AnswerTypes
<1>2. StartTypes' /\ StartSettled' /\ GuardsPassed'
  BY <1>1, ToolingFrame DEF answering
<1>3. LexerTypes'
  BY LexTyped DEF LexStep, IInv, TypeOK
<1>4. AnswerTypes'
  BY <1>1 DEF IInv, TypeOK, AnswerTypes, answering
<1>5. AuditLast'
  BY <1>1 DEF IInv, AuditLast, answering
<1> QED
  BY <1>2, <1>3, <1>4, <1>5 DEF IInv, TypeOK

LEMMA DecideQueryKeeps ==
  ASSUME IInv, DecideQuery
  PROVE  IInv'
<1>1. /\ stage = "lex" /\ stage \in Tooling /\ stage \in {"tool", "query", "lex", "engine"}
      /\ UNCHANGED <<request, clientToken, start, lexer>>
  BY DEF DecideQuery, Tooling
<1>2. /\ request \in Requests /\ request # None /\ log \in Seq(InnerEvents)
      /\ status = "none" /\ envelope = None /\ sql \in Seq(Bytes)
  BY <1>1, StageServing DEF IInv, TypeOK, AnswerTypes, LexerTypes, AuditLast
<1>3. LexerTypes'
  BY <1>1, LexerFrame
<1>4. ASSUME NEW decision \in Decisions, Verdict(decision) # "ALLOWED", UNCHANGED given,
             Finish(Failure("sql_rejected", Verdict(decision)),
                    <<Event("scratchpad.query.error", "WARN")>>)
      PROVE  IInv'
  <2>1. Failure("sql_rejected", Verdict(decision)) \in Envelopes
    BY <1>4, VerdictsTyped, FailureTyped DEF ErrorKinds, ScratchpadErrors
  <2>2. <<Event("scratchpad.query.error", "WARN")>> \in Seq(InnerEvents)
    BY EventTyped DEF EventNames
  <2> QED
    BY <1>1, <1>3, <1>4, <2>1, <2>2, FinishTyped DEF IInv, TypeOK
<1>5. ASSUME given' = (IF SupportsWrappedPagination(sql) THEN WrapQuery(sql) ELSE sql),
             stage' = "engine", UNCHANGED <<status, envelope, log>>
      PROVE  IInv'
  <2>1. stage' \in Stages \ {"idle"} /\ stage' \notin {"answered", "audit"} \cup Layers
    BY <1>5 DEF Stages, Layers
  <2>2. StartTypes' /\ StartSettled' /\ GuardsPassed'
    BY <1>1, <1>2, <1>5, <2>1, ToolingFrame
  <2>3. given' \in Seq(Bytes)
    BY <1>2, <1>5, WrapTyped
  <2>4. AnswerTypes'
    BY <1>1, <1>2, <1>5, <2>1, <2>3 DEF IInv, TypeOK, AnswerTypes
  <2>5. AuditLast'
    BY <1>2, <1>5, <2>1 DEF AuditLast
  <2> QED
    BY <1>3, <2>2, <2>4, <2>5 DEF IInv, TypeOK
<1> QED
  BY <1>4, <1>5 DEF DecideQuery

LEMMA RunQueryKeeps ==
  ASSUME IInv, RunQuery
  PROVE  IInv'
<1>1. /\ stage \in {"tool", "query", "lex", "engine"}
      /\ UNCHANGED <<request, clientToken, given, start, lexer>>
  BY DEF RunQuery
<1>2. ASSUME NEW answer \in Envelopes, NEW events \in Seq(InnerEvents), Finish(answer, events)
      PROVE  IInv'
  BY <1>1, <1>2, LexerFrame, FinishTyped DEF IInv, TypeOK
<1>3. /\ <<Event("scratchpad.query.duration", "INFO")>> \in Seq(InnerEvents)
      /\ <<Event("scratchpad.query.error", "WARN")>> \in Seq(InnerEvents)
  BY EventTyped DEF EventNames
<1>4. \A kind \in {"invalid_argument", "limit", "engine", "timeout", "internal"} :
        Failure(kind, "none") \in Envelopes
  BY FailureTyped DEF ErrorKinds, ScratchpadErrors
<1> QED
  BY <1>2, <1>3, <1>4, SuccessTyped DEF RunQuery

LEMMA StutterKeeps ==
  ASSUME IInv, UNCHANGED vars
  PROVE  IInv'
<1>1. StartTypes' /\ StartSettled'
  BY DEF vars, IInv, TypeOK, StartTypes, StartSettled, overHttp, env
<1>2. LexerTypes'
  BY LexerFrame DEF vars, lexer
<1>3. AnswerTypes'
  BY DEF vars, IInv, TypeOK, AnswerTypes
<1>4. GuardsPassed'
  BY DEF vars, IInv, GuardsPassed, Reached, Authenticated, NamesHost, InboundAuthRefused, overHttp,
         cli, env
<1>5. AuditLast'
  BY DEF vars, IInv, AuditLast, overHttp
<1> QED
  BY <1>1, <1>2, <1>3, <1>4, <1>5 DEF IInv, TypeOK

LEMMA NextKeeps ==
  ASSUME IInv, [Next]_vars
  PROVE  IInv'
BY StartKeeps, ArriveKeeps, LayersKeep, AuditKeeps, ListToolsKeeps, CallToolKeeps, RunToolKeeps,
   PrepareQueryKeeps, LexStepKeeps, DecideQueryKeeps, RunQueryKeeps, StutterKeeps
   DEF Next, Handle

-----------------------------------------------------------------------------
(* The log and the answer                                                    *)

Elements(s) == {s[k] : k \in DOMAIN s}

LEMMA Concatenation ==
  ASSUME NEW S, NEW s \in Seq(S), NEW t \in Seq(S)
  PROVE  /\ s \o t \in Seq(S)
         /\ Elements(s \o t) = Elements(s) \cup Elements(t)
<1>1. /\ s \o t \in Seq(S) /\ Len(s \o t) = Len(s) + Len(t)
      /\ \A k \in 1..Len(s) : (s \o t)[k] = s[k]
      /\ \A k \in 1..Len(t) : (s \o t)[Len(s) + k] = t[k]
      /\ DOMAIN s = 1..Len(s) /\ DOMAIN t = 1..Len(t) /\ DOMAIN (s \o t) = 1..(Len(s) + Len(t))
      /\ Len(s) \in Nat /\ Len(t) \in Nat
  OBVIOUS
<1>2. ASSUME NEW k \in DOMAIN (s \o t)
      PROVE  (s \o t)[k] \in Elements(s) \cup Elements(t)
  <2>1. CASE k <= Len(s)
    BY <1>1, <2>1 DEF Elements
  <2>2. CASE k > Len(s)
    <3>1. k - Len(s) \in 1..Len(t) /\ Len(s) + (k - Len(s)) = k
      BY <1>1, <2>2
    <3>2. (s \o t)[k] = t[k - Len(s)]
      BY <1>1, <3>1
    <3> QED
      BY <1>1, <3>1, <3>2 DEF Elements
  <2> QED
    BY <1>1, <2>1, <2>2
<1>3. \A k \in DOMAIN s : s[k] \in Elements(s \o t)
  BY <1>1 DEF Elements
<1>4. ASSUME NEW k \in DOMAIN t
      PROVE  t[k] \in Elements(s \o t)
  <2>1. Len(s) + k \in DOMAIN (s \o t)
    BY <1>1
  <2>2. (s \o t)[Len(s) + k] = t[k]
    BY <1>1
  <2> QED
    BY <2>1, <2>2 DEF Elements
<1>5. \A e \in Elements(s \o t) : e \in Elements(s) \cup Elements(t)
  BY <1>2 DEF Elements
<1>6. \A e \in Elements(s) \cup Elements(t) : e \in Elements(s \o t)
  BY <1>3, <1>4 DEF Elements
<1> QED
  BY <1>1, <1>5, <1>6

\* Where something stands in only one of three parts, and there alone, it stands once.
LEMMA StandsOnce ==
  ASSUME NEW S, NEW s \in Seq(S), NEW x \in S, NEW t \in Seq(S), NEW name,
         \A e \in Elements(s) \cup Elements(t) : e.name # name,
         NEW k \in DOMAIN (s \o (<<x>> \o t)), (s \o (<<x>> \o t))[k].name = name
  PROVE  k = Len(s) + 1
<1> DEFINE tail == <<x>> \o t
           whole == s \o tail
<1>1. /\ tail \in Seq(S) /\ Len(tail) = Len(t) + 1
      /\ \A j \in 2..Len(tail) : tail[j] = t[j - 1]
      /\ Len(s) \in Nat /\ Len(t) \in Nat /\ DOMAIN s = 1..Len(s) /\ DOMAIN t = 1..Len(t)
  OBVIOUS
<1>2. /\ DOMAIN whole = 1..(Len(s) + Len(tail))
      /\ \A j \in 1..Len(s) : whole[j] = s[j]
      /\ \A j \in 1..Len(tail) : whole[Len(s) + j] = tail[j]
  BY <1>1
<1>3. k \in 1..(Len(s) + Len(t) + 1) /\ whole[k].name = name
  BY <1>1, <1>2
<1> HIDE DEF whole, tail
<1>4. k \notin 1..Len(s)
  BY <1>1, <1>2, <1>3 DEF Elements
<1>5. ASSUME k > Len(s) + 1
      PROVE  FALSE
  <2>1. k - Len(s) \in 2..Len(tail) /\ Len(s) + (k - Len(s)) = k /\ k - Len(s) \in 1..Len(tail)
        /\ k - Len(s) - 1 \in 1..Len(t)
    BY <1>1, <1>3, <1>5
  <2>2. whole[k] = t[k - Len(s) - 1]
    BY <1>1, <1>2, <2>1
  <2> QED
    BY <1>1, <1>3, <2>1, <2>2 DEF Elements
<1> QED
  BY <1>1, <1>3, <1>4, <1>5

\* What every answer of a tool has: data or a code, a reason that fits its category, and a
\* page, if it has one, whose cursor can be told.
WellMade(answer) ==
  /\ answer.ok <=> answer.data # "absent"
  /\ answer.ok <=> answer.code = "none"
  /\ answer.category = "cursor" <=> answer.reason = "invalid_cursor"
  /\ answer.reason # "policy_denied"
  /\ answer.rows => answer.cursor # "absent" \/ answer.subreports = 2
  /\ answer.subreports = 2 => answer.rows /\ answer.cursor # "set"

LEMMA SuccessWellMade ==
  /\ WellMade(Plain)
  /\ \A summaryOnly, more \in BOOLEAN : WellMade(Tabular(summaryOnly, more))
  /\ \A summaryOnly \in BOOLEAN : WellMade(Funnel(summaryOnly))
BY DEF Plain, Tabular, Funnel, Success, WellMade

\* The taxonomy has a code for every error, and one reason for its category of cursors.
LEMMA FailureWellMade ==
  ASSUME NEW kind \in ErrorKinds \ {"policy_denied"}, NEW policy
  PROVE  WellMade(Failure(kind, policy))
<1>1. /\ \/ kind \in {"invalid_argument", "invalid_cursor", "cursor_mismatch", "transport",
                      "upstream_json", "internal"} \cup AuthErrors \cup ScratchpadErrors
         \/ kind \in DOMAIN UpstreamStatus
      /\ DOMAIN UpstreamStatus
           = {"upstream_other", "upstream_forbidden", "upstream_throttled", "upstream_down"}
  BY DEF ErrorKinds, UpstreamStatus
<1>2. Code(kind) # "none"
  BY <1>1 DEF Code, AuthErrors, ScratchpadErrors
<1>3. Reason(kind) # "policy_denied"
      /\ (Reason(kind) = "invalid_cursor" <=> kind \in {"invalid_cursor", "cursor_mismatch"})
  BY <1>1 DEF Reason, AuthErrors, ScratchpadErrors
<1>4. Category(kind) = "cursor" <=> kind \in {"invalid_cursor", "cursor_mismatch"}
  BY <1>1 DEF Category, AuthErrors, ScratchpadErrors
<1> QED
  BY <1>2, <1>3, <1>4 DEF Failure, WellMade

\* What a handler logs before it answers.
HandlerTells(events, answer) ==
  \A e \in Elements(events) :
    \/ e.name \in {"scratchpad.query.error", "scratchpad.query.duration"}
    \/ e.name = "pagination.cursor_error" /\ answer.reason = "invalid_cursor"

Started == <<Event("tool.start", "INFO"), Event("upstream_auth.context", "INFO")>>

LEMMA PageEventsTell ==
  ASSUME NEW answer \in Envelopes, WellMade(answer)
  PROVE  /\ PageEvents(answer) \in Seq(InnerEvents)
         /\ \A e \in Elements(PageEvents(answer)) :
              \/ /\ answer.rows /\ e.name = "pagination.meta"
                 /\ e.cursor = BoolLabel(answer.cursor = "set")
              \/ e.name = "pagination.cursor_error" /\ answer.reason = "invalid_cursor"
         /\ answer.rows =>
              \E e \in Elements(PageEvents(answer)) : e.name = "pagination.meta"
         /\ answer.reason = "invalid_cursor" =>
              \E e \in Elements(PageEvents(answer)) : e.name = "pagination.cursor_error"
<1> DEFINE page == IF answer.rows THEN <<PaginationMeta(NextCursorPresent(answer))>> ELSE <<>>
           subs == [k \in 1..answer.subreports |-> PaginationMeta("false")]
           slip == IF answer.reason = "invalid_cursor"
                   THEN <<Event("pagination.cursor_error", "WARN")>> ELSE <<>>
<1>0. /\ answer.subreports \in {0, 2} /\ answer.rows \in BOOLEAN
      /\ answer.cursor \in {"absent", "null", "set"}
  BY DEF Envelopes
<1>1. ASSUME NEW present \in Labels
      PROVE  /\ PaginationMeta(present) \in InnerEvents
             /\ PaginationMeta(present).name = "pagination.meta"
             /\ PaginationMeta(present).cursor = present
  <2>1. /\ Event("pagination.meta", "INFO") \in Events
        /\ Event("pagination.meta", "INFO").name = "pagination.meta"
    BY EventTyped DEF EventNames
  <2> QED
    BY <2>1 DEF PaginationMeta, Events, InnerEvents
<1>2. /\ NextCursorPresent(answer) \in Labels
      /\ answer.rows => NextCursorPresent(answer) = BoolLabel(answer.cursor = "set")
      /\ answer.subreports = 2 => "false" = BoolLabel(answer.cursor = "set")
  BY <1>0, LabelTyped DEF NextCursorPresent, Labels, BoolLabel, WellMade
<1>3. /\ page \in Seq(InnerEvents)
      /\ \A e \in Elements(page) : /\ answer.rows /\ e.name = "pagination.meta"
                                   /\ e.cursor = BoolLabel(answer.cursor = "set")
      /\ answer.rows => \E e \in Elements(page) : e.name = "pagination.meta"
  <2>1. CASE answer.rows
    <3>1. page = <<PaginationMeta(NextCursorPresent(answer))>>
      BY <2>1
    <3> QED
      BY <1>1, <1>2, <2>1, <3>1 DEF Elements
  <2>2. CASE ~answer.rows
    BY <2>2 DEF Elements
  <2> QED
    BY <2>1, <2>2
<1>4. /\ subs \in Seq(InnerEvents)
      /\ \A e \in Elements(subs) : /\ answer.rows /\ e.name = "pagination.meta"
                                   /\ e.cursor = BoolLabel(answer.cursor = "set")
  <2>1. /\ PaginationMeta("false") \in InnerEvents
        /\ PaginationMeta("false").name = "pagination.meta"
        /\ PaginationMeta("false").cursor = "false"
    BY <1>1 DEF Labels
  <2>2. \A e \in Elements(subs) : e = PaginationMeta("false") /\ answer.subreports = 2
    BY <1>0 DEF Elements
  <2> QED
    BY <1>0, <1>2, <2>1, <2>2 DEF WellMade
<1>5. /\ slip \in Seq(InnerEvents)
      /\ \A e \in Elements(slip) :
           e.name = "pagination.cursor_error" /\ answer.reason = "invalid_cursor"
      /\ answer.reason = "invalid_cursor" =>
           \E e \in Elements(slip) : e.name = "pagination.cursor_error"
  <2>1. /\ Event("pagination.cursor_error", "WARN") \in InnerEvents
        /\ Event("pagination.cursor_error", "WARN").name = "pagination.cursor_error"
    BY EventTyped DEF EventNames
  <2>2. CASE answer.reason = "invalid_cursor"
    <3>1. slip = <<Event("pagination.cursor_error", "WARN")>>
      BY <2>2
    <3> QED
      BY <2>1, <2>2, <3>1 DEF Elements
  <2>3. CASE answer.reason # "invalid_cursor"
    BY <2>3 DEF Elements
  <2> QED
    BY <2>2, <2>3
<1> HIDE DEF page, subs, slip
<1>6. /\ page \o subs \in Seq(InnerEvents)
      /\ Elements(page \o subs) = Elements(page) \cup Elements(subs)
  BY <1>3, <1>4, Concatenation
<1>7. /\ page \o subs \o slip \in Seq(InnerEvents)
      /\ Elements(page \o subs \o slip) = Elements(page) \cup Elements(subs) \cup Elements(slip)
  <2> DEFINE both == page \o subs
  <2>1. both \in Seq(InnerEvents) /\ Elements(both) = Elements(page) \cup Elements(subs)
    BY <1>6
  <2> HIDE DEF both
  <2>2. /\ both \o slip \in Seq(InnerEvents)
        /\ Elements(both \o slip) = Elements(both) \cup Elements(slip)
    BY <1>5, <2>1, Concatenation
  <2> QED
    BY <2>1, <2>2 DEF both
<1>8. PageEvents(answer) = page \o subs \o slip
  BY DEF PageEvents, page, subs, slip
<1> QED
  BY <1>3, <1>4, <1>5, <1>7, <1>8

\* The names in a log decide what is in it.
LEMMA NamedElements ==
  ASSUME NEW s \in Seq(Events), NEW name
  PROVE  /\ {k \in DOMAIN s : s[k].name = name} # {} <=> \E e \in Elements(s) : e.name = name
         /\ \A k \in {j \in DOMAIN s : s[j].name = name} :
              s[k] \in Elements(s) /\ s[k].name = name
BY DEF Elements

\* The log of an answer agrees with it.
LEMMA FinishAgrees ==
  ASSUME log = Started, NEW answer \in Envelopes, WellMade(answer),
         NEW events \in Seq(InnerEvents), HandlerTells(events, answer), Finish(answer, events)
  PROVE  LogAgrees'
<1> DEFINE last == <<Event("tool.finish", "INFO")>>
           before == Started \o events \o last
           summary == ContractResponse(answer)
           page == PageEvents(answer)
<1>1. /\ Started \in Seq(InnerEvents)
      /\ \A e \in Elements(Started) : e.name \in {"tool.start", "upstream_auth.context"}
      /\ \E e \in Elements(Started) : e.name = "tool.start"
  <2>1. /\ Event("tool.start", "INFO") \in InnerEvents
        /\ Event("upstream_auth.context", "INFO") \in InnerEvents
        /\ Event("tool.start", "INFO").name = "tool.start"
        /\ Event("upstream_auth.context", "INFO").name = "upstream_auth.context"
    BY EventTyped DEF EventNames
  <2>2. DOMAIN Started = 1..2 /\ Started[1] = Event("tool.start", "INFO")
        /\ Started[2] = Event("upstream_auth.context", "INFO")
    BY DEF Started
  <2>3. Started \in Seq(InnerEvents)
    BY <2>1 DEF Started
  <2>4. Elements(Started) = {Event("tool.start", "INFO"), Event("upstream_auth.context", "INFO")}
    BY <2>2 DEF Elements
  <2> QED
    BY <2>1, <2>3, <2>4
<1>2. /\ last \in Seq(InnerEvents)
      /\ Elements(last) = {Event("tool.finish", "INFO")}
      /\ Event("tool.finish", "INFO").name = "tool.finish"
  <2>1. Event("tool.finish", "INFO") \in InnerEvents /\ Event("tool.finish", "INFO").name = "tool.finish"
    BY EventTyped DEF EventNames
  <2> QED
    BY <2>1 DEF Elements
<1> HIDE DEF last
<1>3. /\ before \in Seq(InnerEvents)
      /\ Elements(before)
           = Elements(Started) \cup Elements(events) \cup {Event("tool.finish", "INFO")}
  <2> DEFINE first == Started \o events
  <2>1. first \in Seq(InnerEvents) /\ Elements(first) = Elements(Started) \cup Elements(events)
    BY <1>1, Concatenation
  <2> HIDE DEF first
  <2>2. first \o last \in Seq(InnerEvents) /\ Elements(first \o last) = Elements(first) \cup Elements(last)
    BY <1>2, <2>1, Concatenation
  <2> QED
    BY <1>2, <2>1, <2>2 DEF first
<1>4. /\ page \in Seq(InnerEvents) /\ summary \in InnerEvents /\ summary.name = "contract.response"
      /\ summary.ok = BoolLabel(answer.ok)
      /\ summary.data = BoolLabel(answer.data # "absent")
      /\ summary.error = BoolLabel(answer.code # "none")
      /\ summary.level = (IF answer.ok THEN "INFO" ELSE "WARN")
  <2>1. page \in Seq(InnerEvents)
    BY PageEventsTell
  <2>2. answer.ok \in BOOLEAN /\ answer.reason \in Reasons
    BY DEF Envelopes
  <2>3. /\ BoolLabel(answer.ok) \in Labels /\ BoolLabel(answer.data # "absent") \in Labels
        /\ BoolLabel(answer.code # "none") \in Labels
    BY <2>2, LabelTyped
  <2>4. \A level \in {"INFO", "WARN", "ERROR"} :
          /\ Event("contract.response", level) \in Events
          /\ Event("contract.response", level).name = "contract.response"
          /\ Event("contract.response", level).level = level
    BY EventTyped DEF EventNames, Event
  <2> QED
    BY <2>1, <2>2, <2>3, <2>4 DEF ContractResponse, Events, InnerEvents
<1>5. log' = before \o (<<summary>> \o page)
  <2>1. ContractEvents(answer) = <<summary>> \o page
    BY DEF ContractEvents
  <2> QED
    BY <2>1, <1>3 DEF Finish, last
<1> HIDE DEF before, summary, page
<1>6. /\ log' \in Seq(InnerEvents) /\ log' \in Seq(Events)
      /\ Elements(log') = Elements(before) \cup {summary} \cup Elements(page)
  <2> DEFINE one == <<summary>>
  <2>1. one \in Seq(InnerEvents) /\ Elements(one) = {summary}
    BY <1>4 DEF Elements
  <2> HIDE DEF one
  <2>2. one \o page \in Seq(InnerEvents) /\ Elements(one \o page) = {summary} \cup Elements(page)
    BY <1>4, <2>1, Concatenation
  <2> DEFINE rest == one \o page
  <2>3. rest \in Seq(InnerEvents) /\ Elements(rest) = {summary} \cup Elements(page)
    BY <2>2
  <2>4. log' = before \o rest
    BY <1>5 DEF one
  <2> HIDE DEF rest
  <2>5. before \o rest \in Seq(InnerEvents) /\ Elements(before \o rest) = Elements(before) \cup Elements(rest)
    BY <1>3, <2>3, Concatenation
  <2>6. Seq(InnerEvents) \subseteq Seq(Events)
    BY DEF InnerEvents
  <2> QED
    BY <2>3, <2>4, <2>5, <2>6
<1>7. envelope' = answer /\ answer # None /\ answer.reason # "policy_denied" /\ answer.ok \in BOOLEAN
  BY RequestAssumption DEF Finish, WellMade, Envelopes
<1>8. /\ \A e \in Elements(page) :
           \/ /\ answer.rows /\ e.name = "pagination.meta"
              /\ e.cursor = BoolLabel(answer.cursor = "set")
           \/ e.name = "pagination.cursor_error" /\ answer.reason = "invalid_cursor"
      /\ answer.rows => \E e \in Elements(page) : e.name = "pagination.meta"
      /\ answer.reason = "invalid_cursor" =>
           \E e \in Elements(page) : e.name = "pagination.cursor_error"
  BY PageEventsTell DEF page
<1>9. \A e \in Elements(before) :
        \/ e.name \in {"tool.start", "upstream_auth.context", "tool.finish",
                       "scratchpad.query.error", "scratchpad.query.duration"}
        \/ e.name = "pagination.cursor_error" /\ answer.reason = "invalid_cursor"
  BY <1>1, <1>2, <1>3 DEF HandlerTells
<1> DEFINE Told(name) == \E e \in Elements(log') : e.name = name
<1>10. /\ Told("tool.start") /\ Told("tool.finish") /\ Told("contract.response")
       /\ ~Told("tool.blocked") /\ ~Told("http.request")
  BY <1>1, <1>2, <1>3, <1>4, <1>6, <1>8, <1>9
<1>11. /\ Told("pagination.meta") <=> answer.rows
       /\ Told("pagination.cursor_error") <=> answer.reason = "invalid_cursor"
  BY <1>4, <1>6, <1>8, <1>9
<1>12. /\ \A e \in Elements(log') : e.name = "contract.response" => e = summary
       /\ \A e \in Elements(log') :
            e.name = "pagination.meta" => e.cursor = BoolLabel(answer.cursor = "set")
  BY <1>4, <1>6, <1>8, <1>9
<1>13. \A name : /\ Logged(name)' # {} <=> Told(name)
                 /\ \A k \in Logged(name)' : log'[k] \in Elements(log') /\ log'[k].name = name
  BY <1>6, NamedElements DEF Logged
<1>14. \A k, j \in Logged("contract.response")' : k = j
  <2>1. \A e \in Elements(before) \cup Elements(page) : e.name # "contract.response"
    BY <1>8, <1>9
  <2>2. ASSUME NEW k \in Logged("contract.response")'
        PROVE  k = Len(before) + 1
    <3>1. k \in DOMAIN (before \o (<<summary>> \o page))
          /\ (before \o (<<summary>> \o page))[k].name = "contract.response"
      BY <1>5 DEF Logged
    <3> QED
      BY <1>3, <1>4, <2>1, <3>1, StandsOnce
  <2> QED
    BY <2>2
<1> HIDE DEF Told
<1>15. \A k \in Logged("contract.response")' :
         /\ log'[k].ok = BoolLabel(answer.ok)
         /\ log'[k].level = "WARN" <=> ~answer.ok
         /\ log'[k].data # log'[k].error /\ log'[k].ok = log'[k].data
  <2>1. /\ BoolLabel(answer.data # "absent") # BoolLabel(answer.code # "none")
        /\ BoolLabel(answer.ok) = BoolLabel(answer.data # "absent")
    BY <1>7 DEF WellMade, BoolLabel
  <2> QED
    BY <1>4, <1>7, <1>12, <1>13, <2>1
<1>16. \A k \in Logged("pagination.meta")' : log'[k].cursor = BoolLabel(answer.cursor = "set")
  BY <1>12, <1>13
<1>17. answer.category = "cursor" <=> answer.reason = "invalid_cursor"
  BY DEF WellMade
<1> QED
  BY <1>7, <1>10, <1>11, <1>13, <1>14, <1>15, <1>16, <1>17 DEF LogAgrees

\* Nothing is logged of what no tool answered.
LEMMA SilenceAgrees ==
  ASSUME log' = <<>>, envelope' = None
  PROVE  LogAgrees'
<1>1. \A name : Logged(name)' = {}
  BY DEF Logged
<1> QED
  BY <1>1 DEF LogAgrees

LEMMA RefusalAgrees ==
  ASSUME log' = Append(<<>>, Event("tool.blocked", "WARN")),
         envelope' = Failure("policy_denied", "none")
  PROVE  LogAgrees'
<1>1. Event("tool.blocked", "WARN") \in Events /\ Event("tool.blocked", "WARN").name = "tool.blocked"
  BY EventTyped DEF EventNames
<1>2. DOMAIN log' = {1} /\ log'[1].name = "tool.blocked"
  BY <1>1
<1>3. \A name : /\ name = "tool.blocked" => Logged(name)' = {1}
                /\ name # "tool.blocked" => Logged(name)' = {}
  BY <1>2 DEF Logged
<1>4. envelope' # None /\ envelope'.reason = "policy_denied"
  <2>1. Failure("policy_denied", "none") \in Envelopes
    BY FailureTyped DEF ErrorKinds
  <2> QED
    BY <2>1, RequestAssumption DEF Failure, Reason, AuthErrors
<1> QED
  BY <1>3, <1>4 DEF LogAgrees

\* A tool nobody knows: started, and no answer.
LEMMA ProtocolErrorAgrees ==
  ASSUME log' = Append(Started, Event("tool.error", "WARN")), envelope' = None
  PROVE  LogAgrees'
<1>1. /\ Event("tool.error", "WARN") \in Events /\ Event("tool.error", "WARN").name = "tool.error"
      /\ Event("tool.start", "INFO") \in Events /\ Event("tool.start", "INFO").name = "tool.start"
      /\ Event("upstream_auth.context", "INFO") \in Events
      /\ Event("upstream_auth.context", "INFO").name = "upstream_auth.context"
  BY EventTyped DEF EventNames
<1>2. /\ DOMAIN log' = 1..3 /\ log'[1].name = "tool.start"
      /\ log'[2].name = "upstream_auth.context" /\ log'[3].name = "tool.error"
  <2> DEFINE error == Event("tool.error", "WARN")
  <2>1. /\ Started \in Seq(Events) /\ Len(Started) = 2
        /\ Started[1] = Event("tool.start", "INFO")
        /\ Started[2] = Event("upstream_auth.context", "INFO")
    BY <1>1 DEF Started
  <2>2. error \in Events /\ error.name = "tool.error"
    BY <1>1
  <2> HIDE DEF error
  <2>3. /\ DOMAIN Append(Started, error) = 1..3 /\ Append(Started, error)[1] = Started[1]
        /\ Append(Started, error)[2] = Started[2] /\ Append(Started, error)[3] = error
    <3>1. ASSUME NEW s \in Seq(Events), NEW e \in Events, Len(s) = 2
          PROVE  /\ Len(Append(s, e)) = 3 /\ DOMAIN Append(s, e) = 1..Len(Append(s, e))
                 /\ Append(s, e)[1] = s[1] /\ Append(s, e)[2] = s[2]
                 /\ Append(s, e)[3] = e
      <4>1. Append(s, e) \in Seq(Events) /\ Len(Append(s, e)) = Len(s) + 1
        OBVIOUS
      <4>2. \A k \in 1..Len(s) : Append(s, e)[k] = s[k]
        OBVIOUS
      <4>3. Append(s, e)[Len(s) + 1] = e
        OBVIOUS
      <4>4. 1 \in 1..Len(s) /\ 2 \in 1..Len(s) /\ Len(s) + 1 = 3
        BY <3>1
      <4>5. Append(s, e)[1] = s[1] /\ Append(s, e)[2] = s[2] /\ Append(s, e)[3] = e
        BY <4>2, <4>3, <4>4
      <4> QED
        BY <4>1, <4>4, <4>5
    <3>2. /\ Len(Append(Started, error)) = 3
          /\ DOMAIN Append(Started, error) = 1..Len(Append(Started, error))
          /\ Append(Started, error)[1] = Started[1] /\ Append(Started, error)[2] = Started[2]
          /\ Append(Started, error)[3] = error
      BY <2>1, <2>2, <3>1, Zenon
    <3> QED
      BY <3>2
  <2>4. log' = Append(Started, error)
    BY DEF error
  <2> QED
    BY <1>1, <2>1, <2>2, <2>3, <2>4
<1>3. /\ 1 \in Logged("tool.start")' /\ 3 \in Logged("tool.error")'
      /\ \A name : name \notin {"tool.start", "upstream_auth.context", "tool.error"} =>
           Logged(name)' = {}
  BY <1>2 DEF Logged
<1> QED
  BY <1>3 DEF LogAgrees

\* The audit adds its own event and changes nothing that was logged before.
LEMMA AuditAgrees ==
  ASSUME LogAgrees, log \in Seq(InnerEvents), RequestAudit, envelope # None => status = "ok"
  PROVE  LogAgrees'
<1> DEFINE audit == Event("http.request", AuditLevel(status))
<1>1. audit \in Events /\ audit.name = "http.request" /\ audit.level = AuditLevel(status)
  <2>1. AuditLevel(status) \in {"INFO", "WARN", "ERROR"}
    BY DEF AuditLevel
  <2> QED
    BY <2>1, EventTyped DEF EventNames, Event
<1> HIDE DEF audit
<1>2. /\ DOMAIN log = 1..Len(log) /\ DOMAIN log' = 1..(Len(log) + 1) /\ Len(log) \in Nat
      /\ \A k \in DOMAIN log : log'[k] = log[k]
      /\ log'[Len(log) + 1] = audit
  <2>1. log' = Append(log, audit) /\ log \in Seq(Events)
    BY DEF RequestAudit, audit, InnerEvents
  <2> QED
    BY <1>1, <2>1
<1>3. \A k \in DOMAIN log : log[k].name # "http.request"
  BY DEF InnerEvents
<1>4. \A name : name # "http.request" => Logged(name)' = Logged(name)
  BY <1>1, <1>2 DEF Logged
<1>5. \A k \in Logged("http.request")' : log'[k] = audit
  BY <1>2, <1>3 DEF Logged
<1>6. \A name : name # "http.request" => \A k \in Logged(name) : log'[k] = log[k]
  BY <1>2 DEF Logged
<1>7. envelope' = envelope /\ (envelope # None => audit.level = "INFO")
  BY <1>1 DEF RequestAudit, AuditLevel
<1>8. /\ Logged("tool.blocked")' = Logged("tool.blocked")
      /\ Logged("tool.start")' = Logged("tool.start")
      /\ Logged("tool.finish")' = Logged("tool.finish")
      /\ Logged("tool.error")' = Logged("tool.error")
      /\ Logged("contract.response")' = Logged("contract.response")
      /\ Logged("pagination.meta")' = Logged("pagination.meta")
      /\ Logged("pagination.cursor_error")' = Logged("pagination.cursor_error")
      /\ \A k \in Logged("contract.response") : log'[k] = log[k]
      /\ \A k \in Logged("pagination.meta") : log'[k] = log[k]
  BY <1>4, <1>6
<1> QED
  BY <1>5, <1>7, <1>8 DEF LogAgrees

\* What is logged at each stage; EventsAgree alone says nothing of a request under way.
LogTold ==
  /\ stage \in {"idle", "dispatch"} \cup Layers => log = <<>> /\ envelope = None
  /\ stage \in {"tool", "query", "lex", "engine"} => log = Started
  /\ stage \in {"audit", "answered"} => LogAgrees
  /\ envelope # None => status = "ok"

LEMMA FinishTold ==
  ASSUME LogTold, stage \in {"tool", "query", "lex", "engine"}, NEW answer \in Envelopes,
         WellMade(answer), NEW events \in Seq(InnerEvents), HandlerTells(events, answer),
         Finish(answer, events)
  PROVE  LogTold'
<1>1. LogAgrees'
  BY FinishAgrees DEF LogTold
<1>2. stage' \in {"audit", "answered"} /\ status' = "ok"
  BY DEF Finish, Reply
<1> QED
  BY <1>1, <1>2 DEF LogTold, Layers

\* What the handlers log before they answer fits the answer.
LEMMA HandlersTell ==
  /\ \A answer : HandlerTells(<<>>, answer)
  /\ \A answer : /\ HandlerTells(<<Event("scratchpad.query.error", "WARN")>>, answer)
                 /\ HandlerTells(<<Event("scratchpad.query.duration", "INFO")>>, answer)
  /\ \A kind \in ErrorKinds : \A policy, tool :
       /\ HandlerTells(CursorEvents(kind), Failure(kind, policy))
       /\ HandlerTells(HandlerEvents(tool, kind), Failure(kind, policy))
<1>1. \A answer : HandlerTells(<<>>, answer)
  BY DEF HandlerTells, Elements
<1>2. \A answer : /\ HandlerTells(<<Event("scratchpad.query.error", "WARN")>>, answer)
                  /\ HandlerTells(<<Event("scratchpad.query.duration", "INFO")>>, answer)
  <2>1. /\ Event("scratchpad.query.error", "WARN").name = "scratchpad.query.error"
        /\ Event("scratchpad.query.duration", "INFO").name = "scratchpad.query.duration"
    BY DEF Event
  <2> QED
    BY <2>1 DEF HandlerTells, Elements
<1>3. ASSUME NEW kind \in ErrorKinds, NEW policy
      PROVE  HandlerTells(CursorEvents(kind), Failure(kind, policy))
  <2>1. CASE kind \in {"invalid_cursor", "cursor_mismatch"}
    <3>1. Reason(kind) = "invalid_cursor"
      BY <2>1 DEF Reason, AuthErrors
    <3>2. /\ Event("pagination.cursor_error", "WARN").name = "pagination.cursor_error"
          /\ Failure(kind, policy).reason = "invalid_cursor"
      BY <3>1 DEF Event, Failure
    <3> QED
      BY <2>1, <3>2 DEF HandlerTells, Elements, CursorEvents
  <2>2. CASE kind \notin {"invalid_cursor", "cursor_mismatch"}
    BY <1>1, <2>2 DEF CursorEvents
  <2> QED
    BY <2>1, <2>2
<1>4. ASSUME NEW kind \in ErrorKinds, NEW policy, NEW tool
      PROVE  HandlerTells(HandlerEvents(tool, kind), Failure(kind, policy))
  BY <1>1, <1>3 DEF HandlerEvents
<1> QED
  BY <1>1, <1>2, <1>3, <1>4

LEMMA LogTold_Init == Init => LogTold
BY DEF Init, LogTold, Layers

LEMMA LogTold_Next ==
  ASSUME IInv, LogTold, [Next]_vars
  PROVE  LogTold'
<1>1. CASE Start
  <2>1. /\ stage = "idle" /\ UNCHANGED <<stage, answering>>
    BY <1>1 DEF Start, StartNext, ReadOptions, ReadEnvironment, BuildServer,
                BuildAuthSurfaceLayer, Bind, IInv, StartSettled
  <2> QED
    BY <2>1 DEF LogTold, answering, Layers
<1>2. CASE Arrive
  BY <1>2 DEF Arrive, LogTold, Layers
<1>3. CASE AuthSurface \/ ClientIpGuard \/ HostGuard \/ InboundAuthGuard \/ Route
  <2>1. /\ stage \in Layers /\ log = <<>> /\ envelope = None
        /\ log' = <<>> /\ envelope' = None
        /\ stage' \in Layers \cup {"dispatch", "audit"}
    BY <1>3 DEF AuthSurface, ClientIpGuard, HostGuard, InboundAuthGuard, Route, Pass, Answer,
                answering, Layers, LogTold
  <2>2. LogAgrees'
    BY <2>1, SilenceAgrees
  <2> QED
    BY <2>1, <2>2 DEF LogTold, Layers
<1>4. CASE RequestAudit
  <2>1. LogAgrees'
    BY <1>4, AuditAgrees DEF LogTold, RequestAudit, IInv, AuditLast
  <2> QED
    BY <1>4, <2>1 DEF LogTold, RequestAudit, Layers
<1>5. CASE ListTools
  <2>1. log' = <<>> /\ envelope' = None /\ stage' \in {"audit", "answered"}
    BY <1>5 DEF ListTools, Reply, LogTold
  <2>2. LogAgrees'
    BY <2>1, SilenceAgrees
  <2> QED
    BY <2>1, <2>2 DEF LogTold, Layers
<1>6. CASE CallTool
  <2>1. log = <<>> /\ envelope = None
    BY <1>6 DEF CallTool, LogTold
  <2>2. CASE /\ envelope' = Failure("policy_denied", "none")
             /\ log' = Append(log, Event("tool.blocked", "WARN"))
             /\ Reply
    <3>1. LogAgrees'
      BY <2>1, <2>2, RefusalAgrees
    <3> QED
      BY <2>2, <3>1 DEF Reply, LogTold, Layers
  <2>3. CASE /\ log' = log \o <<Event("tool.start", "INFO"), Event("upstream_auth.context", "INFO")>>
             /\ stage' = (IF request.tool = "scratchpad_query" THEN "query" ELSE "tool")
             /\ UNCHANGED <<envelope, status>>
    <3>1. log' = Started
      <4>1. Started \in Seq(Events)
        BY EventTyped DEF Started, EventNames
      <4>2. \A t \in Seq(Events) : <<>> \o t = t
        OBVIOUS
      <4> QED
        BY <2>1, <2>3, <4>1, <4>2 DEF Started
    <3> QED
      BY <2>1, <2>3, <3>1 DEF LogTold, Layers
  <2> QED
    BY <1>6, <2>2, <2>3 DEF CallTool
<1>7. ASSUME stage \in {"tool", "query", "lex", "engine"},
             NEW answer \in Envelopes, WellMade(answer),
             NEW events \in Seq(InnerEvents), HandlerTells(events, answer),
             Finish(answer, events)
      PROVE  LogTold'
  BY <1>7, FinishTold
<1>8. ASSUME NEW kind \in ErrorKinds \ {"policy_denied"}, stage \in {"tool", "query", "lex", "engine"},
             NEW policy \in PolicyCodes \cup {"none"}, NEW tool,
             NEW events \in {CursorEvents(kind), HandlerEvents(tool, kind)},
             Finish(Failure(kind, policy), events)
      PROVE  LogTold'
  <2>1. /\ Failure(kind, policy) \in Envelopes /\ WellMade(Failure(kind, policy))
        /\ events \in Seq(InnerEvents)
        /\ HandlerTells(events, Failure(kind, policy))
    BY FailureTyped, FailureWellMade, CursorEventsTyped, HandlersTell
  <2> QED
    BY <1>7, <1>8, <2>1
<1>9. ASSUME NEW kind \in ErrorKinds \ {"policy_denied"}, stage \in {"tool", "query", "lex", "engine"},
             NEW policy \in PolicyCodes \cup {"none"},
             Finish(Failure(kind, policy), <<Event("scratchpad.query.error", "WARN")>>)
      PROVE  LogTold'
  <2>1. /\ Failure(kind, policy) \in Envelopes /\ WellMade(Failure(kind, policy))
        /\ HandlerTells(<<Event("scratchpad.query.error", "WARN")>>, Failure(kind, policy))
    BY FailureTyped, FailureWellMade, HandlersTell
  <2>2. <<Event("scratchpad.query.error", "WARN")>> \in Seq(InnerEvents)
    BY EventTyped DEF EventNames
  <2> QED
    BY <1>7, <1>9, <2>1, <2>2
<1>10. CASE RunTool
  <2>1. stage = "tool" /\ stage \in {"tool", "query", "lex", "engine"} /\ log = Started
    BY <1>10 DEF RunTool, LogTold
  <2>2. envelope = None
    BY <2>1 DEF IInv, TypeOK, AnswerTypes
  <2>3. CASE /\ log' = Append(log, Event("tool.error", "WARN"))
             /\ Reply /\ UNCHANGED envelope
    <3>1. LogAgrees'
      BY <2>1, <2>2, <2>3, ProtocolErrorAgrees
    <3> QED
      BY <2>2, <2>3, <3>1 DEF Reply, LogTold, Layers
  <2>4. CASE /\ request.tool \notin {"unknown", "scratchpad_unknown"}
             /\ \/ \E answer \in ToolAnswers(request.tool) : Finish(answer, <<>>)
                \/ \E kind \in ToolErrors(request.tool) :
                     Finish(Failure(kind, "SQL_TOO_LARGE"), HandlerEvents(request.tool, kind))
    <3>1. request.tool \in {"report", "preview", "batch", "funnel", "listing", "scratchpad_session"}
      <4>1. request.tool \notin {"list_tools", "scratchpad_query"} /\ request \in Requests
        BY <2>1, StageServing DEF IInv, GuardsPassed
      <4> QED
        BY <2>4, <4>1 DEF Requests
    <3>2. CASE \E answer \in ToolAnswers(request.tool) : Finish(answer, <<>>)
      <4>1. PICK answer \in ToolAnswers(request.tool) : Finish(answer, <<>>)
        BY <3>2
      <4>2. answer \in Envelopes /\ WellMade(answer)
        BY <3>1, <4>1, ToolAnswersTyped, SuccessWellMade DEF ToolAnswers
      <4>3. <<>> \in Seq(InnerEvents) /\ HandlerTells(<<>>, answer)
        BY HandlersTell
      <4> QED
        BY <1>7, <2>1, <4>1, <4>2, <4>3
    <3>3. CASE \E kind \in ToolErrors(request.tool) :
                 Finish(Failure(kind, "SQL_TOO_LARGE"), HandlerEvents(request.tool, kind))
      <4>1. PICK kind \in ToolErrors(request.tool) :
              Finish(Failure(kind, "SQL_TOO_LARGE"), HandlerEvents(request.tool, kind))
        BY <3>3
      <4>2. kind \in ErrorKinds /\ kind # "policy_denied"
        BY <3>1, <4>1, ToolErrorsTyped
           DEF ToolErrors, UpstreamErrors, UpstreamStatus, AuthErrors
      <4>3. "SQL_TOO_LARGE" \in PolicyCodes
        BY DEF PolicyCodes
      <4> QED
        BY <1>8, <2>1, <4>1, <4>2, <4>3
    <3> QED
      BY <2>4, <3>2, <3>3
  <2> QED
    BY <1>10, <2>3, <2>4 DEF RunTool
<1>11. CASE PrepareQuery
  <2>1. stage = "query" /\ stage \in {"tool", "query", "lex", "engine"}
    BY <1>11 DEF PrepareQuery
  <2>2. CASE \E kind \in {"invalid_argument", "invalid_cursor", "cursor_mismatch", "internal"} :
               Finish(Failure(kind, "none"), CursorEvents(kind))
    <3>1. {"invalid_argument", "invalid_cursor", "cursor_mismatch", "internal"} \subseteq ErrorKinds \ {"policy_denied"}
      BY DEF ErrorKinds
    <3> QED
      BY <1>8, <2>1, <2>2, <3>1
  <2>3. ASSUME NEW size, size = SizeVerdict(cli.maxSqlBytes, Trim(request.sql)), size # "ALLOWED",
               Finish(Failure("sql_rejected", size), <<Event("scratchpad.query.error", "WARN")>>)
        PROVE  LogTold'
    <3>1. size \in PolicyCodes
      BY <2>3, VerdictsTyped
    <3>2. "sql_rejected" \in ErrorKinds \ {"policy_denied"}
      BY DEF ErrorKinds, ScratchpadErrors
    <3> QED
      BY <1>9, <2>1, <2>3, <3>1, <3>2
  <2>4. CASE stage' = "lex" /\ UNCHANGED <<status, envelope, log>>
    BY <2>1, <2>4 DEF LogTold, Layers
  <2> QED
    BY <1>11, <2>2, <2>3, <2>4 DEF PrepareQuery
<1>12. CASE LexStep
  BY <1>12 DEF LexStep, answering, LogTold, Layers
<1>13. CASE DecideQuery
  <2>1. stage = "lex" /\ stage \in {"tool", "query", "lex", "engine"}
    BY <1>13 DEF DecideQuery
  <2>2. ASSUME NEW decision \in Decisions, Verdict(decision) # "ALLOWED",
               Finish(Failure("sql_rejected", Verdict(decision)),
                      <<Event("scratchpad.query.error", "WARN")>>)
        PROVE  LogTold'
    <3>1. Verdict(decision) \in PolicyCodes
      BY <2>2, VerdictsTyped
    <3>2. "sql_rejected" \in ErrorKinds \ {"policy_denied"}
      BY DEF ErrorKinds, ScratchpadErrors
    <3> QED
      BY <1>9, <2>1, <2>2, <3>1, <3>2
  <2>3. CASE stage' = "engine" /\ UNCHANGED <<status, envelope, log>>
    BY <2>1, <2>3 DEF LogTold, Layers
  <2> QED
    BY <1>13, <2>2, <2>3 DEF DecideQuery
<1>14. CASE RunQuery
  <2>1. stage = "engine" /\ stage \in {"tool", "query", "lex", "engine"}
    BY <1>14 DEF RunQuery
  <2>2. CASE \E summaryOnly, more \in BOOLEAN :
               Finish(Tabular(summaryOnly, more), <<Event("scratchpad.query.duration", "INFO")>>)
    <3>1. <<Event("scratchpad.query.duration", "INFO")>> \in Seq(InnerEvents)
      BY EventTyped DEF EventNames
    <3> QED
      BY <1>7, <2>1, <2>2, <3>1, SuccessTyped, SuccessWellMade, HandlersTell
  <2>3. CASE \E kind \in {"invalid_argument", "limit", "engine", "timeout", "internal"} :
               Finish(Failure(kind, "none"), <<Event("scratchpad.query.error", "WARN")>>)
    <3>1. {"invalid_argument", "limit", "engine", "timeout", "internal"} \subseteq ErrorKinds \ {"policy_denied"}
      BY DEF ErrorKinds, ScratchpadErrors
    <3> QED
      BY <1>9, <2>1, <2>3, <3>1
  <2> QED
    BY <1>14, <2>2, <2>3 DEF RunQuery
<1>15. CASE UNCHANGED vars
  <2>1. LogAgrees => LogAgrees'
    BY <1>15 DEF vars, LogAgrees, Logged
  <2> QED
    BY <1>15, <2>1 DEF vars, LogTold
<1> QED
  BY <1>1, <1>2, <1>3, <1>4, <1>5, <1>6, <1>10, <1>11, <1>12, <1>13, <1>14, <1>15 DEF Next, Handle

-----------------------------------------------------------------------------
(* Theorems                                                                  *)

LEMMA Invariant == Spec => []IInv
<1>1. Init => IInv
  BY InitKeeps
<1>2. IInv /\ [Next]_vars => IInv'
  BY NextKeeps
<1> QED
  BY <1>1, <1>2, PTL DEF Spec

\* For every set of deployments and requests, and every statement however long: the states
\* are well-formed, the lexer's depth and tag belong to its mode, and whatever the policy,
\* the tools and the taxonomy put together is an envelope and a log.
THEOREM TypeCorrect == Spec => []TypeOK
<1>1. IInv => TypeOK
  BY DEF IInv
<1> QED
  BY <1>1, Invariant, PTL

\* For every environment and every discovery document: what HttpSettings::from_env and
\* build_auth_surface_layer let through publishes nothing in clear text but an endpoint that
\* the discovery of the issuer announced to this server and that was not configured.
THEOREM ExposureSecure == Spec => []PublishedSecure
<1>1. IInv => PublishedSecure
  BY PublishedFollows DEF IInv
<1> QED
  BY <1>1, Invariant, PTL

\* For every deployment and every request: no tool is reached past a guard, and no refusal
\* tells more than the guards before it have allowed.
THEOREM GuardsOrdered == Spec => []GuardsInOrder
<1>1. IInv => GuardsInOrder
  BY GuardsFollow
<1> QED
  BY <1>1, Invariant, PTL

\* For every call, ending in any answer or error that ToolAnswers, ToolErrors and the steps of
\* a query give its tool: what the log tells of it and what its client is told agree.
THEOREM EventsTell == Spec => []EventsAgree
<1>1. Init => LogTold
  BY LogTold_Init
<1>2. IInv /\ LogTold /\ [Next]_vars => LogTold'
  BY LogTold_Next
<1>3. LogTold => EventsAgree
  BY DEF LogTold, EventsAgree
<1> QED
  BY <1>1, <1>2, <1>3, Invariant, PTL DEF Spec
=============================================================================
