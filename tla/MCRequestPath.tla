---------------------------- MODULE MCRequestPath ----------------------------
(***************************************************************************)
(* Three families of instances.  Every environment that is one or two      *)
(* settings away from a sound one, with a single request.  A handful of    *)
(* deployments with every request the layers and the tools tell apart.     *)
(* One deployment that gets every statement of a few small alphabets, each *)
(* chosen so that its tokens can overlap.                                  *)
(***************************************************************************)
EXTENDS RequestPath

U(scheme, path) == [scheme |-> scheme, path |-> path]

-----------------------------------------------------------------------------
(* Environments                                                              *)

JwksPublic ==
  [bind |-> "public", allow |-> "1", hosts |-> "listed", cidrs |-> "listed",
   cert |-> TRUE, key |-> TRUE, enabled |-> "1", mode |-> "jwks", strict |-> "unset",
   jwksUrl |-> U("https", "other"), issuer |-> U("https", "other"), audience |-> TRUE,
   requiredScopes |-> TRUE, actorClaim |-> TRUE,
   introspectionUrl |-> None, clientId |-> FALSE, clientSecret |-> FALSE,
   authMethod |-> "known", numbers |-> "parse", otherFlags |-> "unset",
   delegationSecret |-> FALSE, delegationIssuer |-> FALSE, delegationAudience |-> FALSE,
   resourceUrl |-> U("https", "mcp")]

IntrospectionPublic ==
  [JwksPublic EXCEPT !.mode = "introspection", !.jwksUrl = None,
     !.introspectionUrl = U("https", "other"), !.clientId = TRUE, !.clientSecret = TRUE]

DelegationPublic ==
  [JwksPublic EXCEPT !.mode = "delegation", !.jwksUrl = None, !.issuer = None,
     !.delegationSecret = TRUE, !.delegationIssuer = TRUE, !.delegationAudience = TRUE]

JwksLocal ==
  [JwksPublic EXCEPT !.bind = "loopback", !.allow = "unset", !.cert = FALSE, !.key = FALSE,
     !.issuer = U("http", "other"), !.resourceUrl = None]

OpenPublic == [JwksPublic EXCEPT !.enabled = "unset"]

OpenLocal == [JwksLocal EXCEPT !.enabled = "0"]

SomeUrls == {None, U("HTTPS", "mcp"), U("http", "mcp"), U("HTTP", "other"), U("bare", "only_mcp")}

Values ==
  [bind |-> {"loopback", "public", "garbage"}, allow |-> Flags, hosts |-> {"listed", "blank"},
   cidrs |-> {"listed", "blank", "garbage"}, cert |-> BOOLEAN, key |-> BOOLEAN,
   enabled |-> Flags, mode |-> {"jwks", "introspection", "delegation", "garbage"},
   strict |-> Flags, jwksUrl |-> SomeUrls, issuer |-> SomeUrls, audience |-> BOOLEAN,
   requiredScopes |-> BOOLEAN, actorClaim |-> BOOLEAN, introspectionUrl |-> SomeUrls,
   clientId |-> BOOLEAN, clientSecret |-> BOOLEAN, authMethod |-> {"known", "garbage"},
   numbers |-> {"parse", "garbage"}, otherFlags |-> Flags, delegationSecret |-> BOOLEAN,
   delegationIssuer |-> BOOLEAN, delegationAudience |-> BOOLEAN, resourceUrl |-> SomeUrls]

Variants(e) == UNION {{[e EXCEPT ![f] = v] : v \in Values[f]} : f \in DOMAIN Values}

Probed == UNION {Variants(v) : v \in UNION {Variants(e) : e \in {JwksPublic, IntrospectionPublic,
                                                                  DelegationPublic, JwksLocal}}}
          \cup UNION {Variants(e) : e \in {OpenPublic, OpenLocal}}

-----------------------------------------------------------------------------
(* Command lines                                                             *)

Plainly ==
  [scopeSet |-> TRUE, zeros |-> {}, maxSqlBytes |-> 16, clientSecret |-> FALSE,
   refreshToken |-> FALSE, source |-> "config", header |-> "authorization",
   baseScheme |-> "https", userAgent |-> "plain", profile |-> "scratchpad", purpose |-> "serve"]

CommandLines ==
  {[Plainly EXCEPT !.scopeSet = FALSE], [Plainly EXCEPT !.maxSqlBytes = 0]}
  \cup {[Plainly EXCEPT !.zeros = {l}] : l \in Limits}
  \cup {[Plainly EXCEPT !.clientSecret = c, !.refreshToken = r] : c, r \in BOOLEAN}
  \cup {[Plainly EXCEPT !.header = h] : h \in {"custom", "blank", "illegal"}}
  \cup {[Plainly EXCEPT !.baseScheme = b] : b \in {"http", "HTTPS", "blank"}}
  \cup {[Plainly EXCEPT !.userAgent = u] : u \in {"blank", "newline"}}
  \cup {[Plainly EXCEPT !.purpose = p] : p \in {"auth", "print_tools"}}

-----------------------------------------------------------------------------
(* Deployments                                                               *)

Http(c, e) == [transport |-> "http", cli |-> c, env |-> e]
Stdio(c) == [transport |-> "stdio", cli |-> c, env |-> OpenLocal]

WithHeader(source, header) == [Plainly EXCEPT !.source = source, !.header = header]

\* The statements' deployment refuses those longer than it takes.
Lab == Stdio([Plainly EXCEPT !.maxSqlBytes = 7])

Exercised ==
  {Http(Plainly, OpenPublic), Http([Plainly EXCEPT !.profile = "read_only"], OpenLocal),
   Http(WithHeader("request_header", "authorization"), OpenLocal),
   Http(WithHeader("request_header_or_config", "custom"), JwksPublic),
   Http(WithHeader("config", "custom"), JwksLocal),
   Stdio(Plainly), Stdio([WithHeader("request_header", "authorization") EXCEPT !.profile = "read_only"])}

MCDeployments ==
  {Http(Plainly, e) : e \in Probed} \cup Exercised \cup {Lab}
  \cup {Http(c, OpenLocal) : c \in CommandLines} \cup {Stdio(c) : c \in CommandLines}

Found(authorization, token, jwks, introspection) ==
  [authorization |-> authorization, token |-> token, jwks |-> jwks, introspection |-> introspection]

MCDiscoveries ==
  LET s == U("https", "other") h == U("http", "other")
  IN {None, Found(s, s, s, s), Found(None, None, s, None), Found(h, s, h, None)}

-----------------------------------------------------------------------------
(* Requests                                                                  *)

Ask ==
  [path |-> "mcp", address |-> "inside", host |-> "listed", authority |-> "missing",
   authorization |-> "none", proxyAuthorization |-> FALSE, custom |-> "none",
   tool |-> "listing", sql |-> <<>>]

Knock == [Ask EXCEPT !.path = "health", !.authorization = "valid"]

Named == {<<h, "missing">> : h \in HostSpelling} \cup {<<"missing", a>> : a \in HostSpelling}

GuardTraffic ==
  {[Ask EXCEPT !.path = p, !.address = a, !.host = n[1], !.authority = n[2],
      !.authorization = z, !.proxyAuthorization = x] :
     p \in {"health", "mcp", "metadata", "other"}, a \in {"inside", "outside"}, n \in Named,
     z \in {"none", "valid", "invalid"}, x \in BOOLEAN}

ToolTraffic ==
  {[Ask EXCEPT !.authorization = z, !.custom = c, !.tool = t, !.sql = s] :
     z \in {"none", "valid"}, c \in {"none", "text", "binary"},
     t \in {"list_tools", "report", "preview", "batch", "funnel", "listing",
            "scratchpad_session", "scratchpad_query", "unknown", "scratchpad_unknown"},
     s \in {<<"SELECT", " ", "x">>}}

Strings(letters, n) == UNION {[1..k -> letters] : k \in 0..n}

\* Nested comments; line ends; the two quotes; dollar tags; the policy's words; everything.
Statements ==
  Strings({"/", "*", "INSTALL"}, 5) \cup Strings({"/", "*"}, 8)
  \cup Strings({"-", "\n", "INSTALL", "'"}, 5)
  \cup Strings({"'", "\"", "INSTALL", "x"}, 5)
  \cup Strings({"$", "x", "INSTALL", "1"}, 5)
  \cup Strings({"INSTALL", "READ_CSV", "x", "(", " ", "1"}, 4)
  \cup Strings({"SELECT", "READ_CSV", "(", "-", "~", ";"}, 4)
  \cup {s \o t : s \in {<<"DESCRIBE">>, <<"SELECT">>, <<" ", "READ_CSV">>},
                 t \in Strings({"/", "*", "(", "-", "\n"}, 4)}
  \cup Strings({"SELECT", "INSTALL", "READ_CSV", "x", " ", "\n", "'", "-", "/", "*", "$", "("}, 2)

LabTraffic == {[Ask EXCEPT !.tool = "scratchpad_query", !.sql = s] : s \in Statements}

MCTraffic(d) == IF d = Lab THEN LabTraffic
                ELSE IF d \in Exercised THEN GuardTraffic \cup ToolTraffic
                ELSE {Knock}
=============================================================================
