----------------------------- MODULE ServerStart -----------------------------
(***************************************************************************)
(* From the command line and the environment to a server that listens, or  *)
(* a process that exits: Settings::from_cli (src/config.rs),               *)
(* HttpSettings::from_env (src/http_config.rs), the auth surface that is   *)
(* published (src/http_runtime.rs) and the two binaries.                   *)
(***************************************************************************)
EXTENDS Naturals

CONSTANTS
  Deployments,      \* how a process may be started
  Discoveries,      \* what an issuer's discovery may answer; None when it fails
  StrictByDefault,  \* strict_oauth of the toolkit's L2Strong profile
  None

\* A URL by what the code looks at: how it begins ("bare" without a scheme) and whether
\* it ends in /mcp, or is nothing but that.
Urls == [scheme : {"https", "HTTPS", "http", "HTTP", "bare"}, path : {"mcp", "other", "only_mcp"}]

\* A flag in the environment; "garbage" is neither true nor false.
Flags == {"unset", "1", "0", "garbage"}

Limits == {"http_timeout_ms", "max_page_size", "max_pages", "scratchpad_session_ttl_secs",
           "scratchpad_max_sessions", "scratchpad_max_tables_per_session",
           "scratchpad_max_rows_per_session", "scratchpad_max_memory_mb",
           "scratchpad_query_timeout_ms"}

Sources == {"config", "request_header", "request_header_or_config"}

\* Cli: the options that decide anything here.  zeros are the limits given as 0.
Options == [scopeSet : BOOLEAN, zeros : SUBSET Limits, maxSqlBytes : Nat,
            clientSecret : BOOLEAN, refreshToken : BOOLEAN, source : Sources,
            header : {"authorization", "custom", "blank", "illegal"},
            baseScheme : {"https", "http", "HTTPS", "blank"},
            userAgent : {"plain", "blank", "newline"},
            profile : {"read_only", "scratchpad"},
            purpose : {"serve", "auth", "print_tools"}]

\* The GA4_MCP_ variables.  A list is what it holds after parsing, a string whether it is set.
Environments ==
  [bind : {"loopback", "public", "garbage"}, allow : Flags,
   hosts : {"listed", "blank"}, cidrs : {"listed", "blank", "garbage"},
   cert : BOOLEAN, key : BOOLEAN,
   enabled : Flags, mode : {"jwks", "introspection", "delegation", "garbage"}, strict : Flags,
   jwksUrl : Urls \cup {None}, issuer : Urls \cup {None}, audience : BOOLEAN,
   requiredScopes : BOOLEAN, actorClaim : BOOLEAN,
   introspectionUrl : Urls \cup {None}, clientId : BOOLEAN, clientSecret : BOOLEAN,
   authMethod : {"known", "garbage"}, numbers : {"parse", "garbage"}, otherFlags : Flags,
   delegationSecret : BOOLEAN, delegationIssuer : BOOLEAN, delegationAudience : BOOLEAN,
   resourceUrl : Urls \cup {None}]

AllDeployments == [transport : {"http", "stdio"}, cli : Options, env : Environments]

Metadata == [authorization : Urls \cup {None}, token : Urls \cup {None},
             jwks : Urls, introspection : Urls \cup {None}]

\* What build_auth_surface_layer publishes.
Surfaces == [base : Urls, issuer : Urls, authorization : Urls, token : Urls,
             jwks : Urls \cup {None}, introspection : Urls \cup {None}, resource : Urls \cup {None}]

ASSUME StartAssumption ==
  /\ Deployments \subseteq AllDeployments
  /\ Discoveries \subseteq Metadata \cup {None}
  /\ None \notin Metadata \cup Urls \cup Surfaces
  /\ StrictByDefault \in BOOLEAN

VARIABLES
  deployment,       \* how this process was started
  phase,            \* how far it got
  discovered,       \* what the issuer's discovery answered this server; None if nothing
  published         \* the auth surface; None if there is none

start == <<deployment, phase, discovered, published>>

-----------------------------------------------------------------------------
(* Settings::from_cli                                                        *)

UsesRequestHeader(source) == source \in {"request_header", "request_header_or_config"}

SanitizesHeaderName(header) == header \in {"authorization", "custom"}

SanitizesBaseUrl(scheme) == scheme = "https"

SanitizesUserAgent(agent) == agent = "plain"

FromCli(cli) ==
  /\ cli.scopeSet
  /\ cli.zeros = {} /\ cli.maxSqlBytes > 0
  /\ cli.clientSecret = cli.refreshToken
  /\ SanitizesHeaderName(cli.header)
  /\ SanitizesBaseUrl(cli.baseScheme)
  /\ SanitizesUserAgent(cli.userAgent)

-----------------------------------------------------------------------------
(* HttpSettings::from_env.  Every refusal is the same: the process exits.    *)

EnvFlagParses(flag) == flag # "garbage"

EnvFlag(flag, default) == IF flag = "unset" THEN default ELSE flag = "1"

AllowNonLoopback(env) == EnvFlag(env.allow, FALSE)

AuthEnabled(env) == EnvFlag(env.enabled, FALSE)

StrictOauth(env) == EnvFlag(env.strict, StrictByDefault)

TlsFiles(env) == env.cert /\ env.key

ValidateAuthConfigForMode(env) ==
  /\ env.requiredScopes /\ env.actorClaim
  /\ \/ /\ env.mode = "jwks"
        /\ env.jwksUrl # None /\ env.issuer # None /\ env.audience
        /\ env.introspectionUrl # None => env.clientId /\ env.clientSecret
     \/ /\ env.mode = "introspection"
        /\ env.introspectionUrl # None /\ env.clientId /\ env.clientSecret
        /\ env.issuer # None /\ env.audience
     \/ /\ env.mode = "delegation"
        /\ env.delegationSecret /\ env.delegationIssuer /\ env.delegationAudience
        /\ env.introspectionUrl = None

\* HttpAuthSettings::from_env: a server without inbound auth reads nothing else.
AuthFromEnv(env) ==
  /\ EnvFlagParses(env.enabled)
  /\ AuthEnabled(env) =>
       /\ env.mode # "garbage" /\ env.authMethod # "garbage" /\ env.numbers # "garbage"
       /\ EnvFlagParses(env.strict) /\ EnvFlagParses(env.otherFlags)
       /\ ValidateAuthConfigForMode(env)

\* As it would be if only the spelling http:// were refused.
EnsureNotHttpIfSet(url) == url # None => url.scheme # "http"

\* Compared in lower case.
EnsureHttpsUrlIfSet(url) == url # None => url.scheme \in {"https", "HTTPS"}

ValidatePublicExposureAuthPosture(env) ==
  AllowNonLoopback(env) /\ AuthEnabled(env) =>
    /\ StrictOauth(env)
    /\ EnsureHttpsUrlIfSet(env.resourceUrl) /\ EnsureHttpsUrlIfSet(env.issuer)
    /\ EnsureHttpsUrlIfSet(env.jwksUrl) /\ EnsureHttpsUrlIfSet(env.introspectionUrl)

TlsPosture(env) == /\ env.cert = env.key
                   /\ AllowNonLoopback(env) => TlsFiles(env)

FromEnv(env) ==
  /\ env.bind # "garbage" /\ EnvFlagParses(env.allow)
  /\ AllowNonLoopback(env) \/ env.bind = "loopback"
  /\ env.hosts = "listed" /\ env.cidrs = "listed"
  /\ TlsPosture(env)
  /\ AuthFromEnv(env)
  /\ ValidatePublicExposureAuthPosture(env)

-----------------------------------------------------------------------------
(* build_auth_surface_layer                                                  *)

Url(scheme) == [scheme |-> scheme, path |-> "other"]

PublicBaseUrl(env) == Url(IF TlsFiles(env) THEN "https" ELSE "http")

\* The resource URL without its /mcp, if it has one and something is left.
BaseUrl(env) ==
  IF env.resourceUrl # None /\ env.resourceUrl.path = "mcp"
  THEN Url(env.resourceUrl.scheme) ELSE PublicBaseUrl(env)

Issuer(env) == IF env.issuer # None THEN env.issuer ELSE BaseUrl(env)

\* Discovery is asked only for a configured issuer; what it leaves out, or all of it when
\* it fails, is built from the issuer.
FallbackOauthEndpoint(env) == Url(Issuer(env).scheme)

OrElse(url, other) == IF url # None THEN url ELSE other

Surface(env, found) ==
  [base          |-> BaseUrl(env),
   issuer        |-> Issuer(env),
   authorization |-> IF found = None THEN FallbackOauthEndpoint(env)
                     ELSE OrElse(found.authorization, FallbackOauthEndpoint(env)),
   token         |-> IF found = None THEN FallbackOauthEndpoint(env)
                     ELSE OrElse(found.token, FallbackOauthEndpoint(env)),
   jwks          |-> IF found = None THEN env.jwksUrl ELSE OrElse(env.jwksUrl, found.jwks),
   introspection |-> IF found = None THEN env.introspectionUrl
                     ELSE OrElse(env.introspectionUrl, found.introspection),
   resource      |-> env.resourceUrl]

-----------------------------------------------------------------------------
(* The binaries                                                              *)

StartInit == /\ deployment \in Deployments
             /\ phase = "options"
             /\ discovered = None /\ published = None

Exit == phase' = "exited" /\ UNCHANGED <<deployment, discovered, published>>

\* ga4-mcp auth leaves before a client is built; ga4-mcp-http has no such command.
ReadOptions ==
  /\ phase = "options"
  /\ \/ ~FromCli(deployment.cli) /\ Exit
     \/ FromCli(deployment.cli) /\ deployment.transport = "stdio"
          /\ deployment.cli.purpose = "auth" /\ Exit
     \/ /\ FromCli(deployment.cli)
        /\ deployment.transport = "http" \/ deployment.cli.purpose # "auth"
        /\ phase' = (IF deployment.transport = "http" THEN "environment" ELSE "client")
        /\ UNCHANGED <<deployment, discovered, published>>

ReadEnvironment ==
  /\ phase = "environment"
  /\ \/ ~FromEnv(deployment.env) /\ Exit
     \/ FromEnv(deployment.env) /\ phase' = "client" /\ UNCHANGED <<deployment, discovered, published>>

\* The API client, the engine and the session manager; each may refuse its settings.
BuildServer ==
  /\ phase = "client"
  /\ \/ Exit
     \/ deployment.transport = "stdio" /\ deployment.cli.purpose = "print_tools" /\ Exit
     \/ deployment.transport = "stdio" /\ deployment.cli.purpose = "serve"
          /\ phase' = "serving" /\ UNCHANGED <<deployment, discovered, published>>
     \/ deployment.transport = "http"
          /\ phase' = "surface" /\ UNCHANGED <<deployment, discovered, published>>

\* The toolkit may refuse the configuration or the surface.  allow_insecure_http is worked
\* out of the surface itself, so that a clear-text URL in it is no reason to refuse it.
BuildAuthSurfaceLayer ==
  /\ phase = "surface"
  /\ \/ /\ ~AuthEnabled(deployment.env)
        /\ phase' = "bind" /\ UNCHANGED <<deployment, discovered, published>>
     \/ /\ AuthEnabled(deployment.env)
        /\ discovered' \in IF deployment.env.issuer = None THEN {None} ELSE Discoveries
        /\ published' = Surface(deployment.env, discovered')
        /\ phase' = "bind" /\ UNCHANGED deployment
     \/ AuthEnabled(deployment.env) /\ Exit

\* run_http_server: the certificate may be unreadable, the address taken.
Bind ==
  /\ phase = "bind"
  /\ \/ Exit
     \/ phase' = "serving" /\ UNCHANGED <<deployment, discovered, published>>

StartNext == ReadOptions \/ ReadEnvironment \/ BuildServer \/ BuildAuthSurfaceLayer \/ Bind
=============================================================================
