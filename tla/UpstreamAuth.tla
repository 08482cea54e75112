----------------------------- MODULE UpstreamAuth -----------------------------
(***************************************************************************)
(* Which Google access token a tool call goes upstream with, and where it  *)
(* comes from: the client's request header (src/server.rs), or the         *)
(* credentials the server was configured with (src/ga_client.rs): an OAuth *)
(* refresh token whose access tokens are cached behind a tokio RwLock, an  *)
(* authorized-user file or the provider chain, both kept in a OnceCell.    *)
(*                                                                         *)
(* Tool calls are concurrent tasks.  One action is what a task does        *)
(* between two awaits.  A call sends one or more upstream requests, one    *)
(* after the other, and asks for a token before each.                      *)
(***************************************************************************)
EXTENDS Naturals, Sequences, FiniteSets

CONSTANTS
  Calls,           \* the tool calls that may be under way at once
  None,            \* no writer, no provider
  Settings,        \* configurations the server is started with
  Lives,           \* expires_in of the tokens the upstream issues
  Margin,          \* the 60 seconds a token is given up before its end
  MaxSends,        \* bound: upstream requests of a call
  MaxLogins,       \* bound: how often the credential file is written
  Horizon          \* bound: the clock stops here

\* A client secret file may be of no use: not readable, without a client, with a
\* token_uri other than Google's.
AllSettings ==
  [source : {"config", "request_header", "request_header_or_config"},
   secret : {"unset", "usable", "useless"}, refreshToken : BOOLEAN, applicationDefault : BOOLEAN,
   shared : BOOLEAN, path : BOOLEAN]

ASSUME AuthAssumption ==
  /\ None \notin Calls /\ None \notin Nat
  /\ Settings \subseteq AllSettings
  /\ Lives \subseteq Nat
  /\ {Margin, MaxLogins, Horizon} \subseteq Nat
  /\ MaxSends \in Nat \ {0}

VARIABLES
  settings,     \* token_source, and what select_auth_mode looks at
  pc,           \* where each call stands
  call,         \* its arguments: operation, header, requests still to send
  got,          \* the token it holds
  now,          \* the clock
  cache,        \* cached_oauth_token
  readers,      \* calls that hold the read lock
  writer,       \* the call that holds the write lock
  queue,        \* calls that wait for the lock, or for the cell: first come first served
  since,        \* when a call sent its refresh request
  provider,     \* token_provider or oauth_token_provider: whose credentials
  initializing, \* the call that runs the initialization of token_provider
  loaded,       \* the credentials a call has read from the file
  credentials   \* generation of the credentials on disk, 0 if there are none

lock == <<readers, writer, queue>>
cell == <<provider, initializing, loaded>>
vars == <<settings, pc, call, got, now, cache, lock, since, cell, credentials>>

\* select_auth_mode: half an OAuth configuration, or one that cannot be read, is
\* never passed over for another.
AuthMode(s) ==
  IF s.secret = "usable" /\ s.refreshToken THEN "oauth"
  ELSE IF s.secret # "unset" \/ s.refreshToken THEN "refused"
  ELSE IF s.applicationDefault \/ s.shared THEN "adc"
  ELSE IF s.path THEN "file"
  ELSE "refused"

mode == AuthMode(settings)

\* UpstreamTokenSource::uses_request_header
UsesRequestHeader == settings.source \in {"request_header", "request_header_or_config"}

\* What a header may hold: nothing (or blanks), one token (after the word Bearer
\* or not, and the word alone is one too), several words, or other than text.
Headers == {"absent", "token", "spaced", "opaque"}

Operations == {"report", "verify"}

Token == [from : {"none", "own", "oauth", "adc", "file"}, who : Nat,
          issued : Nat, answered : Nat, life : Nat]

NoToken == [from |-> "none", who |-> 0, issued |-> 0, answered |-> 0, life |-> 0]
OwnToken == [NoToken EXCEPT !.from = "own"]
ProviderToken(who) == [NoToken EXCEPT !.from = mode, !.who = who]

NoCall == [op |-> "report", header |-> "absent", sends |-> 0]

Init ==
  /\ settings \in Settings /\ AuthMode(settings) # "refused"
  /\ pc = [r \in Calls |-> "idle"]
  /\ call = [r \in Calls |-> NoCall]
  /\ got = [r \in Calls |-> NoToken]
  /\ now = 0
  /\ cache = NoToken
  /\ readers = {} /\ writer = None /\ queue = <<>>
  /\ since = [r \in Calls |-> 0]
  /\ provider = None /\ initializing = None
  /\ loaded = [r \in Calls |-> 0]
  /\ credentials = 0

-------------------------------------------------------------------------------
(***************************************************************************)
(* A call begins, sends its requests and ends.                             *)
(***************************************************************************)
Goto(r, step) == pc' = [pc EXCEPT ![r] = step]

End(r) ==
  /\ Goto(r, "idle")
  /\ call' = [call EXCEPT ![r] = NoCall]

Take(r, token) ==
  /\ got' = [got EXCEPT ![r] = token]
  /\ Goto(r, "send")

\* upstream_token_override_from_context: no header is looked at in config mode,
\* and to_str().ok() makes one that is not text count as none.
RequestToken(r) ==
  IF UsesRequestHeader /\ call[r].header # "opaque" THEN call[r].header ELSE "absent"

\* Mutant: a header that cannot be read counts as no header.
ParsedLeniently(header) ==
  IF header = "token" THEN "own" ELSE "absent"

\* parse_request_token_header_value
Parsed(header) ==
  IF header = "absent" THEN "absent"
  ELSE IF header = "spaced" THEN "malformed"
  ELSE "own"

\* ga4_auth_status asks for the configured token where reports may not have it.
ChecksConfigured(r) == call[r].op = "verify" /\ settings.source = "request_header"

Call(r, op, header, n) ==
  /\ pc[r] = "idle"
  /\ call' = [call EXCEPT ![r] =
                [op |-> op, header |-> header, sends |-> IF op = "verify" THEN 1 ELSE n]]
  /\ Goto(r, "token")
  /\ UNCHANGED <<settings, got, now, cache, lock, since, cell, credentials>>

\* access_token and verify_config_token, up to the configured credentials.
AccessToken(r) ==
  /\ pc[r] = "token"
  /\ LET parsed == Parsed(RequestToken(r))
         configured == /\ Goto(r, mode)
                       /\ queue' = IF mode = "oauth" \/ (mode = "adc" /\ provider = None)
                                   THEN Append(queue, r) ELSE queue
                       /\ UNCHANGED <<call, got>>
         refused == End(r) /\ UNCHANGED <<got, queue>>
     IN IF ChecksConfigured(r) THEN configured
        ELSE IF parsed = "malformed" THEN refused
        ELSE IF settings.source = "config" THEN configured
        ELSE IF parsed = "own" THEN Take(r, OwnToken) /\ UNCHANGED <<call, queue>>
        ELSE IF settings.source = "request_header" THEN refused
        ELSE configured
  /\ UNCHANGED <<settings, now, cache, readers, writer, since, cell, credentials>>

\* get_json, post_json, send_json: the next page asks for a token again.
Send(r, ok) ==
  /\ pc[r] = "send"
  /\ got' = [got EXCEPT ![r] = NoToken]
  /\ IF ok /\ call[r].sends > 1
     THEN /\ call' = [call EXCEPT ![r].sends = @ - 1]
          /\ Goto(r, "token")
     ELSE End(r)
  /\ UNCHANGED <<settings, now, cache, lock, since, cell, credentials>>

-------------------------------------------------------------------------------
(***************************************************************************)
(* configured_access_token with an OAuth refresh token.  A call at "oauth" *)
(* waits for the read lock, one at "claim" for the write lock.             *)
(***************************************************************************)

\* Mutant: a token is kept to its end.
RefreshInFull(life) == IF life > 1 THEN life ELSE 1

\* Mutant: without saturating_sub and max.
RefreshInUnguarded(life) == life - Margin

\* expires_in.saturating_sub(60).max(1)
RefreshIn(life) == IF life > Margin THEN life - Margin ELSE 1

Fresh(token) == token.from = "oauth" /\ now < token.answered + RefreshIn(token.life)

AcquireRead(r) ==
  /\ pc[r] = "oauth" /\ queue # <<>> /\ Head(queue) = r
  /\ writer = None
  /\ readers' = readers \union {r}
  /\ queue' = Tail(queue)
  /\ Goto(r, "reading")
  /\ UNCHANGED <<settings, call, got, now, cache, writer, since, cell, credentials>>

\* Mutant: the guard lives on while the call asks for the write lock.
ReadGuardKept(r) == IF Fresh(cache) THEN readers \ {r} ELSE readers

\* The guard is dropped with the condition it was taken for.
ReadGuard(r) == readers \ {r}

Peek(r) ==
  /\ pc[r] = "reading"
  /\ readers' = ReadGuard(r)
  /\ IF Fresh(cache)
     THEN Take(r, cache) /\ UNCHANGED queue
     ELSE /\ queue' = Append(queue, r)
          /\ Goto(r, "claim")
          /\ UNCHANGED got
  /\ UNCHANGED <<settings, call, now, cache, writer, since, cell, credentials>>

\* Mutant: writers do not exclude each other.
MayWriteShared == readers = {}

MayWrite == writer = None /\ readers = {}

AcquireWrite(r) ==
  /\ pc[r] = "claim" /\ queue # <<>> /\ Head(queue) = r
  /\ MayWrite
  /\ writer' = r
  /\ queue' = Tail(queue)
  /\ Goto(r, "checking")
  /\ UNCHANGED <<settings, call, got, now, cache, readers, since, cell, credentials>>

\* Mutant: what was seen before the write lock still holds under it.
RefreshedMeanwhileUnseen == FALSE

\* Another call may have refreshed the token while this one waited.
RefreshedMeanwhile == Fresh(cache)

Recheck(r) ==
  /\ pc[r] = "checking"
  /\ IF RefreshedMeanwhile
     THEN Take(r, cache) /\ writer' = None /\ UNCHANGED since
     ELSE /\ since' = [since EXCEPT ![r] = now]
          /\ Goto(r, "refreshing")
          /\ UNCHANGED <<got, writer>>
  /\ UNCHANGED <<settings, call, now, cache, readers, queue, cell, credentials>>

\* refresh_oauth_access_token: the token was issued at some time between the
\* request and its answer; the clock of the cache starts at the answer.
RefreshAnswers(r, life, issued) ==
  /\ pc[r] = "refreshing"
  /\ issued \in since[r]..now
  /\ LET token == [from |-> "oauth", who |-> 0, issued |-> issued,
                   answered |-> now, life |-> life]
     IN cache' = token /\ Take(r, token)
  /\ writer' = None
  /\ since' = [since EXCEPT ![r] = 0]
  /\ UNCHANGED <<settings, call, now, readers, queue, cell, credentials>>

\* Timeout, refusal or an answer without a token: the next in line tries again.
RefreshFails(r) ==
  /\ pc[r] = "refreshing"
  /\ End(r)
  /\ writer' = None
  /\ since' = [since EXCEPT ![r] = 0]
  /\ UNCHANGED <<settings, got, now, cache, readers, queue, cell, credentials>>

-------------------------------------------------------------------------------
(***************************************************************************)
(* configured_access_token with a provider.                                *)
(***************************************************************************)

\* token_provider: one call at a time runs the initialization, the others wait.
UseProvider(r) ==
  /\ pc[r] = "adc"
  /\ \/ provider # None /\ Goto(r, "ask") /\ UNCHANGED <<initializing, queue>>
     \/ /\ provider = None /\ initializing = None
        /\ queue # <<>> /\ Head(queue) = r
        /\ queue' = Tail(queue)
        /\ initializing' = r
        /\ Goto(r, "init")
  /\ UNCHANGED <<settings, call, got, now, cache, readers, writer, since, provider,
                 loaded, credentials>>

\* A filled cell lets everyone go who waits for it.
InitProvider(r) ==
  /\ pc[r] = "init"
  /\ credentials # 0
  /\ provider' = credentials
  /\ initializing' = None
  /\ queue' = <<>>
  /\ Goto(r, "ask")
  /\ UNCHANGED <<settings, call, got, now, cache, readers, writer, since, loaded, credentials>>

\* A failed initialization leaves the cell empty for the next in line.
InitProviderFails(r) ==
  /\ pc[r] = "init"
  /\ initializing' = None
  /\ End(r)
  /\ UNCHANGED <<settings, got, now, cache, lock, since, provider, loaded, credentials>>

\* authorized_user_adc_provider: the file is read unless the cell is filled.
LoadFile(r) ==
  /\ pc[r] = "file"
  /\ \/ provider # None /\ Goto(r, "ask") /\ UNCHANGED loaded
     \/ /\ provider = None /\ credentials # 0
        /\ loaded' = [loaded EXCEPT ![r] = credentials]
        /\ Goto(r, "publish")
  /\ UNCHANGED <<settings, call, got, now, cache, lock, since, provider, initializing, credentials>>

LoadFileFails(r) ==
  /\ pc[r] = "file" /\ provider = None
  /\ End(r)
  /\ UNCHANGED <<settings, got, now, cache, lock, since, cell, credentials>>

\* Mutant: the provider just read is put in the cell whatever it holds.
PublishedLast(r) == loaded[r]

\* get_or_init: the first one in stays.
Published(r) == IF provider = None THEN loaded[r] ELSE provider

Publish(r) ==
  /\ pc[r] = "publish"
  /\ provider' = Published(r)
  /\ loaded' = [loaded EXCEPT ![r] = 0]
  /\ Goto(r, "ask")
  /\ UNCHANGED <<settings, call, got, now, cache, lock, since, initializing, credentials>>

\* The provider keeps its own tokens, or fetches one, or fails.
Ask(r) ==
  /\ pc[r] = "ask"
  /\ Take(r, ProviderToken(provider))
  /\ UNCHANGED <<settings, call, now, cache, lock, since, cell, credentials>>

AskFails(r) ==
  /\ pc[r] = "ask"
  /\ End(r)
  /\ UNCHANGED <<settings, got, now, cache, lock, since, cell, credentials>>

-------------------------------------------------------------------------------
(***************************************************************************)
(* Time, and the user who logs in again while the server runs.             *)
(***************************************************************************)
\* Only the cached token is compared with the clock, and only a provider is read
\* from a file.
Tick ==
  /\ mode = "oauth"
  /\ now < Horizon
  /\ now' = now + 1
  /\ UNCHANGED <<settings, pc, call, got, cache, lock, since, cell, credentials>>

Login ==
  /\ mode # "oauth"
  /\ credentials < MaxLogins
  /\ credentials' = credentials + 1
  /\ UNCHANGED <<settings, pc, call, got, now, cache, lock, since, cell>>

OAuthStep(r) ==
  \/ AcquireRead(r) \/ Peek(r) \/ AcquireWrite(r) \/ Recheck(r) \/ RefreshFails(r)
  \/ \E life \in Lives : \E issued \in since[r]..now : RefreshAnswers(r, life, issued)

ProviderStep(r) ==
  \/ UseProvider(r) \/ InitProvider(r) \/ InitProviderFails(r)
  \/ LoadFile(r) \/ LoadFileFails(r) \/ Publish(r) \/ Ask(r) \/ AskFails(r)

Proceed(r) ==
  \/ AccessToken(r) \/ OAuthStep(r) \/ ProviderStep(r)
  \/ \E ok \in BOOLEAN : Send(r, ok)

CallStep(r) ==
  \E op \in Operations, header \in Headers, n \in 1..MaxSends : Call(r, op, header, n)

Next == Tick \/ Login \/ \E r \in Calls : CallStep(r) \/ Proceed(r)

Spec == Init /\ [][Next]_vars

\* A task goes on when it can: every request upstream has a timeout.
FairSpec == Spec /\ \A r \in Calls : WF_vars(Proceed(r))

-------------------------------------------------------------------------------
(***************************************************************************)
(* Properties.                                                             *)
(***************************************************************************)
Steps == {"idle", "token", "oauth", "reading", "claim", "checking", "refreshing",
          "adc", "init", "file", "publish", "ask", "send"}

TypeOK ==
  /\ settings \in AllSettings
  /\ pc \in [Calls -> Steps]
  /\ call \in [Calls -> [op : Operations, header : Headers, sends : Nat]]
  /\ got \in [Calls -> Token]
  /\ now \in Nat
  /\ cache \in Token
  /\ RefreshIn(cache.life) \in Nat
  /\ readers \subseteq Calls
  /\ writer \in Calls \union {None}
  /\ queue \in Seq(Calls)
  /\ since \in [Calls -> Nat]
  /\ provider \in Nat \union {None}
  /\ initializing \in Calls \union {None}
  /\ loaded \in [Calls -> Nat]
  /\ credentials \in Nat

\* A request goes upstream with the token that was meant for it: with the
\* client's own whenever the server reads headers and the client sent one, never
\* with the server's after the client sent a text that is no token, and in
\* request_header mode with the server's for the status check alone.
TokenRight ==
  \A r \in Calls : pc[r] = "send" =>
    IF UsesRequestHeader /\ ~ChecksConfigured(r) /\ call[r].header \in {"token", "spaced"}
    THEN call[r].header = "token" /\ got[r].from = "own"
    ELSE /\ got[r].from = mode
         /\ settings.source = "request_header" => call[r].op = "verify"

Obtains(r) == pc[r] # "send" /\ pc'[r] = "send" /\ got'[r].from = "oauth"

\* The clock of the cache starts late, at the answer, and stops early, Margin
\* before the end: a token that is handed out is good for the margin less the
\* time its answer took.  A token that does not live as long as the margin is
\* handed out within the second it came in.
MarginKept ==
  [][\A r \in Calls : Obtains(r) =>
       LET token == got'[r] IN
       IF token.life > Margin
       THEN now + Margin < token.answered + token.life
       ELSE now = token.answered]_vars

\* However many calls find the token expired together, one of them asks for a
\* new one, and only after it has seen, under the lock, that nobody else has.
RefreshOnce ==
  [][\A r \in Calls : pc[r] # "refreshing" /\ pc'[r] = "refreshing" =>
       /\ ~Fresh(cache)
       /\ \A q \in Calls : pc[q] # "refreshing"]_vars

\* The cached token is only ever replaced by one that was issued after it came
\* in: no slow answer puts an older token back.
CacheMovesForward == [][cache' # cache => cache'.issued >= cache.answered]_vars

\* Once a provider is chosen every token comes from it, though the file it was
\* read from is written again, even between two calls that both read it.
OneProvider ==
  \A r \in Calls : got[r].from \in {"adc", "file"} => got[r].who = provider

\* Every call is answered: nobody waits for the lock or the cell for good.
CallsAnswered == \A r \in Calls : pc[r] # "idle" ~> pc[r] = "idle"
===============================================================================
