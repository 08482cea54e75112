-------------------------- MODULE UpstreamAuth_proofs --------------------------
(***************************************************************************)
(* What UpstreamAuth promises, for every number of calls, every set of     *)
(* configurations, every lifetime of a token and without the bounds.  The  *)
(* inductive invariant IInv adds to the properties that the lock has one   *)
(* holder, that a call only takes the path of the configured mode, that no *)
(* refresh was asked for before the cached token came in, and that a call  *)
(* which asks a provider has one.                                          *)
(***************************************************************************)
EXTENDS UpstreamAuth, TLAPS

OAuthSteps == {"oauth", "reading", "claim", "checking", "refreshing"}
AdcSteps == {"adc", "init"}
FileSteps == {"file", "publish"}
ConfiguredSteps == OAuthSteps \union AdcSteps \union FileSteps \union {"ask"}

\* Who checks the cache for the second time, or refreshes it, holds the lock.
LockInv == \A r \in Calls : pc[r] \in {"checking", "refreshing"} => writer = r

MayUseConfigured(r) ==
  /\ ~(UsesRequestHeader /\ ~ChecksConfigured(r) /\ call[r].header \in {"token", "spaced"})
  /\ settings.source = "request_header" => call[r].op = "verify"

\* A call is on the path of the configured mode, and rightly on it.
PathInv ==
  /\ AuthMode(settings) \in {"oauth", "adc", "file"}
  /\ \A r \in Calls :
       /\ pc[r] \in OAuthSteps => AuthMode(settings) = "oauth"
       /\ pc[r] \in AdcSteps => AuthMode(settings) = "adc"
       /\ pc[r] \in FileSteps => AuthMode(settings) = "file"
       /\ pc[r] = "ask" => AuthMode(settings) \in {"adc", "file"}
       /\ pc[r] \in ConfiguredSteps => MayUseConfigured(r)

\* The cached token came in before any refresh under way was asked for.
ClockInv ==
  /\ cache.answered <= now
  /\ \A r \in Calls : pc[r] = "refreshing" => cache.answered <= since[r]

\* Who asks a provider has one; who makes one finds none.
CellInv ==
  \A r \in Calls :
    /\ pc[r] = "ask" => provider # None
    /\ pc[r] = "init" => provider = None /\ initializing = r

IInv == TypeOK /\ LockInv /\ PathInv /\ ClockInv /\ CellInv /\ TokenRight /\ OneProvider

-------------------------------------------------------------------------------
\* select_auth_mode knows four outcomes.
LEMMA AuthModes == \A s : AuthMode(s) \in {"oauth", "adc", "file", "refused"}
BY DEF AuthMode

\* A refresh is due in a natural number of seconds, whatever the token's life.
LEMMA RefreshInNat == \A life \in Nat : RefreshIn(life) \in Nat
BY AuthAssumption DEF RefreshIn

\* Tokens are tokens.
LEMMA Tokens ==
  /\ NoToken \in Token
  /\ OwnToken \in Token
  /\ \A who \in Nat : AuthMode(settings) \in {"adc", "file"} => ProviderToken(who) \in Token
BY DEF NoToken, OwnToken, ProviderToken, Token, mode

\* The initial states are well-typed and satisfy the invariant.
LEMMA InitInv == Init => IInv
<1> SUFFICES ASSUME Init PROVE IInv
  OBVIOUS
<1>1. TypeOK
  <2>1. settings \in AllSettings
    BY AuthAssumption DEF Init
  <2>2. RefreshIn(cache.life) \in Nat
    BY RefreshInNat DEF Init, NoToken
  <2> QED
    BY <2>1, <2>2, Tokens DEF Init, TypeOK, Steps, NoCall, Operations, Headers
<1>2. AuthMode(settings) \in {"oauth", "adc", "file"}
  BY AuthModes DEF Init
<1>3. LockInv /\ ClockInv /\ CellInv /\ TokenRight
  BY DEF Init, LockInv, ClockInv, CellInv, TokenRight, NoToken
<1>4. PathInv
  BY <1>2 DEF Init, PathInv, OAuthSteps, AdcSteps, FileSteps, ConfiguredSteps
<1>5. OneProvider
  BY DEF Init, OneProvider, NoToken
<1> QED
  BY <1>1, <1>3, <1>4, <1>5 DEF IInv

\* Who joins or leaves the queue leaves it a queue of calls.
LEMMA Queues ==
  \A q \in Seq(Calls) :
    /\ \A r \in Calls : Append(q, r) \in Seq(Calls)
    /\ q # <<>> => Tail(q) \in Seq(Calls)
OBVIOUS

\* A token names a generation of credentials, not None.
LEMMA Whose == TypeOK => \A r \in Calls : got[r].who # None
<1> SUFFICES ASSUME TypeOK, NEW r \in Calls PROVE got[r].who # None
  OBVIOUS
<1>1. got[r] \in Token
  BY DEF TypeOK
<1>2. got[r].who \in Nat
  BY <1>1 DEF Token
<1> QED
  BY <1>2, AuthAssumption

\* A call begins.
LEMMA CallInv ==
  ASSUME NEW r \in Calls, NEW op \in Operations, NEW header \in Headers,
         NEW n \in 1..MaxSends, IInv, Call(r, op, header, n)
  PROVE  IInv'
<1> USE DEF IInv, Call, Goto, lock, cell
<1>1. IF op = "verify" THEN 1 \in Nat ELSE n \in Nat
  BY AuthAssumption
<1>2. call' \in [Calls -> [op : Operations, header : Headers, sends : Nat]]
  BY <1>1 DEF TypeOK
<1>3. TypeOK'
  BY <1>2 DEF TypeOK, Steps
<1>4. LockInv'
  BY AuthAssumption DEF LockInv, TypeOK
<1>5. PathInv'
  BY DEF PathInv, TypeOK, MayUseConfigured, UsesRequestHeader, ChecksConfigured,
        OAuthSteps, AdcSteps, FileSteps, ConfiguredSteps
<1>6. ClockInv'
  BY DEF ClockInv, TypeOK, Token, LockInv
<1>7. CellInv'
  BY AuthAssumption DEF CellInv, TypeOK, PathInv, AdcSteps, FileSteps
<1>8. TokenRight'
  BY DEF TokenRight, TypeOK, PathInv, mode, MayUseConfigured, UsesRequestHeader,
        ChecksConfigured, OAuthSteps, ConfiguredSteps
<1>9. OneProvider'
  BY AuthAssumption DEF OneProvider, TypeOK, CellInv, PathInv, OAuthSteps, AdcSteps,
        FileSteps
<1> QED
  BY <1>1, <1>2, <1>3, <1>4, <1>5, <1>6, <1>7, <1>8, <1>9

\* A call asks for a token: it takes its own, or may go on to the configured one.
LEMMA AccessTokenInv ==
  ASSUME NEW r \in Calls, IInv, AccessToken(r)
  PROVE  IInv'
<1> USE DEF IInv, Goto
<1>1. UNCHANGED <<settings, now, cache, readers, writer, since, provider, initializing,
                  loaded, credentials>> /\ pc[r] = "token"
  BY DEF AccessToken, cell
<1>2. \/ Goto(r, mode) /\ queue' \in {queue, Append(queue, r)} /\ MayUseConfigured(r)
         /\ UNCHANGED <<call, got>>
      \/ Take(r, OwnToken) /\ UsesRequestHeader /\ ~ChecksConfigured(r)
         /\ call[r].header = "token" /\ UNCHANGED <<call, queue>>
      \/ End(r) /\ UNCHANGED <<got, queue>>
  BY DEF AccessToken, MayUseConfigured, RequestToken, Parsed, UsesRequestHeader,
         ChecksConfigured, Take, End, TypeOK, Headers
<1>3. CASE Goto(r, mode) /\ queue' \in {queue, Append(queue, r)} /\ MayUseConfigured(r)
           /\ UNCHANGED <<call, got>>
  <2>1. queue' \in Seq(Calls)
    BY <1>3, Queues DEF TypeOK
  <2>2. pc' \in [Calls -> Steps] /\ mode \in {"oauth", "adc", "file"}
    BY <1>3 DEF TypeOK, Steps, PathInv, mode
  <2>3. TypeOK'
    BY <1>1, <1>3, <2>1, <2>2 DEF TypeOK
  <2>4. LockInv' /\ ClockInv' /\ CellInv' /\ TokenRight' /\ OneProvider'
    BY <1>1, <1>3, <2>2 DEF LockInv, ClockInv, CellInv, TokenRight, OneProvider, TypeOK,
       UsesRequestHeader, ChecksConfigured, mode
  <2>5. PathInv'
    BY <1>1, <1>3, <2>2 DEF PathInv, TypeOK, MayUseConfigured, UsesRequestHeader,
       ChecksConfigured, OAuthSteps, AdcSteps, FileSteps, ConfiguredSteps, mode
  <2> QED
    BY <2>3, <2>4, <2>5
<1>4. CASE Take(r, OwnToken) /\ UsesRequestHeader /\ ~ChecksConfigured(r)
           /\ call[r].header = "token" /\ UNCHANGED <<call, queue>>
  <2>1. TypeOK'
    BY <1>1, <1>4, Tokens DEF TypeOK, Steps, Take
  <2>2. LockInv' /\ ClockInv' /\ CellInv'
    BY <1>1, <1>4 DEF LockInv, ClockInv, CellInv, TypeOK, Take
  <2>3. TokenRight' /\ OneProvider'
    BY <1>1, <1>4 DEF TokenRight, OneProvider, TypeOK, Take, OwnToken, NoToken,
       UsesRequestHeader, ChecksConfigured, mode
  <2>4. PathInv'
    BY <1>1, <1>4 DEF PathInv, TypeOK, MayUseConfigured, UsesRequestHeader,
       ChecksConfigured, OAuthSteps, AdcSteps, FileSteps, ConfiguredSteps, Take
  <2> QED
    BY <2>1, <2>2, <2>3, <2>4
<1>5. CASE End(r) /\ UNCHANGED <<got, queue>>
  <2>1. TypeOK'
    BY <1>1, <1>5 DEF TypeOK, Steps, End, NoCall, Operations, Headers
  <2>2. LockInv' /\ ClockInv' /\ CellInv' /\ TokenRight' /\ OneProvider'
    BY <1>1, <1>5 DEF LockInv, ClockInv, CellInv, TokenRight, OneProvider, TypeOK, End,
       UsesRequestHeader, ChecksConfigured, mode
  <2>3. PathInv'
    BY <1>1, <1>5 DEF PathInv, TypeOK, MayUseConfigured, UsesRequestHeader,
       ChecksConfigured, OAuthSteps, AdcSteps, FileSteps, ConfiguredSteps, End
  <2> QED
    BY <2>1, <2>2, <2>3
<1> QED
  BY <1>2, <1>3, <1>4, <1>5

\* A call sends a request.
LEMMA SendInv ==
  ASSUME NEW r \in Calls, NEW ok \in BOOLEAN, IInv, Send(r, ok)
  PROVE  IInv'
<1> USE DEF IInv, Send, Goto, End, lock, cell
<1>1. call[r].sends > 1 => call[r].sends - 1 \in Nat
  BY DEF TypeOK
<1>2. IF ok /\ call[r].sends > 1
      THEN call' = [call EXCEPT ![r].sends = @ - 1]
      ELSE call' = [call EXCEPT ![r] = NoCall]
  OBVIOUS
<1>3. NoCall \in [op : Operations, header : Headers, sends : Nat]
  BY DEF NoCall, Operations, Headers
<1>4. call[r].sends > 1 =>
        [call[r] EXCEPT !.sends = @ - 1] \in [op : Operations, header : Headers, sends : Nat]
  <2>1. call[r] \in [op : Operations, header : Headers, sends : Nat]
    BY DEF TypeOK
  <2> QED
    BY <1>1, <2>1
<1>5. call' \in [Calls -> [op : Operations, header : Headers, sends : Nat]]
  BY <1>2, <1>3, <1>4 DEF TypeOK
<1>6. got' \in [Calls -> Token]
  BY Tokens DEF TypeOK
<1>7. TypeOK'
  BY <1>5, <1>6 DEF TypeOK, Steps
<1>8. LockInv'
  BY AuthAssumption DEF LockInv, TypeOK
<1>9. PathInv'
  BY SMTT(30) DEF PathInv, TypeOK, MayUseConfigured, UsesRequestHeader, ChecksConfigured,
        OAuthSteps, AdcSteps, FileSteps, ConfiguredSteps
<1>10. ClockInv'
  BY DEF ClockInv, TypeOK, Token, LockInv
<1>11. CellInv'
  BY AuthAssumption DEF CellInv, TypeOK, PathInv, AdcSteps, FileSteps
<1>12. TokenRight'
  BY DEF TokenRight, TypeOK, PathInv, mode, MayUseConfigured, UsesRequestHeader,
        ChecksConfigured, OAuthSteps, ConfiguredSteps
<1>13. OneProvider'
  BY DEF OneProvider, TypeOK, NoToken
<1> QED
  BY <1>1, <1>2, <1>3, <1>4, <1>5, <1>6, <1>7, <1>8, <1>9, <1>10, <1>11, <1>12, <1>13

\* A call takes the read lock.
LEMMA AcquireReadInv ==
  ASSUME NEW r \in Calls, IInv, AcquireRead(r)
  PROVE  IInv'
<1> USE DEF IInv, AcquireRead, Goto, lock, cell
<1>1. TypeOK'
  BY DEF TypeOK, Steps
<1>2. LockInv'
  BY AuthAssumption DEF LockInv, TypeOK
<1>3. PathInv'
  BY DEF PathInv, TypeOK, MayUseConfigured, UsesRequestHeader, ChecksConfigured,
        OAuthSteps, AdcSteps, FileSteps, ConfiguredSteps
<1>4. ClockInv'
  BY DEF ClockInv, TypeOK, Token, LockInv
<1>5. CellInv'
  BY AuthAssumption DEF CellInv, TypeOK, PathInv, AdcSteps, FileSteps
<1>6. TokenRight'
  BY DEF TokenRight, TypeOK, PathInv, mode, MayUseConfigured, UsesRequestHeader,
        ChecksConfigured, OAuthSteps, ConfiguredSteps
<1>7. OneProvider'
  BY AuthAssumption DEF OneProvider, TypeOK, CellInv, PathInv, OAuthSteps, AdcSteps,
        FileSteps
<1> QED
  BY <1>1, <1>2, <1>3, <1>4, <1>5, <1>6, <1>7

\* A call looks at the cached token.
LEMMA PeekInv ==
  ASSUME NEW r \in Calls, IInv, Peek(r)
  PROVE  IInv'
<1> USE DEF IInv, Peek, Goto, Take, ReadGuard, lock, cell
<1>1. got' \in [Calls -> Token]
  BY DEF TypeOK
<1>2. queue' \in {queue, Append(queue, r)}
  OBVIOUS
<1>3. queue' \in Seq(Calls)
  <2>1. queue \in Seq(Calls)
    BY DEF TypeOK
  <2>2. Append(queue, r) \in Seq(Calls)
    BY <2>1, Queues
  <2> QED
    BY <1>2, <2>1, <2>2
<1>4. pc' \in [Calls -> Steps]
  BY DEF TypeOK, Steps
<1>5. TypeOK'
  BY <1>1, <1>3, <1>4 DEF TypeOK
<1>6. LockInv'
  BY AuthAssumption DEF LockInv, TypeOK
<1>7. PathInv'
  BY DEF PathInv, TypeOK, MayUseConfigured, UsesRequestHeader, ChecksConfigured,
        OAuthSteps, AdcSteps, FileSteps, ConfiguredSteps
<1>8. ClockInv'
  BY DEF ClockInv, TypeOK, Token, LockInv
<1>9. CellInv'
  BY AuthAssumption DEF CellInv, TypeOK, PathInv, AdcSteps, FileSteps
<1>10. TokenRight'
  BY DEF Fresh, TokenRight, TypeOK, PathInv, mode, MayUseConfigured,
        UsesRequestHeader, ChecksConfigured, OAuthSteps, ConfiguredSteps
<1>11. OneProvider'
  BY DEF Fresh, OneProvider, TypeOK
<1> QED
  BY <1>1, <1>2, <1>3, <1>4, <1>5, <1>6, <1>7, <1>8, <1>9, <1>10, <1>11

\* A call takes the write lock: nobody else can hold it.
LEMMA AcquireWriteInv ==
  ASSUME NEW r \in Calls, IInv, AcquireWrite(r)
  PROVE  IInv'
<1> USE DEF IInv, AcquireWrite, Goto, lock, cell
<1>1. TypeOK'
  <2>1. TypeOK /\ writer' \in Calls
    OBVIOUS
  <2>2. pc' \in [Calls -> Steps]
    BY <2>1 DEF TypeOK, Steps
  <2>3. queue' \in Seq(Calls)
    BY <2>1 DEF TypeOK
  <2> QED
    BY <2>1, <2>2, <2>3 DEF TypeOK
<1>2. LockInv'
  BY AuthAssumption DEF LockInv, TypeOK, MayWrite
<1>3. PathInv'
  BY DEF PathInv, TypeOK, MayUseConfigured, UsesRequestHeader, ChecksConfigured,
        OAuthSteps, AdcSteps, FileSteps, ConfiguredSteps
<1>4. ClockInv'
  BY DEF ClockInv, TypeOK, Token, LockInv
<1>5. CellInv'
  BY AuthAssumption DEF CellInv, TypeOK, PathInv, AdcSteps, FileSteps
<1>6. TokenRight'
  BY DEF TokenRight, TypeOK, PathInv, mode, MayUseConfigured, UsesRequestHeader,
        ChecksConfigured, OAuthSteps, ConfiguredSteps
<1>7. OneProvider'
  BY AuthAssumption DEF OneProvider, TypeOK, CellInv, PathInv, OAuthSteps, AdcSteps,
        FileSteps
<1> QED
  BY <1>1, <1>2, <1>3, <1>4, <1>5, <1>6, <1>7

\* The holder of the lock looks again.
LEMMA RecheckInv ==
  ASSUME NEW r \in Calls, IInv, Recheck(r)
  PROVE  IInv'
<1> USE DEF IInv, Recheck, Goto, Take, RefreshedMeanwhile, lock, cell
<1>1. TypeOK'
  BY DEF TypeOK, Steps
<1>2. LockInv'
  BY AuthAssumption DEF LockInv, TypeOK
<1>3. PathInv'
  BY DEF PathInv, TypeOK, MayUseConfigured, UsesRequestHeader, ChecksConfigured,
        OAuthSteps, AdcSteps, FileSteps, ConfiguredSteps
<1>4. ClockInv'
  BY DEF ClockInv, TypeOK, Token, LockInv
<1>5. CellInv'
  BY AuthAssumption DEF CellInv, TypeOK, PathInv, AdcSteps, FileSteps
<1>6. TokenRight'
  BY DEF Fresh, TokenRight, TypeOK, PathInv, mode, MayUseConfigured,
        UsesRequestHeader, ChecksConfigured, OAuthSteps, ConfiguredSteps
<1>7. OneProvider'
  BY DEF Fresh, OneProvider, TypeOK
<1> QED
  BY <1>1, <1>2, <1>3, <1>4, <1>5, <1>6, <1>7

\* A refresh is answered.
LEMMA RefreshAnswersInv ==
  ASSUME NEW r \in Calls, NEW life \in Lives, NEW issued \in since[r]..now, IInv, RefreshAnswers(r, life, issued)
  PROVE  IInv'
<1> USE DEF IInv, RefreshAnswers, Goto, Take, lock, cell
<1>1. life \in Nat /\ issued \in Nat
  BY AuthAssumption DEF TypeOK
<1>2. cache' \in Token /\ RefreshIn(cache'.life) \in Nat
  BY <1>1, RefreshInNat DEF TypeOK, Token
<1>3. got' \in [Calls -> Token]
  BY <1>2 DEF TypeOK
<1>4. TypeOK'
  BY <1>2, <1>3 DEF TypeOK, Steps
<1>5. LockInv'
  BY AuthAssumption DEF LockInv, TypeOK
<1>6. PathInv'
  BY DEF PathInv, TypeOK, MayUseConfigured, UsesRequestHeader, ChecksConfigured,
        OAuthSteps, AdcSteps, FileSteps, ConfiguredSteps
<1>7. cache'.answered = now /\ \A q \in Calls : pc'[q] # "refreshing"
  BY AuthAssumption DEF LockInv, TypeOK
<1>8. ClockInv'
  BY <1>7 DEF ClockInv, TypeOK
<1>9. CellInv'
  BY AuthAssumption DEF CellInv, TypeOK, PathInv, AdcSteps, FileSteps
<1>10. TokenRight'
  BY DEF TokenRight, TypeOK, PathInv, mode, MayUseConfigured, UsesRequestHeader,
        ChecksConfigured, OAuthSteps, ConfiguredSteps
<1>11. OneProvider'
  BY AuthAssumption DEF OneProvider, TypeOK, CellInv, PathInv, OAuthSteps, AdcSteps,
        FileSteps
<1> QED
  BY <1>1, <1>2, <1>3, <1>4, <1>5, <1>6, <1>7, <1>8, <1>9, <1>10, <1>11

\* A refresh fails.
LEMMA RefreshFailsInv ==
  ASSUME NEW r \in Calls, IInv, RefreshFails(r)
  PROVE  IInv'
<1> USE DEF IInv, RefreshFails, Goto, End, lock, cell
<1>1. TypeOK'
  BY DEF TypeOK, Steps, NoCall, Operations, Headers
<1>2. LockInv'
  BY AuthAssumption DEF LockInv, TypeOK
<1>3. PathInv'
  BY DEF PathInv, TypeOK, MayUseConfigured, UsesRequestHeader, ChecksConfigured,
        OAuthSteps, AdcSteps, FileSteps, ConfiguredSteps
<1>4. ClockInv'
  BY DEF ClockInv, TypeOK, Token, LockInv
<1>5. CellInv'
  BY AuthAssumption DEF CellInv, TypeOK, PathInv, AdcSteps, FileSteps
<1>6. TokenRight'
  BY DEF TokenRight, TypeOK, PathInv, mode, MayUseConfigured, UsesRequestHeader,
        ChecksConfigured, OAuthSteps, ConfiguredSteps
<1>7. OneProvider'
  BY AuthAssumption DEF OneProvider, TypeOK, CellInv, PathInv, OAuthSteps, AdcSteps,
        FileSteps
<1> QED
  BY <1>1, <1>2, <1>3, <1>4, <1>5, <1>6, <1>7

\* An initialization fails.
LEMMA InitProviderFailsInv ==
  ASSUME NEW r \in Calls, IInv, InitProviderFails(r)
  PROVE  IInv'
<1> USE DEF IInv, InitProviderFails, Goto, End, lock, cell
<1>1. TypeOK'
  BY DEF TypeOK, Steps, NoCall, Operations, Headers
<1>2. LockInv'
  BY AuthAssumption DEF LockInv, TypeOK
<1>3. PathInv'
  BY DEF PathInv, TypeOK, MayUseConfigured, UsesRequestHeader, ChecksConfigured,
        OAuthSteps, AdcSteps, FileSteps, ConfiguredSteps
<1>4. ClockInv'
  BY DEF ClockInv, TypeOK, Token, LockInv
<1>5. CellInv'
  BY AuthAssumption DEF CellInv, TypeOK, PathInv, AdcSteps, FileSteps
<1>6. TokenRight'
  BY DEF TokenRight, TypeOK, PathInv, mode, MayUseConfigured, UsesRequestHeader,
        ChecksConfigured, OAuthSteps, ConfiguredSteps
<1>7. OneProvider'
  BY AuthAssumption DEF OneProvider, TypeOK, CellInv, PathInv, OAuthSteps, AdcSteps,
        FileSteps
<1> QED
  BY <1>1, <1>2, <1>3, <1>4, <1>5, <1>6, <1>7

\* The file cannot be read.
LEMMA LoadFileFailsInv ==
  ASSUME NEW r \in Calls, IInv, LoadFileFails(r)
  PROVE  IInv'
<1> USE DEF IInv, LoadFileFails, Goto, End, lock, cell
<1>1. TypeOK'
  BY DEF TypeOK, Steps, NoCall, Operations, Headers
<1>2. LockInv'
  BY AuthAssumption DEF LockInv, TypeOK
<1>3. PathInv'
  BY DEF PathInv, TypeOK, MayUseConfigured, UsesRequestHeader, ChecksConfigured,
        OAuthSteps, AdcSteps, FileSteps, ConfiguredSteps
<1>4. ClockInv'
  BY DEF ClockInv, TypeOK, Token, LockInv
<1>5. CellInv'
  BY AuthAssumption DEF CellInv, TypeOK, PathInv, AdcSteps, FileSteps
<1>6. TokenRight'
  BY DEF TokenRight, TypeOK, PathInv, mode, MayUseConfigured, UsesRequestHeader,
        ChecksConfigured, OAuthSteps, ConfiguredSteps
<1>7. OneProvider'
  BY AuthAssumption DEF OneProvider, TypeOK, CellInv, PathInv, OAuthSteps, AdcSteps,
        FileSteps
<1> QED
  BY <1>1, <1>2, <1>3, <1>4, <1>5, <1>6, <1>7

\* The provider fails.
LEMMA AskFailsInv ==
  ASSUME NEW r \in Calls, IInv, AskFails(r)
  PROVE  IInv'
<1> USE DEF IInv, AskFails, Goto, End, lock, cell
<1>1. TypeOK'
  BY DEF TypeOK, Steps, NoCall, Operations, Headers
<1>2. LockInv'
  BY AuthAssumption DEF LockInv, TypeOK
<1>3. PathInv'
  BY DEF PathInv, TypeOK, MayUseConfigured, UsesRequestHeader, ChecksConfigured,
        OAuthSteps, AdcSteps, FileSteps, ConfiguredSteps
<1>4. ClockInv'
  BY DEF ClockInv, TypeOK, Token, LockInv
<1>5. CellInv'
  BY AuthAssumption DEF CellInv, TypeOK, PathInv, AdcSteps, FileSteps
<1>6. TokenRight'
  BY DEF TokenRight, TypeOK, PathInv, mode, MayUseConfigured, UsesRequestHeader,
        ChecksConfigured, OAuthSteps, ConfiguredSteps
<1>7. OneProvider'
  BY AuthAssumption DEF OneProvider, TypeOK, CellInv, PathInv, OAuthSteps, AdcSteps,
        FileSteps
<1> QED
  BY <1>1, <1>2, <1>3, <1>4, <1>5, <1>6, <1>7

\* A call finds a provider, or makes one.
LEMMA UseProviderInv ==
  ASSUME NEW r \in Calls, IInv, UseProvider(r)
  PROVE  IInv'
<1> USE DEF IInv, UseProvider, Goto, lock, cell
<1>1. queue' \in Seq(Calls) /\ initializing' \in Calls \union {None}
  BY Queues DEF TypeOK
<1>2. pc' \in [Calls -> Steps]
  BY DEF TypeOK, Steps
<1>3. TypeOK'
  BY <1>1, <1>2 DEF TypeOK
<1>4. LockInv'
  BY AuthAssumption DEF LockInv, TypeOK
<1>5. PathInv'
  BY DEF PathInv, TypeOK, MayUseConfigured, UsesRequestHeader, ChecksConfigured,
        OAuthSteps, AdcSteps, FileSteps, ConfiguredSteps
<1>6. ClockInv'
  BY DEF ClockInv, TypeOK, Token, LockInv
<1>7. CellInv'
  BY AuthAssumption DEF CellInv, TypeOK, PathInv, AdcSteps, FileSteps
<1>8. TokenRight'
  BY DEF TokenRight, TypeOK, PathInv, mode, MayUseConfigured, UsesRequestHeader,
        ChecksConfigured, OAuthSteps, ConfiguredSteps
<1>9. OneProvider'
  BY AuthAssumption DEF OneProvider, TypeOK, CellInv, PathInv, OAuthSteps, AdcSteps,
        FileSteps
<1> QED
  BY <1>1, <1>2, <1>3, <1>4, <1>5, <1>6, <1>7, <1>8, <1>9

\* A provider is made: no call holds a token of another.
LEMMA InitProviderInv ==
  ASSUME NEW r \in Calls, IInv, InitProvider(r)
  PROVE  IInv'
<1> USE DEF IInv, InitProvider, Goto, lock, cell
<1>1. TypeOK'
  BY DEF TypeOK, Steps
<1>2. LockInv'
  BY AuthAssumption DEF LockInv, TypeOK
<1>3. PathInv'
  BY DEF PathInv, TypeOK, MayUseConfigured, UsesRequestHeader, ChecksConfigured,
        OAuthSteps, AdcSteps, FileSteps, ConfiguredSteps
<1>4. ClockInv'
  BY DEF ClockInv, TypeOK, Token, LockInv
<1>5. CellInv'
  BY AuthAssumption DEF CellInv, TypeOK, PathInv, AdcSteps, FileSteps
<1>6. TokenRight'
  BY DEF TokenRight, TypeOK, PathInv, mode, MayUseConfigured, UsesRequestHeader,
        ChecksConfigured, OAuthSteps, ConfiguredSteps
<1>7. provider = None
  BY DEF CellInv
<1>8. \A q \in Calls : got[q].from \notin {"adc", "file"}
  BY <1>7, Whose DEF OneProvider
<1>9. OneProvider'
  BY <1>8 DEF OneProvider
<1> QED
  BY <1>1, <1>2, <1>3, <1>4, <1>5, <1>6, <1>7, <1>8, <1>9

\* A call reads the file.
LEMMA LoadFileInv ==
  ASSUME NEW r \in Calls, IInv, LoadFile(r)
  PROVE  IInv'
<1> USE DEF IInv, LoadFile, Goto, lock, cell
<1>1. loaded' \in [Calls -> Nat]
  BY DEF TypeOK
<1>2. TypeOK'
  BY <1>1 DEF TypeOK, Steps
<1>3. LockInv'
  BY AuthAssumption DEF LockInv, TypeOK
<1>4. PathInv'
  BY DEF PathInv, TypeOK, MayUseConfigured, UsesRequestHeader, ChecksConfigured,
        OAuthSteps, AdcSteps, FileSteps, ConfiguredSteps
<1>5. ClockInv'
  BY DEF ClockInv, TypeOK, Token, LockInv
<1>6. CellInv'
  BY AuthAssumption DEF CellInv, TypeOK, PathInv, AdcSteps, FileSteps
<1>7. TokenRight'
  BY DEF TokenRight, TypeOK, PathInv, mode, MayUseConfigured, UsesRequestHeader,
        ChecksConfigured, OAuthSteps, ConfiguredSteps
<1>8. OneProvider'
  BY AuthAssumption DEF OneProvider, TypeOK, CellInv, PathInv, OAuthSteps, AdcSteps,
        FileSteps
<1> QED
  BY <1>1, <1>2, <1>3, <1>4, <1>5, <1>6, <1>7, <1>8

\* A call puts the provider it read in the cell, if it is empty.
LEMMA PublishInv ==
  ASSUME NEW r \in Calls, IInv, Publish(r)
  PROVE  IInv'
<1> USE DEF IInv, Publish, Goto, Published, lock, cell
<1>1. provider' \in Nat /\ (provider # None => provider' = provider)
  BY AuthAssumption DEF TypeOK
<1>2. loaded' \in [Calls -> Nat]
  BY DEF TypeOK
<1>3. TypeOK'
  BY <1>1, <1>2 DEF TypeOK, Steps
<1>4. LockInv'
  BY AuthAssumption DEF LockInv, TypeOK
<1>5. PathInv'
  BY DEF PathInv, TypeOK, MayUseConfigured, UsesRequestHeader, ChecksConfigured,
        OAuthSteps, AdcSteps, FileSteps, ConfiguredSteps
<1>6. ClockInv'
  BY DEF ClockInv, TypeOK, Token, LockInv
<1>7. CellInv'
  BY <1>1, AuthAssumption DEF CellInv, TypeOK, PathInv, AdcSteps, FileSteps
<1>8. TokenRight'
  BY DEF TokenRight, TypeOK, PathInv, mode, MayUseConfigured, UsesRequestHeader,
        ChecksConfigured, OAuthSteps, ConfiguredSteps
<1>9. \A q \in Calls : got[q].from \in {"adc", "file"} => provider # None
  BY Whose DEF OneProvider
<1>10. OneProvider'
  BY <1>1, <1>9 DEF OneProvider
<1> QED
  BY <1>1, <1>2, <1>3, <1>4, <1>5, <1>6, <1>7, <1>8, <1>9, <1>10

\* A provider gives a token.
LEMMA AskInv ==
  ASSUME NEW r \in Calls, IInv, Ask(r)
  PROVE  IInv'
<1> USE DEF IInv, Ask, Goto, Take, lock, cell
<1>1. provider \in Nat /\ mode \in {"adc", "file"}
  BY DEF CellInv, PathInv, TypeOK, mode
<1>2. ProviderToken(provider) \in Token /\ ProviderToken(provider).from = mode
      /\ ProviderToken(provider).who = provider
  BY <1>1 DEF ProviderToken, NoToken, Token
<1>3. got' \in [Calls -> Token]
  BY <1>2 DEF TypeOK
<1>4. TypeOK'
  BY <1>3 DEF TypeOK, Steps
<1>5. LockInv'
  BY AuthAssumption DEF LockInv, TypeOK
<1>6. PathInv'
  BY DEF PathInv, TypeOK, MayUseConfigured, UsesRequestHeader, ChecksConfigured,
        OAuthSteps, AdcSteps, FileSteps, ConfiguredSteps
<1>7. ClockInv'
  BY DEF ClockInv, TypeOK, Token, LockInv
<1>8. CellInv'
  BY AuthAssumption DEF CellInv, TypeOK, PathInv, AdcSteps, FileSteps
<1>9. TokenRight'
  BY <1>2 DEF TokenRight, TypeOK, PathInv, mode, MayUseConfigured, UsesRequestHeader,
        ChecksConfigured, OAuthSteps, ConfiguredSteps
<1>10. OneProvider'
  BY <1>2 DEF OneProvider, TypeOK
<1> QED
  BY <1>1, <1>2, <1>3, <1>4, <1>5, <1>6, <1>7, <1>8, <1>9, <1>10

-------------------------------------------------------------------------------
\* Every step keeps the invariant.
LEMMA NextInv == IInv /\ [Next]_vars => IInv'
<1> SUFFICES ASSUME IInv, [Next]_vars PROVE IInv'
  OBVIOUS
<1>1. CASE Tick
  <2> USE <1>1 DEF Tick, lock, cell, IInv
  <2>1. TypeOK'
    BY DEF TypeOK
  <2>2. cache.answered \in Nat
    BY DEF TypeOK, Token
  <2>3. ClockInv'
    BY <2>2 DEF ClockInv, TypeOK
  <2>4. LockInv' /\ PathInv' /\ CellInv' /\ TokenRight' /\ OneProvider'
    BY DEF LockInv, PathInv, CellInv, TokenRight, OneProvider, MayUseConfigured,
       UsesRequestHeader, ChecksConfigured, mode
  <2> QED
    BY <2>1, <2>3, <2>4
<1>2. CASE Login
  BY <1>2 DEF Login, lock, cell, IInv, TypeOK, LockInv, PathInv, ClockInv, CellInv, TokenRight,
     OneProvider, MayUseConfigured, UsesRequestHeader, ChecksConfigured, mode
<1>3. ASSUME NEW r \in Calls, CallStep(r) PROVE IInv'
  BY <1>3, CallInv DEF CallStep
<1>4. ASSUME NEW r \in Calls, OAuthStep(r) PROVE IInv'
  BY <1>4, AcquireReadInv, PeekInv, AcquireWriteInv, RecheckInv, RefreshAnswersInv,
     RefreshFailsInv DEF OAuthStep
<1>5. ASSUME NEW r \in Calls, ProviderStep(r) PROVE IInv'
  BY <1>5, UseProviderInv, InitProviderInv, InitProviderFailsInv, LoadFileInv,
     LoadFileFailsInv, PublishInv, AskInv, AskFailsInv DEF ProviderStep
<1>6. ASSUME NEW r \in Calls, Proceed(r) PROVE IInv'
  BY <1>4, <1>5, <1>6, AccessTokenInv, SendInv DEF Proceed
<1>7. CASE UNCHANGED vars
  BY <1>7 DEF vars, lock, cell, IInv, TypeOK, LockInv, PathInv, ClockInv, CellInv, TokenRight,
     OneProvider, MayUseConfigured, UsesRequestHeader, ChecksConfigured, mode
<1> QED
  BY <1>1, <1>2, <1>3, <1>6, <1>7 DEF Next

\* The inductive invariant holds in every reachable state.
THEOREM Invariant == Spec => []IInv
BY InitInv, NextInv, PTL DEF Spec

\* Type correctness.
THEOREM TypeCorrect == Spec => []TypeOK
<1>1. IInv => TypeOK
  BY DEF IInv
<1> QED
  BY Invariant, <1>1, PTL

\* Every request goes upstream with the token that was meant for it.
THEOREM RightToken == Spec => []TokenRight
<1>1. IInv => TokenRight
  BY DEF IInv
<1> QED
  BY Invariant, <1>1, PTL

\* All tokens of a provider come from the provider in the cell.
THEOREM SingleProvider == Spec => []OneProvider
<1>1. IInv => OneProvider
  BY DEF IInv
<1> QED
  BY Invariant, <1>1, PTL

-------------------------------------------------------------------------------
\* What one step may do, where the invariant holds.

\* Only a call that looks at the cache, or whose refresh is answered, comes to
\* hold a token of the OAuth path: one that was fresh, or that just came in.
LEMMA Obtained ==
  ASSUME IInv, [Next]_vars, NEW r \in Calls, Obtains(r)
  PROVE  LET token == got'[r] IN
         token \in Token /\ (token.answered = now \/ (token = cache /\ Fresh(token)))
<1> USE DEF IInv, Obtains, Goto, End, Take, lock, cell
<1>1. UNCHANGED vars \/ Tick \/ Login \/ \E q \in Calls : CallStep(q) \/ Proceed(q)
  BY DEF Next
<1>2. ASSUME NEW q \in Calls, CallStep(q) PROVE FALSE
  BY <1>2 DEF CallStep, Call, TypeOK
<1>3. ASSUME NEW q \in Calls, AccessToken(q) PROVE FALSE
  BY <1>3 DEF AccessToken, TypeOK, PathInv, mode, OwnToken, NoToken
<1>4. ASSUME NEW q \in Calls, NEW ok \in BOOLEAN, Send(q, ok) PROVE FALSE
  BY <1>4 DEF Send, TypeOK
<1>5. ASSUME NEW q \in Calls, ProviderStep(q) PROVE FALSE
  BY <1>5 DEF ProviderStep, UseProvider, InitProvider, InitProviderFails, LoadFile,
     LoadFileFails, Publish, Ask, AskFails, TypeOK, PathInv, mode, ProviderToken, NoToken
<1>6. ASSUME NEW q \in Calls, OAuthStep(q)
      PROVE  got'[r] \in Token
             /\ (got'[r].answered = now \/ (got'[r] = cache /\ Fresh(got'[r])))
  <2>1. CASE Peek(q)
    BY <2>1 DEF Peek, TypeOK
  <2>2. CASE Recheck(q)
    BY <2>2 DEF Recheck, RefreshedMeanwhile, TypeOK
  <2>3. CASE AcquireRead(q) \/ AcquireWrite(q) \/ RefreshFails(q)
    BY <2>3 DEF AcquireRead, AcquireWrite, RefreshFails, TypeOK
  <2>4. ASSUME NEW life \in Lives, NEW issued \in since[q]..now, RefreshAnswers(q, life, issued)
        PROVE  got'[r] \in Token /\ got'[r].answered = now
    <3>1. got' \in [Calls -> Token]
      BY <2>4, RefreshAnswersInv DEF TypeOK
    <3>2. got'[r].answered = now
      BY <2>4 DEF RefreshAnswers, TypeOK
    <3> QED
      BY <3>1, <3>2
  <2> QED
    BY <1>6, <2>1, <2>2, <2>3, <2>4 DEF OAuthStep
<1>7. CASE UNCHANGED vars \/ Tick \/ Login
  BY <1>7 DEF vars, Tick, Login
<1> QED
  BY <1>1, <1>2, <1>3, <1>4, <1>5, <1>6, <1>7 DEF Proceed

\* A call only begins to refresh under the lock, having seen the token expired.
LEMMA BeginsRefresh ==
  ASSUME IInv, [Next]_vars, NEW r \in Calls, pc[r] # "refreshing", pc'[r] = "refreshing"
  PROVE  pc[r] = "checking" /\ ~Fresh(cache)
<1> USE DEF IInv, Goto, End, Take, lock, cell
<1>1. UNCHANGED vars \/ Tick \/ Login \/ \E q \in Calls : CallStep(q) \/ Proceed(q)
  BY DEF Next
<1>2. ASSUME NEW q \in Calls, CallStep(q) \/ ProviderStep(q) PROVE FALSE
  BY <1>2 DEF CallStep, Call, ProviderStep, UseProvider, InitProvider, InitProviderFails,
     LoadFile, LoadFileFails, Publish, Ask, AskFails, TypeOK
<1>3. ASSUME NEW q \in Calls, AccessToken(q) PROVE FALSE
  BY <1>3 DEF AccessToken, TypeOK, PathInv, mode
<1>4. ASSUME NEW q \in Calls, NEW ok \in BOOLEAN, Send(q, ok) PROVE FALSE
  BY <1>4 DEF Send, TypeOK
<1>5. ASSUME NEW q \in Calls, OAuthStep(q) PROVE pc[r] = "checking" /\ ~Fresh(cache)
  BY <1>5 DEF OAuthStep, AcquireRead, Peek, AcquireWrite, Recheck, RefreshedMeanwhile,
     RefreshAnswers, RefreshFails, TypeOK
<1>6. CASE UNCHANGED vars \/ Tick \/ Login
  BY <1>6 DEF vars, Tick, Login
<1> QED
  BY <1>1, <1>2, <1>3, <1>4, <1>5, <1>6 DEF Proceed

\* Only the answer of a refresh changes the cache.
LEMMA CacheChanges ==
  ASSUME IInv, [Next]_vars, cache' # cache
  PROVE  \E r \in Calls : \E life \in Lives : \E issued \in since[r]..now :
           RefreshAnswers(r, life, issued)
<1> USE DEF lock, cell
<1>1. UNCHANGED vars \/ Tick \/ Login \/ \E q \in Calls : CallStep(q) \/ Proceed(q)
  BY DEF Next
<1>2. ~(UNCHANGED vars \/ Tick \/ Login)
  BY DEF vars, Tick, Login
<1>3. \A q \in Calls : ~CallStep(q) /\ ~ProviderStep(q) /\ ~AccessToken(q)
                       /\ ~\E ok \in BOOLEAN : Send(q, ok)
  BY DEF CallStep, Call, ProviderStep, UseProvider, InitProvider, InitProviderFails,
     LoadFile, LoadFileFails, Publish, Ask, AskFails, AccessToken, Send
<1>4. PICK q \in Calls : OAuthStep(q)
  BY <1>1, <1>2, <1>3 DEF Proceed
<1>5. ~AcquireRead(q) /\ ~Peek(q) /\ ~AcquireWrite(q) /\ ~Recheck(q) /\ ~RefreshFails(q)
  BY DEF AcquireRead, Peek, AcquireWrite, Recheck, RefreshFails
<1> QED
  BY <1>4, <1>5 DEF OAuthStep

\* A cached token is handed out while it still has its margin to live, less the
\* time its answer took, or within the second it came in.
THEOREM MarginHolds == Spec => MarginKept
<1>1. ASSUME IInv, [Next]_vars, NEW r \in Calls, Obtains(r)
      PROVE  LET token == got'[r] IN
             IF token.life > Margin
             THEN now + Margin < token.answered + token.life
             ELSE now = token.answered
  <2> DEFINE token == got'[r]
  <2>1. token \in Token /\ (token.answered = now \/ (token = cache /\ Fresh(token)))
    BY <1>1, Obtained
  <2>2. token.life \in Nat /\ token.answered \in Nat /\ Margin \in Nat /\ now \in Nat
    BY <1>1, <2>1, AuthAssumption DEF Token, IInv, TypeOK
  <2>3. CASE token.answered = now
    BY <2>2, <2>3
  <2>4. CASE token = cache /\ Fresh(token)
    <3>1. now < token.answered + RefreshIn(token.life) /\ token.answered <= now
      BY <1>1, <2>4 DEF Fresh, IInv, ClockInv
    <3>2. IF token.life > Margin
          THEN now + Margin < token.answered + token.life
          ELSE now = token.answered
      <4> HIDE DEF token
      <4> QED
        BY <2>2, <3>1 DEF RefreshIn
    <3> QED
      BY <3>2
  <2> QED
    BY <2>1, <2>3, <2>4
<1>2. IInv /\ [Next]_vars =>
        [\A r \in Calls : Obtains(r) =>
           LET token == got'[r] IN
           IF token.life > Margin
           THEN now + Margin < token.answered + token.life
           ELSE now = token.answered]_vars
  BY <1>1
<1> QED
  BY Invariant, <1>2, PTL DEF Spec, MarginKept

\* Calls that find the token expired together send one refresh, not several.
THEOREM OneRefresh == Spec => RefreshOnce
<1>1. IInv /\ [Next]_vars =>
        [\A r \in Calls : pc[r] # "refreshing" /\ pc'[r] = "refreshing" =>
           /\ ~Fresh(cache)
           /\ \A q \in Calls : pc[q] # "refreshing"]_vars
  BY BeginsRefresh DEF IInv, LockInv
<1> QED
  BY Invariant, <1>1, PTL DEF Spec, RefreshOnce

\* No slow answer puts an older token back into the cache.
THEOREM CacheForward == Spec => CacheMovesForward
<1>1. ASSUME IInv, [Next]_vars, cache' # cache PROVE cache'.issued >= cache.answered
  <2>0. PICK r \in Calls : \E life \in Lives : \E issued \in since[r]..now :
          RefreshAnswers(r, life, issued)
    BY <1>1, CacheChanges
  <2>1. PICK life \in Lives, issued \in since[r]..now : RefreshAnswers(r, life, issued)
    BY <2>0
  <2>2. cache'.issued = issued
    BY <2>1 DEF RefreshAnswers
  <2>3. cache.answered \in Nat /\ since[r] \in Nat /\ now \in Nat
    BY <1>1 DEF IInv, TypeOK, Token
  <2>4. cache.answered <= since[r]
    BY <1>1, <2>1 DEF IInv, ClockInv, RefreshAnswers
  <2> QED
    BY <2>2, <2>3, <2>4
<1>2. IInv /\ [Next]_vars => [cache' # cache => cache'.issued >= cache.answered]_vars
  BY <1>1
<1> QED
  BY Invariant, <1>2, PTL DEF Spec, CacheMovesForward
===============================================================================
