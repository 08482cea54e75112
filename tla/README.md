# A formal model of ga4-mcp

`ga4-mcp` is an MCP server in front of the Google Analytics 4 APIs, with a DuckDB
*scratchpad* in which a client collects report rows and queries them with SQL. This
directory holds TLA+ modules that model the program, TLC configurations that check them
and proofs that TLAPS checks. Paths such as `src/scratchpad.rs` are relative to the
repository.

## The system

| Part | Source | State | Operations | Interacts with | What makes it correct |
|---|---|---|---|---|---|
| Scratchpad sessions | `scratchpad.rs`, handlers in `tools.rs` 2280-2722 | session table behind a mutex (usage, last touch), two atomic runtime limits, one database file per session | open, close, list, ingest (create/append), drop, query, read and set limits, expire | every tool call is a task of its own on a multi-threaded runtime; all share the table, the limits and the files | quotas hold, usage matches the data, sessions are isolated, closed data goes away, nothing hangs |
| DuckDB engine | external | files, transactions | connect, statement, interrupt | called without the session lock | atomic commits (assumed) |
| Guarded query | `scratchpad.rs` 719-837, 1227-1256 | stop flag, cancel token, watcher thread | run, time out, cancel | the watcher interrupts the connection of the query thread | one outcome; a query past its time stops |
| Report ingest | `tools.rs` 4163-4500 | offset, remaining limit, collected rows | fetch page, stop, hand over | upstream API, scratchpad ingest | no row lost or doubled, `complete` only when it is |
| Result paging | `tools.rs` 5136-5460, 5881-5970, 6365-6400 | cursor (query hash and offset) | window, encode, decode | client keeps the cursor, data moves under it | every row once, an end is reached |
| GA4 client | `ga_client.rs` 262-830 | none but its connection pool | requests, admin page loop | upstream API | truncation is visible |
| Upstream auth | `ga_client.rs` 831-1190, `server.rs` 110-217 | provider, cached OAuth token behind an `RwLock` | resolve, refresh | concurrent requests share the cache | right token for the request, one refresh at a time |
| HTTP exposure | `http_config.rs`, `http_runtime.rs`, `bin/ga4-mcp-http.rs` | the published auth surface | accept an environment, publish, guard a request | five layers in front of the MCP service | no insecure exposure, no way around a layer |
| SQL policy | `sql_safety.rs` | the lexer's index, state, depth and tag | lex and classify | guards every query | what is judged is what is run, and hides nothing |
| Contract and errors | `contract.rs`, `error.rs` | none | name an error, build an envelope | behind every tool | stable codes, answers and logs agree |
| Tool validation | `tools.rs` 3344-4130 | none | check arguments | in front of every tool | bounded inputs |
| Server, start, configuration | `server.rs`, `lib.rs`, `main.rs`, `config.rs` | settings | parse options, start, dispatch, log | all | validated settings, every call logged once |
| User set-up | `auth_ux.rs`, `scripts/` | credential files | log in, inspect | `gcloud` | - |

The hard concurrency is in the first row. Handlers run concurrently, and no handler is one
critical section: it locks to look its session up, unlocks, removes files, opens a
database, runs statements, and locks again to book the result. Between any two of these
another request may close the session, let it expire, re-open it, drop the table or lower
a limit; any engine call may fail; the process may die. The rows on HTTP, SQL and the server
are sequential for each request; what is hard there is the number of combinations: five
functions that each check a part of one configuration, five layers whose order decides who
learns what, a lexer that moves one index in some twenty places, three places that log one
answer. `PROJECT.json` lists under
`hazards` what can go wrong at which line, and which property watches it.

## Modules

| Module | What it is |
|---|---|
| `ScratchpadSessions` | the session table, the limits, the files and the request threads |
| `SessionStore` | what the scratchpad promises: atomic, isolated, bounded stores; no ledger, file, lock or cleanup |
| `MCScratchpadSessions` | operation sets and symmetry for the TLC instances |
| `ScratchpadSessions_proofs` | its theorems |
| `FiniteSums` | lemmas: what `SumFunctionOnSet` computes, for every finite set |
| `SessionStore_proofs` | theorems: the ledger counts what is stored, and `SessionStore` is implemented |
| `GuardedQuery` | one `run_guarded` call, its watcher thread, the cancel token and the clock |
| `GuardedQuery_proofs` | its theorems |
| `ReportPaging` | one walk over a list that is read by pages: cursors, ingest loops, listings |
| `ReportPaging_proofs` | its theorems |
| `UpstreamAuth` | concurrent tool calls, the token each goes upstream with, the caches tokens come from |
| `MCUpstreamAuth` | the configurations of its TLC instance |
| `UpstreamAuth_proofs` | its theorems |
| `ServerStart` | both binaries from the command line and the environment to a server that listens, or an exit |
| `SqlSafety` | `lexical_surface` turn by turn, the policy on its surface, the page queries, and a reference to measure the lexer against |
| `ToolContract` | the error taxonomy, the envelopes and the events written of an envelope (no state) |
| `RequestPath` | composes the three: one process from its start to the answer of a request |
| `MCRequestPath` | the deployments, discoveries, requests and statements of its TLC instance |
| `RequestPath_proofs` | its theorems |
| `SqlSafety_proofs` | theorems: the lexer agrees with its reference, and what the policy lets through |

### ScratchpadSessions and the code

| Variable | Code |
|---|---|
| `live`, `tablesUsed`, `rowsUsed`, `age` | `SessionState.sessions` and its `SessionEntry` values; `age` is the time since `last_touched`, counted up to the TTL |
| `maxSessions`, `maxTables` | `runtime_max_sessions`, `runtime_max_tables_per_session` |
| `disk` | the DuckDB file at each session's path: tables and row counts |
| `unremoved` | no variable of the code: the ids whose last `remove_file` failed, as the log's warning names them |
| `pc`, `req` | where each request stands and its arguments and locals |
| `removals` | `removed_paths` not yet removed by `cleanup_paths` |
| `conn` | the request's connection; an `"orphan"` is open on a file that was unlinked |

One action is one step that no other thread can split: a locked region
(`lock_state` to `drop(state)`, with `prune_expired_locked` at its start), one
`fs::remove_file`, one `Connection::open`, one statement or transaction. `Region` is the
shape of every locked region; `PruneAndForget` is the region left by `?`, where the pruned
paths are dropped without being removed. The multi-step operations read:

    open      EnsureSession -> CleanupPath* -> OpenConnection -> SessionInfo
    query     EnsureSession -> CleanupPath* -> OpenConnection -> ReadDatabase
    ingest    ReserveIngestCapacity -> CleanupPath* -> OpenConnection -> PersistIngestTable
              (any failure) -> RollbackIngestCapacity
    drop      DropTable -> CleanupPath* -> OpenConnection -> InspectTable -> ExecuteDrop
              -> NoteTableDropped        (or SessionSnapshot with if_exists)
    limits    CountForSample -> SampleSessions -> (ProbeSession -> OpenConnection ->
              ReadDatabase)*
    set       SetMaxSessionsLimit -> SetMaxTablesToo -> CountAfterSet

`close`, `list_sessions`, `cleanup_expired` and the two library calls
`note_table_created` and `note_rows_ingested` (which no tool makes) are one region each.
`Tick` and `Restart` are the environment: time passes; the process dies and starts with an
empty table, either with the old files under the same names (the process id is part of the
hash, and may be the same in a container) or with fresh names.

`CleanupPath` may fail. The code then logs a warning and goes on: the entry is gone, the file
stays, and whoever opens the id again works on the old data with a zero ledger. No document
promises otherwise, so the properties except just that: `unremoved` records it, no action reads
it, and `LedgerExact`, `StoreSpec` and `StoredWithinLimit` say nothing of a session over such a
file until a later removal of it succeeds. `NoDataLeftBehind` lets a file stay only if a warning
named it.

Abstractions: a session id stands for its path; a table for its row count; columns, values
and SQL for nothing (a schema mismatch is one of the engine's refusals); the 64-session
sample limit is above every instance. A poisoned lock is not modelled: no region panics.
What two connections to one *unlinked* file show each other is not modelled. The engine is
assumed to make two connections on one path see each other's commits.

`SessionStore` has `open`, `db` and the limits. The mapping in `ScratchpadSessions` lets a
session leave when its TTL has passed, though its entry is pruned later, and a database
disappear when its removal is decided, though the file goes later.

### GuardedQuery and the code

| Variable | Code |
|---|---|
| `hooks` | `ScratchpadExecutionHooks`: the timeout, and whether there is a cancel token |
| `cancelled`, `stop` | the token's flag, `stop_flag` |
| `pc`, `left`, `result`, `outcome` | where the call stands, the statements its closure still has to finish, what `execute` returned, what `run_guarded` returned |
| `watcher`, `due`, `reason` | where the watcher's loop stands, the reason it is about to interrupt for, what its thread returned |
| `spent`, `watched` | `started.elapsed()` of the call and of the watcher, which starts later |
| `flagged` | the engine holds an interrupt against the connection |

    call      Validate -> CheckCancelledBefore -> OpenAndSpawn -> (StartStatement ->
              FinishStatement)* -> EndExecute -> StopWatcher -> Return
    watcher   StartWatching -> (CheckStop -> CheckCancelled -> CheckTimeout -> WakeUp)*
              -> Interrupt

Each atomic load or store, each clock reading and each end of a statement is a step of its
own. The closure is the one of `execute_scratchpad_projection`: the row count and the page
for `SELECT` and `WITH`, one statement for the rest. `"between"` covers preparing and
decoding. An interrupt that arrives there may be kept or forgotten: the engine clears the
flag when a statement begins. A watched statement that fails, and a connection refused, end
the call early. The token is a hook no tool sets today; it is modelled because
`run_guarded` serves it. A query is one atomic read in `ScratchpadSessions`, which is
sound for the session table because the closure only reads.

### ReportPaging and the code

One behaviour is one walk: a tool, its arguments, and the pages read until nothing is left to
ask for. Three parties step: the client, which repeats its call with `next_cursor`; the
server, whose loops ask the upstream or which runs the two statements of a query; the world,
which changes the list in between.

| Variable | Code |
|---|---|
| `tool` | which handler, as the record of what distinguishes it: who loops, where the window is cut, `supports_pagination`, the extra cut of the alpha API, which arguments it takes |
| `ask` | `offset`, `limit` (`max_pages` for a listing), `max_rows` (`page_size` for a listing); a client's own `max_rows` may differ from page to page, since it is not in the query hash |
| `source` | the report, the table behind the query, the Admin API collection; a row is a number |
| `got` | rows answered over all pages, `collected_rows`, `items` |
| `cursor` | the offset in `v1:<hash>:<offset>`; the place a page token stands for |
| `window`, `total` | what `resolve_cursor_window` gave, `row_count_total` |
| `pages`, `verdict` | `pages_fetched`; status, `complete`, `truncated` and hint of the last answer |

    reports, pivots   AnswerPage*                       (client follows next_cursor)
    funnel            AnswerFunnel
    scratchpad_query  (CountRows -> FetchPage)*         or AnswerWhole* for DESCRIBE
    ingest            IngestPage* / IngestOnce
    listings          ListPage*

Any call may be refused (`Refuse`, `RefuseIngest`) or fail (`QueryFails`, `IngestFails`,
`ListFails`). The upstream may return fewer rows than it was asked for, the alpha API more.
`SourceChanges` appends, drops the last row, drops the first or puts one in front; the
first two leave the other rows where they are. An answer tells the length of the list
(`rowCount`) or leaves it out, page by page: `project_ga_tabular_response` then takes the rows of
the page for the whole list (`extract_row_count(..).unwrap_or(row_count_returned)`, `RowCounts`).
Such a page looks like the last one, to a client as to the ingest loop, and an ingest that ends
there reports `complete`. `starved` records that the upstream withheld rows, or that more follow,
in a way no caller can notice (an empty page before the end; a missing `rowCount` with rows left;
a short funnel answer, which carries no total). The properties that speak of the end exempt
walks that were starved; those that speak of order, duplicates, caps, flags and cursors do not.

Abstractions: which query a cursor belongs to (another one is refused without effect), row
contents, output modes, clipping and `summary_only`. A batch is walked one report at a
time, which is how it is windowed.

### UpstreamAuth and the code

| Variable | Code |
|---|---|
| `settings` | `upstream_token_source`, and what `select_auth_mode` reads: the OAuth secret and refresh token, `GOOGLE_APPLICATION_CREDENTIALS`, `shared_adc`, the credential path |
| `pc`, `call`, `got` | where each call stands, its header and remaining requests, the token it was handed |
| `now`, `since` | the clock; when a call sent its refresh request |
| `cache`, `readers`, `writer`, `queue` | `cached_oauth_token`, the tokio `RwLock` around it, who waits for it |
| `provider`, `initializing`, `loaded` | `token_provider` or `oauth_token_provider` (one of them, by mode), the call that fills it, what a call has read from the file |
| `credentials` | the file on disk: each login writes another generation |

    every call    Call -> (AccessToken -> ... -> Send)*
    own token     AccessToken takes the one of the header
    OAuth         AcquireRead -> Peek -> AcquireWrite -> Recheck -> RefreshAnswers
    chain (ADC)   UseProvider -> (InitProvider ->) Ask
    file          LoadFile -> (Publish ->) Ask

One action is what a task does between two awaits. The lock and the `OnceCell` of the
provider chain hand themselves over first come first served, as tokio's semaphores do; a
filled cell lets everyone go. The file provider is built before `get_or_init`, so two calls
may both read the file and only one stays. The status check (`ga4_auth_status` with
`verify_token`) asks for the configured token where reports may only use the client's, in
`request_header` mode.

Abstractions: a token is where it came from, when it was issued and answered and how long
it lives, in ticks of a second; a header is absent, one token, several words, or not text.
That last kind counts as absent (`to_str().ok()` in `server.rs`), so under
`request_header_or_config` the configured token is used; `TokenRight` speaks of headers
that are text. What a provider does to find a token (`gcp_auth`, the toolkit's
`RefreshTokenProvider`) is external. Revocation by Google is left out: nothing in the code
reacts to it.

### RequestPath, ServerStart, SqlSafety, ToolContract and the code

| Variable | Code |
|---|---|
| `deployment` | the command line (`Cli`), the transport and the `GA4_MCP_*` environment, constant in a behaviour |
| `phase`, `published` | where `main` stands, the surface as `build_auth_surface_layer` fills it |
| `discovered` | what the issuer's discovery answered this server, if it did |
| `stage`, `request` | the layer or handler the request is at; what it carries |
| `status`, `envelope`, `log` | the HTTP answer, the tool's answer, the events written |
| `clientToken` | the token override is set in the request's context |
| `sql`, `at`, `surface`, `mode`, `depth`, `tag` | the locals of `lexical_surface`: `bytes`, `i`, `out`, `state`, the depth in it, `dollar_tag` |
| `given` | the text of the page statement, or of the only one, as the engine gets it |

    start     ReadOptions -> ReadEnvironment -> BuildServer -> BuildAuthSurfaceLayer -> Bind
    HTTP      Arrive -> AuthSurface -> ClientIpGuard -> HostGuard -> InboundAuthGuard ->
              Route -> (call) -> RequestAudit
    call      ListTools, or CallTool -> RunTool
    query     CallTool -> PrepareQuery -> LexStep* -> DecideQuery -> RunQuery

Each layer answers or passes on; whatever answers, the audit outside of them all sees it.
stdio begins at the call. A refusal of the configuration is one outcome (the process exits):
which message it prints is wording. A URL is kept as what the code looks at, its scheme as
spelled and whether it ends in `/mcp`; a header, an address or a flag as the cases the code
tells apart. One turn of the lexer's loop is one action. A statement is a sequence of
symbols: the bytes the lexer tells apart, and whole words, since only a whole word is ever
compared.

`RunTool` stands for all tools but `scratchpad_query`, by how they may end: any answer of
their kind (`ToolAnswers`), or any error they may return (`ToolErrors`): arguments, cursors, the
upstream, the engine, the limits, and `Internal` where an answer has not the shape the tool reads
(a batch without its reports, or with another number of them) or a signature cannot be hashed.
`preview_report_request` is a kind of its own, since it resolves a cursor and logs no cursor
error. `scratchpad_query` is followed to the engine. There it may also be refused for its session
id or by the session limit, since `open_connection` creates the session it does not find; it
stands for the tools that write their statement themselves. Requests share nothing in this
module, so a behaviour follows one.

External: the toolkit's auth layer (metadata is open, everything else needs a token; which
token is valid is its business), its SQL authority (any decision may come back: `Decisions`),
the issuer's discovery (`Discoveries`), DuckDB's parser as far as `EngineReadsWhole` says,
axum and rmcp.

## What is checked

| Run | Instance | Result |
|---|---|---|
| `sequential` | 1 client, 2 sessions, 2 tables, batches of 0 and 2 rows, limits 0 to 2, all tools, removals that fail, no clock | passes: `LedgerExact`, `StoreSpec`, `RequestsFinish`, `NoDataLeftBehind` |
| `concurrent_ingest` | 3 clients, 1 session, 2 tables, open/create/append/query | passes: `LedgerExact`, `StoreSpec`, `RequestsFinish` |
| `concurrent_all` | 2 clients, 2 sessions, 1 table, every operation but `query`, `list` and `limits`, clock, lowered limits, removals that fail, restarts | passes: `TypeOK`, `RowsWithinLimit`, `SessionAdmission`, `TableAdmission`, `NoEviction` |
| `expired_data` | 1 client, clock | violates `StoreSpec` |
| `drop_race` | 2 clients, drop and create | violates `StoredWithinLimit` |
| `close_race` | 2 clients, close and create | violates `NoDataLeftBehind` |
| `guarded` | timeouts 0 to 2, up to 2 statements, with and without token | passes: `TypeOK`, `OutcomeJustified`, `InterruptNamed`, `InterruptsOwnCall`, `WatchedStatementsEnd`, `CallReturns` |
| `guarded_timeout` | timeout 2, up to 2 statements | violates `TimeoutEnforced` |
| `paging` | all 13 tools, sources of 0, 3 and 5 rows, up to 2 changes, `rowCount` told or not | passes: `TypeOK`, `PagesTile`, `NothingLost`, `NoDuplicates`, `IngestCapped`, `FlagsAgree`, `CursorAdvances`, `WalkEnds` |
| `paging_hint` | a source of 3 rows that stays as it is | violates `HintHonest` |
| `upstream_auth` | 2 calls of up to 2 requests, all sources and modes, tokens of 1 and 4 ticks, margin 2 | passes: `TypeOK`, `TokenRight`, `OneProvider`, `MarginKept`, `RefreshOnce`, `CacheMovesForward`, `CallsAnswered` |
| `request_path` | 5,011 deployments, 4 discovery answers, 396 requests, 10,129 statements of up to 8 symbols | passes: `TypeOK`, `PublishedSecure`, `GuardsInOrder`, `SurfaceExact`, `PolicySound`, `EventsAgree`, `RequestsAnswered` |

`request_path` is one run over several families of inputs; each behaviour
is one deployment with one request, so that the families add up and do not multiply.

* `LedgerExact`: usage equals what the database holds plus what is reserved or about to be
  reclaimed. It relates three places that are updated in different steps by different
  threads; it fails as soon as a refund or a reclaim is forgotten or doubled.
* `StoreSpec`: the detailed module implements `SessionStore`: no client ever observes a
  half-done ingest, a session with somebody else's tables, or a database above its quota.
* `RequestsFinish`: every request reaches its end with its cleanup done.
* `NoDataLeftBehind`: a session that is closed and stays closed leaves no file, but one that a
  warning has named.
* `SessionAdmission`, `TableAdmission`: what is admitted is within the limit *of that
  moment*, also while another client lowers it below current use.
* `NoEviction`: a session leaves only by close, expiry or restart.
* `OutcomeJustified`: timeout, cancellation or value is what really happened, though two
  threads judge it by two clocks, with `>=` and with `>`.
* `InterruptNamed`: the engine's error for an interrupted statement, which reaches the call
  before the watcher is joined, is never what the caller sees.
* `InterruptsOwnCall`: no interrupt is sent to a connection that is already closed.
* `WatchedStatementsEnd`: a statement that begins before the interrupt was sent ends.
* `CallReturns`: if no statement runs forever, the call returns; the join never hangs.
* `PagesTile`: the pages of a list that does not change join to one read of it, and who is
  told that this was all has all (or all the limit asked for), unless the upstream withheld it
  unseen (`starved`).
* `NothingLost`, `NoDuplicates`: of a list that changes at its end only, a finished walk
  has every row that was there throughout, and no walk has a row twice. With rows that move
  neither holds: a cursor is an offset.
* `IngestCapped`: limit, row cap and page cap, which three tests in one loop share.
* `FlagsAgree`: `complete` and `truncated`, computed in two functions from one loop: what is not
  truncated is complete, and with neither limit nor offset nothing is both. With an offset an
  ingest to the end of the report says both (`tools.rs` 4482 compares the rows collected with all
  rows of the report, 4252 the place reached), and the property allows that.
* `CursorAdvances`: the next page begins after this one. For `scratchpad_query` only while
  no row goes: a row that goes between its two statements gives an empty page with the same
  cursor again, since `run_scratchpad_query_contract` has no test for an empty page.
* `WalkEnds`: every walk ends, whatever the upstream returns.
* `TokenRight`: a request goes upstream with the token meant for it: its own when it brought
  one, the server's only where the source allows, never the server's after a malformed one.
* `OneProvider`: calls that read the credential file while a login replaces it all use the
  one provider that stays.
* `MarginKept`: a cached token is handed out with its margin left, counted from the answer;
  one that lives no longer than the margin only within the tick it came in.
* `RefreshOnce`: calls that find the token expired together send one refresh, and only after
  a second look under the lock.
* `CacheMovesForward`: a slow answer never replaces a token by one issued earlier.
* `CallsAnswered`: refreshes and initializations may fail for ever and still each call ends:
  nobody is overtaken for good at the lock or the cell, and no call waits for itself.
* `PublishedSecure`: a server that listens beyond loopback has TLS, and with inbound auth
  strict OAuth and no URL in clear text but an endpoint that was not configured and that its
  issuer's discovery announced to this very server (`discovered`). The posture is checked on the
  configured URLs, the surface is built later and from more.
* `GuardsInOrder`: no way around a layer into a tool, no refusal that tells a stranger what
  an outer layer keeps from him, and an audit event behind every answer.
* `SurfaceExact`: the surface the policy judges is the statement with exactly the bytes of
  its hidden tokens blanked, measured against `Tokens`, which finds tokens by searching for
  their end. An index off by one, a comment that does not nest or a tag that ends early
  shows within a few symbols.
* `PolicySound`: said of the statement itself, not of its surface: what the engine is given
  names no forbidden keyword and calls no forbidden function outside of its hidden tokens,
  and wrapping it leaves no token open.
* `EventsAgree`: the log and the answer tell one story: outcome, level, cursor and error.
* `RequestsAnswered`: the lexer ends and no layer keeps a request.

The properties of the first two runs do not survive everything, nor does a timeout catch
every query. The five violations are the disagreements between code and what it says of itself
that the models show:

1. `expired_data`: `reserve_ingest_capacity` (and `session_entry_mut`'s callers at the
   session limit) return by `?` after `prune_expired_locked` and before `cleanup_paths`. The
   pruned files are forgotten; opening the id again attaches the old file under a zero
   ledger. Trace: open, create, the TTL passes, ingest is answered
   `SCRATCHPAD_SESSION_NOT_FOUND`, open: the expired table is there.
2. `drop_race`: `drop_table` counts, drops and reclaims in three steps. A second client's
   drop and smaller re-creation between the first two make the ledger smaller than the
   data, and further ingests take the file past `max_rows_per_session`.
3. `close_race`: an ingest that has reserved its quota and not yet connected re-creates the
   file of a session that is closed meanwhile.
4. `guarded_timeout`: the watcher interrupts once and ends. The timeout passes while the row
   count runs, the row count ends by itself, the interrupt meets no statement, and the page
   statement runs with no watcher left, for as long as it likes. The call reports a timeout
   when it is done.
5. `paging_hint`: `truncated` and the hint "additional rows are available; continue with
   meta.next_cursor" compare one page with the whole list. The last of several pages carries
   both, with `next_cursor` null.

Two more places where the code and its documents differ break none of the properties, which are
worded to allow what the code does:

* `docs/SECURITY_MODEL.md` 53-55 wants HTTPS issuer, JWKS and introspection URLs for inbound OAuth
  beyond loopback. That holds of configured ones. Discovery is not asked for `https`: where no
  JWKS or introspection URL is configured and the https issuer announces one in clear text, it is
  published (`http_runtime.rs` 463-480).
* `docs/payload-contract-v1.md` 65-76 and 189 lists `batch_run_reports` among the tools whose
  `meta` has `row_count_total`, `next_cursor` and the other tabular fields. The code puts them
  into each report inside `data` (`tools.rs` 2166-2197), so `meta` has none and no page of a batch
  is logged.

Six other things met on the way are as the code has them and worth a reader's knowledge:

* A `SELECT` or `WITH` that ends in a line comment passes the policy and always fails in the
  engine: `wrap_query_for_page` puts the closing parenthesis into the comment (`tools.rs`
  5453-5461).
* A cursor error is logged twice, by the handler and by `call_tool`, but once for
  `preview_report_request`.
* A blocked call logs `tool.blocked` and no `contract.response`.
* With inbound auth on, a client outside of the allowed networks is answered 401 without a token
  and 403 with one, since the toolkit's layer is outermost; and `/health` needs a token then.
* A file whose removal fails waits for the next session of that id.
* Where an answer leaves `rowCount` out, its page is taken for the whole list.

### Bounds

* Sessions, tables, clients: two of each let every pair of operations meet on the same and
  on different sessions; `concurrent_ingest` has three clients because its reservations
  add up. `concurrent_all` has one table: which table a request names does not matter to
  the ledger it checks.
* `MaxRows = 3` with batches of 2 (and 1): one batch fits, a second does not, so both sides
  of the quota are taken. `sequential` has `MaxRows = 2` with batches of 0 and 2: a batch that
  fills the session, and an empty one that still fits. `DiskRows` bounds what the engine stores
  in a table; above it the engine refuses, which it may do anyway.
* `InitTables` and `InitSessions` of 1 or 2, `LimitValues` with 0, which the code refuses,
  and 1, below current use.
* `TTL = 1` tick: an entry is fresh or expired, which is all the code distinguishes.
  `ClockRuns` and `Restarts` switch these off where the run's question is what holds
  without them (the violations show that `StoreSpec` and `NoDataLeftBehind` need that).
* `guarded`: timeouts 0, 1 and 2 are none, one the watcher's late start can straddle, and one
  with a tick to spare; `Horizon = 4` lets both clocks pass it. Two statements are the most
  any tool runs.
* `paging`: pages of 2 by default and at most 3, sources up to 5 rows: walks of one, two and
  three pages. The page cap of 3, the row cap of 4, the largest limit of 4 and offset of 3
  lie inside that range, so each is passed and exceeded; offset 6 is refused and 1 is not a
  multiple of a page. Two changes are enough for one before and one after a page, or one
  that moves a row and one that hides it.
* `upstream_auth`: two calls are the fewest that can both find a token expired, both read a
  file, or queue a writer behind a reader. Lifetimes 1 and 4 lie on either side of the
  margin; the clock runs to 3, so a long token is fresh for two ticks and then is not. Two
  requests let one call hold a token that the other refreshes. Two logins are one before and
  one between two reads. The clock only runs in the OAuth mode and logins only happen in the
  others, since nothing else reads them.
* `request_path`, deployments: every environment that differs in at most two variables from a
  sound one (public with each auth mode, local with JWKS), or in one from a server without
  inbound auth; every command line that differs in one option. A check that two variables decide together is
  therefore seen from all sides; seven deployments are exercised with all requests, the
  others with one.
* `request_path`, requests: every path, address, host spelling, credential and proxy header
  for the guards; every tool, header and credential for the calls. An address the server was
  not told is left out: `axum_server` always gives one.
* `request_path`, statements: every string of up to five symbols over small alphabets, one
  for each kind of hidden token (comments to eight: two levels of nesting, opened and
  closed), every string of four over the policy's words, prefixes followed by what may hide
  a parenthesis, every pair over all symbols; `maxSqlBytes = 7` refuses the longest.
* `concurrent_all` leaves out `query`, `list` and `limits`: their locked regions open and touch
  sessions as those of `open` and `drop` do, and then they only read; `sequential` has them all.
  It uses symmetry of sessions, tables and clients, and checks no liveness. Its `VIEW` leaves out
  `unremoved`, which no action and none of its properties reads (it is in `TypeOK` for its type
  only): states that differ in the record alone behave alike.

### Fairness

`FairSpec` adds weak fairness of `Proceed(c)` for each client: a request that has begun goes
on. Each handler is a task of the runtime, waits for no other request, holds the lock only
for the bounded regions, and its engine calls return (queries are interrupted at their
timeout). Nothing makes a client call again, a session expire or the process restart, so
`Call`, `Tick` and `Restart` are not fair.

In `GuardedQuery` both threads are scheduled, time passes, and a statement that sees an
interrupt fails. No fairness makes a statement end by itself: a query may be a cross join of
any size. `CallReturns` names that assumption in its formula instead.

In `ReportPaging` the client follows its cursors (`ClientStep`), the server's loops run
(`ServerStep`), and a page statement that is tried again and again succeeds in the end
(strong fairness of `FetchPage`). Nothing makes the source change or stop changing; that it
changes at most `MaxEdits` times is a bound, and `WalkEnds` needs it: a table that another
client appends to faster than this one reads has no last page.

In `UpstreamAuth` each call proceeds when it can (`Proceed(r)`): its upstream requests and
refreshes have the client's HTTP timeout, and tokio wakes the head of a queue. Nothing makes
a refresh succeed, a client call, time pass or a user log in.

In `RequestPath` the runtime polls whatever can go on (`Handle`). `RunQuery` is not fair: that a
statement ends is the subject of `GuardedQuery`. Nothing makes a request arrive. The run does
not check deadlock: a process may exit at its start, and one request answered is the end of
a behaviour.

## What is proved

`ScratchpadSessions_proofs` holds for every set of sessions (finite), tables and clients,
every limit and TTL, under `ConfigAssumption` (limits and TTL are positive:
`ScratchpadSessionConfig::validate`).

| Theorem | Statement |
|---|---|
| `TypeCorrect` | `Spec => []TypeOK` |
| `RowLedgerBounded` | `Spec => []RowsWithinLimit` |
| `SessionsAdmitted` | `Spec => SessionAdmission` |
| `TablesAdmitted` | `Spec => TableAdmission` |
| `NoSessionEvicted` | `Spec => NoEviction` |

The argument has two layers. `TypeOK` is inductive by itself because it says more than
types: no usage on ids without an entry, and `RequestOK`, which ties the step a request
stands at to the fields it needs (a request at `"probe"` is a limits request with ids left
to probe). Each action has a lemma, built on one lemma for each kind of step: a locked
region (`RegionType`), a thread step (`ThreadStepType`). The second layer is `LedgerStep`,
what one step may do to the session table. `RegionStep` proves it for any region that keeps
to the pruned entries or adds the one it had a slot for; every action is then an instance,
and the four other theorems are read off `EveryStep`. `RowsWithinLimit` needs `TypeOK` as
its inductive companion, nothing else: the row check and the booking are in one region.

`SessionStore_proofs` holds for the same constants where nothing disturbs the ledger. Removals may
fail there too; the properties except the sessions over a file that stayed (`unremoved`), and only
until a later removal of it succeeds:

| Theorem | Hypothesis | Statement |
|---|---|---|
| `LedgerCounts` | `LedgerInstance` | `Spec => []LedgerExact` |
| `StoredRowsBounded` | `LedgerInstance` | `Spec => []StoredWithinLimit` |
| `ScratchpadImplementsStore` | `StoreInstance` | `Spec => StoreSpec` |

The hypotheses are not a convenience: without each of them the statement is false, for a reason
the code has. `LedgerInstance` says that the clock stands and the process lives on (an expired
session is pruned from the table before its file is gone: `expired_data`), that requests are
tool calls (`note_created` and `note_rows` are library calls that book what the caller says),
that clients are finitely many, and that either requests come one at a time or nobody closes or
drops (`drop_race`, `close_race`). `StoreInstance` adds that a table limit is not lowered while
other requests are under way: a table admitted under the old limit appears under the new one.
Within them everything else is free: any number of sessions, tables, clients, limits and batch
sizes, every interleaving, and every engine statement may fail. `sequential` and
`concurrent_ingest` are such instances, and TLC finds `StoreInv` invariant on both.

`LedgerExact` is not inductive. It speaks of live sessions only, while a session is opened on
whatever file its path names, so `SessionInv` says that the file of a session that is not live
is empty, about to be removed, or named by a warning. It speaks of databases and booked usage, while a failed ingest
refunds what its request says it reserved, so `RequestInv` ties each request to its session (it
is still live), its table (still there, with the rows that were counted) and its batch. And it
sums over clients, so each step splits the sum into the request's own share and the others'
(`SplitInFlight`), which `Frame` leaves alone. `FilesInv` keeps connections to removed files
out, `RoomInv` carries the table limit from the admission to the creation. The refinement maps
by `View` (`OpenSessions`, `OpenDatabases`): the abstract `Enter`, `Create`, `Append` and `Drop`
happen at the engine's commit or the opening, `Leave` at the close, and every other step
stutters; `NextStore` has a case for each.

`FiniteSums` is what those proofs need of the sums. `SumFunctionOnSet` folds over a set by
`CHOOSE`, defined by recursion; that such a fold exists for every finite set and obeys its
equation is shown by taking the smallest set for which it does not (`LeastSet`), since an
induction theorem with an operator for a parameter is beyond the provers. From the equation
follow `SumAdd`, `SumRemove`, `SumSame` and `SumBound`.

`GuardedQuery_proofs` holds for every set of timeouts, any number of statements and any
horizon above the timeouts (`ClockAssumption`).

| Theorem | Statement |
|---|---|
| `TypeCorrect` | `Spec => []TypeOK` |
| `OutcomesJustified` | `Spec => []OutcomeJustified` |
| `InterruptsNamed` | `Spec => []InterruptNamed` |
| `InterruptsStayInCall` | `Spec => InterruptsOwnCall` |

Its inductive invariant `GuardInv` adds two parts to the properties. `Watching` says that the
watcher's clock never runs ahead of the call's and that the reason it gives still holds when
it is joined; without it `OutcomeJustified` is not inductive, since `Return` reads only the
reason. `Executed` ties an interrupted statement to a watcher that sent the interrupt, and a
value to finished statements. `ThreadsAgree` (part of `TypeOK`) puts the watcher out of the
way before the call can return.

`ReportPaging_proofs` holds for lists, arguments, page sizes and caps of any size, under
`PagingAssumption` (the constants are numbers and the caps positive) and `ToolsAssumption`.

| Theorem | Statement |
|---|---|
| `WalksTyped` | `Spec => []TypeOK` |
| `PagesAreOneRead` | `Spec => []PagesTile` |
| `IngestsCapped` | `Spec => []IngestCapped` |
| `FlagsConsistent` | `Spec => []FlagsAgree` |
| `RowsOnce` | `Spec => []NoDuplicates` |
| `RowsKept` | `Spec => []NothingLost` |
| `CursorsLeadOn` | `Spec => []CursorAdvances` |

Two lemmas carry it: a window of a list is a piece of it (`WindowShape`), and two adjacent
pieces are one piece (`PiecesJoin`). The inductive invariant `PagingInv` adds `Standing`: a
walk that goes on has a cursor equal to its offset plus the rows delivered, or no rows yet,
and a query's count still describes the list while it is unchanged. `PagesTile` alone says
nothing of where the next page will begin. `DeliverKeeps` is the step all cursor tools
share; the loops have a lemma each.

The other three are about a source that changes under the walk, where `PagesTile` is silent.
`RowInv` has four parts: rows that were there from the beginning and still are stand where they
stood unless rows moved (`RowsStay`), the walk has taken exactly the rows between its start and
its position (`RowsTaken`), a count made before the page is not short of a row that stayed
(`RowsCounted`), and a walk that says all has them behind it (`RowsBehind`). `NoDuplicates` and
`NothingLost` alone know nothing of the rows still ahead. `CursorInv` adds what holds between
the two statements of a query: the old cursor is ahead of the beginning, should the second
statement fail.

`UpstreamAuth_proofs` holds for any set of calls, any configurations, lifetimes and margin,
under `AuthAssumption` (they are numbers, `None` is no call and no number).

| Theorem | Statement |
|---|---|
| `TypeCorrect` | `Spec => []TypeOK` |
| `RightToken` | `Spec => []TokenRight` |
| `SingleProvider` | `Spec => []OneProvider` |
| `MarginHolds` | `Spec => MarginKept` |
| `OneRefresh` | `Spec => RefreshOnce` |
| `CacheForward` | `Spec => CacheMovesForward` |

The inductive invariant `IInv` adds four parts. `LockInv`: who looks for the second time or
refreshes is the writer, so at most one does. `PathInv`: a call on the way to a configured
token is on the path of the configured mode and may be on it; without it `TokenRight` says
nothing of a call until it holds its token. `ClockInv`: no refresh under way was asked for
before the cached token came in. `CellInv`: who asks a provider has one, and who makes one
finds the cell empty. Each action has a lemma; the action properties follow from what a
step can do where `IInv` holds (`Obtained`, `BeginsRefresh`, `CacheChanges`).

`RequestPath_proofs` holds for every set of deployments and discoveries, every request, statements
of any length over any alphabet and any policy lists, under `StartAssumption`,
`RequestAssumption` (the constants are of their kinds, `None` is none of the values it stands
in for) and `AlphabetAssumption` (letters, digits, bytes that are not printable and the
punctuation the lexer tests for are apart, and a forbidden word is a letter: a word of the
code's lists stands for a run of identifier bytes, which the model keeps as one).

| Theorem | Statement |
|---|---|
| `TypeCorrect` | `Spec => []TypeOK` |
| `ExposureSecure` | `Spec => []PublishedSecure` |
| `GuardsOrdered` | `Spec => []GuardsInOrder` |
| `EventsTell` | `Spec => []EventsAgree` |

`TypeOK` says more than types: a comment has a depth exactly in its state, a dollar tag only
in the normal state, an answer only behind the handler, and an envelope's code, reason and
category are ones an error kind has. The inductive invariant `IInv` adds three parts.
`StartSettled`: past each phase, what that phase has checked; the surface is the one of some
discovery, and no request is taken before the server listens. `GuardsPassed`: a request that
is behind a layer, or has got an answer from a tool, satisfies that layer's condition; the
properties speak of tools and refusals only, so without it nothing is known of a request
under way. `AuditLast`: no inner event is an HTTP audit. `SurfaceSecure` is the lemma that
does the work of `ExposureSecure`: a case analysis of where each published endpoint is from.
The layers share two lemmas (pass on, answer), the tools two (`ToolingFrame`, `FinishTyped`).

`EventsTell` rests on a second invariant, `LogTold`: nothing is logged before the dispatch, only
the start while a tool runs, and what agrees with the answer from then on. An answer is
`WellMade` (data or a code, never both, and the cursor category with one reason only), what a
handler logs before it fits it (`HandlersTell`), and `FinishAgrees` puts start, handler events,
summary, page and failure together.

`SqlSafety_proofs` goes on from there, under the same assumptions, with what the policy is for:

| Theorem | Statement |
|---|---|
| `SurfaceRight` | `Spec => []SurfaceExact` |
| `PolicyHolds` | `Spec => []PolicySound` |

The reference they speak of is a reading of the statement as a whole: where the token that
begins at a place ends (`TokenEnd`), and from it, backwards from the end, which bytes hidden
tokens cover and whether one of them never ends (`Scan`, `Tokens`). It looks for the end
of a token, where the lexer takes one turn for a byte. `BlockEnd` (where a comment ends that is so
deep here) and `Scan` are recursive functions, so their equations hold only once such functions
are shown to exist: `BlockExists` and `ScanExists` build them from the end of the statement,
place by place, by the induction that `Backwards` states over a set of places.

`SurfaceRight` rests on `LexerInv`. Its main part is `Agree`: what is out is right for
everything consumed, and the rest of the statement reads as it does from the end of the token
being read, `Rest`. Before the lexer is done, `SurfaceExact` says only how long the surface is. Each lexer state has a
lemma (`BlockCommentKeeps`, ...), most cases of which are that `Rest` does not change while the
token goes on.

`PolicyHolds` needs `QueryInv` besides: `PolicySound` speaks of what the engine was given, so
`QueryInv` carries the profile and the size limit from the checks that made them, and says that
nothing was given before. The decision then takes two steps. `KeywordsHidden` and `CallsHidden`
go from the surface, on which the code looks for words, back to the statement: an identifier on
the surface is one of the statement outside of its hidden tokens. `WrapCloses` is about the page
query: wrapping drops a tail of blanks and semicolons and moves every token by one place
(`TokenEndMoves` and a lemma for each kind of token), so what ended inside no quote or block
comment still does.

Only model-checked: the liveness properties (the prover has no rule for fairness or `ENABLED`):
`RequestsFinish`, `NoDataLeftBehind`, those of the query, the walk, the calls and the requests;
and all violations. Every invariant and every action property of a passing run, and the
refinement `StoreSpec`, is a theorem.

## Not modelled

* Tool request validation (`tools.rs` 3344-4130): stateless checks of one call's arguments, each
  with its own tests in the repository. That a tool may refuse its arguments is an outcome of
  `RunTool` and `PrepareQuery`; stating the bounds once more would restate the guards.
* The interactive set-up (`auth_ux.rs`, `scripts/`): a sequential command line around `gcloud`
  that runs once and exits. The credential file it leaves is `Login` in `UpstreamAuth`.
* Request payload building and response reshaping (formatting), the redaction of messages and
  the events the scratchpad writes of its own work (wording), build and CI files.
* DuckDB, axum, rmcp, `gcp_auth` and the `mcp_toolkit` crates: external, modelled by how the
  code uses them.

What could still be proved: the refinement under weaker hypotheses than `StoreInstance`, with an
abstract store that lets a table admitted under an old limit appear under the new one, and the
ledger's bounds (one side of `LedgerExact`) where closes and drops overlap with other requests.
