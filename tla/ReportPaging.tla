----------------------------- MODULE ReportPaging -----------------------------
(***************************************************************************)
(* How a list longer than one answer is read page by page: the cursors the *)
(* tabular tools hand to their clients, the two statements behind a page   *)
(* of scratchpad_query, the loops that ingest a report into the scratchpad *)
(* (src/tools.rs) and the loop that lists Admin API resources              *)
(* (AnalyticsApiClient::collect_paginated, src/ga_client.rs).              *)
(*                                                                         *)
(* One behaviour is one walk: one tool, its arguments, and every page read *)
(* until the tool, or the client that follows its cursors, has no more to  *)
(* ask for.  The server keeps nothing between two calls: what a walk knows *)
(* is in its cursor.  The list is read a page at a time from a source that *)
(* goes on changing: a report whose data is still being processed, a table *)
(* that other clients ingest into.                                         *)
(*                                                                         *)
(* Rows are numbers: the rows the source holds when the walk begins are    *)
(* 1..first, in order, and later rows get new numbers.  What a row holds,  *)
(* output modes, clipping and summary_only do not change which rows a page *)
(* covers and are left out.  A client call that the upstream or the engine *)
(* fails changes nothing and may be repeated: it is a stuttering step.     *)
(***************************************************************************)
EXTENDS Naturals, Sequences

CONSTANTS
  None,            \* an argument or a cursor that is absent
  Tools,           \* the tools walked with
  FirstSizes,      \* lengths of the source at the beginning
  Offsets,         \* values of the offset argument
  Limits,          \* values of the limit argument (max_pages of a listing)
  PageSizes,       \* values of the max_rows argument (page_size of a listing)
  DefaultPage,     \* DEFAULT_TABULAR_MAX_ROWS
  MaxPage,         \* MAX_TABULAR_MAX_ROWS, max_page_size
  MaxLimit,        \* MAX_REPORT_LIMIT
  MaxOffset,       \* MAX_REPORT_LIMIT * 10
  MaxIngestRows,   \* MAX_SCRATCHPAD_INGEST_ROWS
  MaxIngestPages,  \* MAX_SCRATCHPAD_INGEST_PAGES
  DefaultPages,    \* default_max_pages
  MaxEdits         \* bound: how often the source changes during a walk

ASSUME PagingAssumption ==
  /\ None \notin Nat
  /\ FirstSizes \subseteq Nat
  /\ Offsets \subseteq Nat \union {None}
  /\ Limits \subseteq Nat \union {None}
  /\ PageSizes \subseteq Nat \union {None}
  /\ {DefaultPage, MaxPage, MaxLimit, MaxIngestPages, DefaultPages}
       \subseteq Nat \ {0}
  /\ {MaxOffset, MaxIngestRows, MaxEdits} \subseteq Nat

VARIABLES
  tool,     \* the tool, as one of the records below
  ask,      \* its offset, limit and max_rows arguments
  first,    \* how many rows the source held at first
  source,   \* the rows it holds now
  changed,  \* how it changed since: "grew", "shrank", "shifted"
  edits,    \* how often
  starved,  \* the upstream withheld rows, or that rows follow, and no caller could notice
  phase,    \* "asking", "counted", "looping" or "done"
  window,   \* offset and size the last client call resolved to
  got,      \* every row delivered so far, in order
  total,    \* row_count_total, where it outlives one page
  pages,    \* pages_fetched
  cursor,   \* next_cursor of the last answer, next_page_token of a listing
  verdict   \* what the last answer says of itself

given == <<tool, ask, first>>
world == <<source, changed, edits>>
walk == <<starved, phase, window, got, total, pages, cursor, verdict>>
vars == <<given, world, walk>>

Least(a, b) == IF a < b THEN a ELSE b
Greatest(a, b) == IF a < b THEN b ELSE a
Or(value, default) == IF value = None THEN default ELSE value
Capped(n, bound) == Least(n, Or(bound, n))

\* n rows of s after the first off, as far as there are any.
Window(s, off, n) == SubSeq(s, off + 1, Least(off + n, Len(s)))

(***************************************************************************)
(* The tools: who asks for the next page, where the window is cut, whether *)
(* answers carry cursors, whether the answer is cut to the page size once  *)
(* more, and which of offset and limit the tool takes.                     *)
(***************************************************************************)
RunReport ==
  [kind |-> "page", window |-> "upstream", cursors |-> TRUE, recut |-> FALSE,
   offset |-> TRUE, limit |-> TRUE]

RunPropertyAccessReport == RunReport

RunAccountAccessReport == RunReport

\* One report of a batch: each is windowed by itself, its index is in its hash.
BatchRunReports == RunReport

\* The alpha API may return more than it was asked for: the answer is cut again.
RunConversionsReport == [RunReport EXCEPT !.recut = TRUE]

\* The Realtime API has no offset: one page, no cursor.
RunRealtimeReport ==
  [RunReport EXCEPT !.window = "first", !.cursors = FALSE]

\* Pivots are windowed here, over all the rows the upstream returned.
RunPivotReport ==
  [RunReport EXCEPT !.window = "local", !.offset = FALSE, !.limit = FALSE]

\* One subreport of a funnel: no total, no cursor.
RunFunnelReport ==
  [kind |-> "funnel", window |-> "first", cursors |-> FALSE, recut |-> TRUE,
   offset |-> FALSE, limit |-> TRUE]

\* SELECT and WITH run two statements per page; other statements run once and
\* are windowed here.
ScratchpadQuery ==
  [kind |-> "query", window |-> "sql", cursors |-> TRUE, recut |-> FALSE,
   offset |-> FALSE, limit |-> FALSE]

ScratchpadDescribe == [ScratchpadQuery EXCEPT !.window = "local"]

IngestReport ==
  [kind |-> "ingest", window |-> "upstream", cursors |-> FALSE,
   recut |-> FALSE, offset |-> TRUE, limit |-> TRUE]

IngestRealtime == [IngestReport EXCEPT !.kind = "ingest_once", !.window = "first"]

\* list_google_ads_links, list_property_annotations and account summaries:
\* limit stands for max_pages.
ListResources ==
  [kind |-> "list", window |-> "upstream", cursors |-> TRUE, recut |-> FALSE,
   offset |-> FALSE, limit |-> TRUE]

AllTools ==
  {RunReport, RunPropertyAccessReport, RunAccountAccessReport, BatchRunReports,
   RunConversionsReport, RunRealtimeReport, RunPivotReport, RunFunnelReport,
   ScratchpadQuery, ScratchpadDescribe, IngestReport, IngestRealtime, ListResources}

ASSUME ToolsAssumption == Tools \subseteq AllTools

ToolRecords ==
  [kind : {"page", "funnel", "query", "ingest", "ingest_once", "list"},
   window : {"upstream", "first", "local", "sql"},
   cursors : BOOLEAN, recut : BOOLEAN, offset : BOOLEAN, limit : BOOLEAN]

\* Who asks for the next page: a loop of the server, or else the client.
ServerWalks == tool.kind \in {"ingest", "ingest_once", "list"}

NoWindow == [offset |-> 0, size |-> 0]

Unanswered == [status |-> "none", complete |-> FALSE, truncated |-> FALSE, hint |-> FALSE]

Init ==
  /\ tool \in Tools
  /\ ask \in [offset : IF tool.offset THEN Offsets ELSE {None},
              limit : IF tool.limit THEN Limits ELSE {None},
              maxRows : IF ServerWalks THEN PageSizes ELSE {None}]
  /\ first \in FirstSizes
  /\ source = [i \in 1..first |-> i]
  /\ changed = {}
  /\ edits = 0
  /\ starved = FALSE
  /\ phase = IF ServerWalks THEN "looping" ELSE "asking"
  /\ window = NoWindow
  /\ got = <<>>
  /\ total = 0
  /\ pages = 0
  /\ cursor = None
  /\ verdict = Unanswered

-------------------------------------------------------------------------------
(***************************************************************************)
(* Arguments.                                                              *)
(***************************************************************************)

\* validate_limit_offset
LimitOffsetValid ==
  /\ ask.limit \in Nat => ask.limit \in 1..MaxLimit
  /\ ask.offset \in Nat => ask.offset <= MaxOffset

\* validate_tabular_controls, for max_rows
MaxRowsValid(m) == m \in Nat => m \in 1..MaxPage

\* validate_realtime_inputs: the Realtime API has no offset.
RealtimeValid == tool.window = "first" => Or(ask.offset, 0) = 0

ArgumentsValid(m) ==
  /\ tool.limit => LimitOffsetValid
  /\ MaxRowsValid(m)
  /\ RealtimeValid

\* resolve_cursor_window: the page size, and the offset it cuts from.
PageSize(m) == Least(Capped(Or(m, DefaultPage), ask.limit), MaxPage)
PageOffset == IF cursor # None THEN cursor ELSE Or(ask.offset, 0)
\* A cursor carries the hash of its query and comes without an offset: the
\* client changes neither, and its page sizes are not part of the hash.
CursorValid == cursor # None => cursor <= MaxOffset

\* resolve_funnel_report_limit
FunnelLimit(m) == Capped(Least(Or(m, DefaultPage), MaxPage), ask.limit)

\* resolve_ingest_page_size: the default is the largest page.
IngestPageSize == Capped(Least(Or(ask.maxRows, MaxPage), MaxPage), ask.limit)

\* normalized_page_size and normalized_max_pages: 1 at least, the default at most.
ListPageSize == Greatest(Least(Or(ask.maxRows, MaxPage), MaxPage), 1)
ListMaxPages == Greatest(Least(Or(ask.limit, DefaultPages), DefaultPages), 1)

-------------------------------------------------------------------------------
(***************************************************************************)
(* The upstream.  Asked for n rows it returns those, or fewer; the alpha   *)
(* API possibly more.  It may leave out the length of the whole list.      *)
(***************************************************************************)
UpstreamRows(off, n) ==
  {Window(source, off, k) : k \in 0..(IF tool.recut THEN n + 1 ELSE n)}

\* extract_row_count(..).unwrap_or(row_count_returned): the length of the list as the tools
\* take it to be, where the answer tells it and where it does not.
RowCounts(rows) == {Len(source), Len(rows)}

\* The list goes on behind what is taken for its end.
Untold(reached, n) == n <= reached /\ reached < Len(source)

\* A page shorter than the list allows, where the caller takes that for the end:
\* an empty page, or any page of an answer that carries no total.
Withheld(off, n, page) ==
  /\ Len(page) < Len(Window(source, off, n))
  /\ page = <<>> \/ tool.kind = "funnel"

(***************************************************************************)
(* Pages that a client asks for.                                           *)
(***************************************************************************)
Refuse(m) ==
  /\ phase = "asking"
  /\ ~ArgumentsValid(m) \/ ~CursorValid
  /\ verdict' = [Unanswered EXCEPT !.status = "refused"]
  /\ phase' = "done"
  /\ UNCHANGED <<given, world, starved, window, got, total, pages, cursor>>

\* Mutant: the next page is the one after page_size rows, returned or not.
PageCursorBySize(off, returned, n) ==
  IF tool.cursors /\ returned > 0 /\ off + window'.size < n
  THEN off + window'.size ELSE None

\* Mutant: without the test that rows were returned.
PageCursorUnguarded(off, returned, n) ==
  IF tool.cursors /\ off + returned < n THEN off + returned ELSE None

\* ga_projection_payload_and_meta: never a cursor that repeats the page.
PageCursor(off, returned, n) ==
  IF tool.cursors /\ returned > 0 /\ off + returned < n THEN off + returned ELSE None

\* Mutant: a cursor behind the last row.
QueryCursorPastEnd(off, returned, n) ==
  IF off + returned <= n THEN off + returned ELSE None

\* Mutant: a cursor counted from the end of the list.
QueryCursorFromEnd(off, returned, n) ==
  IF off + returned < n THEN off + returned - n ELSE None

\* run_scratchpad_query_contract has no such guard.
QueryCursor(off, returned, n) ==
  IF off + returned < n THEN off + returned ELSE None

\* project_payload_for_mode: truncated, and the hint to go on with next_cursor;
\* for tools without cursors the hint is replaced.
PageVerdict(returned, n) ==
  [status |-> "ok", complete |-> FALSE, truncated |-> returned < n,
   hint |-> returned < n /\ tool.cursors]

Resolved(off, n) == [offset |-> off, size |-> n]

Deliver(page, n, next) ==
  /\ got' = got \o page
  /\ cursor' = next
  /\ verdict' = PageVerdict(Len(page), n)
  /\ phase' = IF next = None THEN "done" ELSE "asking"
  /\ UNCHANGED <<given, world, pages>>

\* Mutant: rows are not skipped.
LocalWindowFromStart(off, n) == Window(source, 0, n)

\* apply_local_window_to_projection, and the in-memory window of a query that
\* cannot be wrapped.
LocalWindow(off, n) == Window(source, off, n)

AnswerPage(m) ==
  /\ phase = "asking" /\ tool.kind = "page"
  /\ ArgumentsValid(m) /\ CursorValid
  /\ LET off == PageOffset
         n == PageSize(m)
         from == IF tool.window = "first" THEN 0 ELSE off
     IN
     /\ window' = Resolved(off, n)
     /\ \/ /\ tool.window = "local"
           /\ LET page == LocalWindow(off, n) IN
                Deliver(page, Len(source), PageCursor(off, Len(page), Len(source)))
           /\ UNCHANGED starved
        \/ /\ tool.window # "local"
           /\ \E rows \in UpstreamRows(from, n) : \E count \in RowCounts(rows) :
                LET page == IF tool.recut THEN Window(rows, 0, n) ELSE rows IN
                /\ Deliver(page, count, PageCursor(off, Len(page), count))
                /\ starved' = (starved \/ Withheld(from, n, page)
                                       \/ Untold(off + Len(page), count))
  /\ UNCHANGED total

\* project_funnel_subreport: truncated if the answer fills what was asked for.
AnswerFunnel(m) ==
  /\ phase = "asking" /\ tool.kind = "funnel"
  /\ ArgumentsValid(m)
  /\ LET n == FunnelLimit(m) IN \E rows \in UpstreamRows(0, n) :
       LET page == Window(rows, 0, n) IN
       /\ got' = page
       /\ verdict' = [Unanswered EXCEPT !.status = "ok",
                        !.truncated = Len(rows) > Len(page) \/ Len(page) >= n]
       /\ starved' = (starved \/ Withheld(0, n, page))
  /\ phase' = "done"
  /\ UNCHANGED <<given, world, window, total, pages, cursor>>

\* execute_scratchpad_projection, first statement: SELECT COUNT(*).
CountRows(m) ==
  /\ phase = "asking" /\ tool = ScratchpadQuery
  /\ ArgumentsValid(m) /\ CursorValid
  /\ total' = Len(source)
  /\ window' = Resolved(PageOffset, PageSize(m))
  /\ phase' = "counted"
  /\ UNCHANGED <<given, world, starved, got, pages, cursor, verdict>>

\* Second statement: LIMIT page_size OFFSET offset.
FetchPage ==
  /\ phase = "counted"
  /\ LET page == Window(source, window.offset, window.size)
     IN Deliver(page, total, QueryCursor(window.offset, Len(page), total))
  /\ UNCHANGED <<starved, window, total>>

\* One of the two statements fails: the client may repeat the call.
QueryFails ==
  /\ phase = "counted"
  /\ phase' = "asking"
  /\ window' = NoWindow
  /\ UNCHANGED <<given, world, starved, got, total, pages, cursor, verdict>>

\* DESCRIBE and SUMMARIZE run once, and all their rows are windowed here.
AnswerWhole(m) ==
  /\ phase = "asking" /\ tool = ScratchpadDescribe
  /\ ArgumentsValid(m) /\ CursorValid
  /\ LET off == PageOffset
         page == LocalWindow(off, PageSize(m))
     IN
     /\ window' = Resolved(off, PageSize(m))
     /\ Deliver(page, Len(source), QueryCursor(off, Len(page), Len(source)))
  /\ UNCHANGED <<starved, total>>

-------------------------------------------------------------------------------
(***************************************************************************)
(* Reports collected for the scratchpad.                                   *)
(***************************************************************************)
NextOffset == Or(ask.offset, 0) + Len(got)
Exhausted(rows) == ask.limit # None /\ Len(rows) >= ask.limit
\* Mutant: what was collected already is forgotten.
RequestLimitWhole == IngestPageSize

RequestLimit == IF ask.limit = None THEN IngestPageSize
                                    ELSE Least(ask.limit - Len(got), IngestPageSize)
\* Mutant: off by one.
ReachedEndEarly(rows, n) == Or(ask.offset, 0) + Len(rows) + 1 >= n

ReachedEnd(rows, n) == Or(ask.offset, 0) + Len(rows) >= n
ShortPage(page) == Len(page) < RequestLimit

EndWalk(status) ==
  /\ verdict' = [Unanswered EXCEPT !.status = status]
  /\ phase' = "done"

RefuseIngest ==
  /\ phase = "looping" /\ tool.kind \in {"ingest", "ingest_once"}
  /\ ~ArgumentsValid(ask.maxRows)
  /\ EndWalk("refused")
  /\ UNCHANGED <<given, world, starved, window, got, total, pages, cursor>>

\* Too many pages, or the upstream fails: nothing is ingested.
IngestFails ==
  /\ phase = "looping" /\ tool.kind \in {"ingest", "ingest_once"}
  /\ ArgumentsValid(ask.maxRows)
  /\ EndWalk(IF pages >= MaxIngestPages THEN "limit" ELSE "failed")
  /\ UNCHANGED <<given, world, starved, window, got, total, pages, cursor>>

\* Mutant: completeness is judged before the total is.
IngestVerdictByLimit(rows, n) ==
  LET all == Greatest(n, Len(rows)) IN
  [status |-> "ok", complete |-> Exhausted(rows),
   truncated |-> all > Len(rows), hint |-> FALSE]

\* What scratchpad_ingest_report says of the rows it hands to the scratchpad.
IngestVerdict(rows, n) ==
  LET all == Greatest(n, Len(rows)) IN
  [status |-> "ok", complete |-> Exhausted(rows) \/ ReachedEnd(rows, all),
   truncated |-> all > Len(rows), hint |-> FALSE]

IngestPage ==
  /\ phase = "looping" /\ tool.kind = "ingest"
  /\ ArgumentsValid(ask.maxRows)
  /\ pages < MaxIngestPages
  /\ \E page \in UpstreamRows(NextOffset, RequestLimit) : \E count \in RowCounts(page) :
       LET rows == got \o page
           n == Greatest(total, count)
       IN /\ pages' = pages + 1
          /\ total' = n
          /\ starved' = (starved \/ Untold(Or(ask.offset, 0) + Len(rows), n))
          /\ IF Len(rows) > MaxIngestRows
             THEN /\ EndWalk("limit")
                  /\ UNCHANGED got
             ELSE /\ got' = rows
                  /\ IF page = <<>> \/ ReachedEnd(rows, n) \/ ShortPage(page) \/ Exhausted(rows)
                     THEN /\ verdict' = IngestVerdict(rows, n)
                          /\ phase' = "done"
                     ELSE UNCHANGED <<verdict, phase>>
  /\ UNCHANGED <<given, world, window, cursor>>

\* collect_run_realtime_projection_for_ingest: one request, without offset.
IngestOnce ==
  /\ phase = "looping" /\ tool.kind = "ingest_once"
  /\ ArgumentsValid(ask.maxRows)
  /\ \E page \in UpstreamRows(0, IngestPageSize) : \E count \in RowCounts(page) :
       /\ starved' = (starved \/ Untold(Len(page), count))
       /\ IF Len(page) > MaxIngestRows
          THEN EndWalk("limit") /\ UNCHANGED got
          ELSE /\ got' = page
               /\ verdict' = [status |-> "ok", complete |-> Len(page) >= count,
                              truncated |-> count > Len(page), hint |-> FALSE]
               /\ phase' = "done"
  /\ UNCHANGED <<given, world, window, total, pages, cursor>>

-------------------------------------------------------------------------------
(***************************************************************************)
(* Admin API listings.  A page token stands for the place reached; a page  *)
(* may be empty and still carry one, even at the end.                      *)
(***************************************************************************)
ListPage ==
  /\ phase = "looping" /\ tool.kind = "list"
  /\ \E page \in UpstreamRows(Len(got), ListPageSize), token \in BOOLEAN :
       /\ token \/ Len(got) + Len(page) >= Len(source)
       /\ got' = got \o page
       /\ cursor' = IF token THEN Len(got) + Len(page) ELSE None
       /\ pages' = pages + 1
       /\ IF ~token \/ pages' >= ListMaxPages
          THEN EndWalk("ok")
          ELSE UNCHANGED <<verdict, phase>>
  /\ UNCHANGED <<given, world, starved, window, total>>

ListFails ==
  /\ phase = "looping" /\ tool.kind = "list"
  /\ EndWalk("failed")
  /\ UNCHANGED <<given, world, starved, window, got, total, pages, cursor>>

-------------------------------------------------------------------------------
(***************************************************************************)
(* The source changes: at its end, or in a way that moves other rows.      *)
(***************************************************************************)
NewRow == first + edits + 1

Edit(rows, how) ==
  /\ phase # "done"
  /\ edits < MaxEdits
  /\ source' = rows
  /\ changed' = changed \union {how}
  /\ edits' = edits + 1
  /\ UNCHANGED <<given, walk>>

SourceChanges ==
  \/ Edit(Append(source, NewRow), "grew")
  \/ source # <<>> /\ Edit(SubSeq(source, 1, Len(source) - 1), "shrank")
  \/ source # <<>> /\ Edit(Tail(source), "shifted")
  \/ Edit(<<NewRow>> \o source, "shifted")

ClientStep ==
  \E m \in PageSizes :
    Refuse(m) \/ AnswerPage(m) \/ AnswerFunnel(m) \/ CountRows(m) \/ AnswerWhole(m)

ServerStep ==
  \/ FetchPage \/ QueryFails
  \/ RefuseIngest \/ IngestFails \/ IngestPage \/ IngestOnce
  \/ ListPage \/ ListFails

Done == phase = "done" /\ UNCHANGED vars

Next == ClientStep \/ ServerStep \/ SourceChanges \/ Done

Spec == Init /\ [][Next]_vars

\* The client follows its cursors, a statement or request that is tried again
\* and again answers in the end, and the server's loops run.
FairSpec ==
  /\ Spec
  /\ WF_vars(ClientStep)
  /\ WF_vars(ServerStep)
  /\ SF_vars(FetchPage)

-------------------------------------------------------------------------------
(***************************************************************************)
(* Properties.                                                             *)
(***************************************************************************)
Argument == Nat \union {None}

TypeOK ==
  /\ tool \in ToolRecords
  /\ ask \in [offset : Argument, limit : Argument, maxRows : Argument]
  /\ first \in Nat /\ edits \in Nat
  /\ source \in Seq(Nat) /\ got \in Seq(Nat)
  /\ changed \subseteq {"grew", "shrank", "shifted"}
  /\ starved \in BOOLEAN
  /\ phase \in {"asking", "counted", "looping", "done"}
  /\ window \in [offset : Nat, size : Nat]
  /\ total \in Nat /\ pages \in Nat
  /\ cursor \in Argument
  /\ verdict \in [status : {"none", "ok", "refused", "limit", "failed"},
                  complete : BOOLEAN, truncated : BOOLEAN, hint : BOOLEAN]

Start == Or(ask.offset, 0)
Ingesting == tool.kind \in {"ingest", "ingest_once"}

\* What the walk tells the caller at its end: there was nothing more to read.
SaysAll ==
  /\ phase = "done" /\ verdict.status = "ok"
  /\ IF Ingesting THEN verdict.complete
     ELSE IF tool.cursors THEN cursor = None
     ELSE ~verdict.truncated

\* The client asked for no more rows than these.
LimitMet == Ingesting /\ Exhausted(got)

\* If the source does not change, reading it by pages is reading it at once,
\* whatever the page sizes, wherever the upstream cuts a page short: the rows
\* delivered are the rows after the offset, each once and in order, and a
\* walk that says it has read everything has read up to the end or the limit.
PagesTile ==
  changed = {} =>
    /\ got = SubSeq(source, Start + 1, Start + Len(got))
    /\ SaysAll /\ ~starved => LimitMet \/ Start + Len(got) >= Len(source)

\* If the source changes at its end only, as a table that is appended to does,
\* a walk that says it has read everything has read every row that was there
\* from its beginning to its end, after the offset and within the limit.
NothingLost ==
  SaysAll /\ ~starved /\ "shifted" \notin changed =>
    \A i \in 1..first :
      /\ i > Start
      /\ Ingesting /\ ask.limit # None => i <= Start + ask.limit
      /\ \E j \in 1..Len(source) : source[j] = i
      => \E j \in 1..Len(got) : got[j] = i

\* As long as rows do not move, no row is delivered twice: an ingest does not
\* store it twice, a client does not count it twice.
NoDuplicates ==
  "shifted" \notin changed =>
    \A i, j \in 1..Len(got) : got[i] = got[j] => i = j

\* An ingest never stores more rows than the limit the client set nor than the
\* server allows, and never sends more requests than the server allows.
IngestCapped ==
  Ingesting =>
    /\ Len(got) <= MaxIngestRows
    /\ ask.limit # None => Len(got) <= ask.limit
    /\ pages <= MaxIngestPages

\* The two words an ingest has for it agree: what is not truncated is complete,
\* and what is complete without a limit or an offset is not truncated.
FlagsAgree ==
  Ingesting /\ verdict.status = "ok" =>
    /\ ~verdict.truncated => verdict.complete
    /\ verdict.complete /\ ask.limit = None /\ Start = 0 => ~verdict.truncated

\* A cursor leads on: the next page begins after the beginning of this one, so
\* that a client that follows cursors is not sent around in a circle.  Between
\* the two statements of a query, rows may go: then it may repeat.
CursorAdvances ==
  /\ phase = "asking" /\ cursor # None
  /\ tool.kind = "page" \/ changed \subseteq {"grew"}
  => cursor > window.offset

\* Every walk ends: the client's last cursor is null, the server's loops stop,
\* though the upstream may return empty pages and tokens without end.
WalkEnds == <>(phase = "done")

\* "additional rows are available; continue with meta.next_cursor"
\* (src/tools.rs:6594): an answer with this hint has a next_cursor.
HintHonest == verdict.hint /\ ~starved => cursor # None
===============================================================================
