-------------------------- MODULE ReportPaging_proofs --------------------------
(***************************************************************************)
(* Proofs about ReportPaging, for lists of any length, any offsets, limits *)
(* and page sizes, and any caps.                                           *)
(***************************************************************************)
EXTENDS ReportPaging, SequenceTheorems, TLAPS

(***************************************************************************)
(* Windows.                                                                *)
(***************************************************************************)

(* A window is a piece of the list, no longer than asked for, and as long as *)
(* the list has rows for.                                                    *)
LEMMA WindowShape ==
  ASSUME NEW s \in Seq(Nat), NEW off \in Nat, NEW n \in Nat
  PROVE  LET w == Window(s, off, n) IN
         /\ w \in Seq(Nat)
         /\ Len(w) <= n
         /\ w # <<>> => off + Len(w) <= Len(s)
         /\ w = SubSeq(s, off + 1, off + Len(w))
         /\ off + n <= Len(s) => Len(w) = n
         /\ off + n >= Len(s) => off + Len(w) >= Len(s)
<1> DEFINE e == Least(off + n, Len(s))
           w == Window(s, off, n)
<1>1. e \in Nat /\ e <= off + n /\ e <= Len(s) /\ (off + n <= Len(s) => e = off + n)
      /\ (off + n >= Len(s) => e = Len(s))
  BY DEF Least
<1>2. w = SubSeq(s, off + 1, e)
  BY DEF Window
<1>3. \A i \in off + 1 .. e : s[i] \in Nat
  BY <1>1, ElementOfSeq
<1>4. w \in Seq(Nat) /\ Len(w) = IF off + 1 <= e THEN e - (off + 1) + 1 ELSE 0
  <2> HIDE DEF e, w
  <2> QED
    BY <1>1, <1>2, <1>3, SubSeqProperties
<1>5. CASE off + 1 <= e
  <2>1. Len(w) = e - off
    BY <1>1, <1>4, <1>5
  <2> HIDE DEF e, w
  <2> QED
    BY <1>1, <1>2, <1>4, <1>5, <2>1 DEF w
<1>6. CASE ~(off + 1 <= e)
  <2>1. w = <<>> /\ Len(w) = 0
    <3> HIDE DEF e, w
    <3> QED
      BY <1>1, <1>2, <1>4, <1>6, SubSeqEmpty
  <2>2. SubSeq(s, off + 1, off + Len(w)) = <<>>
    BY <2>1, SubSeqEmpty
  <2> HIDE DEF e, w
  <2> QED
    BY <1>1, <1>4, <1>6, <2>1, <2>2 DEF w
<1>7. QED
  BY <1>5, <1>6

(* A window with room for a row has one, unless it begins behind the end.    *)
LEMMA WindowHasRow ==
  ASSUME NEW s \in Seq(Nat), NEW off \in Nat, NEW n \in Nat, n >= 1, off < Len(s)
  PROVE  Len(Window(s, off, n)) >= 1
<1>1. /\ Len(Window(s, off, n)) \in Nat
      /\ off + n <= Len(s) => Len(Window(s, off, n)) = n
      /\ off + n >= Len(s) => off + Len(Window(s, off, n)) >= Len(s)
  BY WindowShape
<1> QED
  BY <1>1

(* A page of s after off rows: what the pages of a walk are made of.         *)
PieceAfter(s, off, page) ==
  /\ page \in Seq(Nat)
  /\ page = SubSeq(s, off + 1, off + Len(page))
  /\ page # <<>> => off + Len(page) <= Len(s)

LEMMA WindowIsPiece ==
  ASSUME NEW s \in Seq(Nat), NEW off \in Nat, NEW n \in Nat
  PROVE  PieceAfter(s, off, Window(s, off, n)) /\ Len(Window(s, off, n)) <= n
BY WindowShape DEF PieceAfter

(* A page that is cut again from its beginning is a shorter page.            *)
LEMMA RecutIsPiece ==
  ASSUME NEW s \in Seq(Nat), NEW off \in Nat, NEW page, PieceAfter(s, off, page),
         NEW n \in Nat
  PROVE  PieceAfter(s, off, Window(page, 0, n)) /\ Len(Window(page, 0, n)) <= n
<1> DEFINE w == Window(page, 0, n)
<1>1. page \in Seq(Nat) /\ page = SubSeq(s, off + 1, off + Len(page))
  BY DEF PieceAfter
<1>2. /\ w \in Seq(Nat) /\ Len(w) <= n /\ Len(w) \in Nat
      /\ w # <<>> => 0 + Len(w) <= Len(page)
      /\ w = SubSeq(page, 0 + 1, 0 + Len(w))
  BY <1>1, WindowShape
<1> HIDE DEF w
<1>3. CASE w = <<>>
  <2>1. SubSeq(s, off + 1, off + Len(w)) = <<>>
    BY <1>3, SubSeqEmpty
  <2> QED
    BY <1>2, <1>3, <2>1 DEF PieceAfter, w
<1>4. CASE w # <<>>
  <2>1. Len(w) >= 1 /\ Len(w) <= Len(page) /\ off + Len(page) <= Len(s) /\ page # <<>>
    BY <1>1, <1>2, <1>4 DEF PieceAfter
  <2>2. DEFINE m == off + 1
               e == off + Len(page)
               k == Len(w)
  <2>3. /\ m \in 1..Len(s) /\ e \in 1..Len(s) /\ 1 \in 1..e - m + 1 /\ k \in 1..e - m + 1
        /\ m + 1 - 1 = m /\ m + k - 1 = off + Len(w) /\ 0 + 1 = 1 /\ 0 + Len(w) = k
    BY <1>1, <1>2, <2>1
  <2>4. SubSeq(SubSeq(s, m, e), 1, k) = SubSeq(s, m + 1 - 1, m + k - 1)
    <3> HIDE DEF m, e, k
    <3> QED
      BY <2>3, SubSeqOfSubSeq, <1>1
  <2>5. w = SubSeq(s, off + 1, off + Len(w)) /\ off + Len(w) <= Len(s)
    <3>1. w = SubSeq(page, 1, k)
      BY <1>2, <2>3, Zenon
    <3>2. SubSeq(page, 1, k) = SubSeq(SubSeq(s, m, e), 1, k)
      BY <1>1, Zenon
    <3>3. w = SubSeq(s, off + 1, off + Len(w))
      BY <2>3, <2>4, <3>1, <3>2, Zenon
    <3>4. off + Len(w) <= Len(s)
      BY <1>1, <1>2, <2>1
    <3> QED
      BY <3>3, <3>4
  <2>6. PieceAfter(s, off, w)
    BY <1>2, <2>5 DEF PieceAfter
  <2> QED
    BY <1>2, <2>6 DEF w
<1>5. QED
  BY <1>3, <1>4

(* Two adjacent pages are one page: the lemma that paging rests on.          *)
LEMMA PiecesJoin ==
  ASSUME NEW s \in Seq(Nat), NEW off \in Nat, NEW one, NEW two,
         PieceAfter(s, off, one), PieceAfter(s, off + Len(one), two)
  PROVE  PieceAfter(s, off, one \o two)
<1>1. /\ one \in Seq(Nat) /\ two \in Seq(Nat) /\ one \o two \in Seq(Nat)
      /\ Len(one \o two) = Len(one) + Len(two)
  BY DEF PieceAfter
<1>2. CASE two = <<>>
  <2>1. one \o two = one
    BY <1>1, <1>2, ConcatEmptySeq
  <2> QED
    BY <2>1
<1>3. CASE two # <<>>
  <2>1. off + Len(one) + Len(two) <= Len(s) /\ Len(two) >= 1
    BY <1>1, <1>3 DEF PieceAfter
  <2>2. SubSeq(s, off + 1, off + Len(one)) \o SubSeq(s, off + Len(one) + 1, off + Len(one) + Len(two))
          = SubSeq(s, off + 1, off + Len(one) + Len(two))
    <3>1. /\ off + 1 \in 1..Len(s) + 1
          /\ off + Len(one) \in (off + 1) - 1..Len(s)
          /\ off + Len(one) + Len(two) \in off + Len(one)..Len(s)
      BY <1>1, <2>1
    <3>2. QED
      BY <3>1, ConcatAdjacentSubSeq
  <2>3. off + Len(one) + Len(two) = off + Len(one \o two)
    BY <1>1
  <2> QED
    BY <1>1, <2>1, <2>2, <2>3 DEF PieceAfter
<1>4. QED
  BY <1>2, <1>3

-------------------------------------------------------------------------------
(***************************************************************************)
(* The invariant.                                                          *)
(***************************************************************************)

(* Where a walk stands: before its first page it has nothing, later its      *)
(* cursor is the place it has reached; the count a query's second statement  *)
(* is judged by belongs to the window it fetches.                            *)
Standing ==
  /\ tool \in AllTools
  /\ ~tool.offset => ask.offset = None
  /\ ~tool.limit => ask.limit = None
  /\ phase \in {"asking", "counted"} =>
       /\ ~ServerWalks
       /\ cursor = None => got = <<>>
       /\ cursor # None => tool.cursors /\ cursor = Start + Len(got)
  /\ phase = "looping" => ServerWalks
  /\ phase = "looping" /\ tool.kind = "ingest_once" => got = <<>>
  /\ phase = "counted" =>
       /\ tool = ScratchpadQuery
       /\ window.offset = PageOffset
       /\ changed = {} => total = Len(source)

(* What was delivered is one page of the unchanged source, and a walk that   *)
(* says that this was all has come to the end.                               *)
Tiled == changed = {} => PieceAfter(source, Start, got)

EndReached ==
  changed = {} /\ SaysAll /\ ~starved => LimitMet \/ Start + Len(got) >= Len(source)

PagingInv == TypeOK /\ Standing /\ Tiled /\ EndReached /\ IngestCapped /\ FlagsAgree

(* What the tool records say of each other's fields.                         *)
LEMMA ToolFacts ==
  ASSUME tool \in AllTools
  PROVE  /\ tool \in ToolRecords
         /\ tool.kind = "page" /\ tool.window = "first" => ~tool.cursors
         /\ tool.kind = "page" /\ tool.window # "first" => tool.cursors
         /\ tool.kind = "funnel" => ~tool.cursors /\ ~tool.offset
         /\ tool.kind \in {"ingest", "ingest_once"} => ~tool.recut /\ ~tool.cursors
         /\ tool.kind = "ingest_once" => tool.window = "first"
         /\ tool.kind = "ingest" => tool.window # "first"
         /\ tool.kind = "list" => tool.cursors /\ ~tool.offset /\ ~tool.recut
         /\ tool = ScratchpadQuery => tool.kind = "query" /\ tool.cursors
         /\ tool = ScratchpadDescribe => tool.kind = "query" /\ tool.cursors
<1> USE DEF RunReport, RunPropertyAccessReport, RunAccountAccessReport,
  BatchRunReports, RunConversionsReport, RunRealtimeReport, RunPivotReport,
  RunFunnelReport, ScratchpadQuery, ScratchpadDescribe, IngestReport,
  IngestRealtime, ListResources
<1>1. CASE tool = RunReport
  BY <1>1 DEF ToolRecords
<1>2. CASE tool = RunConversionsReport
  BY <1>2 DEF ToolRecords
<1>3. CASE tool = RunRealtimeReport
  BY <1>3 DEF ToolRecords
<1>4. CASE tool = RunPivotReport
  BY <1>4 DEF ToolRecords
<1>5. CASE tool = RunFunnelReport
  BY <1>5 DEF ToolRecords
<1>6. CASE tool = ScratchpadQuery
  BY <1>6 DEF ToolRecords
<1>7. CASE tool = ScratchpadDescribe
  BY <1>7 DEF ToolRecords
<1>8. CASE tool = IngestReport
  BY <1>8 DEF ToolRecords
<1>9. CASE tool = IngestRealtime
  BY <1>9 DEF ToolRecords
<1>10. CASE tool = ListResources
  BY <1>10 DEF ToolRecords
<1>11. \/ tool = RunReport \/ tool = RunConversionsReport \/ tool = RunRealtimeReport
       \/ tool = RunPivotReport \/ tool = RunFunnelReport \/ tool = ScratchpadQuery
       \/ tool = ScratchpadDescribe \/ tool = IngestReport \/ tool = IngestRealtime
       \/ tool = ListResources
  <2> USE DEF AllTools
  <2> QED
    BY Zenon
<1>12. QED
  BY <1>1, <1>2, <1>3, <1>4, <1>5, <1>6, <1>7, <1>8, <1>9, <1>10, <1>11, Zenon

(* Page sizes and offsets are numbers, and a page has room for a row.        *)
LEMMA Sizes ==
  ASSUME TypeOK
  PROVE  /\ Start \in Nat /\ NextOffset = Start + Len(got)
         /\ PageOffset \in Nat
         /\ \A m \in PageSizes : ArgumentsValid(m) =>
              /\ PageSize(m) \in Nat
              /\ FunnelLimit(m) \in Nat
         /\ IngestPageSize \in Nat
         /\ ListPageSize \in Nat
<1>1. /\ ask.offset \in Nat \/ ask.offset = None
      /\ ask.limit \in Nat \/ ask.limit = None
      /\ ask.maxRows \in Nat \/ ask.maxRows = None
      /\ cursor \in Nat \/ cursor = None
      /\ Len(got) \in Nat
  BY DEF TypeOK, Argument
<1>2. /\ DefaultPage \in Nat /\ MaxPage \in Nat /\ None \notin Nat
      /\ PageSizes \subseteq Nat \union {None}
  BY PagingAssumption
<1>3. Start \in Nat /\ NextOffset = Start + Len(got) /\ PageOffset \in Nat
  BY <1>1 DEF Start, NextOffset, PageOffset, Or
<1>4. IngestPageSize \in Nat /\ ListPageSize \in Nat
  BY <1>1, <1>2 DEF IngestPageSize, ListPageSize, Capped, Least, Greatest, Or
<1>5. ASSUME NEW m \in PageSizes
      PROVE  PageSize(m) \in Nat /\ FunnelLimit(m) \in Nat
  BY <1>1, <1>2 DEF PageSize, FunnelLimit, Capped, Least, Or
<1>6. QED
  BY <1>3, <1>4, <1>5

(* A client's page has room for at least one row.                            *)
LEMMA RoomForOne ==
  ASSUME TypeOK, NEW m \in PageSizes, ArgumentsValid(m), Standing
  PROVE  PageSize(m) >= 1
<1>1. ask.limit = None \/ ask.limit \in 1..MaxLimit
  BY PagingAssumption DEF ArgumentsValid, LimitOffsetValid, Standing, TypeOK, Argument
<1>2. m = None \/ m \in 1..MaxPage
  BY PagingAssumption DEF ArgumentsValid, MaxRowsValid
<1>3. DefaultPage >= 1 /\ DefaultPage \in Nat /\ MaxPage >= 1 /\ MaxPage \in Nat
  BY PagingAssumption
<1>4. QED
  BY <1>1, <1>2, <1>3 DEF PageSize, Capped, Least, Or

LEMMA InitPaging == Init => PagingInv
<1> SUFFICES ASSUME Init PROVE PagingInv
  OBVIOUS
<1>1. /\ tool \in AllTools /\ tool \in ToolRecords
      /\ first \in Nat
      /\ ask \in [offset : Argument, limit : Argument, maxRows : Argument]
      /\ ~tool.offset => ask.offset = None
      /\ ~tool.limit => ask.limit = None
  <2>1. tool \in AllTools /\ tool \in ToolRecords
    BY ToolsAssumption, ToolFacts DEF Init
  <2>2. first \in Nat
    BY PagingAssumption DEF Init
  <2>3. /\ ask = [offset |-> ask.offset, limit |-> ask.limit, maxRows |-> ask.maxRows]
        /\ ask.offset \in IF tool.offset THEN Offsets ELSE {None}
        /\ ask.limit \in IF tool.limit THEN Limits ELSE {None}
        /\ ask.maxRows \in IF ServerWalks THEN PageSizes ELSE {None}
    BY DEF Init
  <2>4. ask.offset \in Argument /\ ask.limit \in Argument /\ ask.maxRows \in Argument
    BY <2>3, PagingAssumption DEF Argument
  <2>5. QED
    BY <2>1, <2>2, <2>3, <2>4
<1>2. source \in Seq(Nat) /\ Len(source) = first
  <2>1. source = [i \in 1..first |-> i] /\ first \in Nat
    BY <1>1 DEF Init
  <2>2. QED
    BY <2>1
<1>3. TypeOK
  <2>1. /\ got = <<>> /\ edits = 0 /\ changed = {} /\ starved = FALSE /\ total = 0
        /\ pages = 0 /\ cursor = None /\ verdict = Unanswered /\ window = NoWindow
        /\ phase \in {"looping", "asking"}
    BY DEF Init
  <2>2. got \in Seq(Nat) /\ changed \subseteq {"grew", "shrank", "shifted"}
    BY <2>1
  <2>3. verdict \in [status : {"none", "ok", "refused", "limit", "failed"},
                     complete : BOOLEAN, truncated : BOOLEAN, hint : BOOLEAN]
    BY <2>1 DEF Unanswered
  <2>4. window \in [offset : Nat, size : Nat]
    BY <2>1 DEF NoWindow
  <2>5. cursor \in Argument
    BY <2>1 DEF Argument
  <2>6. QED
    BY <1>1, <1>2, <2>1, <2>2, <2>3, <2>4, <2>5 DEF TypeOK
<1>4. Standing
  BY <1>1, <1>2 DEF Init, Standing
<1>5. Start \in Nat /\ got = <<>>
  BY <1>3, Sizes DEF Init
<1>6. Tiled
  <2>1. SubSeq(source, Start + 1, Start + Len(got)) = <<>>
    BY <1>5, SubSeqEmpty
  <2>2. QED
    BY <1>5, <2>1 DEF Tiled, PieceAfter
<1>7. verdict.status = "none" /\ phase # "done"
  BY DEF Init, Unanswered
<1>8. EndReached /\ FlagsAgree
  BY <1>7 DEF EndReached, SaysAll, FlagsAgree
<1>9. IngestCapped
  BY <1>3, <1>5, PagingAssumption DEF Init, IngestCapped, TypeOK, Argument
<1>10. QED
  BY <1>3, <1>4, <1>6, <1>8, <1>9 DEF PagingInv

(* Rows the upstream serves are a piece of the list; only the alpha API's    *)
(* answers are longer than asked for.                                        *)
LEMMA ServedIsPiece ==
  ASSUME TypeOK, NEW off \in Nat, NEW n \in Nat, NEW rows \in UpstreamRows(off, n)
  PROVE  /\ PieceAfter(source, off, rows)
         /\ ~tool.recut => Len(rows) <= n
<1>1. PICK k \in 0..(IF tool.recut THEN n + 1 ELSE n) : rows = Window(source, off, k)
  BY DEF UpstreamRows
<1>2. k \in Nat /\ (~tool.recut => k <= n)
  <2>1. tool.recut \in BOOLEAN
    BY DEF TypeOK, ToolRecords
  <2> QED
    BY <1>1, <2>1
<1>3. source \in Seq(Nat)
  BY DEF TypeOK
<1>4. PieceAfter(source, off, rows) /\ Len(rows) <= k
  BY <1>1, <1>2, <1>3, WindowIsPiece
<1>5. Len(rows) \in Nat
  BY <1>4 DEF PieceAfter
<1>6. QED
  BY <1>2, <1>4, <1>5

(* An empty page that withholds nothing is cut at the end of the list.       *)
LEMMA EmptyAtEnd ==
  ASSUME TypeOK, NEW off \in Nat, NEW n \in Nat, n >= 1, ~Withheld(off, n, <<>>)
  PROVE  off >= Len(source)
<1>1. source \in Seq(Nat) /\ Len(source) \in Nat
  BY DEF TypeOK
<1>2. Len(Window(source, off, n)) = 0
  <2>1. Len(Window(source, off, n)) \in Nat
    BY <1>1, WindowShape
  <2>2. QED
    BY <2>1 DEF Withheld
<1>3. QED
  BY <1>1, <1>2, WindowShape

(* What a step of a walk reads: nothing, or the page after those it has; and *)
(* if it says then that this was all, the list had no more rows: those there *)
(* are now, or those that were counted.                                      *)
Appends(page) == PieceAfter(source, Start + Len(got), page) /\ got' = got \o page

ListEnd == IF phase = "counted" THEN total ELSE Len(source)

Reads ==
  /\ phase # "done"
  /\ UNCHANGED <<tool, ask, first, source, changed, edits>>
  /\ got' = got \/ \E page : Appends(page)
  /\ phase' = "counted" => total' = Len(source)
  /\ SaysAll' /\ ~starved' => LimitMet' \/ Start + Len(got') >= ListEnd

(* An answer that goes on from where the walk stands keeps the invariant, if *)
(* its cursor is the place reached and its end is the end of the list.       *)
LEMMA DeliverKeeps ==
  ASSUME PagingInv, phase \in {"asking", "counted"},
         NEW page, NEW n \in Nat, NEW next \in Argument,
         Deliver(page, n, next),
         window' \in [offset : Nat, size : Nat], total' \in Nat, starved' \in BOOLEAN,
         PieceAfter(source, PageOffset, page),
         next # None => tool.cursors /\ next = PageOffset + Len(page),
         next = None /\ ~starved' /\ (tool.cursors \/ Len(page) >= n)
           => PageOffset + Len(page) >= ListEnd
  PROVE  PagingInv' /\ Reads
<1>1. /\ UNCHANGED <<tool, ask, first, source, changed, edits, pages>>
      /\ got' = got \o page /\ cursor' = next
      /\ verdict' = PageVerdict(Len(page), n)
      /\ phase' = IF next = None THEN "done" ELSE "asking"
  BY DEF Deliver, given, world
<1>2. /\ TypeOK /\ Standing /\ Tiled
      /\ page \in Seq(Nat) /\ got \in Seq(Nat) /\ source \in Seq(Nat)
      /\ tool.cursors \in BOOLEAN /\ Len(page) \in Nat /\ Len(got) \in Nat
      /\ Start \in Nat /\ Start' = Start /\ Len(source) \in Nat
  <2>1. TypeOK /\ Standing /\ Tiled
    BY DEF PagingInv
  <2>2. page \in Seq(Nat)
    BY DEF PieceAfter
  <2>3. got \in Seq(Nat) /\ source \in Seq(Nat) /\ tool.cursors \in BOOLEAN
    BY <2>1 DEF TypeOK, ToolRecords
  <2>4. Start' = Start
    BY <1>1 DEF Start, Or
  <2>5. QED
    BY <2>1, <2>2, <2>3, <2>4, Sizes
<1>3. PageOffset = Start + Len(got)
  BY <1>2 DEF Standing, PageOffset, Start
<1>4. /\ got' \in Seq(Nat) /\ Len(got') = Len(got) + Len(page)
  BY <1>1, <1>2
<1>5. /\ tool.kind \notin {"ingest", "ingest_once", "list"}
      /\ ~Ingesting'
  BY <1>1, <1>2 DEF Standing, ServerWalks, Ingesting
<1>6. TypeOK'
  <2>1. verdict' \in [status : {"none", "ok", "refused", "limit", "failed"},
                      complete : BOOLEAN, truncated : BOOLEAN, hint : BOOLEAN]
    BY <1>1, <1>2 DEF PageVerdict
  <2>2. phase' \in {"asking", "counted", "looping", "done"} /\ cursor' \in Argument
    BY <1>1
  <2>3. QED
    BY <1>1, <1>2, <1>4, <2>1, <2>2 DEF TypeOK
<1>7. Standing'
  <2>1. cursor' # None => tool'.cursors /\ cursor' = Start' + Len(got')
    BY <1>1, <1>2, <1>3, <1>4
  <2>2. phase' # "counted" /\ phase' # "looping" /\ (phase' = "asking" => cursor' # None)
    BY <1>1
  <2>3. ~ServerWalks'
    BY <1>1, <1>5 DEF ServerWalks
  <2>4. QED
    BY <1>1, <1>2, <2>1, <2>2, <2>3 DEF Standing
<1>8. Tiled'
  BY <1>1, <1>2, <1>3, PiecesJoin DEF Tiled
<1>9. ASSUME SaysAll', ~starved'
      PROVE  Start + Len(got') >= ListEnd
  <2>1. next = None
    BY <1>1, <1>9 DEF SaysAll
  <2>2. tool.cursors \/ Len(page) >= n
    <3>1. CASE tool.cursors
      BY <3>1
    <3>2. CASE ~tool.cursors
      <4>1. ~verdict'.truncated
        BY <1>1, <1>5, <1>9, <3>2 DEF SaysAll
      <4>2. ~(Len(page) < n)
        BY <1>1, <4>1 DEF PageVerdict
      <4>3. QED
        BY <1>2, <4>1, <4>2
    <3>3. QED
      BY <3>1, <3>2
  <2>3. PageOffset + Len(page) >= ListEnd
    BY <1>9, <2>1, <2>2
  <2>4. Start + Len(got') = PageOffset + Len(page)
    BY <1>2, <1>3, <1>4
  <2>5. QED
    BY <2>3, <2>4
<1>10. IngestCapped' /\ FlagsAgree'
  BY <1>5 DEF IngestCapped, FlagsAgree
<1>11. EndReached'
  <2>1. changed = {} => ListEnd = Len(source)
    BY <1>2 DEF Standing, ListEnd
  <2> QED
    BY <1>1, <1>2, <1>9, <2>1 DEF EndReached
<1>12. Reads
  <2>1. Appends(page)
    BY <1>1, <1>3 DEF Appends
  <2> QED
    BY <1>1, <1>9, <2>1 DEF Reads
<1>13. QED
  BY <1>6, <1>7, <1>8, <1>10, <1>11, <1>12 DEF PagingInv

(* A step that ends the walk without an answer, or leaves it where it is.    *)
LEMMA RefusalKeeps ==
  ASSUME PagingInv,
         UNCHANGED <<tool, ask, first, source, changed, edits, window, got, total, pages, cursor>>,
         starved' = starved \/ starved' \in BOOLEAN,
         phase # "done", phase' = "done",
         \E status \in {"refused", "limit", "failed"} :
           verdict' = [Unanswered EXCEPT !.status = status]
  PROVE  PagingInv' /\ Reads
<1>1. /\ verdict' \in [status : {"none", "ok", "refused", "limit", "failed"},
                      complete : BOOLEAN, truncated : BOOLEAN, hint : BOOLEAN]
      /\ verdict'.status # "ok"
  BY DEF Unanswered
<1>2. TypeOK'
  BY <1>1 DEF PagingInv, TypeOK
<1>3. Start' = Start
  BY DEF Start, Or
<1>4. Standing' /\ Tiled'
  BY <1>3 DEF PagingInv, Standing, Tiled
<1>5. EndReached' /\ FlagsAgree'
  BY <1>1 DEF EndReached, SaysAll, FlagsAgree
<1>6. IngestCapped'
  BY DEF PagingInv, IngestCapped, Ingesting
<1>7. Reads
  BY <1>1 DEF Reads, SaysAll
<1>8. QED
  BY <1>2, <1>4, <1>5, <1>6, <1>7 DEF PagingInv

(* Where a page begins that is read now.                                     *)
LEMMA PageStart ==
  ASSUME PagingInv, phase \in {"asking", "counted"}
  PROVE  /\ PageOffset = Start + Len(got)
         /\ Start \in Nat /\ PageOffset \in Nat
         /\ source \in Seq(Nat) /\ Len(source) \in Nat
<1>1. TypeOK /\ Standing
  BY DEF PagingInv
<1>2. got \in Seq(Nat) /\ source \in Seq(Nat)
  BY <1>1 DEF TypeOK
<1>3. Start \in Nat /\ PageOffset \in Nat
  BY <1>1, Sizes
<1>4. cursor = None => Len(got) = 0
  BY <1>1 DEF Standing
<1>5. PageOffset = Start + Len(got)
  BY <1>1, <1>3, <1>4 DEF Standing, PageOffset, Start
<1>6. QED
  BY <1>2, <1>3, <1>5

LEMMA AnswerPageKeeps ==
  ASSUME PagingInv, NEW m \in PageSizes, AnswerPage(m)
  PROVE  PagingInv' /\ Reads /\ (cursor' # None => cursor' > window'.offset)
<1> DEFINE off == PageOffset
           n == PageSize(m)
           from == IF tool.window = "first" THEN 0 ELSE off
           all == Len(source)
<1>1. /\ phase = "asking" /\ tool.kind = "page" /\ ArgumentsValid(m)
      /\ total' = total
      /\ window' = Resolved(off, n)
  BY DEF AnswerPage
<1>2. /\ TypeOK /\ Standing
      /\ off = Start + Len(got) /\ Start \in Nat /\ off \in Nat
      /\ source \in Seq(Nat) /\ all \in Nat /\ total \in Nat
      /\ starved \in BOOLEAN
  BY <1>1, PageStart DEF PagingInv, TypeOK
<1>3. n \in Nat /\ n >= 1
  BY <1>1, <1>2, Sizes, RoomForOne
(* Without an offset there is one page, and it begins at the beginning. *)
<1>4. from = off /\ from \in Nat
  <2>1. CASE tool.window = "first"
    <3>1. Start = 0
      BY <1>1, <2>1 DEF ArgumentsValid, RealtimeValid, Start
    <3>2. ~tool.cursors
      BY <1>1, <1>2, <2>1, ToolFacts DEF Standing
    <3>3. cursor = None
      BY <1>1, <1>2, <3>2 DEF Standing
    <3>4. off = 0
      BY <3>1, <3>3 DEF PageOffset, Start
    <3>5. QED
      BY <2>1, <3>4
  <2>2. CASE tool.window # "first"
    BY <1>2, <2>2
  <2>3. QED
    BY <2>1, <2>2
(* What the page is, and what ends a walk with it. *)
<1> DEFINE Answers(page, count) ==
             /\ Deliver(page, count, PageCursor(off, Len(page), count))
             /\ PieceAfter(source, off, page)
             /\ count \in Nat /\ starved' \in BOOLEAN
             /\ ~starved' /\ page = <<>> => off >= all
             /\ ~starved' => off + Len(page) < count \/ off + Len(page) >= all
<1>5. \E page, count : Answers(page, count)
  <2>1. CASE tool.window = "local"
    <3> DEFINE page == LocalWindow(off, n)
    <3>1. Deliver(page, all, PageCursor(off, Len(page), all)) /\ starved' = starved
      BY <2>1 DEF AnswerPage
    <3>2. PieceAfter(source, off, page) /\ (off < all => Len(page) >= 1)
      BY <1>2, <1>3, WindowIsPiece, WindowHasRow DEF LocalWindow
    <3>3. page = <<>> => Len(page) = 0
      OBVIOUS
    <3> HIDE DEF page, off, all
    <3>4. page = <<>> => off >= all
      BY <1>2, <3>2, <3>3
    <3>5. off + Len(page) < all \/ off + Len(page) >= all
      <4>1. Len(page) \in Nat
        BY <3>2 DEF PieceAfter
      <4> QED
        BY <1>2, <4>1
    <3> QED
      BY <1>2, <3>1, <3>2, <3>4, <3>5
  <2>2. CASE tool.window # "local"
    <3>0. PICK rows \in UpstreamRows(from, n) : \E count \in RowCounts(rows) :
            LET page == IF tool.recut THEN Window(rows, 0, n) ELSE rows IN
            /\ Deliver(page, count, PageCursor(off, Len(page), count))
            /\ starved' = (starved \/ Withheld(from, n, page) \/ Untold(off + Len(page), count))
      BY <2>2 DEF AnswerPage
    <3> DEFINE page == IF tool.recut THEN Window(rows, 0, n) ELSE rows
    <3>1. PICK count \in RowCounts(rows) :
            /\ Deliver(page, count, PageCursor(off, Len(page), count))
            /\ starved' = (starved \/ Withheld(from, n, page) \/ Untold(off + Len(page), count))
      BY <3>0
    <3>2. PieceAfter(source, off, rows)
      BY <1>2, <1>3, <1>4, <3>0, ServedIsPiece
    <3>3. PieceAfter(source, off, page)
      BY <1>2, <1>3, <3>2, RecutIsPiece
    <3>4. /\ Deliver(page, count, PageCursor(off, Len(page), count))
          /\ starved' = (starved \/ Withheld(off, n, page) \/ Untold(off + Len(page), count))
      BY <1>4, <3>1
    <3>5. count \in Nat
      BY <1>2, <3>1, <3>2 DEF RowCounts, PieceAfter
    <3> HIDE DEF page, off, all, n
    <3>6. ~starved' /\ page = <<>> => off >= all
      <4> SUFFICES ASSUME ~starved', page = <<>>
                   PROVE  off >= all
        OBVIOUS
      <4>1. ~Withheld(off, n, <<>>)
        BY <3>4
      <4> QED
        BY <1>2, <1>3, <4>1, EmptyAtEnd DEF all
    <3>7. ~starved' => off + Len(page) < count \/ off + Len(page) >= all
      <4>1. Len(page) \in Nat
        BY <3>3 DEF PieceAfter
      <4>2. ~starved' => ~Untold(off + Len(page), count)
        BY <3>4
      <4> QED
        BY <1>2, <3>5, <4>1, <4>2 DEF Untold, all
    <3>8. starved' \in BOOLEAN
      BY <1>2, <3>4 DEF Withheld, Untold
    <3> QED
      BY <3>3, <3>4, <3>5, <3>6, <3>7, <3>8
  <2> QED
    BY <2>1, <2>2
<1>6. PICK page, count : Answers(page, count)
  BY <1>5
<1>7. page \in Seq(Nat) /\ Len(page) \in Nat
  <2>1. page \in Seq(Nat)
    BY <1>6 DEF PieceAfter
  <2>2. QED
    BY <2>1
<1> DEFINE next == PageCursor(off, Len(page), count)
<1>8. /\ Deliver(page, count, next)
      /\ PieceAfter(source, PageOffset, page)
      /\ PageOffset = off /\ Len(source) = all
  BY <1>6
<1> HIDE DEF all, off, n, from
<1>9. next \in Argument /\ (next # None => tool.cursors /\ next = off + Len(page))
  BY <1>2, <1>7 DEF PageCursor, Argument
<1>10. ASSUME next = None, ~starved', tool.cursors \/ Len(page) >= count
       PROVE  off + Len(page) >= all
  <2>1. CASE page = <<>>
    BY <1>2, <1>6, <1>7, <1>10, <2>1
  <2>2. CASE page # <<>> /\ tool.cursors
    <3>1. Len(page) > 0 /\ off + Len(page) \in Nat
      BY <1>2, <1>7, <2>2
    <3>2. ~(off + Len(page) < count)
      BY <1>10, <2>2, <3>1, PagingAssumption DEF PageCursor
    <3> QED
      BY <1>6, <1>10, <3>2
  <2>3. CASE Len(page) >= count
    BY <1>2, <1>6, <1>7, <1>10, <2>3
  <2>4. QED
    BY <1>10, <2>1, <2>2, <2>3
<1>11. window' \in [offset : Nat, size : Nat] /\ total' \in Nat /\ starved' \in BOOLEAN
  BY <1>1, <1>2, <1>3, <1>6 DEF Resolved
<1>12. cursor' # None => cursor' > window'.offset
  BY <1>1, <1>2, <1>7, <1>8 DEF Deliver, PageCursor, Resolved
<1>13. QED
  <2> HIDE DEF next
  <2>1. next # None => tool.cursors /\ next = PageOffset + Len(page)
    BY <1>8, <1>9
  <2>2. next = None /\ ~starved' /\ (tool.cursors \/ Len(page) >= count)
           => PageOffset + Len(page) >= ListEnd
    BY <1>1, <1>8, <1>10 DEF ListEnd
  <2>3. phase \in {"asking", "counted"} /\ count \in Nat
    BY <1>1, <1>6
  <2>4. QED
    BY <1>8, <1>9, <1>11, <1>12, <2>1, <2>2, <2>3, DeliverKeeps

LEMMA AnswerWholeKeeps ==
  ASSUME PagingInv, NEW m \in PageSizes, AnswerWhole(m)
  PROVE  PagingInv' /\ Reads /\ (cursor' # None => cursor' > window'.offset)
<1> DEFINE off == PageOffset
           n == PageSize(m)
           all == Len(source)
           page == LocalWindow(off, n)
<1>1. /\ phase = "asking" /\ tool = ScratchpadDescribe /\ ArgumentsValid(m)
      /\ total' = total /\ starved' = starved
      /\ window' = Resolved(off, n)
      /\ Deliver(page, all, QueryCursor(off, Len(page), all))
  BY DEF AnswerWhole
<1>2. /\ TypeOK /\ Standing /\ total \in Nat /\ starved \in BOOLEAN
      /\ off \in Nat /\ source \in Seq(Nat) /\ all \in Nat
  BY <1>1, PageStart DEF PagingInv, TypeOK
<1>3. n \in Nat /\ n >= 1
  BY <1>1, <1>2, Sizes, RoomForOne
<1>4. /\ PieceAfter(source, PageOffset, page)
      /\ off < all => Len(page) >= 1
  <2>1. page = Window(source, off, n)
    BY DEF LocalWindow
  <2>2. PieceAfter(source, off, page) /\ (off < all => Len(page) >= 1)
    BY <1>2, <1>3, <2>1, WindowIsPiece, WindowHasRow
  <2> QED
    BY <2>2
<1>5. Len(page) \in Nat
  BY <1>4 DEF PieceAfter
<1>6. tool.cursors
  BY <1>1, <1>2, ToolFacts DEF Standing
<1> DEFINE next == QueryCursor(off, Len(page), all)
<1>7. /\ window' \in [offset : Nat, size : Nat] /\ total' \in Nat /\ starved' \in BOOLEAN
  BY <1>1, <1>2, <1>3 DEF Resolved
<1>8. PageOffset = off /\ ListEnd = all /\ Deliver(page, all, next)
  BY <1>1 DEF ListEnd
<1> HIDE DEF page, off, all, n
<1>9. /\ next \in Argument
      /\ next # None => next = off + Len(page)
      /\ next = None => off + Len(page) >= all
  BY <1>2, <1>5, PagingAssumption DEF QueryCursor, Argument
<1>10. cursor' # None => cursor' > window'.offset
  BY <1>1, <1>2, <1>4, <1>5, <1>8 DEF Deliver, QueryCursor, Resolved
<1>11. QED
  <2> HIDE DEF next
  <2> QED
    BY <1>1, <1>2, <1>4, <1>6, <1>7, <1>8, <1>9, <1>10, DeliverKeeps

LEMMA FetchPageKeeps ==
  ASSUME PagingInv, FetchPage
  PROVE  /\ PagingInv' /\ Reads
         /\ window.size >= 1 /\ total <= Len(source) =>
              (cursor' # None => cursor' > window'.offset)
<1> DEFINE off == window.offset
           page == Window(source, off, window.size)
           next == QueryCursor(off, Len(page), total)
<1>1. /\ phase = "counted" /\ Deliver(page, total, next)
      /\ UNCHANGED <<starved, window, total>>
  BY DEF FetchPage
<1>2. /\ TypeOK /\ Standing /\ total \in Nat /\ starved \in BOOLEAN
      /\ window \in [offset : Nat, size : Nat] /\ source \in Seq(Nat)
  BY DEF PagingInv, TypeOK
<1>3. /\ off = PageOffset /\ tool.cursors
      /\ ListEnd = total
  BY <1>1, <1>2, ToolFacts DEF Standing, ListEnd
<1>4. PieceAfter(source, PageOffset, page)
  BY <1>2, <1>3, WindowIsPiece
<1>5. Len(page) \in Nat /\ off \in Nat
  BY <1>2, <1>4 DEF PieceAfter
<1> HIDE DEF page, off
<1>6. /\ next \in Argument
      /\ next # None => next = off + Len(page)
      /\ next = None => off + Len(page) >= total
  BY <1>2, <1>5, PagingAssumption DEF QueryCursor, Argument
<1>7. ASSUME window.size >= 1, total <= Len(source), cursor' # None
      PROVE  cursor' > window'.offset
  <2>1. next # None /\ off + Len(page) < total /\ cursor' = off + Len(page)
    BY <1>1, <1>7 DEF Deliver, QueryCursor
  <2>2. off < Len(source) /\ window.size \in Nat
    BY <1>2, <1>5, <1>7, <2>1
  <2>3. Len(page) >= 1
    BY <1>2, <1>5, <1>7, <2>2, WindowHasRow DEF page, off
  <2> QED
    BY <1>1, <1>5, <2>1, <2>3 DEF off
<1>8. QED
  <2> HIDE DEF next
  <2> QED
    BY <1>1, <1>2, <1>3, <1>4, <1>6, <1>7, DeliverKeeps

LEMMA QueryStepsKeep ==
  ASSUME PagingInv, QueryFails \/ \E m \in PageSizes : CountRows(m)
  PROVE  PagingInv' /\ Reads
<1>1. TypeOK /\ Standing
  BY DEF PagingInv
<1>2. /\ UNCHANGED <<tool, ask, first, source, changed, edits, starved, got, pages, cursor, verdict>>
      /\ phase \in {"asking", "counted"} /\ phase' \in {"asking", "counted"}
  BY DEF QueryFails, CountRows, given, world
<1>3. Start' = Start /\ PageOffset' = PageOffset
  BY <1>2 DEF Start, PageOffset, Or
<1>4. window' \in [offset : Nat, size : Nat] /\ total' \in Nat
  <2>1. CASE QueryFails
    BY <1>1, <2>1 DEF QueryFails, TypeOK, NoWindow
  <2>2. ASSUME NEW m \in PageSizes, CountRows(m)
        PROVE  window' \in [offset : Nat, size : Nat] /\ total' \in Nat
    <3>1. PageSize(m) \in Nat /\ PageOffset \in Nat /\ source \in Seq(Nat)
      BY <1>1, <2>2, Sizes DEF CountRows, TypeOK
    <3>2. QED
      BY <2>2, <3>1 DEF CountRows, Resolved
  <2>3. QED
    BY <2>1, <2>2
<1>5. TypeOK'
  BY <1>1, <1>2, <1>4 DEF TypeOK
<1>6. phase' = "counted" =>
        /\ tool' = ScratchpadQuery
        /\ window'.offset = PageOffset'
        /\ changed' = {} => total' = Len(source')
  BY <1>2, <1>3 DEF QueryFails, CountRows, Resolved
<1>7. Standing'
  <2>1. ~ServerWalks /\ ServerWalks' = ServerWalks
    BY <1>1, <1>2 DEF Standing, ServerWalks
  <2>2. QED
    BY <1>1, <1>2, <1>3, <1>6, <2>1 DEF Standing
<1>8. Tiled' /\ EndReached' /\ IngestCapped'
  BY <1>2, <1>3 DEF PagingInv, Tiled, EndReached, SaysAll, IngestCapped, Ingesting
<1>9. FlagsAgree'
  BY <1>1, <1>2 DEF FlagsAgree, Ingesting, Standing, ServerWalks
<1>10. Reads
  BY <1>2 DEF Reads, SaysAll, QueryFails, CountRows
<1>11. QED
  BY <1>5, <1>7, <1>8, <1>9, <1>10 DEF PagingInv

LEMMA AnswerFunnelKeeps ==
  ASSUME PagingInv, NEW m \in PageSizes, AnswerFunnel(m)
  PROVE  PagingInv' /\ Reads
<1> DEFINE n == FunnelLimit(m)
<1>1. /\ phase = "asking" /\ tool.kind = "funnel" /\ ArgumentsValid(m)
      /\ phase' = "done"
      /\ UNCHANGED <<tool, ask, first, source, changed, edits, window, total, pages, cursor>>
  BY DEF AnswerFunnel, given, world
<1>2. PICK rows \in UpstreamRows(0, n) :
        LET page == Window(rows, 0, n) IN
        /\ got' = page
        /\ verdict' = [Unanswered EXCEPT !.status = "ok",
                         !.truncated = Len(rows) > Len(page) \/ Len(page) >= n]
        /\ starved' = (starved \/ Withheld(0, n, page))
  BY DEF AnswerFunnel
<1>3. TypeOK /\ Standing /\ source \in Seq(Nat) /\ Len(source) \in Nat /\ starved \in BOOLEAN
  BY DEF PagingInv, TypeOK
<1>4. n \in Nat /\ Start = 0 /\ Start' = Start /\ ~tool.cursors
  BY <1>1, <1>3, Sizes, ToolFacts DEF Standing, Start, Or
<1> DEFINE page == Window(rows, 0, n)
<1>5. PieceAfter(source, 0, page) /\ Len(page) <= n
  BY <1>3, <1>4, ServedIsPiece, RecutIsPiece
<1>6. page \in Seq(Nat) /\ Len(page) \in Nat
  <2>1. page \in Seq(Nat)
    BY <1>5 DEF PieceAfter
  <2>2. QED
    BY <2>1
<1>7. /\ got' = page
      /\ verdict'.status = "ok" /\ (Len(page) >= n => verdict'.truncated)
      /\ verdict' \in [status : {"none", "ok", "refused", "limit", "failed"},
                       complete : BOOLEAN, truncated : BOOLEAN, hint : BOOLEAN]
      /\ starved' = (starved \/ Withheld(0, n, page))
  BY <1>2 DEF Unanswered
<1> HIDE DEF page, n
<1>8. TypeOK'
  BY <1>1, <1>3, <1>6, <1>7 DEF TypeOK, Withheld
<1>9. Standing'
  BY <1>1, <1>3 DEF Standing
<1>10. ~Ingesting'
  BY <1>1 DEF Ingesting
<1>11. Tiled'
  BY <1>1, <1>4, <1>5, <1>7 DEF Tiled
<1>12. ASSUME SaysAll', ~starved'
       PROVE  Start + Len(got') >= Len(source)
  <2>1. ~verdict'.truncated
    BY <1>1, <1>4, <1>10, <1>12 DEF SaysAll
  <2>2. Len(page) < n
    BY <1>4, <1>6, <1>7, <2>1
  <2>3. ~Withheld(0, n, page)
    BY <1>7, <1>12
  <2>4. /\ Len(Window(source, 0, n)) \in Nat
        /\ 0 + n <= Len(source) => Len(Window(source, 0, n)) = n
        /\ 0 + n >= Len(source) => 0 + Len(Window(source, 0, n)) >= Len(source)
    BY <1>3, <1>4, WindowShape
  <2>5. Len(page) >= Len(Window(source, 0, n))
    BY <1>1, <1>6, <2>3, <2>4 DEF Withheld
  <2>6. Len(page) >= Len(source)
    BY <1>3, <1>4, <1>6, <2>2, <2>4, <2>5
  <2>7. QED
    BY <1>1, <1>4, <1>6, <1>7, <2>6
<1>13. EndReached'
  BY <1>1, <1>4, <1>12 DEF EndReached
<1>14. Reads
  <2>1. got = <<>>
    BY <1>1, <1>3, <1>4 DEF Standing
  <2>2. Appends(page)
    BY <1>4, <1>5, <1>6, <1>7, <2>1 DEF Appends
  <2> QED
    BY <1>1, <1>12, <2>2 DEF Reads, ListEnd
<1>15. QED
  BY <1>8, <1>9, <1>10, <1>11, <1>13, <1>14 DEF PagingInv, IngestCapped, FlagsAgree

(* A page of an ingest begins where the pages before it end, and asks for no *)
(* more than the limit leaves.                                               *)
LEMMA IngestPageKeeps ==
  ASSUME PagingInv, IngestPage
  PROVE  PagingInv' /\ Reads
<1>1. /\ phase = "looping" /\ tool.kind = "ingest" /\ pages < MaxIngestPages
      /\ UNCHANGED <<tool, ask, first, source, changed, edits, window, cursor>>
  BY DEF IngestPage, given, world
<1>2. PICK page \in UpstreamRows(NextOffset, RequestLimit) : \E count \in RowCounts(page) :
        LET n == Greatest(total, count) IN
        /\ pages' = pages + 1 /\ total' = n
        /\ starved' = (starved \/ Untold(Or(ask.offset, 0) + Len(got \o page), n))
        /\ IF Len(got \o page) > MaxIngestRows
           THEN EndWalk("limit") /\ UNCHANGED got
           ELSE /\ got' = got \o page
                /\ \/ verdict' = IngestVerdict(got \o page, n) /\ phase' = "done"
                   \/ UNCHANGED <<verdict, phase>>
  BY DEF IngestPage
<1>2a. PICK count \in RowCounts(page) :
        LET n == Greatest(total, count) IN
        /\ pages' = pages + 1 /\ total' = n
        /\ starved' = (starved \/ Untold(Or(ask.offset, 0) + Len(got \o page), n))
        /\ IF Len(got \o page) > MaxIngestRows
           THEN EndWalk("limit") /\ UNCHANGED got
           ELSE /\ got' = got \o page
                /\ \/ verdict' = IngestVerdict(got \o page, n) /\ phase' = "done"
                   \/ UNCHANGED <<verdict, phase>>
  BY <1>2
<1> DEFINE n == Greatest(total, count)
<1>3. /\ TypeOK /\ Standing /\ starved \in BOOLEAN /\ source \in Seq(Nat) /\ Len(source) \in Nat
      /\ got \in Seq(Nat) /\ Len(got) \in Nat /\ total \in Nat /\ pages \in Nat
      /\ MaxIngestPages \in Nat /\ MaxIngestRows \in Nat
      /\ ask.limit \in Nat \/ ask.limit = None
  BY PagingAssumption DEF PagingInv, TypeOK, Argument
<1>4. /\ Start \in Nat /\ NextOffset = Start + Len(got) /\ Start' = Start
      /\ Ingesting /\ Ingesting' /\ ~tool.recut
  BY <1>1, <1>3, Sizes, ToolFacts DEF Standing, Start, Or, Ingesting
<1>5. /\ Len(got) <= MaxIngestRows
      /\ ask.limit # None => Len(got) <= ask.limit
  BY <1>4 DEF PagingInv, IngestCapped
<1>6. /\ RequestLimit \in Nat
      /\ ask.limit # None => RequestLimit <= ask.limit - Len(got)
  BY <1>3, <1>5, Sizes DEF RequestLimit, Least
<1>7. /\ PieceAfter(source, Start + Len(got), page) /\ Len(page) <= RequestLimit
      /\ page \in Seq(Nat) /\ Len(page) \in Nat
  <2>1. NextOffset \in Nat
    BY <1>3, <1>4
  <2>2. PieceAfter(source, NextOffset, page) /\ Len(page) <= RequestLimit
    BY <1>2, <1>3, <1>4, <1>6, <2>1, ServedIsPiece
  <2>3. QED
    BY <1>4, <2>2 DEF PieceAfter
<1>8. n \in Nat
  BY <1>3, <1>7, <1>2a DEF Greatest, RowCounts
<1> DEFINE rows == got \o page
<1>9. rows \in Seq(Nat) /\ Len(rows) = Len(got) + Len(page) /\ Len(rows) \in Nat
  BY <1>3, <1>7
<1>10. changed = {} => PieceAfter(source, Start, rows)
  BY <1>3, <1>4, <1>7, PiecesJoin DEF PagingInv, Tiled
<1>11. /\ pages' = pages + 1 /\ total' = n
       /\ starved' = (starved \/ Untold(Start + Len(rows), n)) /\ starved' \in BOOLEAN
       /\ \/ EndWalk("limit") /\ got' = got
          \/ /\ ~(Len(rows) > MaxIngestRows) /\ got' = rows
             /\ \/ verdict' = IngestVerdict(rows, n) /\ phase' = "done"
                \/ UNCHANGED <<verdict, phase>>
  BY <1>3, <1>2a DEF Start, Untold
<1> HIDE DEF n, rows
<1>12. CASE EndWalk("limit") /\ got' = got
  <2>1. /\ verdict' \in [status : {"none", "ok", "refused", "limit", "failed"},
                         complete : BOOLEAN, truncated : BOOLEAN, hint : BOOLEAN]
        /\ verdict'.status # "ok" /\ phase' = "done"
    BY <1>12 DEF EndWalk, Unanswered
  <2>2. TypeOK'
    BY <1>1, <1>3, <1>8, <1>11, <1>12, <2>1 DEF TypeOK
  <2>3. Standing'
    BY <1>1, <1>3, <2>1 DEF Standing
  <2>4. Tiled'
    BY <1>1, <1>4, <1>12 DEF PagingInv, Tiled
  <2>5. EndReached' /\ FlagsAgree'
    BY <2>1 DEF EndReached, SaysAll, FlagsAgree
  <2>6. IngestCapped'
    BY <1>1, <1>3, <1>5, <1>11, <1>12 DEF IngestCapped
  <2>7. Reads
    BY <1>1, <1>12, <2>1 DEF Reads, SaysAll
  <2>8. QED
    BY <2>2, <2>3, <2>4, <2>5, <2>6, <2>7 DEF PagingInv
<1>13. CASE /\ ~(Len(rows) > MaxIngestRows) /\ got' = rows
            /\ \/ verdict' = IngestVerdict(rows, n) /\ phase' = "done"
               \/ UNCHANGED <<verdict, phase>>
  <2> DEFINE all == Greatest(n, Len(rows))
             says == Exhausted(rows) \/ ReachedEnd(rows, all)
  <2>1. all \in Nat /\ all >= n /\ all >= Len(rows) /\ (n <= Len(rows) => all = Len(rows))
    BY <1>8, <1>9 DEF Greatest
  <2>2. ASSUME verdict' = IngestVerdict(rows, n), phase' = "done"
        PROVE  /\ SaysAll' /\ ~starved' => LimitMet' \/ Start + Len(got') >= ListEnd
               /\ EndReached' /\ FlagsAgree'
    <3>1. /\ verdict'.status = "ok" /\ verdict'.complete = says
          /\ verdict'.truncated = (all > Len(rows))
      BY <2>2 DEF IngestVerdict
    <3>2. ReachedEnd(rows, all) <=> Start + Len(rows) >= all
      BY DEF ReachedEnd, Start
    <3> HIDE DEF all
    <3>3. SaysAll' /\ ~starved' => LimitMet' \/ Start + Len(got') >= Len(source)
      <4> SUFFICES ASSUME SaysAll', ~starved', ~LimitMet'
                   PROVE  Start + Len(got') >= Len(source)
        OBVIOUS
      <4>1. says
        BY <1>4, <3>1 DEF SaysAll
      <4>2. ~Exhausted(rows)
        BY <1>1, <1>4, <1>13 DEF LimitMet, Exhausted
      <4>3. Start + Len(rows) >= all
        BY <3>2, <4>1, <4>2
      <4>4. Start + Len(rows) >= Len(source)
        <5>1. ~Untold(Start + Len(rows), n)
          BY <1>11
        <5>2. Start + Len(rows) >= n
          BY <1>4, <1>8, <1>9, <2>1, <4>3
        <5> QED
          BY <1>3, <1>4, <1>8, <1>9, <5>1, <5>2 DEF Untold
      <4>5. QED
        BY <1>1, <1>4, <1>13, <4>4
    <3>4. FlagsAgree'
      <4>1. /\ verdict'.complete <=> Exhausted(rows) \/ Start + Len(rows) >= all
            /\ verdict'.truncated <=> all > Len(rows)
        BY <3>1, <3>2
      <4>2. /\ ~(all > Len(rows)) => Start + Len(rows) >= all
            /\ Start = 0 /\ Start + Len(rows) >= all => ~(all > Len(rows))
        BY <1>4, <1>9, <2>1
      <4>3. ask.limit = None => ~Exhausted(rows)
        BY DEF Exhausted
      <4>4. QED
        BY <1>1, <1>4, <4>1, <4>2, <4>3 DEF FlagsAgree
    <3>5. ListEnd = Len(source)
      BY <1>1 DEF ListEnd
    <3>6. EndReached'
      BY <1>1, <1>4, <3>3 DEF EndReached
    <3>7. QED
      BY <3>3, <3>4, <3>5, <3>6
  <2>3. ASSUME UNCHANGED <<verdict, phase>>
        PROVE  ~SaysAll' /\ EndReached' /\ FlagsAgree'
    <3>1. EndReached'
      BY <1>1, <2>3 DEF EndReached, SaysAll
    <3>2. FlagsAgree'
      BY <1>1, <1>4, <2>3 DEF PagingInv, FlagsAgree, Ingesting
    <3>3. QED
      BY <1>1, <2>3, <3>1, <3>2 DEF SaysAll
  <2>4. /\ SaysAll' /\ ~starved' => LimitMet' \/ Start + Len(got') >= ListEnd
        /\ EndReached' /\ FlagsAgree'
        /\ phase' = "done" \/ phase' = phase
        /\ verdict' \in [status : {"none", "ok", "refused", "limit", "failed"},
                         complete : BOOLEAN, truncated : BOOLEAN, hint : BOOLEAN]
    <3>1. CASE verdict' = IngestVerdict(rows, n) /\ phase' = "done"
      <4>1. verdict' \in [status : {"none", "ok", "refused", "limit", "failed"},
                          complete : BOOLEAN, truncated : BOOLEAN, hint : BOOLEAN]
        BY <3>1 DEF IngestVerdict, Exhausted, ReachedEnd
      <4>2. QED
        BY <2>2, <3>1, <4>1
    <3>2. CASE UNCHANGED <<verdict, phase>>
      <4>1. verdict \in [status : {"none", "ok", "refused", "limit", "failed"},
                         complete : BOOLEAN, truncated : BOOLEAN, hint : BOOLEAN]
        BY <1>3 DEF TypeOK
      <4>2. QED
        BY <2>3, <3>2, <4>1
    <3>3. QED
      BY <1>13, <3>1, <3>2
  <2>5. TypeOK'
    BY <1>1, <1>3, <1>8, <1>9, <1>11, <1>13, <2>4 DEF TypeOK
  <2>6. Standing'
    BY <1>1, <1>3, <2>4 DEF Standing, ServerWalks
  <2>7. Tiled'
    BY <1>1, <1>4, <1>10, <1>13 DEF Tiled
  <2>8. IngestCapped'
    <3>1. Len(got') <= MaxIngestRows
      BY <1>3, <1>9, <1>13
    <3>2. ask'.limit # None => Len(got') <= ask'.limit
      BY <1>1, <1>3, <1>6, <1>7, <1>9, <1>13
    <3>3. pages' <= MaxIngestPages
      BY <1>1, <1>3, <1>11
    <3>4. QED
      BY <3>1, <3>2, <3>3 DEF IngestCapped
  <2>9. Reads
    <3>1. Appends(page)
      BY <1>7, <1>13 DEF Appends, rows
    <3> QED
      BY <1>1, <2>4, <3>1 DEF Reads
  <2>10. QED
    BY <2>4, <2>5, <2>6, <2>7, <2>8, <2>9 DEF PagingInv
<1>14. QED
  BY <1>11, <1>12, <1>13

LEMMA IngestOnceKeeps ==
  ASSUME PagingInv, IngestOnce
  PROVE  PagingInv' /\ Reads
<1>1. /\ phase = "looping" /\ tool.kind = "ingest_once" /\ ArgumentsValid(ask.maxRows)
      /\ phase' = "done"
      /\ UNCHANGED <<tool, ask, first, source, changed, edits, window, total, pages, cursor>>
  BY DEF IngestOnce, EndWalk, given, world
<1>2. PICK page \in UpstreamRows(0, IngestPageSize) : \E count \in RowCounts(page) :
        /\ starved' = (starved \/ Untold(Len(page), count))
        /\ IF Len(page) > MaxIngestRows
           THEN EndWalk("limit") /\ UNCHANGED got
           ELSE /\ got' = page
                /\ verdict' = [status |-> "ok", complete |-> Len(page) >= count,
                               truncated |-> count > Len(page), hint |-> FALSE]
  BY DEF IngestOnce
<1>2a. PICK count \in RowCounts(page) :
        /\ starved' = (starved \/ Untold(Len(page), count))
        /\ IF Len(page) > MaxIngestRows
           THEN EndWalk("limit") /\ UNCHANGED got
           ELSE /\ got' = page
                /\ verdict' = [status |-> "ok", complete |-> Len(page) >= count,
                               truncated |-> count > Len(page), hint |-> FALSE]
  BY <1>2
<1>3. /\ TypeOK /\ Standing /\ source \in Seq(Nat) /\ Len(source) \in Nat /\ pages \in Nat /\ starved \in BOOLEAN
      /\ MaxPage \in Nat /\ MaxIngestRows \in Nat
      /\ ask.limit \in Nat \/ ask.limit = None
      /\ ask.maxRows \in Nat \/ ask.maxRows = None
  BY PagingAssumption DEF PagingInv, TypeOK, Argument
<1>4. Start = 0 /\ Start' = Start /\ Ingesting /\ Ingesting' /\ ~tool.recut /\ IngestPageSize \in Nat
  BY <1>1, <1>3, Sizes, ToolFacts
    DEF Standing, ArgumentsValid, RealtimeValid, Start, Or, Ingesting
<1>5. PieceAfter(source, 0, page) /\ Len(page) <= IngestPageSize
  BY <1>3, <1>4, ServedIsPiece
<1>6. page \in Seq(Nat) /\ Len(page) \in Nat
  <2>1. page \in Seq(Nat)
    BY <1>5 DEF PieceAfter
  <2>2. QED
    BY <2>1
<1>6a. count \in Nat /\ starved' \in BOOLEAN
  BY <1>3, <1>6, <1>2a DEF RowCounts, Untold
<1>7. ask.limit # None => IngestPageSize <= ask.limit
  BY <1>3 DEF IngestPageSize, Capped, Least, Or
<1>8. CASE Len(page) > MaxIngestRows
  <2>1. EndWalk("limit") /\ UNCHANGED got
    BY <1>8, <1>2a
  <2>2. \E status \in {"refused", "limit", "failed"} :
           verdict' = [Unanswered EXCEPT !.status = status]
    BY <2>1 DEF EndWalk
  <2>3. QED
    BY <1>1, <1>6a, <2>1, <2>2, RefusalKeeps
<1>9. CASE ~(Len(page) > MaxIngestRows)
  <2> DEFINE complete == Len(page) >= count
             truncated == count > Len(page)
  <2>1. /\ got' = page
        /\ verdict'.status = "ok" /\ verdict'.complete = complete
        /\ verdict'.truncated = truncated
        /\ verdict' \in [status : {"none", "ok", "refused", "limit", "failed"},
                         complete : BOOLEAN, truncated : BOOLEAN, hint : BOOLEAN]
    <3>1. /\ got' = page
          /\ verdict' = [status |-> "ok", complete |-> complete,
                         truncated |-> truncated, hint |-> FALSE]
      BY <1>9, <1>2a
    <3>2. complete \in BOOLEAN /\ truncated \in BOOLEAN
      OBVIOUS
    <3> HIDE DEF complete, truncated
    <3>3. QED
      BY <3>1, <3>2
  <2>2. TypeOK'
    BY <1>1, <1>3, <1>6, <1>6a, <2>1 DEF TypeOK
  <2>3. Standing'
    BY <1>1, <1>3 DEF Standing
  <2>4. Tiled'
    BY <1>1, <1>4, <1>5, <2>1 DEF Tiled
  <2>5. SaysAll' /\ ~starved' => Start + Len(got') >= Len(source)
    BY <1>3, <1>4, <1>6, <1>6a, <1>2a, <2>1 DEF SaysAll, Untold
  <2>6. FlagsAgree'
    BY <1>6, <1>6a, <2>1 DEF FlagsAgree
  <2>7. IngestCapped'
    <3>1. Len(got') <= MaxIngestRows
      BY <1>3, <1>6, <1>9, <2>1
    <3>2. ask'.limit # None => Len(got') <= ask'.limit
      BY <1>1, <1>3, <1>4, <1>5, <1>6, <1>7, <2>1
    <3>3. pages' <= MaxIngestPages
      BY <1>1, <1>4 DEF PagingInv, IngestCapped
    <3>4. QED
      BY <3>1, <3>2, <3>3 DEF IngestCapped
  <2>8. EndReached'
    BY <1>1, <1>4, <2>5 DEF EndReached
  <2>9. Reads
    <3>1. got = <<>>
      BY <1>1, <1>3 DEF Standing
    <3>2. Appends(page)
      BY <1>4, <1>5, <1>6, <2>1, <3>1 DEF Appends
    <3> QED
      BY <1>1, <2>5, <3>2 DEF Reads, ListEnd
  <2>10. QED
    BY <2>2, <2>3, <2>4, <2>6, <2>7, <2>8, <2>9 DEF PagingInv
<1>10. QED
  BY <1>8, <1>9

(* A listing says that it is all only with the page that carries no token.   *)
LEMMA ListPageKeeps ==
  ASSUME PagingInv, ListPage
  PROVE  PagingInv' /\ Reads
<1>1. /\ phase = "looping" /\ tool.kind = "list"
      /\ UNCHANGED <<tool, ask, first, source, changed, edits, starved, window, total>>
  BY DEF ListPage, given, world
<1>2. PICK page \in UpstreamRows(Len(got), ListPageSize), token \in BOOLEAN :
        /\ token \/ Len(got) + Len(page) >= Len(source)
        /\ got' = got \o page
        /\ cursor' = IF token THEN Len(got) + Len(page) ELSE None
        /\ pages' = pages + 1
        /\ EndWalk("ok") \/ UNCHANGED <<verdict, phase>>
  BY DEF ListPage
<1>3. /\ TypeOK /\ Standing /\ source \in Seq(Nat) /\ Len(source) \in Nat
      /\ got \in Seq(Nat) /\ Len(got) \in Nat /\ pages \in Nat
  BY DEF PagingInv, TypeOK
<1>4. /\ Start = 0 /\ Start' = 0 /\ ListPageSize \in Nat
      /\ tool.cursors /\ ~Ingesting /\ ~Ingesting'
  BY <1>1, <1>3, Sizes, ToolFacts DEF Standing, Start, Or, Ingesting
<1>5. PieceAfter(source, Len(got), page)
  BY <1>3, <1>4, ServedIsPiece
<1>6. page \in Seq(Nat) /\ Len(page) \in Nat
  <2>1. page \in Seq(Nat)
    BY <1>5 DEF PieceAfter
  <2>2. QED
    BY <2>1
<1>7. got \o page \in Seq(Nat) /\ Len(got \o page) = Len(got) + Len(page)
  BY <1>3, <1>6
<1>8. /\ verdict' \in [status : {"none", "ok", "refused", "limit", "failed"},
                       complete : BOOLEAN, truncated : BOOLEAN, hint : BOOLEAN]
      /\ phase' = "done" \/ phase' = phase
  <2>1. CASE EndWalk("ok")
    BY <2>1 DEF EndWalk, Unanswered
  <2>2. CASE UNCHANGED <<verdict, phase>>
    BY <1>3, <2>2 DEF TypeOK
  <2>3. QED
    BY <1>2, <2>1, <2>2
<1>9. cursor' \in Argument /\ (cursor' = None => Len(got) + Len(page) >= Len(source))
  BY <1>2, <1>3, <1>6, PagingAssumption DEF Argument
<1>10. TypeOK'
  BY <1>1, <1>2, <1>3, <1>7, <1>8, <1>9 DEF TypeOK
<1>11. Standing'
  BY <1>1, <1>3, <1>8 DEF Standing, ServerWalks
<1>12. Tiled'
  <2> SUFFICES ASSUME changed' = {}
               PROVE  PieceAfter(source', Start', got')
    BY DEF Tiled
  <2>1. PieceAfter(source, 0, got)
    BY <1>1, <1>4 DEF PagingInv, Tiled
  <2>2. 0 + Len(got) = Len(got)
    BY <1>3
  <2>3. PieceAfter(source, 0, got \o page)
    BY <1>3, <1>5, <2>1, <2>2, PiecesJoin
  <2>4. QED
    BY <1>1, <1>2, <1>4, <2>3
<1>13. SaysAll' => Start + Len(got') >= Len(source)
  BY <1>1, <1>2, <1>3, <1>4, <1>6, <1>7, <1>9 DEF SaysAll
<1>14. EndReached'
  BY <1>1, <1>4, <1>13 DEF EndReached
<1>15. Reads
  <2>1. 0 + Len(got) = Len(got)
    BY <1>3
  <2>2. Appends(page)
    BY <1>2, <1>4, <1>5, <2>1 DEF Appends
  <2> QED
    BY <1>1, <1>8, <1>13, <2>2 DEF Reads, ListEnd
<1>16. QED
  BY <1>4, <1>10, <1>11, <1>12, <1>14, <1>15 DEF PagingInv, IngestCapped, FlagsAgree

(* Once the source has changed, nothing is claimed of it.                    *)
LEMMA SourceChangesKeep ==
  ASSUME PagingInv, SourceChanges
  PROVE  PagingInv'
<1>1. TypeOK /\ Standing /\ source \in Seq(Nat) /\ NewRow \in Nat
  BY DEF PagingInv, TypeOK, NewRow
<1>2. /\ phase # "done"
      /\ UNCHANGED <<tool, ask, first, starved, phase, window, got, total, pages, cursor, verdict>>
      /\ edits' = edits + 1
      /\ source' \in Seq(Nat)
      /\ changed' # {} /\ changed' \subseteq {"grew", "shrank", "shifted"}
  <2> USE DEF Edit, given, walk, TypeOK
  <2>1. CASE Edit(Append(source, NewRow), "grew")
    BY <1>1, <2>1
  <2>2. CASE source # <<>> /\ Edit(SubSeq(source, 1, Len(source) - 1), "shrank")
    <3>1. SubSeq(source, 1, Len(source) - 1) \in Seq(Nat)
      BY <1>1, <2>2
    <3>2. QED
      BY <1>1, <2>2, <3>1
  <2>3. CASE source # <<>> /\ Edit(Tail(source), "shifted")
    BY <1>1, <2>3
  <2>4. CASE Edit(<<NewRow>> \o source, "shifted")
    BY <1>1, <2>4
  <2>5. QED
    BY <2>1, <2>2, <2>3, <2>4 DEF SourceChanges
<1>3. TypeOK'
  BY <1>1, <1>2 DEF TypeOK
<1>4. Start' = Start /\ PageOffset' = PageOffset
  BY <1>2 DEF Start, PageOffset, Or
<1>5. Standing'
  BY <1>1, <1>2, <1>4 DEF Standing, ServerWalks
<1>6. Tiled' /\ EndReached'
  BY <1>2 DEF Tiled, EndReached
<1>7. IngestCapped' /\ FlagsAgree'
  BY <1>2, <1>4 DEF PagingInv, IngestCapped, FlagsAgree, Ingesting
<1>8. QED
  BY <1>3, <1>5, <1>6, <1>7 DEF PagingInv

LEMMA StutterPaging ==
  ASSUME PagingInv, UNCHANGED vars
  PROVE  PagingInv'
<1>1. UNCHANGED <<tool, ask, first, source, changed, edits, starved, phase, window, got,
                  total, pages, cursor, verdict>>
  BY DEF vars, given, world, walk
<1>2. Start' = Start /\ PageOffset' = PageOffset
  BY <1>1 DEF Start, PageOffset, Or
<1>3. TypeOK' /\ Standing'
  BY <1>1, <1>2 DEF PagingInv, TypeOK, Standing, ServerWalks
<1>4. QED
  BY <1>1, <1>2, <1>3
    DEF PagingInv, Tiled, EndReached, SaysAll, LimitMet, Exhausted, IngestCapped, FlagsAgree, Ingesting

(* What a step does: it reads, the source changes, or nothing does.          *)
LEMMA NextReads ==
  ASSUME PagingInv, [Next]_vars
  PROVE  PagingInv' /\ (Reads \/ SourceChanges \/ UNCHANGED vars)
<1>1. ASSUME NEW m \in PageSizes, Refuse(m) PROVE PagingInv' /\ Reads
  <2>1. \E status \in {"refused", "limit", "failed"} :
           verdict' = [Unanswered EXCEPT !.status = status]
    BY <1>1 DEF Refuse
  <2>2. QED
    BY <1>1, <2>1, RefusalKeeps DEF Refuse, given, world
<1>2. ASSUME RefuseIngest \/ IngestFails \/ ListFails PROVE PagingInv' /\ Reads
  <2>1. \E status \in {"refused", "limit", "failed"} :
           verdict' = [Unanswered EXCEPT !.status = status]
    BY <1>2 DEF RefuseIngest, IngestFails, ListFails, EndWalk
  <2>2. QED
    BY <1>2, <2>1, RefusalKeeps DEF RefuseIngest, IngestFails, ListFails, EndWalk, given, world
<1>3. ASSUME NEW m \in PageSizes, AnswerPage(m) PROVE PagingInv' /\ Reads
  BY <1>3, AnswerPageKeeps
<1>4. ASSUME NEW m \in PageSizes, AnswerFunnel(m) PROVE PagingInv' /\ Reads
  BY <1>4, AnswerFunnelKeeps
<1>5. ASSUME NEW m \in PageSizes, CountRows(m) PROVE PagingInv' /\ Reads
  BY <1>5, QueryStepsKeep
<1>6. ASSUME NEW m \in PageSizes, AnswerWhole(m) PROVE PagingInv' /\ Reads
  BY <1>6, AnswerWholeKeeps
<1>7. CASE ClientStep
  BY <1>1, <1>3, <1>4, <1>5, <1>6, <1>7 DEF ClientStep
<1>8. CASE ServerStep
  BY <1>2, <1>8, FetchPageKeeps, QueryStepsKeep, IngestPageKeeps, IngestOnceKeeps,
     ListPageKeeps DEF ServerStep
<1>9. CASE SourceChanges
  BY <1>9, SourceChangesKeep
<1>10. CASE Done \/ UNCHANGED vars
  BY <1>10, StutterPaging DEF Done
<1>11. QED
  BY <1>7, <1>8, <1>9, <1>10 DEF Next

LEMMA NextPaging == PagingInv /\ [Next]_vars => PagingInv'
BY NextReads

-------------------------------------------------------------------------------
(***************************************************************************)
(* Rows of a source that changes at its end only.                          *)
(***************************************************************************)

(* Row i of the beginning stands where it stood.                             *)
Still(i) == i <= Len(source) /\ source[i] = i

(* Each row of the source is another one, and none but the first rows has a  *)
(* number up to "first".                                                     *)
RowsStay ==
  "shifted" \notin changed =>
    /\ \A i, j \in 1..Len(source) : source[i] = source[j] => i = j
    /\ \A i \in 1..Len(source) :
         source[i] <= first + edits /\ (source[i] <= first => source[i] = i)

(* What was delivered was read at its place, and the row there may have gone *)
(* since, but it is nowhere else.                                            *)
RowsTaken ==
  "shifted" \notin changed =>
    /\ \A j \in 1..Len(got) : got[j] <= first + edits
    /\ \A j \in 1..Len(got), i \in 1..Len(source) : source[i] = got[j] => i = Start + j
    /\ \A i, j \in 1..Len(got) : got[i] = got[j] => i = j
    /\ \A j \in 1..Len(got) : Start + j <= first /\ Still(Start + j) => got[j] = Start + j

(* The first rows that are still there were counted, and are behind a walk   *)
(* that says it has read everything.                                         *)
RowsCounted ==
  phase = "counted" /\ "shifted" \notin changed =>
    \A i \in 1..first : Still(i) => i <= total

RowsBehind ==
  SaysAll /\ ~starved /\ "shifted" \notin changed =>
    LimitMet \/ \A i \in 1..first : Still(i) => i <= Start + Len(got)

RowInv == RowsStay /\ RowsTaken /\ RowsCounted /\ RowsBehind

LEMMA RowFacts ==
  ASSUME TypeOK
  PROVE  /\ source \in Seq(Nat) /\ Len(source) \in Nat
         /\ got \in Seq(Nat) /\ Len(got) \in Nat
         /\ \A i \in 1..Len(source) : source[i] \in Nat
         /\ \A i \in 1..Len(got) : got[i] \in Nat
         /\ first \in Nat /\ edits \in Nat /\ Start \in Nat
<1>1. /\ source \in Seq(Nat) /\ got \in Seq(Nat)
      /\ first \in Nat /\ edits \in Nat
  BY DEF TypeOK
<1>2. \A s \in Seq(Nat) : Len(s) \in Nat /\ \A i \in 1..Len(s) : s[i] \in Nat
  OBVIOUS
<1>3. Start \in Nat
  BY Sizes
<1> QED
  BY <1>1, <1>2, <1>3

LEMMA InitRows == Init => RowInv
<1> SUFFICES ASSUME Init PROVE RowInv
  OBVIOUS
<1>1. /\ source = [i \in 1..first |-> i] /\ first \in Nat /\ edits = 0 /\ got = <<>>
      /\ phase # "counted" /\ phase # "done"
  BY PagingAssumption DEF Init
<1>2. Len(source) = first /\ Len(got) = 0 /\ \A i \in 1..first : source[i] = i
  BY <1>1
<1>3. RowsStay
  BY <1>1, <1>2 DEF RowsStay
<1>4. RowsTaken
  BY <1>2 DEF RowsTaken
<1>5. QED
  BY <1>1, <1>3, <1>4 DEF RowInv, RowsCounted, RowsBehind, SaysAll

(* The rows of the next page are the ones that stand behind those delivered. *)
LEMMA AppendedRows ==
  ASSUME TypeOK, NEW page, Appends(page)
  PROVE  /\ Len(got') \in Nat /\ Len(got') >= Len(got)
         /\ \A j \in 1..Len(got) : got'[j] = got[j]
         /\ \A j \in Len(got) + 1 .. Len(got') :
              Start + j \in 1..Len(source) /\ got'[j] = source[Start + j]
<1> DEFINE off == Start + Len(got)
<1>1. /\ source \in Seq(Nat) /\ Len(source) \in Nat
      /\ got \in Seq(Nat) /\ Len(got) \in Nat /\ Start \in Nat /\ off \in Nat
  BY RowFacts
<1>2. /\ page \in Seq(Nat) /\ Len(page) \in Nat /\ got' = got \o page
      /\ page = SubSeq(source, off + 1, off + Len(page))
      /\ page # <<>> => off + Len(page) <= Len(source)
  BY DEF Appends, PieceAfter
<1>3. Len(got') = Len(got) + Len(page)
  BY <1>1, <1>2
<1>4. \A j \in 1..Len(got) : got'[j] = got[j]
  BY <1>1, <1>2
<1>5. ASSUME NEW j \in Len(got) + 1 .. Len(got')
      PROVE  Start + j \in 1..Len(source) /\ got'[j] = source[Start + j]
  <2> DEFINE k == j - Len(got)
  <2>1. k \in 1..Len(page) /\ j = Len(got) + k /\ Len(page) >= 1
    BY <1>1, <1>2, <1>3
  <2>2. off + Len(page) <= Len(source)
    BY <1>2, <2>1
  <2>3. got'[j] = page[k]
    BY <1>1, <1>2, <2>1
  <2>4. page[k] = source[off + k]
    <3> DEFINE a == off + 1
               e == off + Len(page)
    <3>1. /\ a \in 1..Len(source) + 1 /\ e \in 1..Len(source)
          /\ e - a + 1 = Len(page) /\ a + k - 1 = off + k /\ k \in 1..e - a + 1
      BY <1>1, <1>2, <2>1, <2>2
    <3>2. \A i \in a..e : source[i] \in Nat
      BY <1>1, <3>1, ElementOfSeq
    <3> HIDE DEF a, e, k, off
    <3>3. SubSeq(source, a, e)[k] = source[a + k - 1]
      BY <1>1, <3>1, <3>2, SubSeqProperties
    <3>4. page = SubSeq(source, a, e)
      BY <1>2 DEF a, e
    <3>5. QED
      BY <3>1, <3>3, <3>4
  <2>5. off + k = Start + j /\ Start + j \in 1..Len(source)
    BY <1>1, <1>2, <2>1, <2>2
  <2>6. QED
    BY <2>3, <2>4, <2>5
<1>6. QED
  BY <1>1, <1>2, <1>3, <1>4, <1>5

(* Reading does not touch the source: what is read new stands behind what    *)
(* was read before.                                                          *)
LEMMA ReadsKeepRows ==
  ASSUME PagingInv, RowInv, Reads
  PROVE  RowInv'
<1>1. /\ TypeOK /\ phase # "done"
      /\ UNCHANGED <<tool, ask, first, source, changed, edits>>
      /\ got' = got \/ \E page : Appends(page)
      /\ phase' = "counted" => total' = Len(source)
      /\ SaysAll' /\ ~starved' => LimitMet' \/ Start + Len(got') >= ListEnd
  BY DEF PagingInv, Reads
<1>2. Start' = Start
  BY <1>1 DEF Start, Or
<1>3. /\ source \in Seq(Nat) /\ Len(source) \in Nat /\ Len(got) \in Nat
      /\ \A i \in 1..Len(source) : source[i] \in Nat
      /\ \A i \in 1..Len(got) : got[i] \in Nat
      /\ first \in Nat /\ edits \in Nat /\ Start \in Nat
  BY <1>1, RowFacts
<1>4. RowsStay'
  BY <1>1 DEF RowInv, RowsStay
<1>5. RowsTaken'
  <2>1. CASE got' = got
    BY <1>1, <1>2, <2>1 DEF RowInv, RowsTaken, Still
  <2>2. CASE \E page : Appends(page)
    <3> SUFFICES ASSUME "shifted" \notin changed
                 PROVE  RowsTaken'
      BY <1>1 DEF RowsTaken
    <3>1. /\ Len(got') \in Nat /\ Len(got') >= Len(got)
          /\ \A j \in 1..Len(got) : got'[j] = got[j]
          /\ \A j \in Len(got) + 1 .. Len(got') :
               Start + j \in 1..Len(source) /\ got'[j] = source[Start + j]
      BY <1>1, <2>2, AppendedRows
    <3>2. /\ \A i, j \in 1..Len(source) : source[i] = source[j] => i = j
          /\ \A i \in 1..Len(source) : source[i] <= first + edits
      BY DEF RowInv, RowsStay
    <3>3. /\ \A j \in 1..Len(got) : got[j] <= first + edits
          /\ \A j \in 1..Len(got), i \in 1..Len(source) : source[i] = got[j] => i = Start + j
          /\ \A i, j \in 1..Len(got) : got[i] = got[j] => i = j
          /\ \A j \in 1..Len(got) :
               Start + j <= first /\ Still(Start + j) => got[j] = Start + j
      BY DEF RowInv, RowsTaken
    <3>0. ASSUME NEW j \in 1..Len(got'), ~(j <= Len(got))
          PROVE  Start + j \in 1..Len(source) /\ got'[j] = source[Start + j]
      <4>1. j \in Len(got) + 1 .. Len(got')
        BY <1>3, <3>0, <3>1
      <4> QED
        BY <3>1, <4>1
    <3>i. \A j \in 1..Len(got') : j \in Nat /\ (j <= Len(got) => j \in 1..Len(got))
      BY <1>3, <3>1
    <3>4. ASSUME NEW j \in 1..Len(got')
          PROVE  got'[j] <= first + edits
      <4>1. CASE j <= Len(got)
        BY <3>1, <3>3, <3>i, <4>1
      <4>2. CASE ~(j <= Len(got))
        BY <3>0, <3>2, <4>2
      <4> QED
        BY <4>1, <4>2
    <3>5. ASSUME NEW j \in 1..Len(got'), NEW i \in 1..Len(source), source[i] = got'[j]
          PROVE  i = Start + j
      <4>1. CASE j <= Len(got)
        BY <3>1, <3>3, <3>5, <3>i, <4>1
      <4>2. CASE ~(j <= Len(got))
        BY <3>0, <3>2, <3>5, <4>2
      <4> QED
        BY <4>1, <4>2
    <3>6. ASSUME NEW i \in 1..Len(got'), NEW j \in 1..Len(got'), got'[i] = got'[j]
          PROVE  i = j
      <4>0. Start \in Nat /\ i \in Nat /\ j \in Nat
        BY <1>3, <3>i
      <4>1. CASE i <= Len(got) /\ j <= Len(got)
        BY <3>1, <3>3, <3>6, <3>i, <4>1
      <4>2. CASE ~(i <= Len(got))
        <5>1. Start + i = Start + j
          BY <3>0, <3>5, <3>6, <4>2
        <5> QED
          BY <4>0, <5>1
      <4>3. CASE ~(j <= Len(got))
        <5>1. Start + j = Start + i
          BY <3>0, <3>5, <3>6, <4>3
        <5> QED
          BY <4>0, <5>1
      <4>4. QED
        BY <4>1, <4>2, <4>3
    <3>7. ASSUME NEW j \in 1..Len(got'), Start + j <= first, Still(Start + j)
          PROVE  got'[j] = Start + j
      <4>1. CASE j <= Len(got)
        BY <3>1, <3>3, <3>7, <3>i, <4>1
      <4>2. CASE ~(j <= Len(got))
        <5>1. Start + j \in 1..Len(source) /\ got'[j] = source[Start + j]
          BY <3>0, <4>2
        <5>2. source[Start + j] = Start + j
          BY <3>7 DEF Still
        <5> QED
          BY <5>1, <5>2
      <4> QED
        BY <4>1, <4>2
    <3>8. \A i : Still(i)' <=> Still(i)
      BY <1>1 DEF Still
    <3>9. QED
      BY <1>1, <1>2, <3>4, <3>5, <3>6, <3>7, <3>8 DEF RowsTaken
  <2>3. QED
    BY <1>1, <2>1, <2>2
<1>6. RowsCounted'
  BY <1>1, <1>3 DEF RowsCounted, Still
<1>7. RowsBehind'
  <2> SUFFICES ASSUME SaysAll', ~starved', "shifted" \notin changed, ~LimitMet',
                      NEW i \in 1..first, Still(i)
               PROVE  i <= Start + Len(got')
    BY <1>1, <1>2 DEF RowsBehind, Still
  <2>1. Start + Len(got') >= ListEnd
    BY <1>1
  <2>2. i <= ListEnd
    BY DEF RowInv, RowsCounted, ListEnd, Still
  <2>3. Len(got') \in Nat /\ ListEnd \in Nat
    BY <1>1, <1>3, AppendedRows DEF ListEnd, TypeOK
  <2>4. QED
    BY <1>3, <2>1, <2>2, <2>3
<1>8. QED
  BY <1>4, <1>5, <1>6, <1>7 DEF RowInv

(* An edit at the end adds a row that was never there or takes the last one. *)
LEMMA EditsKeepRows ==
  ASSUME PagingInv, RowInv, SourceChanges
  PROVE  RowInv'
<1>1. TypeOK
  BY DEF PagingInv
<1>2. /\ source \in Seq(Nat) /\ Len(source) \in Nat /\ Len(got) \in Nat
      /\ \A i \in 1..Len(source) : source[i] \in Nat
      /\ \A i \in 1..Len(got) : got[i] \in Nat
      /\ first \in Nat /\ edits \in Nat /\ Start \in Nat
  BY <1>1, RowFacts
<1>3. /\ phase # "done" /\ edits' = edits + 1
      /\ UNCHANGED <<tool, ask, first, starved, phase, window, got, total, pages, cursor, verdict>>
  BY DEF SourceChanges, Edit, given, walk
<1>4. Start' = Start
  BY <1>3 DEF Start, Or
<1>5. RowsBehind'
  BY <1>3 DEF RowsBehind, SaysAll
<1>6. CASE "shifted" \in changed'
  BY <1>5, <1>6 DEF RowInv, RowsStay, RowsTaken, RowsCounted
<1>7. CASE "shifted" \notin changed'
  <2>1. /\ "shifted" \notin changed
        /\ \/ source' = Append(source, NewRow)
           \/ source # <<>> /\ source' = SubSeq(source, 1, Len(source) - 1)
    BY <1>7 DEF SourceChanges, Edit
  <2>2. /\ Len(source') \in Nat /\ NewRow = first + edits + 1
        /\ \A i \in 1..Len(source') :
             \/ i \in 1..Len(source) /\ source'[i] = source[i]
             \/ i = Len(source) + 1 /\ source'[i] = NewRow
    <3>1. NewRow = first + edits + 1 /\ NewRow \in Nat
      BY <1>2 DEF NewRow
    <3>2. CASE source' = Append(source, NewRow)
      <4>1. Len(source') = Len(source) + 1 /\ source'[Len(source) + 1] = NewRow
        BY <1>2, <3>1, <3>2
      <4>2. \A i \in 1..Len(source) : source'[i] = source[i]
        BY <1>2, <3>1, <3>2
      <4> QED
        BY <1>2, <3>1, <4>1, <4>2
    <3>3. CASE source # <<>> /\ source' = SubSeq(source, 1, Len(source) - 1)
      <4>1. Len(source) - 1 \in Nat
        BY <1>2, <3>3
      <4>2. \A i \in 1..Len(source) - 1 : source[i] \in Nat
        BY <1>2, <4>1
      <4>3. Len(source') = Len(source) - 1 /\ \A i \in 1..Len(source) - 1 : source'[i] = source[i]
        <5> DEFINE e == Len(source) - 1
        <5>1. /\ 1 <= e => Len(SubSeq(source, 1, e)) = e - 1 + 1
              /\ ~(1 <= e) => Len(SubSeq(source, 1, e)) = 0
              /\ \A i \in 1..e - 1 + 1 : SubSeq(source, 1, e)[i] = source[1 + i - 1]
          BY <1>2, <4>1, <4>2, SubSeqProperties
        <5>2. e \in Nat /\ source' = SubSeq(source, 1, e)
          BY <3>3, <4>1
        <5> HIDE DEF e
        <5>3. Len(source') = e
          BY <5>1, <5>2
        <5>4. ASSUME NEW i \in 1..e PROVE source'[i] = source[i]
          <6>1. i \in 1..e - 1 + 1 /\ 1 + i - 1 = i
            BY <5>2
          <6> QED
            BY <5>1, <5>2, <6>1
        <5> QED
          BY <5>3, <5>4 DEF e
      <4> QED
        BY <1>2, <3>1, <4>1, <4>3
    <3> QED
      BY <2>1, <3>2, <3>3
  <2>3. \A i \in 1..first : Still(i)' => Still(i)
    BY <1>2, <2>2 DEF Still
  <2>4. /\ \A i, j \in 1..Len(source) : source[i] = source[j] => i = j
        /\ \A i \in 1..Len(source) :
             source[i] <= first + edits /\ (source[i] <= first => source[i] = i)
    BY <2>1 DEF RowInv, RowsStay
  <2>5. RowsStay'
    <3>1. \A i, j \in 1..Len(source') : source'[i] = source'[j] => i = j
      BY <1>2, <2>2, <2>4
    <3>2. \A i \in 1..Len(source') :
            source'[i] <= first + edits' /\ (source'[i] <= first => source'[i] = i)
      <4> SUFFICES ASSUME NEW i \in 1..Len(source')
                   PROVE  /\ source'[i] <= first + edits'
                          /\ source'[i] <= first => source'[i] = i
        OBVIOUS
      <4>1. CASE i \in 1..Len(source) /\ source'[i] = source[i]
        <5>1. source[i] \in Nat /\ source[i] <= first + edits
              /\ (source[i] <= first => source[i] = i)
          BY <1>2, <2>4, <4>1
        <5> QED
          BY <1>2, <1>3, <4>1, <5>1
      <4>2. CASE source'[i] = NewRow
        BY <1>2, <1>3, <2>2, <4>2
      <4> QED
        BY <2>2, <4>1, <4>2
    <3> QED
      BY <1>3, <3>1, <3>2 DEF RowsStay
  <2>6. /\ \A j \in 1..Len(got) : got[j] <= first + edits
        /\ \A j \in 1..Len(got), i \in 1..Len(source) : source[i] = got[j] => i = Start + j
        /\ \A i, j \in 1..Len(got) : got[i] = got[j] => i = j
        /\ \A j \in 1..Len(got) :
             Start + j <= first /\ Still(Start + j) => got[j] = Start + j
    BY <2>1 DEF RowInv, RowsTaken
  <2>7. RowsTaken'
    <3>1. \A j \in 1..Len(got) : got[j] <= first + edits'
      BY <1>2, <1>3, <2>6
    <3>2. \A j \in 1..Len(got), i \in 1..Len(source') : source'[i] = got[j] => i = Start + j
      BY <1>2, <2>2, <2>6
    <3>3. \A j \in 1..Len(got) :
            Start + j <= first /\ Still(Start + j)' => got[j] = Start + j
      <4> SUFFICES ASSUME NEW j \in 1..Len(got), Start + j <= first, Still(Start + j)'
                   PROVE  got[j] = Start + j
        OBVIOUS
      <4>1. Start + j \in 1..first
        BY <1>2
      <4>2. Still(Start + j)
        BY <1>4, <2>3, <4>1
      <4> QED
        BY <2>6, <4>2
    <3> QED
      BY <1>3, <1>4, <2>6, <3>1, <3>2, <3>3 DEF RowsTaken, Still
  <2>8. RowsCounted'
    BY <1>3, <2>1, <2>3 DEF RowInv, RowsCounted, Still
  <2>9. QED
    BY <1>5, <2>5, <2>7, <2>8 DEF RowInv
<1>8. QED
  BY <1>6, <1>7

LEMMA StutterRows ==
  ASSUME RowInv, UNCHANGED vars
  PROVE  RowInv'
BY DEF vars, given, world, walk, RowInv, RowsStay, RowsTaken, RowsCounted, RowsBehind,
  SaysAll, LimitMet, Exhausted, Ingesting, Still, Start, Or

LEMMA NextRows == PagingInv /\ RowInv /\ [Next]_vars => RowInv'
BY NextReads, ReadsKeepRows, EditsKeepRows, StutterRows

-------------------------------------------------------------------------------
(***************************************************************************)
(* Cursors that lead on.                                                   *)
(***************************************************************************)

(* Between the two statements of a query its cursor is the old one: it must  *)
(* be ahead of the beginning, should the second statement fail.              *)
CursorInv ==
  /\ CursorAdvances
  /\ phase = "counted" =>
       /\ window.size >= 1
       /\ changed \subseteq {"grew"} => total <= Len(source) /\ (cursor # None => cursor > 0)

LEMMA InitCursor == Init => CursorInv
BY DEF Init, CursorInv, CursorAdvances

LEMMA CountKeepsCursor ==
  ASSUME PagingInv, CursorInv, NEW m \in PageSizes, CountRows(m)
  PROVE  CursorInv'
<1>1. /\ TypeOK /\ Standing /\ source \in Seq(Nat) /\ window.offset \in Nat /\ cursor \in Argument
      /\ tool = ScratchpadQuery
  BY DEF PagingInv, TypeOK, CountRows
<1>2. PageSize(m) >= 1
  BY <1>1, RoomForOne DEF CountRows
<1>3. phase' = "counted" /\ window'.size = PageSize(m) /\ total' = Len(source)
      /\ UNCHANGED <<source, changed, cursor>> /\ phase = "asking"
  BY DEF CountRows, Resolved, given, world
<1>4. changed \subseteq {"grew"} /\ cursor # None => cursor > 0
  BY <1>1, <1>3 DEF CursorInv, CursorAdvances, Argument
<1> QED
  BY <1>1, <1>2, <1>3, <1>4 DEF CursorInv, CursorAdvances

LEMMA QueryFailsKeepsCursor ==
  ASSUME PagingInv, CursorInv, QueryFails
  PROVE  CursorInv'
<1>1. /\ Standing /\ phase = "counted" /\ phase' = "asking" /\ window'.offset = 0
      /\ UNCHANGED <<tool, changed, cursor>>
  BY DEF PagingInv, QueryFails, NoWindow, given, world
<1>2. tool.kind # "page"
  BY <1>1, ToolFacts DEF Standing
<1> QED
  BY <1>1, <1>2 DEF CursorInv, CursorAdvances

(* Every other step of a walk ends it or answers with a page.                *)
LEMMA NextCursor ==
  ASSUME PagingInv, CursorInv, [Next]_vars
  PROVE  CursorInv'
<1>1. TypeOK
  BY DEF PagingInv
<1>2. ASSUME phase' \in {"done", "looping"}
      PROVE  CursorInv'
  BY <1>2 DEF CursorInv, CursorAdvances
<1>3. ASSUME phase' = "asking", cursor' # None => cursor' > window'.offset
      PROVE  CursorInv'
  BY <1>3 DEF CursorInv, CursorAdvances
<1>4. ASSUME NEW page, NEW n, NEW next, Deliver(page, n, next)
      PROVE  phase' \in {"done", "asking"}
  BY <1>4 DEF Deliver
<1>5. ASSUME NEW m \in PageSizes, AnswerPage(m)
      PROVE  CursorInv'
  <2>1. cursor' # None => cursor' > window'.offset
    BY <1>5, AnswerPageKeeps
  <2>2. phase' \in {"done", "asking"}
    BY <1>4, <1>5 DEF AnswerPage
  <2> QED
    BY <1>2, <1>3, <2>1, <2>2
<1>6. ASSUME NEW m \in PageSizes, AnswerWhole(m)
      PROVE  CursorInv'
  <2>1. cursor' # None => cursor' > window'.offset
    BY <1>6, AnswerWholeKeeps
  <2>2. phase' \in {"done", "asking"}
    BY <1>4, <1>6 DEF AnswerWhole
  <2> QED
    BY <1>2, <1>3, <2>1, <2>2
<1>7. ASSUME NEW m \in PageSizes, Refuse(m) \/ AnswerFunnel(m)
      PROVE  CursorInv'
  BY <1>2, <1>7 DEF Refuse, AnswerFunnel
<1>8. ASSUME FetchPage
      PROVE  CursorInv'
  <2>1. /\ window.size >= 1 /\ total <= Len(source) =>
             (cursor' # None => cursor' > window'.offset)
        /\ phase = "counted" /\ UNCHANGED <<tool, changed>>
    BY <1>8, FetchPageKeeps DEF FetchPage, Deliver, given, world
  <2>2. tool.kind # "page"
    BY <2>1, ToolFacts DEF PagingInv, Standing
  <2>3. phase' \in {"done", "asking"}
    BY <1>4, <1>8 DEF FetchPage
  <2> QED
    BY <2>1, <2>2, <2>3 DEF CursorInv, CursorAdvances
<1>9. ASSUME RefuseIngest \/ IngestFails \/ IngestPage \/ IngestOnce \/ ListPage \/ ListFails
      PROVE  CursorInv'
  BY <1>2, <1>9 DEF RefuseIngest, IngestFails, IngestPage, IngestOnce, ListPage, ListFails, EndWalk
<1>10. ASSUME SourceChanges
       PROVE  CursorInv'
  <2>1. /\ UNCHANGED <<tool, phase, window, total, cursor>>
        /\ changed \subseteq changed'
        /\ changed' \subseteq {"grew"} => source' = Append(source, NewRow)
    <3>1. CASE Edit(Append(source, NewRow), "grew")
      BY <3>1 DEF Edit, given, walk
    <3>2. ASSUME NEW rows, Edit(rows, "shrank") \/ Edit(rows, "shifted")
          PROVE  /\ UNCHANGED <<tool, phase, window, total, cursor>>
                 /\ changed \subseteq changed'
                 /\ ~(changed' \subseteq {"grew"})
      BY <3>2 DEF Edit, given, walk
    <3> QED
      BY <1>10, <3>1, <3>2 DEF SourceChanges
  <2>2. Len(source) \in Nat /\ total \in Nat
        /\ (source' = Append(source, NewRow) => Len(source') = Len(source) + 1)
    BY <1>1 DEF TypeOK
  <2> QED
    BY <2>1, <2>2 DEF CursorInv, CursorAdvances
<1>11. ASSUME Done \/ UNCHANGED vars
       PROVE  CursorInv'
  BY <1>11 DEF Done, vars, given, world, walk, CursorInv, CursorAdvances
<1>12. QED
  BY <1>5, <1>6, <1>7, <1>8, <1>9, <1>10, <1>11, CountKeepsCursor, QueryFailsKeepsCursor
    DEF Next, ClientStep, ServerStep

-------------------------------------------------------------------------------
(***************************************************************************)
(* Theorems.                                                               *)
(***************************************************************************)

LEMMA PagingInvariant == Spec => []PagingInv
<1>1. QED
  BY InitPaging, NextPaging, PTL DEF Spec

(* Every variable of a walk has its type, whatever the tools, lists and caps. *)
THEOREM WalksTyped == Spec => []TypeOK
<1>1. PagingInv => TypeOK
  BY DEF PagingInv
<1>2. QED
  BY <1>1, PagingInvariant, PTL

(* Reading a list by pages is reading it at once: for every tool, list,      *)
(* offset, limit, page size and cap, the rows a walk delivers of a source    *)
(* that does not change are the rows after its offset, and a walk that says  *)
(* it has read everything has.                                               *)
THEOREM PagesAreOneRead == Spec => []PagesTile
<1>1. PagingInv => PagesTile
  BY DEF PagingInv, Tiled, EndReached, PieceAfter, PagesTile
<1>2. QED
  BY <1>1, PagingInvariant, PTL

(* No ingest exceeds its client's limit or the server's caps, even over a    *)
(* report that changes between its pages.                                    *)
THEOREM IngestsCapped == Spec => []IngestCapped
<1>1. PagingInv => IngestCapped
  BY DEF PagingInv
<1>2. QED
  BY <1>1, PagingInvariant, PTL

(* An ingest that does not say truncated says complete, and one without a    *)
(* limit and without an offset never says both.  After an offset the code    *)
(* does say both: it counts the rows it was told to skip as missing.         *)
THEOREM FlagsConsistent == Spec => []FlagsAgree
<1>1. PagingInv => FlagsAgree
  BY DEF PagingInv
<1>2. QED
  BY <1>1, PagingInvariant, PTL

LEMMA RowInvariant == Spec => []RowInv
<1>1. QED
  BY InitRows, NextRows, PagingInvariant, PTL DEF Spec

(* An ingest stores no row twice and a client counts none twice, however     *)
(* often rows are added to the end of the list or taken from it in between.  *)
THEOREM RowsOnce == Spec => []NoDuplicates
<1>1. RowInv => NoDuplicates
  BY DEF RowInv, RowsTaken, NoDuplicates
<1>2. QED
  BY <1>1, RowInvariant, PTL

(* A walk over a list that changes at its end only and that says it has read *)
(* everything has read every row that was there all the time.                *)
THEOREM RowsKept == Spec => []NothingLost
<1>1. ASSUME PagingInv, RowInv
      PROVE  NothingLost
  <2> SUFFICES ASSUME SaysAll, ~starved, "shifted" \notin changed,
                      NEW i \in 1..first, i > Start,
                      Ingesting /\ ask.limit # None => i <= Start + ask.limit,
                      NEW k \in 1..Len(source), source[k] = i
               PROVE  \E j \in 1..Len(got) : got[j] = i
    BY DEF NothingLost
  <2>1. /\ first \in Nat /\ Start \in Nat /\ Len(got) \in Nat /\ Len(source) \in Nat
        /\ ask.limit \in Nat \/ ask.limit = None
    BY <1>1, RowFacts DEF PagingInv, TypeOK, Argument
  <2>2. k = i /\ Still(i)
    BY <1>1, <2>1 DEF RowInv, RowsStay, Still
  <2>3. i <= Start + Len(got)
    BY <1>1, <2>1, <2>2 DEF RowInv, RowsBehind, LimitMet, Exhausted
  <2> DEFINE j == i - Start
  <2>4. j \in 1..Len(got) /\ Start + j = i
    BY <2>1, <2>3
  <2>5. got[j] = Start + j
    BY <1>1, <2>1, <2>2, <2>4 DEF RowInv, RowsTaken
  <2>6. QED
    BY <2>4, <2>5
<1>2. QED
  BY <1>1, PagingInvariant, RowInvariant, PTL

(* A client that follows its cursors is not sent around in a circle: every   *)
(* cursor is ahead of the page it came with.                                 *)
THEOREM CursorsLeadOn == Spec => []CursorAdvances
<1>1. CursorInv => CursorAdvances
  BY DEF CursorInv
<1>2. PagingInv /\ CursorInv /\ [Next]_vars => CursorInv'
  BY NextCursor
<1>3. QED
  BY <1>1, <1>2, InitCursor, PagingInvariant, PTL DEF Spec
===============================================================================
