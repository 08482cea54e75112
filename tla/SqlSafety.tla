------------------------------ MODULE SqlSafety ------------------------------
(***************************************************************************)
(* The scratchpad's SQL policy (src/sql_safety.rs) and the two page        *)
(* queries a statement is wrapped in (src/tools.rs).                       *)
(*                                                                         *)
(* A statement is a sequence of symbols: the bytes the lexer tells apart,  *)
(* and whole words where only the word matters.  One action is one turn of *)
(* lexical_surface's loop, which hides strings, quoted identifiers,        *)
(* comments and dollar quotes and leaves everything else where it is.  A   *)
(* tab or a return is a blank: it ends no comment, and stays when hidden.  *)
(***************************************************************************)
EXTENDS Integers, Sequences, FiniteSets

CONSTANTS
  Letters,             \* letters and words: what an identifier may begin with
  Digits,              \* what it may go on with besides
  Unprintable,         \* control bytes and the bytes of non-ASCII characters
  ForbiddenKeywords, ForbiddenFunctions, AllowedPrefixes, WrappedPrefixes

VARIABLES
  sql,                 \* the statement
  at,                  \* i: how many of its bytes are consumed
  surface,             \* out
  mode, depth, tag     \* State, the depth in BlockComment(depth), dollar_tag

lexer == <<sql, at, surface, mode, depth, tag>>

Blank == " "
Newline == "\n"
Whitespace == {Blank, Newline}
IdentifierPart == Letters \cup Digits
Punctuation == Whitespace \cup {"'", "\"", "-", "/", "*", "$", "(", ")", ";"}

\* The classes of bytes are apart, and what is forbidden are words.
ASSUME AlphabetAssumption ==
  /\ IdentifierPart \cap (Unprintable \cup Punctuation) = {}
  /\ Unprintable \cap Punctuation = {}
  /\ ForbiddenKeywords \cup ForbiddenFunctions \subseteq Letters

Quote == [single |-> "'", double |-> "\""]
Modes == {"normal", "line", "block"} \cup DOMAIN Quote

MaskByte(b) == IF b \in Unprintable THEN Blank ELSE b

MaskHiddenByte(b) == IF b = Newline THEN Newline ELSE Blank

-----------------------------------------------------------------------------
(* lexical_surface                                                           *)

LexerIdle == /\ sql = <<>> /\ at = 0 /\ surface = <<>>
             /\ mode = "normal" /\ depth = 0 /\ tag = <<>>

StartLexer(s) == /\ sql' = s /\ at' = 0 /\ surface' = <<>>
                 /\ mode' = "normal" /\ depth' = 0 /\ tag' = <<>>

Ahead(s) == /\ at + Len(s) <= Len(sql)
            /\ \A k \in 1..Len(s) : sql[at + k] = s[k]

\* The lengths a dollar tag may have here: none or one.
ParseDollarTag ==
  {n \in 2..(Len(sql) - at) :
     /\ sql[at + 1] = "$" /\ sql[at + n] = "$"
     /\ \A k \in 2..(n - 1) : sql[at + k] \in IdentifierPart}

Push(shown) == /\ at' = at + Len(shown)
               /\ surface' = surface \o shown
               /\ UNCHANGED sql

PushBlanks(n) == Push([k \in 1..n |-> Blank])

PushHidden == Push(<<MaskHiddenByte(sql[at + 1])>>)

InDollarQuote ==
  /\ tag # <<>>
  /\ \/ Ahead(tag) /\ PushBlanks(Len(tag)) /\ tag' = <<>>
     \/ ~Ahead(tag) /\ PushHidden /\ UNCHANGED tag
  /\ UNCHANGED <<mode, depth>>

NothingOpens == /\ ~Ahead(<<"-", "-">>) /\ ~Ahead(<<"/", "*">>)
                /\ \A m \in DOMAIN Quote : ~Ahead(<<Quote[m]>>)
                /\ ParseDollarTag = {}

InNormal ==
  /\ tag = <<>> /\ mode = "normal"
  /\ \/ Ahead(<<"-", "-">>) /\ PushBlanks(2) /\ mode' = "line" /\ UNCHANGED <<depth, tag>>
     \/ Ahead(<<"/", "*">>) /\ PushBlanks(2) /\ mode' = "block" /\ depth' = 1 /\ UNCHANGED tag
     \/ \E m \in DOMAIN Quote :
          Ahead(<<Quote[m]>>) /\ PushBlanks(1) /\ mode' = m /\ UNCHANGED <<depth, tag>>
     \/ \E n \in ParseDollarTag :
          PushBlanks(n) /\ tag' = SubSeq(sql, at + 1, at + n) /\ UNCHANGED <<mode, depth>>
     \/ NothingOpens /\ Push(<<MaskByte(sql[at + 1])>>) /\ UNCHANGED <<mode, depth, tag>>

\* A doubled quote stays inside.
InQuotes ==
  /\ tag = <<>> /\ mode \in DOMAIN Quote
  /\ LET q == Quote[mode] IN
       \/ Ahead(<<q, q>>) /\ PushBlanks(2) /\ UNCHANGED mode
       \/ Ahead(<<q>>) /\ ~Ahead(<<q, q>>) /\ PushBlanks(1) /\ mode' = "normal"
       \/ ~Ahead(<<q>>) /\ PushHidden /\ UNCHANGED mode
  /\ UNCHANGED <<depth, tag>>

\* As it would be if the byte of a comment were written and not consumed.
InLineCommentStuck ==
  /\ tag = <<>> /\ mode = "line"
  /\ \/ Ahead(<<Newline>>) /\ Push(<<Newline>>) /\ mode' = "normal"
     \/ ~Ahead(<<Newline>>) /\ UNCHANGED <<sql, at, surface, mode>>
  /\ UNCHANGED <<depth, tag>>

InLineComment ==
  /\ tag = <<>> /\ mode = "line"
  /\ \/ Ahead(<<Newline>>) /\ Push(<<Newline>>) /\ mode' = "normal"
     \/ ~Ahead(<<Newline>>) /\ PushBlanks(1) /\ UNCHANGED mode
  /\ UNCHANGED <<depth, tag>>

\* As it would be if leaving a comment were decided after the depth is lowered.
InBlockCommentLateReturn ==
  /\ tag = <<>> /\ mode = "block"
  /\ \/ Ahead(<<"/", "*">>) /\ PushBlanks(2) /\ depth' = depth + 1 /\ UNCHANGED mode
     \/ /\ Ahead(<<"*", "/">>) /\ PushBlanks(2) /\ depth' = depth - 1
        /\ mode' = IF depth = 0 THEN "normal" ELSE "block"
     \/ ~Ahead(<<"/", "*">>) /\ ~Ahead(<<"*", "/">>) /\ PushHidden /\ UNCHANGED <<mode, depth>>
  /\ UNCHANGED tag

\* As it would be if comments did not nest.
InBlockCommentFlat ==
  /\ tag = <<>> /\ mode = "block"
  /\ \/ Ahead(<<"*", "/">>) /\ PushBlanks(2) /\ depth' = 0 /\ mode' = "normal"
     \/ ~Ahead(<<"*", "/">>) /\ PushHidden /\ UNCHANGED <<mode, depth>>
  /\ UNCHANGED tag

InBlockComment ==
  /\ tag = <<>> /\ mode = "block"
  /\ \/ Ahead(<<"/", "*">>) /\ PushBlanks(2) /\ depth' = depth + 1 /\ UNCHANGED mode
     \/ /\ Ahead(<<"*", "/">>) /\ PushBlanks(2) /\ depth' = depth - 1
        /\ mode' = IF depth = 1 THEN "normal" ELSE "block"
     \/ ~Ahead(<<"/", "*">>) /\ ~Ahead(<<"*", "/">>) /\ PushHidden /\ UNCHANGED <<mode, depth>>
  /\ UNCHANGED tag

Scanning == at < Len(sql)

Lex == /\ Scanning
       /\ InDollarQuote \/ InNormal \/ InQuotes \/ InLineComment \/ InBlockComment

Unterminated == tag # <<>> \/ mode \in {"single", "double", "block"}

-----------------------------------------------------------------------------
(* validate_scratchpad_sql                                                   *)

\* How many bytes of s at its beginning, and at its end, are in the set.
Leading(s, bytes) == Cardinality({k \in DOMAIN s : \A j \in 1..k : s[j] \in bytes})
Trailing(s, bytes) == Cardinality({k \in DOMAIN s : \A j \in k..Len(s) : s[j] \in bytes})

\* str::trim
Trim(s) == SubSeq(s, Leading(s, Whitespace) + 1, Len(s) - Trailing(s, Whitespace))

\* Words longer than a symbol do not exist, so a symbol is a token if its neighbours
\* do not belong to it.
ContainsForbiddenKeyword(s) ==
  \E k \in DOMAIN s :
    /\ s[k] \in ForbiddenKeywords
    /\ k > 1 => s[k - 1] \notin IdentifierPart
    /\ k < Len(s) => s[k + 1] \notin IdentifierPart

\* An identifier begins at a letter that no earlier letter's identifier has swallowed.
IdentifierBegins(s, k) ==
  /\ s[k] \in Letters
  /\ \A j \in 1..(k - 1) : s[j] \in Letters => \E i \in j..(k - 1) : s[i] \notin IdentifierPart

\* As it would be if the parenthesis had to follow at once.
ContainsForbiddenFunctionCallAdjacent(s) ==
  \E k \in 1..(Len(s) - 1) :
    s[k] \in ForbiddenFunctions /\ IdentifierBegins(s, k) /\ s[k + 1] = "("

ContainsForbiddenFunctionCall(s) ==
  \E k \in DOMAIN s :
    /\ s[k] \in ForbiddenFunctions /\ IdentifierBegins(s, k)
    /\ \E p \in (k + 1)..Len(s) :
         s[p] = "(" /\ \A i \in (k + 1)..(p - 1) : s[i] \in Whitespace

StartsWithOneOf(prefixes, s) == Trim(s) # <<>> /\ Trim(s)[1] \in prefixes

\* What may be known about a statement before it is read.
SizeVerdict(maxBytes, s) ==
  IF maxBytes = 0 THEN "CLASSIFIER_UNAVAILABLE"
  ELSE IF Len(s) > maxBytes THEN "SQL_TOO_LARGE" ELSE "ALLOWED"

\* evaluate_scratchpad_sql_policy is the toolkit's: any decision code may come back.
DecisionCodes == {"EMPTY_SQL", "UNTERMINATED_TOKEN", "MULTIPLE_STATEMENTS", "NOT_READ_ONLY_PREFIX",
                  "FORBIDDEN_KEYWORD", "FORBIDDEN_FUNCTION", "EXPLAIN_NOT_READ_ONLY"}

ScratchpadErrorCode(decision) ==
  IF decision \in DecisionCodes THEN decision ELSE "CLASSIFIER_UNAVAILABLE"

\* The verdict on a statement that has been read to its end.
Verdict(decision) ==
  LET code == ScratchpadErrorCode(decision)
      allowPrefix == code = "NOT_READ_ONLY_PREFIX" /\ StartsWithOneOf(AllowedPrefixes, surface)
  IN IF Unterminated THEN "UNTERMINATED_TOKEN"
     ELSE IF decision # "ALLOW" /\ ~allowPrefix THEN code
     ELSE IF ContainsForbiddenKeyword(surface) THEN "DUCKDB_FORBIDDEN_KEYWORD"
     ELSE IF ContainsForbiddenFunctionCall(surface) THEN "DUCKDB_FORBIDDEN_FUNCTION"
     ELSE "ALLOWED"

-----------------------------------------------------------------------------
(* trim_sql_for_subquery, supports_wrapped_pagination, wrap_query_for_...    *)

\* The statement comes trimmed; what is left to drop is at its end.
TrimForSubquery(s) == SubSeq(s, 1, Len(s) - Trailing(s, Whitespace \cup {";"}))

WrapQuery(s) == <<"(">> \o TrimForSubquery(s) \o <<")">>

SupportsWrappedPagination(s) == StartsWithOneOf(WrappedPrefixes, TrimForSubquery(s))
-----------------------------------------------------------------------------
(* What the lexer is measured against: tokens found by looking for their     *)
(* end, not byte by byte.  A doubled quote is two literals side by side.     *)

\* Where a token without an end would end: no byte is there, nor the end of the text.
Never(s) == Len(s) + 2

Least(places, otherwise) ==
  IF places = {} THEN otherwise ELSE CHOOSE j \in places : \A k \in places : j <= k

StandsAt(s, i, t) == i + Len(t) - 1 <= Len(s) /\ \A k \in 1..Len(t) : s[i + k - 1] = t[k]

\* The first place behind the next t, looked for from i on.
Behind(s, i, t) == Least({j + Len(t) : j \in {k \in i..Len(s) : StandsAt(s, k, t)}}, Never(s))

LineEnd(s, i) == Least({j \in i..Len(s) : s[j] = Newline}, Len(s) + 1)

\* Where the comment ends that is d deep at i.
BlockEnd(s) ==
  LET end[i \in Nat] ==
        [d \in Nat |-> IF d = 0 THEN i
                       ELSE IF i > Len(s) THEN Never(s)
                       ELSE IF StandsAt(s, i, <<"/", "*">>) THEN end[i + 2][d + 1]
                       ELSE IF StandsAt(s, i, <<"*", "/">>) THEN end[i + 2][d - 1]
                       ELSE end[i + 1][d]]
  IN end

\* The lengths of the dollar tags at i: none or one.
Tags(s, i) == {k \in 2..(Len(s) - i + 1) :
                 /\ s[i] = "$" /\ s[i + k - 1] = "$"
                 /\ \A j \in (i + 1)..(i + k - 2) : s[j] \in IdentifierPart}

\* Where the hidden token that begins at i ends; i itself if there is none.
TokenEnd(s, i) ==
  IF StandsAt(s, i, <<"-", "-">>) THEN LineEnd(s, i)
  ELSE IF StandsAt(s, i, <<"/", "*">>) THEN BlockEnd(s)[i + 2][1]
  ELSE IF \E m \in DOMAIN Quote : s[i] = Quote[m] THEN Behind(s, i + 1, <<s[i]>>)
  ELSE IF Tags(s, i) = {} THEN i
  ELSE LET k == CHOOSE k \in Tags(s, i) : TRUE IN Behind(s, i + k, SubSeq(s, i, i + k - 1))

\* The bytes of hidden tokens from i on, and whether the last one has no end.
Scan(s) ==
  LET scan[i \in 1..Never(s)] ==
        IF i > Len(s) THEN [hidden |-> {}, open |-> i = Never(s)]
        ELSE LET e == TokenEnd(s, i)
             IN IF e = i THEN scan[i + 1]
                ELSE [hidden |-> scan[e].hidden \cup {j \in i..(e - 1) : j <= Len(s)},
                      open |-> scan[e].open]
  IN scan

Tokens(s) == Scan(s)[1]

Masked(s, hidden) ==
  [k \in DOMAIN s |-> IF k \in hidden THEN MaskHiddenByte(s[k]) ELSE MaskByte(s[k])]
=============================================================================
