--------------------------- MODULE SqlSafety_proofs ---------------------------
(***************************************************************************)
(* The lexer of SqlSafety hides what the reference says is hidden, in      *)
(* every statement of every length, and what the policy lets through is    *)
(* what it was meant to let through.                                       *)
(*                                                                         *)
(* The reference is recursive.  Its functions are shown to exist, and      *)
(* their values to be bounded, from the end of the statement backwards.    *)
(***************************************************************************)
EXTENDS RequestPath_proofs, FiniteSums

-----------------------------------------------------------------------------
(* Numbers                                                                   *)

\* What holds at n, and one place before each place it holds at, holds from lo to n.
LEMMA Backwards ==
  ASSUME NEW lo \in Nat, NEW n \in Nat, NEW S, n \in S,
         \A k \in lo..(n - 1) : k + 1 \in S => k \in S
  PROVE  \A k \in lo..n : k \in S
<1> DEFINE Bad == {m \in Nat : n - m >= lo /\ n - m \notin S}
<1>1. SUFFICES ASSUME Bad # {} PROVE FALSE
  <2>1. ASSUME NEW k \in lo..n, k \notin S PROVE Bad # {}
    <3>1. n - k \in Bad
      BY <2>1
    <3> QED
      BY <3>1
  <2> QED
    BY <2>1
<1> HIDE DEF Bad
<1>2. Bad \in SUBSET Nat
  BY DEF Bad
<1>3. PICK m \in Bad : \A k \in Bad : m <= k
  BY <1>1, <1>2, LeastNumber
<1>4. m \in Nat /\ n - m >= lo /\ n - m \notin S
  BY DEF Bad
<1>5. m # 0
  BY <1>4
<1>6. n - (m - 1) \in S
  <2>1. m - 1 \notin Bad /\ m - 1 \in Nat
    BY <1>2, <1>3, <1>4, <1>5
  <2> QED
    BY <1>4, <2>1 DEF Bad
<1>7. n - m \in lo..(n - 1) /\ (n - m) + 1 = n - (m - 1)
  BY <1>4, <1>5
<1> QED
  BY <1>4, <1>6, <1>7

\* Least is the least.
LEMMA LeastIs ==
  ASSUME NEW places \in SUBSET Nat, NEW otherwise, NEW j \in places, \A k \in places : j <= k
  PROVE  Least(places, otherwise) = j
<1>1. \A i \in places : (\A k \in places : i <= k) => i = j
  OBVIOUS
<1>2. places # {}
  OBVIOUS
<1> DEFINE c == CHOOSE i \in places : \A k \in places : i <= k
<1>3. c \in places /\ \A k \in places : c <= k
  OBVIOUS
<1>4. c = j
  BY <1>1, <1>3
<1> QED
  BY <1>2, <1>4 DEF Least

LEMMA LeastIn ==
  ASSUME NEW places \in SUBSET Nat, NEW otherwise
  PROVE  /\ places = {} => Least(places, otherwise) = otherwise
         /\ places # {} => Least(places, otherwise) \in places
<1>1. ASSUME places # {}
      PROVE  Least(places, otherwise) \in places
  <2>1. PICK j \in places : \A k \in places : j <= k
    BY <1>1, LeastNumber
  <2>2. Least(places, otherwise) = j
    BY <2>1, LeastIs
  <2> QED
    BY <2>2
<1>2. places = {} => Least(places, otherwise) = otherwise
  BY DEF Least
<1> QED
  BY <1>1, <1>2

-----------------------------------------------------------------------------
(* Where tokens end                                                          *)

Texts == Seq(Bytes)

LEMMA TextFacts ==
  ASSUME NEW s \in Texts
  PROVE  /\ Len(s) \in Nat /\ DOMAIN s = 1..Len(s) /\ Never(s) = Len(s) + 2
         /\ \A i \in 1..Len(s) : s[i] \in Bytes
BY DEF Texts, Never

\* The next t is here, or it is the one looked for from the next place on.
LEMMA BehindFacts ==
  ASSUME NEW s \in Texts, NEW t \in Texts, t # <<>>, NEW i \in 1..(Len(s) + 1)
  PROVE  /\ Behind(s, i, t) \in (i + 1)..Never(s)
         /\ StandsAt(s, i, t) => Behind(s, i, t) = i + Len(t)
         /\ i <= Len(s) /\ ~StandsAt(s, i, t) => Behind(s, i, t) = Behind(s, i + 1, t)
         /\ i > Len(s) => Behind(s, i, t) = Never(s)
<1>1. Len(s) \in Nat /\ Len(t) \in Nat /\ Len(t) > 0 /\ i \in Nat /\ Never(s) = Len(s) + 2
  BY DEF Never, Texts
<1> DEFINE places == {k \in i..Len(s) : StandsAt(s, k, t)}
           ends == {j + Len(t) : j \in places}
<1>2. ends \in SUBSET Nat /\ places \in SUBSET Nat
  BY <1>1
<1>3. \A e \in ends : e \in (i + 1)..(Len(s) + 1)
  BY <1>1 DEF StandsAt
<1>4. Behind(s, i, t) = Least(ends, Never(s))
  BY DEF Behind
<1> HIDE DEF ends
<1>5. Behind(s, i, t) \in (i + 1)..Never(s)
  <2>1. Behind(s, i, t) = Never(s) \/ Behind(s, i, t) \in ends
    BY <1>2, <1>4, LeastIn
  <2> QED
    BY <1>1, <1>3, <2>1
<1> USE DEF ends
<1>6. ASSUME StandsAt(s, i, t)
      PROVE  Behind(s, i, t) = i + Len(t)
  <2>1. i \in places
    BY <1>1, <1>6 DEF StandsAt
  <2>2. i + Len(t) \in ends /\ \A e \in ends : i + Len(t) <= e
    BY <1>1, <2>1
  <2> HIDE DEF ends
  <2> QED
    BY <1>2, <1>4, <2>2, LeastIs
<1>7. ASSUME i <= Len(s), ~StandsAt(s, i, t)
      PROVE  Behind(s, i, t) = Behind(s, i + 1, t)
  <2>1. places = {k \in (i + 1)..Len(s) : StandsAt(s, k, t)}
    <3>1. \A k \in i..Len(s) : k = i \/ k \in (i + 1)..Len(s)
      BY <1>1
    <3>2. \A k \in (i + 1)..Len(s) : k \in i..Len(s)
      BY <1>1
    <3> QED
      BY <1>7, <3>1, <3>2
  <2> QED
    BY <1>4, <2>1 DEF Behind
<1>8. ASSUME i > Len(s)
      PROVE  Behind(s, i, t) = Never(s)
  <2>1. ends = {}
    BY <1>1, <1>8
  <2> QED
    BY <1>2, <1>4, <2>1, LeastIn
<1> QED
  BY <1>5, <1>6, <1>7, <1>8

LEMMA LineEndFacts ==
  ASSUME NEW s \in Texts, NEW i \in 1..(Len(s) + 1)
  PROVE  /\ LineEnd(s, i) \in i..(Len(s) + 1)
         /\ i <= Len(s) /\ s[i] = Newline => LineEnd(s, i) = i
         /\ i <= Len(s) /\ s[i] # Newline => LineEnd(s, i) = LineEnd(s, i + 1)
<1>1. Len(s) \in Nat /\ i \in Nat
  BY DEF Texts
<1> DEFINE ends == {j \in i..Len(s) : s[j] = Newline}
<1>2. ends \in SUBSET Nat /\ \A e \in ends : e \in i..Len(s)
  BY <1>1
<1>3. LineEnd(s, i) = Least(ends, Len(s) + 1)
  BY DEF LineEnd
<1> HIDE DEF ends
<1>4. LineEnd(s, i) \in i..(Len(s) + 1)
  <2>1. LineEnd(s, i) = Len(s) + 1 \/ LineEnd(s, i) \in ends
    BY <1>2, <1>3, LeastIn
  <2>2. Len(s) + 1 \in i..(Len(s) + 1) /\ \A e \in ends : e \in i..(Len(s) + 1)
    BY <1>1, <1>2
  <2> QED
    BY <2>1, <2>2
<1> USE DEF ends
<1>5. ASSUME i <= Len(s), s[i] = Newline
      PROVE  LineEnd(s, i) = i
  <2>1. i \in ends /\ \A e \in ends : i <= e
    BY <1>1, <1>5
  <2> HIDE DEF ends
  <2> QED
    BY <1>2, <1>3, <2>1, LeastIs
<1>6. ASSUME i <= Len(s), s[i] # Newline
      PROVE  LineEnd(s, i) = LineEnd(s, i + 1)
  <2>1. ends = {j \in (i + 1)..Len(s) : s[j] = Newline}
    <3>1. \A k \in i..Len(s) : k = i \/ k \in (i + 1)..Len(s)
      BY <1>1
    <3>2. \A k \in (i + 1)..Len(s) : k \in i..Len(s)
      BY <1>1
    <3> QED
      BY <1>6, <3>1, <3>2
  <2> QED
    BY <1>3, <2>1 DEF LineEnd
<1> QED
  BY <1>4, <1>5, <1>6

-----------------------------------------------------------------------------
(* The recursion of BlockEnd                                                 *)

BlockStep(s, g, i) ==
  [d \in Nat |-> IF d = 0 THEN i
                 ELSE IF i > Len(s) THEN Never(s)
                 ELSE IF StandsAt(s, i, <<"/", "*">>) THEN g[i + 2][d + 1]
                 ELSE IF StandsAt(s, i, <<"*", "/">>) THEN g[i + 2][d - 1]
                 ELSE g[i + 1][d]]

LEMMA BlockIsChosen ==
  ASSUME NEW s
  PROVE  BlockEnd(s) = CHOOSE g : g = [i \in Nat |-> BlockStep(s, g, i)]
BY Zenon DEF BlockEnd, BlockStep

LEMMA BlockLocal ==
  ASSUME NEW s, NEW g, NEW h, NEW i, g[i + 1] = h[i + 1], g[i + 2] = h[i + 2]
  PROVE  BlockStep(s, g, i) = BlockStep(s, h, i)
BY DEF BlockStep

LEMMA BlockExists ==
  ASSUME NEW s \in Texts
  PROVE  \E g : g = [i \in Nat |-> BlockStep(s, g, i)]
<1> DEFINE From(g, k) == /\ g = [i \in Nat |-> g[i]]
                         /\ \A i \in Nat : i >= k => g[i] = BlockStep(s, g, i)
           Good == {k \in Nat : \E g : From(g, k)}
<1>1. Len(s) \in Nat
  BY TextFacts
<1>2. Len(s) + 1 \in Good
  <2> DEFINE g == [i \in Nat |-> [d \in Nat |-> IF d = 0 THEN i ELSE Never(s)]]
  <2>1. ASSUME NEW i \in Nat, i >= Len(s) + 1
        PROVE  g[i] = BlockStep(s, g, i)
    <3>1. i > Len(s)
      BY <1>1, <2>1
    <3>2. BlockStep(s, g, i) = [d \in Nat |-> IF d = 0 THEN i ELSE Never(s)]
      BY <3>1 DEF BlockStep
    <3> QED
      BY <3>2
  <2>2. From(g, Len(s) + 1)
    BY <2>1
  <2> HIDE DEF From
  <2> QED
    BY <1>1, <2>2
<1>3. ASSUME NEW k \in 0..Len(s), k + 1 \in Good
      PROVE  k \in Good
  <2>1. PICK g : From(g, k + 1)
    BY <1>3
  <2> DEFINE h == [i \in Nat |-> IF i = k THEN BlockStep(s, g, k) ELSE g[i]]
  <2>2. k \in Nat
    BY <1>1
  <2>3. ASSUME NEW i \in Nat, i >= k
        PROVE  h[i] = BlockStep(s, h, i)
    <3>1. g[i + 1] = h[i + 1] /\ g[i + 2] = h[i + 2]
      BY <2>2, <2>3
    <3>2. BlockStep(s, h, i) = BlockStep(s, g, i)
      BY <3>1, BlockLocal
    <3>3. CASE i = k
      BY <2>2, <3>2, <3>3
    <3>4. CASE i # k
      <4>1. i >= k + 1 /\ h[i] = g[i]
        BY <2>2, <2>3, <3>4
      <4>2. g[i] = BlockStep(s, g, i)
        BY <2>1, <4>1
      <4> QED
        BY <3>2, <4>1, <4>2
    <3> QED
      BY <3>3, <3>4
  <2>4. From(h, k)
    BY <2>3
  <2> HIDE DEF From
  <2> QED
    BY <2>2, <2>4
<1> HIDE DEF Good
<1>4. 0 \in Good
  <2>1. Len(s) + 1 \in Nat /\ (Len(s) + 1) - 1 = Len(s) /\ 0 \in 0..(Len(s) + 1)
    BY <1>1
  <2> QED
    BY <1>2, <1>3, <2>1, Backwards
<1> USE DEF Good
<1>5. PICK g : From(g, 0)
  BY <1>4
<1>6. \A i \in Nat : g[i] = BlockStep(s, g, i)
  BY <1>5
<1>7. g = [i \in Nat |-> BlockStep(s, g, i)]
  BY <1>5, <1>6
<1> QED
  BY <1>7

LEMMA BlockEquation ==
  ASSUME NEW s \in Texts, NEW i \in Nat, NEW d \in Nat
  PROVE  BlockEnd(s)[i][d] = IF d = 0 THEN i
                             ELSE IF i > Len(s) THEN Never(s)
                             ELSE IF StandsAt(s, i, <<"/", "*">>) THEN BlockEnd(s)[i + 2][d + 1]
                             ELSE IF StandsAt(s, i, <<"*", "/">>) THEN BlockEnd(s)[i + 2][d - 1]
                             ELSE BlockEnd(s)[i + 1][d]
<1> DEFINE g == BlockEnd(s)
<1>1. g = [j \in Nat |-> BlockStep(s, g, j)]
  BY BlockExists, BlockIsChosen
<1> HIDE DEF g
<1>2. g[i] = BlockStep(s, g, i)
  BY <1>1
<1>3. g[i][d] = IF d = 0 THEN i
                ELSE IF i > Len(s) THEN Never(s)
                ELSE IF StandsAt(s, i, <<"/", "*">>) THEN g[i + 2][d + 1]
                ELSE IF StandsAt(s, i, <<"*", "/">>) THEN g[i + 2][d - 1]
                ELSE g[i + 1][d]
  BY <1>2 DEF BlockStep
<1> QED
  BY <1>3 DEF g

\* A comment ends behind the place it is looked from, or never.
LEMMA BlockBounds ==
  ASSUME NEW s \in Texts, NEW i \in 1..(Len(s) + 1), NEW d \in Nat
  PROVE  BlockEnd(s)[i][d] \in i..Never(s)
<1> DEFINE In(k) == \A e \in Nat : BlockEnd(s)[k][e] \in k..Never(s)
           S == {k \in Nat : \A j \in k..(Len(s) + 1) : In(j)}
<1>1. Len(s) \in Nat /\ Never(s) = Len(s) + 2
  BY TextFacts
<1>2. In(Len(s) + 1)
  <2>1. ASSUME NEW e \in Nat
        PROVE  BlockEnd(s)[Len(s) + 1][e] \in (Len(s) + 1)..Never(s)
    <3>1. BlockEnd(s)[Len(s) + 1][e] = IF e = 0 THEN Len(s) + 1 ELSE Never(s)
      BY <1>1, BlockEquation
    <3> QED
      BY <1>1, <3>1
  <2> QED
    BY <1>1, <2>1
<1>3. ASSUME NEW k \in 1..Len(s), \A j \in (k + 1)..(Len(s) + 1) : In(j)
      PROVE  In(k)
  <2> SUFFICES ASSUME NEW e \in Nat
               PROVE  BlockEnd(s)[k][e] \in k..Never(s)
    OBVIOUS
  <2>1. k \in Nat /\ k <= Len(s)
    BY <1>1
  <2>2. /\ BlockEnd(s)[k + 1][e] \in k..Never(s)
        /\ k + 1 <= Len(s) => BlockEnd(s)[k + 2][e + 1] \in k..Never(s)
        /\ k + 1 <= Len(s) /\ e # 0 => BlockEnd(s)[k + 2][e - 1] \in k..Never(s)
    <3>1. \A j \in (k + 1)..(Len(s) + 1) : \A f \in Nat : BlockEnd(s)[j][f] \in j..Never(s)
      BY <1>3
    <3>2. /\ k + 1 \in (k + 1)..(Len(s) + 1)
          /\ k + 1 <= Len(s) => k + 2 \in (k + 1)..(Len(s) + 1)
          /\ e + 1 \in Nat /\ (e # 0 => e - 1 \in Nat)
          /\ \A x \in (k + 1)..Never(s) : x \in k..Never(s)
          /\ \A x \in (k + 2)..Never(s) : x \in k..Never(s)
      BY <1>1, <2>1
    <3> QED
      BY <3>1, <3>2
  <2>3. /\ StandsAt(s, k, <<"/", "*">>) => k + 1 <= Len(s)
        /\ StandsAt(s, k, <<"*", "/">>) => k + 1 <= Len(s)
    BY <1>1, <2>1 DEF StandsAt
  <2>4. k \in k..Never(s)
    BY <1>1, <2>1
  <2>5. BlockEnd(s)[k][e] = IF e = 0 THEN k
                             ELSE IF StandsAt(s, k, <<"/", "*">>) THEN BlockEnd(s)[k + 2][e + 1]
                             ELSE IF StandsAt(s, k, <<"*", "/">>) THEN BlockEnd(s)[k + 2][e - 1]
                             ELSE BlockEnd(s)[k + 1][e]
    <3>1. ~(k > Len(s))
      BY <1>1, <2>1
    <3> QED
      BY <2>1, <3>1, BlockEquation, ZenonT(60)
  <2> QED
    BY <2>2, <2>3, <2>4, <2>5
<1> HIDE DEF In
<1>4. Len(s) + 1 \in S
  BY <1>1, <1>2
<1>5. ASSUME NEW k \in 1..Len(s), k + 1 \in S
      PROVE  k \in S
  <2>1. In(k)
    BY <1>3, <1>5
  <2>2. \A j \in k..(Len(s) + 1) : j = k \/ j \in (k + 1)..(Len(s) + 1)
    BY <1>1
  <2> QED
    BY <1>1, <1>5, <2>1, <2>2
<1> HIDE DEF S
<1>6. i \in S
  <2>1. (Len(s) + 1) \in Nat /\ (Len(s) + 1) - 1 = Len(s) /\ 1 \in Nat
    BY <1>1
  <2> QED
    BY <1>4, <1>5, <2>1, Backwards
<1>7. In(i)
  <2>1. i \in i..(Len(s) + 1)
    BY <1>1
  <2> QED
    BY <1>6, <2>1 DEF S
<1> QED
  BY <1>7 DEF In

-----------------------------------------------------------------------------
(* The tokens at a place                                                     *)

LEMMA QuoteFacts ==
  /\ DOMAIN Quote = {"single", "double"}
  /\ Quote["single"] = "'" /\ Quote["double"] = "\""
  /\ \A m \in DOMAIN Quote : Quote[m] \in {"'", "\""}
<1>1. DOMAIN Quote = {"single", "double"}
  BY DEF Quote
<1>2. Quote["single"] = "'"
  BY DEF Quote
<1>3. Quote["double"] = "\""
  BY DEF Quote
<1> QED
  BY <1>1, <1>2, <1>3

\* There is at most one dollar tag at a place, and it ends in a dollar.
LEMMA TagFacts ==
  ASSUME NEW s \in Texts, NEW i \in 1..Len(s), NEW k \in Tags(s, i)
  PROVE  /\ k \in Nat /\ k >= 2 /\ i + k - 1 <= Len(s) /\ s[i] = "$"
         /\ Tags(s, i) = {k}
         /\ SubSeq(s, i, i + k - 1) \in Texts /\ Len(SubSeq(s, i, i + k - 1)) = k
         /\ \A x \in 1..k : SubSeq(s, i, i + k - 1)[x] = s[i + x - 1]
         /\ \A x \in 1..k : s[i + x - 1] \in IdentifierPart \cup {"$"}
         /\ s[i + k - 1] = "$"
<1>1. Len(s) \in Nat /\ i \in Nat
  BY TextFacts
<1>2. ASSUME NEW j \in Tags(s, i)
      PROVE  /\ j \in Nat /\ j >= 2 /\ i + j - 1 <= Len(s) /\ s[i] = "$" /\ s[i + j - 1] = "$"
             /\ \A x \in (i + 1)..(i + j - 2) : s[x] \in IdentifierPart
  BY <1>1 DEF Tags
<1>3. "$" \notin IdentifierPart
  BY AlphabetAssumption DEF Punctuation
<1>4. ASSUME NEW j \in Tags(s, i), NEW l \in Tags(s, i), j < l
      PROVE  FALSE
  <2>1. i + j - 1 \in (i + 1)..(i + l - 2)
    BY <1>1, <1>2, <1>4
  <2> QED
    BY <1>2, <1>3, <2>1
<1>5. Tags(s, i) = {k}
  <2>1. \A j \in Tags(s, i) : ~(j < k) /\ ~(k < j)
    BY <1>4
  <2>2. \A j \in Tags(s, i) : j \in Nat /\ k \in Nat
    BY <1>2
  <2> QED
    BY <2>1, <2>2
<1>6. ASSUME NEW x \in 1..k
      PROVE  s[i + x - 1] \in IdentifierPart \cup {"$"}
  <2>1. x \in Nat /\ (x = 1 \/ x = k \/ i + x - 1 \in (i + 1)..(i + k - 2))
    BY <1>1, <1>2
  <2>2. i + 1 - 1 = i
    BY <1>1
  <2> QED
    BY <1>2, <2>1, <2>2
<1>7. /\ SubSeq(s, i, i + k - 1) \in Texts /\ Len(SubSeq(s, i, i + k - 1)) = k
      /\ \A x \in 1..k : SubSeq(s, i, i + k - 1)[x] = s[i + x - 1]
  BY <1>1, <1>2 DEF Texts
<1> QED
  BY <1>2, <1>5, <1>6, <1>7

LEMMA TokenEndTag ==
  ASSUME NEW s \in Texts, NEW i \in 1..Len(s), NEW k \in Tags(s, i)
  PROVE  TokenEnd(s, i) = Behind(s, i + k, SubSeq(s, i, i + k - 1))
<1>1. s[i] = "$" /\ Tags(s, i) = {k}
  BY TagFacts
<1>2. (CHOOSE j \in Tags(s, i) : TRUE) = k /\ Tags(s, i) # {}
  BY <1>1
<1>3. ~StandsAt(s, i, <<"-", "-">>) /\ ~StandsAt(s, i, <<"/", "*">>)
  BY <1>1, TextFacts DEF StandsAt
<1>4. ~(\E m \in DOMAIN Quote : s[i] = Quote[m])
  BY <1>1, QuoteFacts
<1> QED
  BY <1>2, <1>3, <1>4 DEF TokenEnd

\* A hidden token takes at least one place.
LEMMA TokenEndBounds ==
  ASSUME NEW s \in Texts, NEW i \in 1..Len(s)
  PROVE  TokenEnd(s, i) \in i..Never(s)
<1>1. Len(s) \in Nat /\ i \in Nat /\ Never(s) = Len(s) + 2 /\ s[i] \in Bytes
  BY TextFacts
<1>2. CASE StandsAt(s, i, <<"-", "-">>)
  <2>1. LineEnd(s, i) \in i..(Len(s) + 1)
    BY <1>1, LineEndFacts
  <2> QED
    BY <1>1, <1>2, <2>1 DEF TokenEnd
<1>3. CASE ~StandsAt(s, i, <<"-", "-">>) /\ StandsAt(s, i, <<"/", "*">>)
  <2>1. i + 2 \in 1..(Len(s) + 1)
    BY <1>1, <1>3 DEF StandsAt
  <2>2. BlockEnd(s)[i + 2][1] \in (i + 2)..Never(s)
    BY <2>1, BlockBounds
  <2> QED
    BY <1>1, <1>3, <2>2 DEF TokenEnd
<1>4. CASE /\ ~StandsAt(s, i, <<"-", "-">>) /\ ~StandsAt(s, i, <<"/", "*">>)
           /\ \E m \in DOMAIN Quote : s[i] = Quote[m]
  <2>1. i + 1 \in 1..(Len(s) + 1) /\ <<s[i]>> \in Texts /\ <<s[i]>> # <<>>
    BY <1>1 DEF Texts
  <2>2. Behind(s, i + 1, <<s[i]>>) \in ((i + 1) + 1)..Never(s)
    BY <2>1, BehindFacts
  <2> QED
    BY <1>1, <1>4, <2>2 DEF TokenEnd
<1>5. ASSUME NEW k \in Tags(s, i)
      PROVE  TokenEnd(s, i) \in i..Never(s)
  <2> DEFINE t == SubSeq(s, i, i + k - 1)
  <2>1. k \in Nat /\ k >= 2 /\ i + k - 1 <= Len(s) /\ t \in Texts /\ Len(t) = k
    BY TagFacts
  <2>2. i + k \in 1..(Len(s) + 1) /\ t # <<>>
    BY <1>1, <2>1
  <2>3. TokenEnd(s, i) = Behind(s, i + k, t)
    BY TokenEndTag
  <2> HIDE DEF t
  <2>4. Behind(s, i + k, t) \in ((i + k) + 1)..Never(s)
    BY <2>1, <2>2, BehindFacts
  <2> QED
    BY <1>1, <2>1, <2>3, <2>4
<1>6. CASE /\ ~StandsAt(s, i, <<"-", "-">>) /\ ~StandsAt(s, i, <<"/", "*">>)
           /\ ~(\E m \in DOMAIN Quote : s[i] = Quote[m]) /\ Tags(s, i) = {}
  BY <1>1, <1>6 DEF TokenEnd
<1> QED
  BY <1>2, <1>3, <1>4, <1>5, <1>6

-----------------------------------------------------------------------------
(* The recursion of Scan                                                     *)

ScanStep(s, g, i) ==
  IF i > Len(s) THEN [hidden |-> {}, open |-> i = Never(s)]
  ELSE LET e == TokenEnd(s, i)
       IN IF e = i THEN g[i + 1]
          ELSE [hidden |-> g[e].hidden \cup {j \in i..(e - 1) : j <= Len(s)},
                open |-> g[e].open]

LEMMA ScanIsChosen ==
  ASSUME NEW s
  PROVE  Scan(s) = CHOOSE g : g = [i \in 1..Never(s) |-> ScanStep(s, g, i)]
BY Zenon DEF Scan, ScanStep

LEMMA ScanLocal ==
  ASSUME NEW s \in Texts, NEW g, NEW h, NEW i \in 1..Never(s),
         \A j \in 1..Never(s) : j > i => g[j] = h[j]
  PROVE  ScanStep(s, g, i) = ScanStep(s, h, i)
<1>1. Len(s) \in Nat /\ Never(s) = Len(s) + 2 /\ i \in Nat
  BY TextFacts
<1>2. CASE i > Len(s)
  BY <1>2 DEF ScanStep
<1>3. CASE ~(i > Len(s))
  <2> DEFINE e == TokenEnd(s, i)
  <2>1. e \in i..Never(s)
    BY <1>1, <1>3, TokenEndBounds
  <2>2. g[i + 1] = h[i + 1]
    BY <1>1, <1>3
  <2>3. e # i => g[e] = h[e]
    BY <1>1, <2>1
  <2> QED
    BY <1>3, <2>2, <2>3 DEF ScanStep
<1> QED
  BY <1>2, <1>3

LEMMA ScanExists ==
  ASSUME NEW s \in Texts
  PROVE  \E g : g = [i \in 1..Never(s) |-> ScanStep(s, g, i)]
<1> DEFINE From(g, k) == /\ g = [i \in 1..Never(s) |-> g[i]]
                         /\ \A i \in 1..Never(s) : i >= k => g[i] = ScanStep(s, g, i)
           Good == {k \in Nat : \E g : From(g, k)}
<1>1. Len(s) \in Nat /\ Never(s) = Len(s) + 2
  BY TextFacts
<1>2. Never(s) + 1 \in Good
  <2> DEFINE g == [i \in 1..Never(s) |-> 0]
  <2>1. From(g, Never(s) + 1)
    BY <1>1
  <2> HIDE DEF From
  <2> QED
    BY <1>1, <2>1
<1>3. ASSUME NEW k \in 1..Never(s), k + 1 \in Good
      PROVE  k \in Good
  <2>1. PICK g : From(g, k + 1)
    BY <1>3
  <2> DEFINE h == [i \in 1..Never(s) |-> IF i = k THEN ScanStep(s, g, k) ELSE g[i]]
  <2>2. k \in Nat
    BY <1>1
  <2>3. ASSUME NEW i \in 1..Never(s), i >= k
        PROVE  h[i] = ScanStep(s, h, i)
    <3>1. \A j \in 1..Never(s) : j > i => h[j] = g[j]
      BY <1>1, <2>2, <2>3
    <3> HIDE DEF h
    <3>2. ScanStep(s, h, i) = ScanStep(s, g, i)
      BY <3>1, ScanLocal
    <3> USE DEF h
    <3>3. CASE i = k
      BY <2>2, <3>2, <3>3
    <3>4. CASE i # k
      <4>1. i >= k + 1 /\ h[i] = g[i]
        BY <1>1, <2>2, <2>3, <3>4
      <4>2. g[i] = ScanStep(s, g, i)
        BY <2>1, <4>1
      <4> QED
        BY <3>2, <4>1, <4>2
    <3> QED
      BY <3>3, <3>4
  <2>4. From(h, k)
    BY <2>3
  <2> HIDE DEF From
  <2> QED
    BY <2>2, <2>4
<1> HIDE DEF Good
<1>4. 1 \in Good
  <2>1. /\ Never(s) + 1 \in Nat /\ (Never(s) + 1) - 1 = Never(s) /\ 1 \in Nat
        /\ 1 \in 1..(Never(s) + 1)
    BY <1>1
  <2> QED
    BY <1>2, <1>3, <2>1, Backwards
<1> USE DEF Good
<1>5. PICK g : From(g, 1)
  BY <1>4
<1>6. \A i \in 1..Never(s) : g[i] = ScanStep(s, g, i)
  BY <1>1, <1>5
<1>7. g = [i \in 1..Never(s) |-> ScanStep(s, g, i)]
  BY <1>5, <1>6
<1> QED
  BY <1>7

LEMMA ScanEquation ==
  ASSUME NEW s \in Texts, NEW i \in 1..Never(s)
  PROVE  /\ i > Len(s) => Scan(s)[i].hidden = {} /\ (Scan(s)[i].open <=> i = Never(s))
         /\ i <= Len(s) /\ TokenEnd(s, i) = i => Scan(s)[i] = Scan(s)[i + 1]
         /\ i <= Len(s) /\ TokenEnd(s, i) # i =>
              /\ Scan(s)[i].hidden = Scan(s)[TokenEnd(s, i)].hidden
                                       \cup {j \in i..(TokenEnd(s, i) - 1) : j <= Len(s)}
              /\ Scan(s)[i].open = Scan(s)[TokenEnd(s, i)].open
<1> DEFINE g == Scan(s)
<1>1. g = [j \in 1..Never(s) |-> ScanStep(s, g, j)]
  BY ScanExists, ScanIsChosen
<1> HIDE DEF g
<1>2. g[i] = ScanStep(s, g, i)
  BY <1>1
<1>3. Len(s) \in Nat /\ i \in Nat
  BY TextFacts
<1>4. ASSUME i > Len(s)
      PROVE  g[i].hidden = {} /\ (g[i].open <=> i = Never(s))
  <2> DEFINE n == Never(s)
             r == g[i]
  <2>1. r = [hidden |-> {}, open |-> i = n]
    BY <1>2, <1>4, Zenon DEF ScanStep
  <2> HIDE DEF n, r
  <2>2. r.hidden = {} /\ (r.open <=> i = n)
    BY <2>1
  <2> QED
    BY <2>2 DEF n, r
<1>5. i <= Len(s) => ~(i > Len(s))
  BY <1>3
<1>6. i <= Len(s) /\ TokenEnd(s, i) = i => g[i] = g[i + 1]
  BY <1>2, <1>5 DEF ScanStep
<1>7. i <= Len(s) /\ TokenEnd(s, i) # i =>
        g[i] = [hidden |-> g[TokenEnd(s, i)].hidden
                             \cup {j \in i..(TokenEnd(s, i) - 1) : j <= Len(s)},
                open |-> g[TokenEnd(s, i)].open]
  BY <1>2, <1>5 DEF ScanStep
<1> QED
  BY <1>4, <1>6, <1>7 DEF g

\* What is hidden from a place on is at that place or behind it.
LEMMA ScanBounds ==
  ASSUME NEW s \in Texts, NEW i \in 1..Never(s)
  PROVE  Scan(s)[i].hidden \subseteq i..Len(s)
<1> DEFINE In(k) == Scan(s)[k].hidden \subseteq k..Len(s)
           S == {k \in Nat : \A j \in k..Never(s) : In(j)}
<1>1. Len(s) \in Nat /\ Never(s) = Len(s) + 2
  BY TextFacts
<1>2. ASSUME NEW k \in 1..Never(s), \A j \in (k + 1)..Never(s) : In(j)
      PROVE  In(k)
  <2>1. k \in Nat
    BY <1>1
  <2>2. CASE k > Len(s)
    BY <2>2, ScanEquation
  <2>3. CASE k <= Len(s) /\ TokenEnd(s, k) = k
    <3>1. k + 1 \in (k + 1)..Never(s)
      BY <1>1, <2>1, <2>3
    <3>2. Scan(s)[k + 1].hidden \subseteq (k + 1)..Len(s)
      BY <1>2, <3>1
    <3>3. Scan(s)[k] = Scan(s)[k + 1]
      BY <2>3, ScanEquation
    <3>4. \A x \in (k + 1)..Len(s) : x \in k..Len(s)
      BY <1>1, <2>1
    <3> QED
      BY <3>2, <3>3, <3>4
  <2>4. CASE k <= Len(s) /\ TokenEnd(s, k) # k
    <3>1. TokenEnd(s, k) \in (k + 1)..Never(s)
      BY <1>1, <2>1, <2>4, TokenEndBounds
    <3>2. Scan(s)[TokenEnd(s, k)].hidden \subseteq TokenEnd(s, k)..Len(s)
      BY <1>2, <3>1
    <3>3. Scan(s)[k].hidden = Scan(s)[TokenEnd(s, k)].hidden
                                \cup {j \in k..(TokenEnd(s, k) - 1) : j <= Len(s)}
      BY <2>4, ScanEquation
    <3>4. /\ \A x \in TokenEnd(s, k)..Len(s) : x \in k..Len(s)
          /\ \A x \in {j \in k..(TokenEnd(s, k) - 1) : j <= Len(s)} : x \in k..Len(s)
      BY <1>1, <2>1, <3>1
    <3> QED
      BY <3>2, <3>3, <3>4
  <2> QED
    BY <1>1, <2>1, <2>2, <2>3, <2>4
<1> HIDE DEF In
<1>3. Never(s) + 1 \in S
  BY <1>1
<1>4. ASSUME NEW k \in 1..Never(s), k + 1 \in S
      PROVE  k \in S
  <2>1. In(k)
    BY <1>2, <1>4
  <2>2. \A j \in k..Never(s) : j = k \/ j \in (k + 1)..Never(s)
    BY <1>1
  <2> QED
    BY <1>1, <1>4, <2>1, <2>2
<1> HIDE DEF S
<1>5. i \in S
  <2>1. (Never(s) + 1) \in Nat /\ (Never(s) + 1) - 1 = Never(s) /\ 1 \in Nat
        /\ i \in 1..(Never(s) + 1)
    BY <1>1
  <2> QED
    BY <1>3, <1>4, <2>1, Backwards
<1>6. In(i)
  <2>1. i \in i..Never(s)
    BY <1>1
  <2> QED
    BY <1>5, <2>1 DEF S
<1> QED
  BY <1>6 DEF In

-----------------------------------------------------------------------------
(* What has been read of a statement, and what the reference says of it      *)

\* The first i bytes of s are out, and the token that is being read ends at e.
Agree(s, i, out, e) ==
  /\ i <= Len(s) /\ Len(out) = i /\ e \in (i + 1)..Never(s)
  /\ Tokens(s).open <=> Scan(s)[e].open
  /\ \A k \in (i + 1)..Len(s) : k \in Tokens(s).hidden <=> k < e \/ k \in Scan(s)[e].hidden
  /\ \A k \in 1..i : out[k] = IF k \in Tokens(s).hidden THEN MaskHiddenByte(s[k])
                                                         ELSE MaskByte(s[k])

LEMMA Joined ==
  ASSUME NEW out \in Texts, NEW shown \in Texts
  PROVE  /\ out \o shown \in Texts /\ Len(out \o shown) = Len(out) + Len(shown)
         /\ \A k \in 1..Len(out) : (out \o shown)[k] = out[k]
         /\ \A k \in 1..Len(shown) : (out \o shown)[Len(out) + k] = shown[k]
BY DEF Texts

\* Inside a token, what is hidden goes out hidden.
LEMMA AgreeInside ==
  ASSUME NEW s \in Texts, NEW i \in Nat, NEW out \in Texts, NEW e, Agree(s, i, out, e),
         NEW shown \in Texts, i + Len(shown) <= Len(s), i + Len(shown) < e,
         \A x \in 1..Len(shown) : shown[x] = MaskHiddenByte(s[i + x])
  PROVE  Agree(s, i + Len(shown), out \o shown, e)
<1> DEFINE n == Len(shown)
<1>1. /\ Len(s) \in Nat /\ n \in Nat /\ Never(s) = Len(s) + 2 /\ Len(out) = i
      /\ e \in Nat /\ e \in (i + 1)..Never(s)
  BY TextFacts DEF Agree
<1>2. Len(out \o shown) = i + n /\ i + n <= Len(s) /\ e \in ((i + n) + 1)..Never(s)
  <2>1. Len(out \o shown) = Len(out) + n
    BY Joined
  <2> QED
    BY <1>1, <2>1
<1>3. ASSUME NEW k \in 1..(i + n)
      PROVE  (out \o shown)[k] = IF k \in Tokens(s).hidden THEN MaskHiddenByte(s[k])
                                                            ELSE MaskByte(s[k])
  <2>1. CASE k <= i
    <3>1. k \in 1..i /\ k \in 1..Len(out)
      BY <1>1, <2>1
    <3>2. (out \o shown)[k] = out[k]
      BY <3>1, Joined
    <3> QED
      BY <3>1, <3>2 DEF Agree
  <2>2. CASE k > i
    <3>1. k - i \in 1..n /\ i + (k - i) = k /\ k \in (i + 1)..Len(s) /\ k < e
      BY <1>1, <2>2
    <3>2. (out \o shown)[Len(out) + (k - i)] = shown[k - i]
      BY <3>1, Joined
    <3>3. (out \o shown)[k] = MaskHiddenByte(s[k])
      BY <1>1, <3>1, <3>2
    <3>4. k \in Tokens(s).hidden
      BY <3>1 DEF Agree
    <3> QED
      BY <3>3, <3>4
  <2> QED
    BY <1>1, <2>1, <2>2
<1>4. \A k \in ((i + n) + 1)..Len(s) : k \in (i + 1)..Len(s)
  BY <1>1
<1> QED
  BY <1>2, <1>3, <1>4 DEF Agree

\* Where a token is over, and another one begins.
LEMMA AgreeOpen ==
  ASSUME NEW s \in Texts, NEW i \in Nat, NEW out \in Texts, NEW e, Agree(s, i, out, e),
         e <= Len(s), TokenEnd(s, e) # e
  PROVE  Agree(s, i, out, TokenEnd(s, e))
<1>1. /\ Len(s) \in Nat /\ Never(s) = Len(s) + 2 /\ e \in (i + 1)..Never(s) /\ e \in Nat
      /\ e \in 1..Len(s) /\ e \in 1..Never(s)
  BY TextFacts DEF Agree
<1> DEFINE f == TokenEnd(s, e)
<1>2. f \in e..Never(s) /\ f # e
  BY <1>1, TokenEndBounds
<1>3. /\ Scan(s)[e].hidden = Scan(s)[f].hidden \cup {j \in e..(f - 1) : j <= Len(s)}
      /\ Scan(s)[e].open = Scan(s)[f].open
  BY <1>1, <1>2, ScanEquation
<1> HIDE DEF f
<1>4. f \in (i + 1)..Never(s)
  BY <1>1, <1>2
<1>5. ASSUME NEW k \in (i + 1)..Len(s)
      PROVE  k \in Tokens(s).hidden <=> k < f \/ k \in Scan(s)[f].hidden
  <2>1. k \in Tokens(s).hidden <=> k < e \/ k \in Scan(s)[e].hidden
    BY DEF Agree
  <2>2. k \in {j \in e..(f - 1) : j <= Len(s)} <=> ~(k < e) /\ k < f
    BY <1>1, <1>2
  <2>3. k < e => k < f
    BY <1>1, <1>2
  <2> QED
    BY <1>3, <2>1, <2>2, <2>3
<1>6. Agree(s, i, out, f)
  BY <1>3, <1>4, <1>5 DEF Agree
<1> QED
  BY <1>6 DEF f

\* Where no token is, the byte is shown.
LEMMA AgreeShow ==
  ASSUME NEW s \in Texts, NEW i \in Nat, NEW out \in Texts, Agree(s, i, out, i + 1),
         i < Len(s), TokenEnd(s, i + 1) = i + 1
  PROVE  Agree(s, i + 1, out \o <<MaskByte(s[i + 1])>>, i + 2)
<1> DEFINE shown == <<MaskByte(s[i + 1])>>
<1>1. /\ Len(s) \in Nat /\ Never(s) = Len(s) + 2 /\ Len(out) = i
      /\ i + 1 \in 1..Never(s) /\ i + 2 \in 1..Never(s) /\ s[i + 1] \in Bytes
  BY TextFacts DEF Agree
<1>2. shown \in Texts /\ Len(shown) = 1 /\ shown[1] = MaskByte(s[i + 1])
  BY <1>1, MasksTyped DEF Texts
<1> HIDE DEF shown
<1>3. Scan(s)[i + 1] = Scan(s)[i + 2]
  BY <1>1, ScanEquation
<1>4. Scan(s)[i + 2].hidden \subseteq (i + 2)..Len(s)
  BY <1>1, ScanBounds
<1>5. i + 1 \notin Tokens(s).hidden
  <2>1. i + 1 \in (i + 1)..Len(s) /\ ~(i + 1 < i + 1) /\ i + 1 \notin (i + 2)..Len(s)
    BY <1>1
  <2> QED
    BY <1>3, <1>4, <2>1 DEF Agree
<1>6. ASSUME NEW k \in 1..(i + 1)
      PROVE  (out \o shown)[k] = IF k \in Tokens(s).hidden THEN MaskHiddenByte(s[k])
                                                            ELSE MaskByte(s[k])
  <2>1. CASE k <= i
    <3>1. k \in 1..i /\ k \in 1..Len(out)
      BY <1>1, <2>1
    <3>2. (out \o shown)[k] = out[k]
      BY <1>2, <3>1, Joined
    <3> QED
      BY <3>1, <3>2 DEF Agree
  <2>2. CASE ~(k <= i)
    <3>1. k = i + 1 /\ 1 \in 1..Len(shown)
      BY <1>1, <1>2, <2>2
    <3>2. (out \o shown)[Len(out) + 1] = shown[1]
      BY <1>2, <3>1, Joined
    <3>3. (out \o shown)[i + 1] = MaskByte(s[i + 1])
      BY <1>1, <1>2, <3>2
    <3>4. k \notin Tokens(s).hidden /\ (out \o shown)[k] = MaskByte(s[k])
      BY <1>5, <3>1, <3>3, Zenon
    <3> QED
      BY <3>4
  <2> QED
    BY <2>1, <2>2
<1>7. ASSUME NEW k \in ((i + 1) + 1)..Len(s)
      PROVE  k \in Tokens(s).hidden <=> k < i + 2 \/ k \in Scan(s)[i + 2].hidden
  <2>1. k \in (i + 1)..Len(s) /\ ~(k < i + 1) /\ ~(k < i + 2)
    BY <1>1
  <2> QED
    BY <1>3, <2>1 DEF Agree
<1>8. Len(out \o shown) = i + 1 /\ i + 1 <= Len(s) /\ i + 2 \in ((i + 1) + 1)..Never(s)
  <2>1. Len(out \o shown) = Len(out) + Len(shown)
    BY <1>2, Joined
  <2> QED
    BY <1>1, <1>2, <2>1
<1>9. Agree(s, i + 1, out \o shown, i + 2)
  BY <1>3, <1>6, <1>7, <1>8 DEF Agree
<1> QED
  BY <1>9 DEF shown

-----------------------------------------------------------------------------
(* Each turn of the lexer                                                    *)

\* Where the token ends that a lexer in state m, d, t is in, after i bytes; the next
\* place if it is in none.
Rest(s, i, m, d, t) ==
  IF t # <<>> THEN Behind(s, i + 1, t)
  ELSE IF m = "line" THEN LineEnd(s, i + 1)
  ELSE IF m = "block" THEN BlockEnd(s)[i + 1][d]
  ELSE IF m \in DOMAIN Quote THEN Behind(s, i + 1, <<Quote[m]>>)
  ELSE i + 1

LexerInv ==
  /\ \A k \in 1..Len(tag) : tag[k] \in IdentifierPart \cup {"$"}
  /\ Agree(sql, at, surface, Rest(sql, at, mode, depth, tag))

LEMMA StandsOne ==
  ASSUME NEW s \in Texts, NEW i \in 1..(Len(s) + 1), NEW a
  PROVE  StandsAt(s, i, <<a>>) <=> i <= Len(s) /\ s[i] = a
<1>1. Len(<<a>>) = 1 /\ <<a>>[1] = a /\ Len(s) \in Nat /\ i \in Nat
  BY TextFacts
<1>2. i + 1 - 1 = i /\ 1..1 = {1}
  BY <1>1
<1> QED
  BY <1>1, <1>2 DEF StandsAt

LEMMA StandsTwo ==
  ASSUME NEW s \in Texts, NEW i \in 1..(Len(s) + 1), NEW a, NEW b
  PROVE  StandsAt(s, i, <<a, b>>) <=> i + 1 <= Len(s) /\ s[i] = a /\ s[i + 1] = b
<1>1. /\ Len(<<a, b>>) = 2 /\ <<a, b>>[1] = a /\ <<a, b>>[2] = b
      /\ Len(s) \in Nat /\ i \in Nat
  BY TextFacts
<1>2. i + 1 - 1 = i /\ i + 2 - 1 = i + 1 /\ 1..2 = {1, 2}
  BY <1>1
<1> QED
  BY <1>1, <1>2 DEF StandsAt

LEMMA AheadStands ==
  ASSUME LexerTypes, NEW t \in Texts
  PROVE  Ahead(t) <=> StandsAt(sql, at + 1, t)
<1>1. at \in Nat /\ Len(t) \in Nat
  BY TextFacts DEF LexerTypes
<1>2. (at + 1) + Len(t) - 1 = at + Len(t)
  BY <1>1
<1>3. \A k \in 1..Len(t) : (at + 1) + k - 1 = at + k
  BY <1>1
<1> QED
  BY <1>2, <1>3 DEF Ahead, StandsAt

\* What delimits a token is shown blank, and so is every other byte that is no newline.
LEMMA MaskFacts ==
  /\ MaskByte(Newline) = Newline
  /\ \A b \in IdentifierPart \cup {"$", "'", "\"", "-", "/", "*"} : MaskHiddenByte(b) = Blank
  /\ \A b \in Bytes : b # Newline => MaskHiddenByte(b) = Blank
<1>1. Newline \in Punctuation
  BY DEF Punctuation, Whitespace
<1>2. Newline \notin IdentifierPart /\ Newline \notin Unprintable
  BY <1>1, AlphabetAssumption
<1>3. \A b \in {"$", "'", "\"", "-", "/", "*"} : b # Newline
  BY DEF Newline
<1> QED
  BY <1>2, <1>3 DEF MaskByte, MaskHiddenByte

LEMMA Blanks ==
  ASSUME NEW n \in Nat
  PROVE  /\ [k \in 1..n |-> Blank] \in Texts /\ Len([k \in 1..n |-> Blank]) = n
         /\ \A x \in 1..n : [k \in 1..n |-> Blank][x] = Blank
<1>1. Blank \in Bytes
  BY DEF Bytes, Punctuation, Whitespace
<1> QED
  BY <1>1 DEF Texts

\* A turn that pushes n blanks inside a token.
LEMMA BlankStep ==
  ASSUME LexerTypes, NEW e, Agree(sql, at, surface, e), NEW n \in Nat, PushBlanks(n),
         at + n <= Len(sql), at + n < e,
         \A x \in 1..n : MaskHiddenByte(sql[at + x]) = Blank
  PROVE  /\ Agree(sql', at', surface', e) /\ sql' = sql /\ at' = at + n
<1> DEFINE shown == [k \in 1..n |-> Blank]
<1>1. /\ shown \in Texts /\ Len(shown) = n
      /\ \A x \in 1..n : shown[x] = MaskHiddenByte(sql[at + x])
  BY Blanks
<1>2. sql' = sql /\ at' = at + Len(shown) /\ surface' = surface \o shown
  BY DEF PushBlanks, Push
<1> HIDE DEF shown
<1>3. sql \in Texts /\ at \in Nat /\ surface \in Texts
  BY DEF LexerTypes, Texts
<1>4. Agree(sql, at + Len(shown), surface \o shown, e)
  BY <1>1, <1>3, AgreeInside
<1> QED
  BY <1>1, <1>2, <1>4

\* A turn that pushes a byte of a token, but for its newline hidden.
LEMMA HiddenStep ==
  ASSUME LexerTypes, NEW e, Agree(sql, at, surface, e), PushHidden, Scanning, at + 1 < e
  PROVE  /\ Agree(sql', at', surface', e) /\ sql' = sql /\ at' = at + 1
<1>1. sql \in Texts /\ at \in Nat /\ surface \in Texts /\ Len(sql) \in Nat
  BY DEF LexerTypes, Texts
<1>2. sql[at + 1] \in Bytes /\ at + 1 <= Len(sql)
  BY <1>1, TextFacts DEF Scanning
<1> DEFINE b == MaskHiddenByte(sql[at + 1])
<1>3. <<b>> \in Texts /\ Len(<<b>>) = 1 /\ <<b>>[1] = b
  BY <1>2, MasksTyped DEF Texts
<1>4. sql' = sql /\ at' = at + 1 /\ surface' = surface \o <<b>>
  BY <1>1, <1>3 DEF PushHidden, Push
<1>5. \A x \in 1..Len(<<b>>) : <<b>>[x] = MaskHiddenByte(sql[at + x])
  BY <1>3
<1> HIDE DEF b
<1>6. Agree(sql, at + Len(<<b>>), surface \o <<b>>, e)
  BY <1>1, <1>2, <1>3, <1>5, AgreeInside
<1> QED
  BY <1>3, <1>4, <1>6

LEMMA LexerSetting ==
  ASSUME LexerTypes, LexerInv, Scanning
  PROVE  /\ sql \in Texts /\ at \in Nat /\ surface \in Texts /\ Len(sql) \in Nat
         /\ at + 1 \in 1..Len(sql) /\ at + 1 <= Len(sql) /\ sql[at + 1] \in Bytes
         /\ at + 1 \in 1..(Len(sql) + 1) /\ at + 2 \in 1..(Len(sql) + 1)
         /\ Agree(sql, at, surface, Rest(sql, at, mode, depth, tag))
<1>1. sql \in Texts /\ at \in Nat /\ surface \in Texts /\ Len(sql) \in Nat
  BY DEF LexerTypes, Texts
<1>2. at + 1 \in 1..Len(sql) /\ at + 2 \in 1..(Len(sql) + 1) /\ at + 1 \in 1..(Len(sql) + 1)
  BY <1>1 DEF Scanning
<1> QED
  BY <1>1, <1>2, TextFacts DEF LexerInv

LEMMA DollarQuoteKeeps ==
  ASSUME LexerTypes, LexerInv, Scanning, InDollarQuote
  PROVE  LexerInv'
<1>1. /\ sql \in Texts /\ at \in Nat /\ Len(sql) \in Nat /\ at + 1 <= Len(sql)
      /\ at + 1 \in 1..(Len(sql) + 1) /\ at + 2 \in 1..(Len(sql) + 1)
  BY LexerSetting
<1>2. tag # <<>> /\ mode = "normal" /\ mode' = mode /\ depth' = depth
      /\ tag \in Texts /\ Len(tag) \in Nat /\ Len(tag) > 0
  BY DEF InDollarQuote, LexerTypes, Texts
<1> DEFINE e == Behind(sql, at + 1, tag)
<1>3. Agree(sql, at, surface, e)
  BY <1>2, LexerSetting DEF Rest
<1>4. Ahead(tag) <=> StandsAt(sql, at + 1, tag)
  BY <1>2, AheadStands
<1>5. \A k \in 1..Len(tag) : tag[k] \in IdentifierPart \cup {"$"}
  BY DEF LexerInv
<1>6. CASE Ahead(tag) /\ PushBlanks(Len(tag)) /\ tag' = <<>>
  <2>1. e = (at + 1) + Len(tag)
    BY <1>1, <1>2, <1>4, <1>6, BehindFacts
  <2>2. at + Len(tag) <= Len(sql) /\ \A x \in 1..Len(tag) : sql[at + x] = tag[x]
    BY <1>6 DEF Ahead
  <2>3. \A x \in 1..Len(tag) : MaskHiddenByte(sql[at + x]) = Blank
    BY <1>5, <2>2, MaskFacts
  <2>4. at + Len(tag) < e
    BY <1>1, <1>2, <2>1
  <2> HIDE DEF e
  <2>5. Agree(sql', at', surface', e) /\ sql' = sql /\ at' = at + Len(tag)
    BY <1>2, <1>3, <1>6, <2>2, <2>3, <2>4, BlankStep
  <2>6. Rest(sql', at', mode', depth', tag') = at' + 1
    BY <1>2, <1>6, QuoteFacts DEF Rest
  <2>7. at' + 1 = e
    BY <1>1, <1>2, <2>1, <2>5
  <2> QED
    BY <1>6, <2>5, <2>6, <2>7 DEF LexerInv
<1>7. CASE ~Ahead(tag) /\ PushHidden /\ tag' = tag
  <2>1. e = Behind(sql, at + 2, tag)
    <3>1. at + 1 + 1 = at + 2
      BY <1>1
    <3> QED
      BY <1>1, <1>2, <1>4, <1>7, <3>1, BehindFacts
  <2>2. e \in ((at + 2) + 1)..Never(sql)
    BY <1>1, <1>2, <2>1, BehindFacts
  <2>3. at + 1 < e
    BY <1>1, <2>2
  <2> HIDE DEF e
  <2>4. Agree(sql', at', surface', e) /\ sql' = sql /\ at' = at + 1
    BY <1>3, <1>7, <2>3, HiddenStep
  <2>5. Rest(sql', at', mode', depth', tag') = Behind(sql, at' + 1, tag)
    BY <1>2, <1>7, <2>4 DEF Rest
  <2>6. at' + 1 = at + 2
    BY <1>1, <2>4
  <2> QED
    BY <1>5, <1>7, <2>1, <2>4, <2>5, <2>6 DEF LexerInv
<1> QED
  BY <1>6, <1>7 DEF InDollarQuote

\* What ParseDollarTag finds is what the reference calls a tag.
LEMMA ParsesTags ==
  ASSUME LexerTypes, Scanning
  PROVE  ParseDollarTag = Tags(sql, at + 1)
<1>1. at \in Nat /\ Len(sql) \in Nat
  BY DEF LexerTypes
<1>2. 2..(Len(sql) - at) = 2..(Len(sql) - (at + 1) + 1)
  BY <1>1
<1>3. ASSUME NEW n \in 2..(Len(sql) - at)
      PROVE  /\ (at + 1) + n - 1 = at + n
             /\ (\A k \in 2..(n - 1) : sql[at + k] \in IdentifierPart)
                  <=> (\A j \in ((at + 1) + 1)..((at + 1) + n - 2) : sql[j] \in IdentifierPart)
  <2>1. n \in Nat
    BY <1>1
  <2>2. (at + 1) + n - 1 = at + n
    BY <1>1, <2>1
  <2>3. \A k \in 2..(n - 1) : at + k \in ((at + 1) + 1)..((at + 1) + n - 2)
    BY <1>1, <2>1
  <2>4. \A j \in ((at + 1) + 1)..((at + 1) + n - 2) : j - at \in 2..(n - 1) /\ at + (j - at) = j
    BY <1>1, <2>1
  <2> QED
    BY <2>2, <2>3, <2>4
<1> QED
  BY <1>2, <1>3 DEF ParseDollarTag, Tags

\* A token opens: its first n bytes delimit it.
LEMMA OpenStep ==
  ASSUME LexerTypes, LexerInv, Scanning, tag = <<>>, mode = "normal",
         NEW e, e = TokenEnd(sql, at + 1), NEW n \in Nat, n > 0, PushBlanks(n),
         at + n <= Len(sql), e \in (at + n + 1)..Never(sql),
         \A x \in 1..n : MaskHiddenByte(sql[at + x]) = Blank
  PROVE  /\ Agree(sql', at', surface', e) /\ sql' = sql /\ at' = at + n
<1>1. /\ sql \in Texts /\ at \in Nat /\ surface \in Texts /\ Len(sql) \in Nat
      /\ at + 1 <= Len(sql) /\ Agree(sql, at, surface, Rest(sql, at, mode, depth, tag))
  BY LexerSetting
<1>2. Rest(sql, at, mode, depth, tag) = at + 1
  BY QuoteFacts DEF Rest
<1>3. Agree(sql, at, surface, at + 1)
  BY <1>1, <1>2
<1>4. e # at + 1 /\ at + n < e
  BY <1>1, TextFacts
<1>5. Agree(sql, at, surface, e)
  BY <1>1, <1>3, <1>4, AgreeOpen
<1> QED
  BY <1>4, <1>5, BlankStep

LEMMA NormalKeeps ==
  ASSUME LexerTypes, LexerInv, Scanning, InNormal
  PROVE  LexerInv'
<1>1. /\ sql \in Texts /\ at \in Nat /\ surface \in Texts /\ Len(sql) \in Nat
      /\ at + 1 <= Len(sql) /\ at + 1 \in 1..Len(sql)
      /\ at + 1 \in 1..(Len(sql) + 1) /\ at + 2 \in 1..(Len(sql) + 1)
      /\ Agree(sql, at, surface, Rest(sql, at, mode, depth, tag))
  BY LexerSetting
<1>2. tag = <<>> /\ mode = "normal" /\ Never(sql) = Len(sql) + 2 /\ (at + 1) + 1 = at + 2
  BY <1>1 DEF InNormal, Never
<1> DEFINE here == sql[at + 1]
<1>3. \A a, b \in Bytes : StandsAt(sql, at + 1, <<a, b>>)
                           <=> at + 2 <= Len(sql) /\ here = a /\ sql[at + 2] = b
  <2>1. \A a, b \in Bytes : StandsAt(sql, at + 1, <<a, b>>)
                             <=> (at + 1) + 1 <= Len(sql) /\ here = a /\ sql[(at + 1) + 1] = b
    BY <1>1, StandsTwo
  <2> QED
    BY <1>2, <2>1
<1>4. {"-", "/", "*", "'", "\"", "$"} \subseteq Bytes
  BY DEF Bytes, Punctuation
<1>5. \A a, b \in Bytes : Ahead(<<a, b>>) <=> StandsAt(sql, at + 1, <<a, b>>)
  <2>1. \A a, b \in Bytes : <<a, b>> \in Texts
    BY DEF Texts
  <2> QED
    BY <2>1, AheadStands
<1>6. \A a \in Bytes : Ahead(<<a>>) <=> here = a
  <2>1. \A a \in Bytes : <<a>> \in Texts
    BY DEF Texts
  <2> QED
    BY <1>1, <2>1, AheadStands, StandsOne
<1>7. CASE Ahead(<<"-", "-">>) /\ PushBlanks(2) /\ mode' = "line" /\ UNCHANGED <<depth, tag>>
  <2>1. at + 2 <= Len(sql) /\ sql[at + 1] = "-" /\ sql[at + 2] = "-"
        /\ StandsAt(sql, at + 1, <<"-", "-">>)
    BY <1>3, <1>4, <1>5, <1>7
  <2>2. at + 3 \in 1..(Len(sql) + 1) /\ at + 2 + 1 = at + 3
    BY <1>1, <2>1
  <2>3. "-" # Newline
    BY DEF Newline
  <2>4. LineEnd(sql, at + 1) = LineEnd(sql, at + 2)
    BY <1>1, <1>2, <2>1, <2>3, LineEndFacts
  <2>5. LineEnd(sql, at + 2) = LineEnd(sql, at + 3)
    BY <1>1, <2>1, <2>2, <2>3, LineEndFacts
  <2> DEFINE e == LineEnd(sql, at + 3)
  <2>6. TokenEnd(sql, at + 1) = e
    BY <2>1, <2>4, <2>5 DEF TokenEnd
  <2>7. e \in (at + 2 + 1)..Never(sql)
    <3>1. e \in (at + 3)..(Len(sql) + 1)
      BY <1>1, <2>2, LineEndFacts
    <3> QED
      BY <1>1, <1>2, <3>1
  <2>8. \A x \in 1..2 : MaskHiddenByte(sql[at + x]) = Blank
    <3>1. \A x \in 1..2 : sql[at + x] = "-"
      BY <2>1
    <3> QED
      BY <3>1, MaskFacts
  <2> HIDE DEF e
  <2>9. Agree(sql', at', surface', e) /\ sql' = sql /\ at' = at + 2
    BY <1>2, <1>7, <2>1, <2>6, <2>7, <2>8, OpenStep
  <2>10. Rest(sql', at', mode', depth', tag') = e
    BY <1>2, <1>7, <2>2, <2>9 DEF Rest, e
  <2> QED
    BY <1>2, <1>7, <2>9, <2>10 DEF LexerInv
<1>8. CASE /\ Ahead(<<"/", "*">>) /\ PushBlanks(2) /\ mode' = "block" /\ depth' = 1
           /\ UNCHANGED tag
  <2>1. at + 2 <= Len(sql) /\ sql[at + 1] = "/" /\ sql[at + 2] = "*"
        /\ StandsAt(sql, at + 1, <<"/", "*">>) /\ ~StandsAt(sql, at + 1, <<"-", "-">>)
    BY <1>3, <1>4, <1>5, <1>8
  <2>2. at + 3 \in 1..(Len(sql) + 1) /\ at + 2 + 1 = at + 3 /\ at + 1 + 2 = at + 3
    BY <1>1, <2>1
  <2> DEFINE e == BlockEnd(sql)[at + 3][1]
  <2>3. TokenEnd(sql, at + 1) = e
    BY <2>1, <2>2 DEF TokenEnd
  <2>4. e \in (at + 2 + 1)..Never(sql)
    BY <1>1, <2>2, BlockBounds
  <2>5. \A x \in 1..2 : MaskHiddenByte(sql[at + x]) = Blank
    <3>1. \A x \in 1..2 : sql[at + x] \in {"/", "*"}
      BY <2>1
    <3> QED
      BY <3>1, MaskFacts
  <2> HIDE DEF e
  <2>6. Agree(sql', at', surface', e) /\ sql' = sql /\ at' = at + 2
    BY <1>2, <1>8, <2>1, <2>3, <2>4, <2>5, OpenStep
  <2>7. Rest(sql', at', mode', depth', tag') = e
    BY <1>2, <1>8, <2>2, <2>6 DEF Rest, e
  <2> QED
    BY <1>2, <1>8, <2>6, <2>7 DEF LexerInv
<1>9. ASSUME NEW m \in DOMAIN Quote, Ahead(<<Quote[m]>>), PushBlanks(1), mode' = m,
             UNCHANGED <<depth, tag>>
      PROVE  LexerInv'
  <2>1. Quote[m] \in Bytes /\ Quote[m] \in {"'", "\""} /\ m # "line" /\ m # "block"
    BY <1>4, QuoteFacts
  <2>2. here = Quote[m]
    BY <1>6, <1>9, <2>1
  <2>3. ~StandsAt(sql, at + 1, <<"-", "-">>) /\ ~StandsAt(sql, at + 1, <<"/", "*">>)
    BY <1>3, <1>4, <2>1, <2>2
  <2> DEFINE q == <<Quote[m]>>
             e == Behind(sql, at + 2, q)
  <2>4. q \in Texts /\ q # <<>>
    <3>1. \A b \in Bytes : <<b>> \in Texts /\ <<b>> # <<>>
      BY DEF Texts
    <3> QED
      BY <2>1, <3>1
  <2>5. TokenEnd(sql, at + 1) = e
    BY <1>2, <2>2, <2>3 DEF TokenEnd
  <2>6. e \in (at + 1 + 1)..Never(sql)
    <3> HIDE DEF q
    <3>1. e \in ((at + 2) + 1)..Never(sql)
      BY <1>1, <2>4, BehindFacts
    <3> QED
      BY <1>1, <1>2, <3>1
  <2>7. \A x \in 1..1 : MaskHiddenByte(sql[at + x]) = Blank
    <3>1. \A x \in 1..1 : x = 1 /\ sql[at + x] \in {"'", "\""}
      <4>1. 1..1 = {1}
        OBVIOUS
      <4> QED
        BY <2>1, <2>2, <4>1
    <3> QED
      BY <3>1, MaskFacts
  <2> HIDE DEF e
  <2>8. Agree(sql', at', surface', e) /\ sql' = sql /\ at' = at + 1
    BY <1>1, <1>2, <1>9, <2>5, <2>6, <2>7, OpenStep
  <2>9. Rest(sql', at', mode', depth', tag') = e
    BY <1>2, <1>9, <2>1, <2>8 DEF Rest, e
  <2> QED
    BY <1>2, <1>9, <2>8, <2>9 DEF LexerInv
<1>10. ASSUME NEW n \in ParseDollarTag, PushBlanks(n), tag' = SubSeq(sql, at + 1, at + n),
              UNCHANGED <<mode, depth>>
       PROVE  LexerInv'
  <2>1. n \in Tags(sql, at + 1)
    BY ParsesTags
  <2> DEFINE t == SubSeq(sql, at + 1, at + n)
  <2>2. n \in Nat /\ n >= 2 /\ at + n <= Len(sql) /\ t \in Texts /\ Len(t) = n
        /\ \A x \in 1..n : t[x] = sql[at + x] /\ sql[at + x] \in IdentifierPart \cup {"$"}
    <3>1. n \in Nat
      BY <1>1, <2>1, TagFacts
    <3>2. at + 1 + n - 1 = at + n /\ \A x \in 1..n : at + 1 + x - 1 = at + x
      BY <1>1, <3>1
    <3> QED
      BY <1>1, <2>1, <3>2, TagFacts
  <2>3. at + 1 + n - 1 = at + n /\ at + 1 + n = at + n + 1
    BY <1>1, <2>2
  <2> DEFINE e == Behind(sql, at + n + 1, t)
  <2>4. TokenEnd(sql, at + 1) = e
    BY <1>1, <2>1, <2>3, TokenEndTag
  <2> HIDE DEF t
  <2>5. t # <<>>
    <3>1. Len(<<>>) = 0
      OBVIOUS
    <3> QED
      BY <2>2, <3>1
  <2>6. e \in (at + n + 1)..Never(sql)
    <3>1. at + n + 1 \in 1..(Len(sql) + 1)
      BY <1>1, <2>2
    <3>2. e \in ((at + n + 1) + 1)..Never(sql)
      BY <1>1, <2>2, <2>5, <3>1, BehindFacts
    <3> QED
      BY <1>1, <1>2, <2>2, <3>2
  <2>7. \A x \in 1..n : MaskHiddenByte(sql[at + x]) = Blank
    BY <2>2, MaskFacts
  <2> HIDE DEF e
  <2>8. Agree(sql', at', surface', e) /\ sql' = sql /\ at' = at + n
    BY <1>2, <1>10, <2>2, <2>4, <2>6, <2>7, OpenStep
  <2>9. tag' = t
    BY <1>10 DEF t
  <2>10. Rest(sql', at', mode', depth', tag') = e
    BY <2>5, <2>8, <2>9 DEF Rest, e
  <2>11. \A k \in 1..Len(tag') : tag'[k] \in IdentifierPart \cup {"$"}
    BY <2>2, <2>9
  <2> QED
    BY <2>8, <2>10, <2>11 DEF LexerInv
<1>11. CASE NothingOpens /\ Push(<<MaskByte(sql[at + 1])>>) /\ UNCHANGED <<mode, depth, tag>>
  <2>1. ~StandsAt(sql, at + 1, <<"-", "-">>) /\ ~StandsAt(sql, at + 1, <<"/", "*">>)
    BY <1>4, <1>5, <1>11 DEF NothingOpens
  <2>2. ~(\E m \in DOMAIN Quote : here = Quote[m])
    BY <1>4, <1>6, <1>11, QuoteFacts DEF NothingOpens
  <2>3. Tags(sql, at + 1) = {}
    BY <1>11, ParsesTags DEF NothingOpens
  <2>4. TokenEnd(sql, at + 1) = at + 1
    BY <2>1, <2>2, <2>3 DEF TokenEnd
  <2>5. Rest(sql, at, mode, depth, tag) = at + 1
    BY <1>2, QuoteFacts DEF Rest
  <2>6. Agree(sql, at + 1, surface \o <<MaskByte(sql[at + 1])>>, at + 2)
    BY <1>1, <2>4, <2>5, AgreeShow
  <2>7. sql' = sql /\ at' = at + 1 /\ surface' = surface \o <<MaskByte(sql[at + 1])>>
    BY <1>1, <1>11 DEF Push
  <2>8. Rest(sql', at', mode', depth', tag') = at + 2
    BY <1>2, <1>11, <2>7, QuoteFacts DEF Rest
  <2> QED
    BY <1>2, <1>11, <2>6, <2>7, <2>8 DEF LexerInv
<1> QED
  BY <1>7, <1>8, <1>9, <1>10, <1>11 DEF InNormal

\* A doubled quote is the end of a literal and the beginning of the next.
LEMMA QuotesKeep ==
  ASSUME LexerTypes, LexerInv, Scanning, InQuotes
  PROVE  LexerInv'
<1>1. /\ sql \in Texts /\ at \in Nat /\ surface \in Texts /\ Len(sql) \in Nat
      /\ at + 1 <= Len(sql) /\ at + 1 \in 1..Len(sql)
      /\ at + 1 \in 1..(Len(sql) + 1) /\ at + 2 \in 1..(Len(sql) + 1)
      /\ Agree(sql, at, surface, Rest(sql, at, mode, depth, tag))
  BY LexerSetting
<1>2. tag = <<>> /\ mode \in DOMAIN Quote /\ depth' = depth /\ tag' = tag /\ (at + 1) + 1 = at + 2
      /\ mode # "line" /\ mode # "block" /\ Never(sql) = Len(sql) + 2
  <2>1. tag = <<>> /\ mode \in DOMAIN Quote /\ depth' = depth /\ tag' = tag
    BY DEF InQuotes
  <2>2. mode # "line" /\ mode # "block"
    BY <2>1, QuoteFacts
  <2>3. (at + 1) + 1 = at + 2 /\ Never(sql) = Len(sql) + 2
    BY <1>1, TextFacts
  <2> QED
    BY <2>1, <2>2, <2>3
<1> DEFINE b == Quote[mode]
           q == <<b>>
           e == Behind(sql, at + 1, q)
           f == Behind(sql, at + 3, q)
<1>3. b \in Bytes /\ b \in {"'", "\""} /\ MaskHiddenByte(b) = Blank
  <2>1. {"'", "\""} \subseteq Bytes
    BY DEF Bytes, Punctuation
  <2> QED
    BY <1>2, <2>1, QuoteFacts, MaskFacts
<1>4. q \in Texts /\ q # <<>> /\ Len(q) = 1 /\ <<b, b>> \in Texts
  <2>1. \A c \in Bytes : <<c>> \in Texts /\ <<c>> # <<>> /\ Len(<<c>>) = 1 /\ <<c, c>> \in Texts
    BY DEF Texts
  <2> QED
    BY <1>3, <2>1
<1>5. Agree(sql, at, surface, e)
  BY <1>1, <1>2 DEF Rest
<1>6. Ahead(q) <=> sql[at + 1] = b
  BY <1>1, <1>4, AheadStands, StandsOne
<1>7. Ahead(<<b, b>>) <=> at + 2 <= Len(sql) /\ sql[at + 1] = b /\ sql[at + 2] = b
  <2>1. Ahead(<<b, b>>) <=> (at + 1) + 1 <= Len(sql) /\ sql[at + 1] = b /\ sql[(at + 1) + 1] = b
    BY <1>1, <1>4, AheadStands, StandsTwo
  <2> QED
    BY <1>2, <2>1
<1>8. Ahead(q) => e = at + 2
  <2>1. Ahead(q) => StandsAt(sql, at + 1, q)
    BY <1>4, AheadStands
  <2> HIDE DEF q
  <2>2. Ahead(q) => e = (at + 1) + Len(q)
    BY <1>1, <1>4, <2>1, BehindFacts
  <2> QED
    BY <1>1, <1>4, <2>2
<1>9. CASE Ahead(<<b, b>>) /\ PushBlanks(2) /\ mode' = mode
  <2>1. at + 2 <= Len(sql) /\ sql[at + 1] = b /\ sql[at + 2] = b /\ e = at + 2
    BY <1>6, <1>7, <1>8, <1>9
  <2>2. at + 2 \in 1..Len(sql) /\ at + 3 \in 1..(Len(sql) + 1) /\ at + 2 + 1 = at + 3
    BY <1>1, <2>1
  <2>3. ~StandsAt(sql, at + 2, <<"-", "-">>) /\ ~StandsAt(sql, at + 2, <<"/", "*">>)
    <3>1. sql[at + 2] # "-" /\ sql[at + 2] # "/"
      BY <1>3, <2>1
    <3> QED
      BY <1>1, <3>1, StandsTwo
  <2>4. TokenEnd(sql, at + 2) = f
    BY <1>2, <2>1, <2>2, <2>3 DEF TokenEnd
  <2>5. f \in ((at + 3) + 1)..Never(sql)
    <3> HIDE DEF q
    <3> QED
      BY <1>1, <1>4, <2>2, BehindFacts
  <2>6. f # at + 2 /\ at + 2 < f
    BY <1>1, <2>5
  <2>7. Agree(sql, at, surface, f)
    BY <1>1, <1>5, <2>1, <2>4, <2>6, AgreeOpen
  <2>8. \A x \in 1..2 : MaskHiddenByte(sql[at + x]) = Blank
    <3>1. \A x \in 1..2 : sql[at + x] = b
      BY <2>1
    <3> QED
      BY <1>3, <3>1
  <2> HIDE DEF f, e, b
  <2>9. Agree(sql', at', surface', f) /\ sql' = sql /\ at' = at + 2
    BY <1>9, <2>1, <2>6, <2>7, <2>8, BlankStep
  <2>10. Rest(sql', at', mode', depth', tag') = f
    BY <1>2, <1>9, <2>2, <2>9 DEF Rest, f, b
  <2> QED
    BY <1>2, <2>9, <2>10 DEF LexerInv
<1>10. CASE Ahead(q) /\ PushBlanks(1) /\ mode' = "normal"
  <2>1. e = at + 2 /\ at + 1 < e
    BY <1>1, <1>8, <1>10
  <2>2. \A x \in 1..1 : MaskHiddenByte(sql[at + x]) = Blank
    <3>1. 1..1 = {1}
      OBVIOUS
    <3> QED
      BY <1>3, <1>6, <1>10, <3>1
  <2> HIDE DEF e
  <2>3. Agree(sql', at', surface', e) /\ sql' = sql /\ at' = at + 1
    BY <1>1, <1>5, <1>10, <2>1, <2>2, BlankStep
  <2>4. Rest(sql', at', mode', depth', tag') = at' + 1
    BY <1>2, <1>10, QuoteFacts DEF Rest
  <2>5. at' + 1 = e
    BY <1>2, <2>1, <2>3
  <2> QED
    BY <1>2, <2>3, <2>4, <2>5 DEF LexerInv
<1>11. CASE ~Ahead(q) /\ PushHidden /\ mode' = mode
  <2>1. ~StandsAt(sql, at + 1, q)
    BY <1>4, <1>11, AheadStands
  <2>2. e = Behind(sql, at + 2, q) /\ Behind(sql, at + 2, q) \in ((at + 2) + 1)..Never(sql)
    <3> HIDE DEF q
    <3> QED
      BY <1>1, <1>2, <1>4, <2>1, BehindFacts
  <2>3. at + 1 < e
    BY <1>1, <2>2
  <2> HIDE DEF e, q
  <2>4. Agree(sql', at', surface', e) /\ sql' = sql /\ at' = at + 1
    BY <1>5, <1>11, <2>3, HiddenStep
  <2>5. Rest(sql', at', mode', depth', tag') = e
    BY <1>2, <1>11, <2>2, <2>4 DEF Rest, q
  <2> QED
    BY <1>2, <2>4, <2>5 DEF LexerInv
<1> QED
  BY <1>9, <1>10, <1>11 DEF InQuotes

LEMMA LineCommentKeeps ==
  ASSUME LexerTypes, LexerInv, Scanning, InLineComment
  PROVE  LexerInv'
<1>1. /\ sql \in Texts /\ at \in Nat /\ surface \in Texts /\ Len(sql) \in Nat
      /\ at + 1 <= Len(sql) /\ at + 1 \in 1..Len(sql) /\ sql[at + 1] \in Bytes
      /\ at + 1 \in 1..(Len(sql) + 1) /\ at + 2 \in 1..(Len(sql) + 1)
      /\ Agree(sql, at, surface, Rest(sql, at, mode, depth, tag))
  BY LexerSetting
<1>2. tag = <<>> /\ mode = "line" /\ depth' = depth /\ tag' = tag /\ (at + 1) + 1 = at + 2
  BY <1>1 DEF InLineComment
<1> DEFINE e == LineEnd(sql, at + 1)
<1>3. Agree(sql, at, surface, e)
  BY <1>1, <1>2 DEF Rest
<1>4. Ahead(<<Newline>>) <=> sql[at + 1] = Newline
  <2>1. <<Newline>> \in Texts
    BY DEF Texts, Bytes, Punctuation, Whitespace
  <2> QED
    BY <1>1, <2>1, AheadStands, StandsOne
<1>5. CASE Ahead(<<Newline>>) /\ Push(<<Newline>>) /\ mode' = "normal"
  <2>1. sql[at + 1] = Newline
    BY <1>4, <1>5
  <2>2. e = at + 1
    BY <1>1, <2>1, LineEndFacts
  <2>3. TokenEnd(sql, at + 1) = at + 1
    <3>1. Newline # "-" /\ Newline # "/" /\ Newline # "$" /\ Newline \notin {"'", "\""}
      BY DEF Newline
    <3>2. ~StandsAt(sql, at + 1, <<"-", "-">>) /\ ~StandsAt(sql, at + 1, <<"/", "*">>)
      BY <1>1, <2>1, <3>1, StandsTwo
    <3>3. ~(\E m \in DOMAIN Quote : sql[at + 1] = Quote[m]) /\ Tags(sql, at + 1) = {}
      BY <2>1, <3>1, QuoteFacts DEF Tags
    <3> QED
      BY <3>2, <3>3 DEF TokenEnd
  <2>4. Agree(sql, at + 1, surface \o <<MaskByte(sql[at + 1])>>, at + 2)
    BY <1>1, <1>3, <2>2, <2>3, AgreeShow
  <2>5. sql' = sql /\ at' = at + 1 /\ surface' = surface \o <<Newline>>
    BY <1>1, <1>5 DEF Push
  <2>6. MaskByte(sql[at + 1]) = Newline
    BY <2>1, MaskFacts
  <2>7. Rest(sql', at', mode', depth', tag') = at + 2
    BY <1>2, <1>5, <2>5, QuoteFacts DEF Rest
  <2> QED
    BY <1>2, <2>4, <2>5, <2>6, <2>7 DEF LexerInv
<1>6. CASE ~Ahead(<<Newline>>) /\ PushBlanks(1) /\ mode' = mode
  <2>1. sql[at + 1] # Newline
    BY <1>4, <1>6
  <2>2. e = LineEnd(sql, at + 2)
    BY <1>1, <1>2, <2>1, LineEndFacts
  <2>3. at + 1 < e
    <3>1. LineEnd(sql, at + 2) \in (at + 2)..(Len(sql) + 1)
      BY <1>1, LineEndFacts
    <3> QED
      BY <1>1, <2>2, <3>1
  <2>4. \A x \in 1..1 : MaskHiddenByte(sql[at + x]) = Blank
    <3>1. 1..1 = {1}
      OBVIOUS
    <3> QED
      BY <1>1, <2>1, <3>1, MaskFacts
  <2> HIDE DEF e
  <2>5. Agree(sql', at', surface', e) /\ sql' = sql /\ at' = at + 1
    BY <1>1, <1>3, <1>6, <2>3, <2>4, BlankStep
  <2>6. Rest(sql', at', mode', depth', tag') = e
    BY <1>2, <1>6, <2>2, <2>5 DEF Rest
  <2> QED
    BY <1>2, <2>5, <2>6 DEF LexerInv
<1> QED
  BY <1>5, <1>6 DEF InLineComment

LEMMA BlockCommentKeeps ==
  ASSUME LexerTypes, LexerInv, Scanning, InBlockComment
  PROVE  LexerInv'
<1>1. /\ sql \in Texts /\ at \in Nat /\ surface \in Texts /\ Len(sql) \in Nat
      /\ at + 1 <= Len(sql) /\ at + 1 \in 1..Len(sql)
      /\ at + 1 \in 1..(Len(sql) + 1) /\ at + 2 \in 1..(Len(sql) + 1)
      /\ Agree(sql, at, surface, Rest(sql, at, mode, depth, tag))
  BY LexerSetting
<1>2. /\ tag = <<>> /\ mode = "block" /\ tag' = tag /\ depth \in Nat /\ depth > 0
      /\ (at + 1) + 1 = at + 2 /\ (at + 1) + 2 = at + 3 /\ at + 1 \in Nat /\ ~(at + 1 > Len(sql))
      /\ depth + 1 \in Nat /\ depth - 1 \in Nat /\ depth # 0
  BY <1>1 DEF InBlockComment, LexerTypes
<1> DEFINE e == BlockEnd(sql)[at + 1][depth]
           opens == StandsAt(sql, at + 1, <<"/", "*">>)
           closes == StandsAt(sql, at + 1, <<"*", "/">>)
<1>3. Agree(sql, at, surface, e)
  BY <1>1, <1>2, QuoteFacts DEF Rest
<1>4. e = IF opens THEN BlockEnd(sql)[at + 3][depth + 1]
          ELSE IF closes THEN BlockEnd(sql)[at + 3][depth - 1]
          ELSE BlockEnd(sql)[at + 2][depth]
  <2>1. e = IF depth = 0 THEN at + 1
            ELSE IF at + 1 > Len(sql) THEN Never(sql)
            ELSE IF opens THEN BlockEnd(sql)[(at + 1) + 2][depth + 1]
            ELSE IF closes THEN BlockEnd(sql)[(at + 1) + 2][depth - 1]
            ELSE BlockEnd(sql)[(at + 1) + 1][depth]
    <3>1. sql \in Texts /\ at + 1 \in Nat /\ depth \in Nat
      BY <1>1, <1>2
    <3> QED
      BY <3>1, BlockEquation, ZenonT(60)
  <2> HIDE DEF e, opens, closes
  <2> QED
    BY <1>2, <2>1
<1>5. (Ahead(<<"/", "*">>) <=> opens) /\ (Ahead(<<"*", "/">>) <=> closes)
  <2>1. <<"/", "*">> \in Texts /\ <<"*", "/">> \in Texts
    BY DEF Texts, Bytes, Punctuation
  <2> QED
    BY <2>1, AheadStands
<1>6. opens \/ closes => /\ at + 2 <= Len(sql) /\ ~(opens /\ closes)
                        /\ \A x \in 1..2 : MaskHiddenByte(sql[at + x]) = Blank
  <2>1. opens => at + 2 <= Len(sql) /\ sql[at + 1] = "/" /\ sql[at + 2] = "*"
    BY <1>1, <1>2, StandsTwo
  <2>2. closes => at + 2 <= Len(sql) /\ sql[at + 1] = "*" /\ sql[at + 2] = "/"
    BY <1>1, <1>2, StandsTwo
  <2>3. opens \/ closes => \A x \in 1..2 : sql[at + x] \in {"/", "*"}
    BY <2>1, <2>2
  <2> QED
    BY <2>1, <2>2, <2>3, MaskFacts
<1>7. \A d \in Nat : /\ opens \/ closes => BlockEnd(sql)[at + 3][d] \in (at + 3)..Never(sql)
                     /\ BlockEnd(sql)[at + 2][d] \in (at + 2)..Never(sql)
  <2>1. opens \/ closes => at + 3 \in 1..(Len(sql) + 1)
    BY <1>1, <1>6
  <2> QED
    BY <1>1, <2>1, BlockBounds
<1> HIDE DEF opens, closes
<1>8. CASE Ahead(<<"/", "*">>) /\ PushBlanks(2) /\ depth' = depth + 1 /\ mode' = mode
  <2>1. opens /\ e = BlockEnd(sql)[at + 3][depth + 1]
    BY <1>4, <1>5, <1>8
  <2>2. e \in (at + 3)..Never(sql)
    BY <1>2, <1>7, <2>1
  <2>3. at + 2 < e
    BY <1>1, <2>2
  <2> HIDE DEF e
  <2>4. Agree(sql', at', surface', e) /\ sql' = sql /\ at' = at + 2
    BY <1>3, <1>6, <1>8, <2>1, <2>3, BlankStep
  <2>5. at' + 1 = at + 3
    BY <1>1, <2>4
  <2>6. Rest(sql', at', mode', depth', tag') = e
    BY <1>2, <1>8, <2>1, <2>4, <2>5 DEF Rest
  <2> QED
    BY <1>2, <2>4, <2>6 DEF LexerInv
<1>9. CASE /\ Ahead(<<"*", "/">>) /\ PushBlanks(2) /\ depth' = depth - 1
           /\ mode' = IF depth = 1 THEN "normal" ELSE "block"
  <2>1. closes /\ ~opens /\ e = BlockEnd(sql)[at + 3][depth - 1]
    BY <1>4, <1>5, <1>6, <1>9
  <2>2. e \in (at + 3)..Never(sql)
    BY <1>2, <1>7, <2>1
  <2>3. at + 2 < e
    BY <1>1, <2>2
  <2> HIDE DEF e
  <2>4. Agree(sql', at', surface', e) /\ sql' = sql /\ at' = at + 2
    BY <1>3, <1>6, <1>9, <2>1, <2>3, BlankStep
  <2>5. at' + 1 = at + 3
    BY <1>1, <2>4
  <2>6. Rest(sql', at', mode', depth', tag') = e
    <3>1. CASE depth = 1
      <4>1. at + 3 \in Nat /\ depth - 1 = 0 /\ mode' = "normal"
        BY <1>1, <1>9, <3>1
      <4>2. BlockEnd(sql)[at + 3][0] = at + 3
        BY <1>1, <4>1, BlockEquation
      <4>3. Rest(sql', at', mode', depth', tag') = at' + 1
        BY <1>2, <4>1, QuoteFacts DEF Rest
      <4> QED
        BY <2>1, <2>5, <4>1, <4>2, <4>3
    <3>2. CASE depth # 1
      BY <1>2, <1>9, <2>1, <2>4, <2>5, <3>2 DEF Rest
    <3> QED
      BY <3>1, <3>2
  <2> QED
    BY <1>2, <2>4, <2>6 DEF LexerInv
<1>10. CASE /\ ~Ahead(<<"/", "*">>) /\ ~Ahead(<<"*", "/">>) /\ PushHidden
            /\ mode' = mode /\ depth' = depth
  <2>1. ~opens /\ ~closes /\ e = BlockEnd(sql)[at + 2][depth]
    BY <1>4, <1>5, <1>10
  <2>2. e \in (at + 2)..Never(sql)
    BY <1>2, <1>7, <2>1
  <2>3. at + 1 < e
    BY <1>1, <2>2
  <2> HIDE DEF e
  <2>4. Agree(sql', at', surface', e) /\ sql' = sql /\ at' = at + 1
    BY <1>3, <1>10, <2>3, HiddenStep
  <2>5. at' + 1 = at + 2
    BY <1>1, <2>4
  <2>6. Rest(sql', at', mode', depth', tag') = e
    BY <1>2, <1>10, <2>1, <2>4, <2>5 DEF Rest
  <2> QED
    BY <1>2, <2>4, <2>6 DEF LexerInv
<1> QED
  BY <1>8, <1>9, <1>10 DEF InBlockComment

LEMMA LexKeeps ==
  ASSUME LexerTypes, LexerInv, Lex
  PROVE  LexerInv'
BY DollarQuoteKeeps, NormalKeeps, QuotesKeep, LineCommentKeeps, BlockCommentKeeps DEF Lex

LEMMA StartAgrees ==
  ASSUME NEW s \in Texts
  PROVE  Agree(s, 0, <<>>, Rest(s, 0, "normal", 0, <<>>))
<1>1. Len(s) \in Nat /\ Never(s) = Len(s) + 2 /\ 1 \in 1..Never(s)
  BY TextFacts
<1>2. Rest(s, 0, "normal", 0, <<>>) = 1
  <2>0. 0 + 1 = 1
    OBVIOUS
  <2>1. "normal" \notin DOMAIN Quote
    BY QuoteFacts
  <2>2. Rest(s, 0, "normal", 0, <<>>) = 0 + 1
    BY <2>1, Zenon DEF Rest
  <2> QED
    BY <2>0, <2>2
<1>3. /\ 0 <= Len(s) /\ Len(<<>>) = 0 /\ 1 \in (0 + 1)..Never(s)
      /\ \A k \in (0 + 1)..Len(s) : ~(k < 1)
      /\ 1..0 = {}
  BY <1>1
<1>4. Agree(s, 0, <<>>, 1)
  BY <1>3 DEF Agree, Tokens
<1> QED
  BY <1>2, <1>4

LEMMA StartLexerKeeps ==
  ASSUME NEW s \in Texts, StartLexer(s)
  PROVE  LexerInv'
<1>1. Agree(sql', at', surface', Rest(sql', at', mode', depth', tag'))
  BY StartAgrees DEF StartLexer
<1>2. tag' = <<>> /\ 1..Len(<<>>) = {}
  BY DEF StartLexer
<1> QED
  BY <1>1, <1>2 DEF LexerInv

LEMMA LexerIdleHolds ==
  ASSUME LexerIdle
  PROVE  LexerInv
<1>1. <<>> \in Texts
  BY DEF Texts
<1>2. Agree(sql, at, surface, Rest(sql, at, mode, depth, tag))
  BY <1>1, StartAgrees DEF LexerIdle
<1>3. tag = <<>> /\ 1..Len(<<>>) = {}
  BY DEF LexerIdle
<1> QED
  BY <1>2, <1>3 DEF LexerInv

-----------------------------------------------------------------------------
(* A statement that has been read                                            *)

LEMMA ReadExactly ==
  ASSUME LexerTypes, LexerInv, ~Scanning
  PROVE  /\ Unterminated <=> Tokens(sql).open
         /\ surface = Masked(sql, Tokens(sql).hidden)
<1>1. /\ sql \in Texts /\ at \in Nat /\ surface \in Seq(Bytes) /\ Len(sql) \in Nat
      /\ DOMAIN sql = 1..Len(sql) /\ tag \in Texts /\ mode \in Modes /\ depth \in Nat
      /\ mode = "block" <=> depth > 0
      /\ tag # <<>> => mode = "normal"
  BY DEF LexerTypes, Texts
<1> DEFINE e == Rest(sql, at, mode, depth, tag)
           n == Len(sql)
<1>2. Agree(sql, at, surface, e)
  BY DEF LexerInv
<1>3. at = n /\ Len(surface) = n
  <2> HIDE DEF e
  <2>1. at <= n /\ Len(surface) = at
    BY <1>2 DEF Agree
  <2>2. ~(at < n)
    BY DEF Scanning
  <2>3. at \in Nat /\ n \in Nat
    BY <1>1 DEF LexerTypes
  <2> HIDE DEF n
  <2> QED
    BY <2>1, <2>2, <2>3
<1>4. /\ n + 1 \in 1..(n + 1) /\ n + 1 > n /\ Never(sql) = n + 2 /\ n + 1 \in Nat
      /\ n + 1 \in 1..Never(sql) /\ n + 2 \in 1..Never(sql) /\ n + 2 > n
  BY <1>1, TextFacts
<1>5. Unterminated => e = n + 2
  <2>1. CASE tag # <<>>
    <3>1. e = Behind(sql, n + 1, tag)
      BY <1>3, <2>1 DEF Rest
    <3> QED
      BY <1>1, <1>4, <2>1, <3>1, BehindFacts
  <2>2. CASE tag = <<>> /\ mode = "block"
    <3>1. e = BlockEnd(sql)[n + 1][depth] /\ depth # 0
      BY <1>1, <1>3, <2>2 DEF Rest
    <3> QED
      BY <1>1, <1>4, <3>1, BlockEquation
  <2>3. CASE tag = <<>> /\ mode \in {"single", "double"}
    <3> DEFINE q == <<Quote[mode]>>
    <3>1. e = Behind(sql, n + 1, q)
      BY <1>3, <2>3, QuoteFacts DEF Rest
    <3>2. q \in Texts /\ q # <<>>
      <4>1. \A b \in Bytes : <<b>> \in Texts /\ <<b>> # <<>>
        BY DEF Texts
      <4>2. Quote[mode] \in Bytes
        BY <2>3, QuoteFacts DEF Bytes, Punctuation
      <4> QED
        BY <4>1, <4>2
    <3> HIDE DEF q
    <3> QED
      BY <1>1, <1>4, <3>1, <3>2, BehindFacts
  <2> QED
    BY <2>1, <2>2, <2>3 DEF Unterminated
<1>6. ~Unterminated => e = n + 1
  <2> SUFFICES ASSUME ~Unterminated
               PROVE  e = n + 1
    OBVIOUS
  <2>1. tag = <<>> /\ mode \in {"normal", "line"}
    BY <1>1, QuoteFacts DEF Unterminated, Modes
  <2>2. CASE mode = "line"
    <3>1. e = LineEnd(sql, n + 1)
      BY <1>3, <2>1, <2>2 DEF Rest
    <3>2. LineEnd(sql, n + 1) \in (n + 1)..(n + 1)
      BY <1>1, <1>4, LineEndFacts
    <3> QED
      BY <1>1, <3>1, <3>2
  <2>3. CASE mode = "normal"
    BY <1>3, <2>1, <2>3, QuoteFacts DEF Rest
  <2> QED
    BY <2>1, <2>2, <2>3
<1>7. (Scan(sql)[n + 2].open <=> TRUE) /\ (Scan(sql)[n + 1].open <=> FALSE)
  <2>1. n + 1 # n + 2
    BY <1>1
  <2> QED
    BY <1>1, <1>4, <2>1, ScanEquation
<1>8. Unterminated <=> Tokens(sql).open
  BY <1>2, <1>5, <1>6, <1>7 DEF Agree
<1>9. surface = Masked(sql, Tokens(sql).hidden)
  <2>1. surface = [k \in 1..n |-> surface[k]]
    BY <1>1, <1>3
  <2>2. \A k \in 1..n : surface[k] = IF k \in Tokens(sql).hidden THEN MaskHiddenByte(sql[k])
                                                                 ELSE MaskByte(sql[k])
    BY <1>2, <1>3 DEF Agree
  <2> QED
    BY <1>1, <2>1, <2>2 DEF Masked
<1> QED
  BY <1>8, <1>9

-----------------------------------------------------------------------------
(* A statement that is wrapped in a page query                               *)

\* t is s in parentheses, without what was dropped at its end.
Wraps(t, s, m) ==
  /\ s \in Texts /\ t \in Texts /\ m \in 0..Len(s) /\ Len(t) = m + 2
  /\ t[1] = "(" /\ t[m + 2] = ")" /\ \A i \in 1..m : t[i + 1] = s[i]
  /\ \A j \in (m + 1)..Len(s) : s[j] \in Whitespace \cup {";"}

\* What ends neither in a byte that may be dropped nor in a parenthesis.
Firm(p) == p \in Texts /\ Len(p) > 0 /\ p[Len(p)] \notin Whitespace \cup {";", ")"}

\* The set of the dropped places is counted: they are the last ones.
LEMMA TrailingDrops ==
  ASSUME NEW s \in Texts, NEW bytes
  PROVE  /\ Trailing(s, bytes) \in 0..Len(s)
         /\ \A j \in (Len(s) - Trailing(s, bytes) + 1)..Len(s) : s[j] \in bytes
<1> DEFINE T == {k \in DOMAIN s : \A j \in k..Len(s) : s[j] \in bytes}
<1>1. Len(s) \in Nat /\ DOMAIN s = 1..Len(s)
  BY TextFacts
<1>2. Trailing(s, bytes) = Cardinality(T)
  BY DEF Trailing
<1>3. CASE T = {}
  <2>1. Cardinality(T) = 0
    BY <1>3, FS_EmptySet
  <2> HIDE DEF T
  <2> QED
    BY <1>1, <1>2, <2>1
<1>4. CASE T # {}
  <2>1. T \in SUBSET Nat
    BY <1>1
  <2> HIDE DEF T
  <2>2. PICK l \in T : \A k \in T : l <= k
    BY <1>4, <2>1, LeastNumber
  <2> USE DEF T
  <2>3. l \in 1..Len(s) /\ l \in Nat /\ \A j \in l..Len(s) : s[j] \in bytes
    BY <1>1, <2>2
  <2>4. T = l..Len(s)
    <3>1. \A k \in l..Len(s) : k \in T
      BY <1>1, <2>3
    <3>2. \A k \in T : k \in l..Len(s)
      BY <1>1, <2>2, <2>3
    <3> HIDE DEF T
    <3> QED
      BY <3>1, <3>2
  <2> HIDE DEF T
  <2>5. Cardinality(T) = Len(s) - l + 1
    <3>1. Cardinality(l..Len(s)) = IF l > Len(s) THEN 0 ELSE Len(s) - l + 1
      BY <1>1, <2>3, FS_Interval
    <3> QED
      BY <1>1, <2>3, <2>4, <3>1
  <2> QED
    BY <1>1, <1>2, <2>3, <2>5
<1> QED
  BY <1>3, <1>4

LEMMA WrapQueryWraps ==
  ASSUME NEW s \in Texts
  PROVE  \E m \in 0..Len(s) : Wraps(WrapQuery(s), s, m)
<1> DEFINE c == Trailing(s, Whitespace \cup {";"})
           m == Len(s) - c
           u == SubSeq(s, 1, m)
<1>1. Len(s) \in Nat /\ c \in 0..Len(s)
  BY TextFacts, TrailingDrops
<1>0. \A j \in (m + 1)..Len(s) : s[j] \in Whitespace \cup {";"}
  BY TrailingDrops
<1> HIDE DEF c
<1>2. m \in 0..Len(s) /\ m \in Nat
  BY <1>1
<1>3. u = TrimForSubquery(s)
  BY DEF TrimForSubquery, c
<1> HIDE DEF m
<1>4. u \in Texts /\ Len(u) = m /\ \A i \in 1..m : u[i] = s[i]
  BY <1>1, <1>2 DEF Texts
<1>5. <<"(">> \in Texts /\ <<")">> \in Texts
  <2>1. "(" \in Bytes /\ ")" \in Bytes
    BY DEF Bytes, Punctuation
  <2>2. \A b \in Bytes : <<b>> \in Texts
    BY DEF Texts
  <2> QED
    BY <2>1, <2>2
<1>6. WrapQuery(s) = (<<"(">> \o u) \o <<")">>
  BY <1>3 DEF WrapQuery
<1> HIDE DEF u
<1> DEFINE v == <<"(">> \o u
           t == v \o <<")">>
<1>7. v \in Texts /\ Len(v) = m + 1 /\ v[1] = "(" /\ \A i \in 1..m : v[i + 1] = u[i]
  <2>1. Len(<<"(">>) = 1 /\ <<"(">>[1] = "(" /\ 1 \in 1..1
    OBVIOUS
  <2>2. /\ v \in Texts /\ Len(v) = Len(<<"(">>) + Len(u)
        /\ \A k \in 1..Len(<<"(">>) : v[k] = <<"(">>[k]
        /\ \A k \in 1..Len(u) : v[Len(<<"(">>) + k] = u[k]
    BY <1>4, <1>5, Joined
  <2> HIDE DEF v
  <2>3. Len(v) = m + 1
    BY <1>2, <1>4, <2>1, <2>2
  <2>4. \A i \in 1..m : v[i + 1] = u[i]
    <3>1. \A i \in 1..m : 1 + i = i + 1
      BY <1>2
    <3> QED
      BY <1>4, <2>1, <2>2, <3>1
  <2> QED
    BY <2>1, <2>2, <2>3, <2>4
<1> HIDE DEF v
<1>8. /\ t \in Texts /\ Len(t) = m + 2 /\ t[m + 2] = ")"
      /\ \A i \in 1..(m + 1) : t[i] = v[i]
  <2>1. Len(<<")">>) = 1 /\ <<")">>[1] = ")" /\ 1 \in 1..1
    OBVIOUS
  <2>2. /\ t \in Texts /\ Len(t) = Len(v) + Len(<<")">>)
        /\ \A k \in 1..Len(v) : t[k] = v[k]
        /\ \A k \in 1..Len(<<")">>) : t[Len(v) + k] = <<")">>[k]
    BY <1>5, <1>7, Joined
  <2> HIDE DEF t
  <2>3. (m + 1) + 1 = m + 2
    BY <1>2
  <2>4. Len(t) = m + 2 /\ t[(m + 1) + 1] = ")"
    BY <1>2, <1>7, <2>1, <2>2
  <2> QED
    BY <1>7, <2>2, <2>3, <2>4
<1> HIDE DEF t
<1>9. t[1] = "(" /\ \A i \in 1..m : t[i + 1] = s[i]
  <2>1. 1 \in 1..(m + 1) /\ \A i \in 1..m : i + 1 \in 1..(m + 1)
    BY <1>2
  <2> QED
    BY <1>4, <1>7, <1>8, <2>1
<1>10. \A j \in (m + 1)..Len(s) : s[j] \in Whitespace \cup {";"}
  BY <1>0 DEF m
<1>11. Wraps(t, s, m)
  BY <1>2, <1>8, <1>9, <1>10 DEF Wraps
<1> QED
  BY <1>2, <1>6, <1>11 DEF t, v

LEMMA WrapsFacts ==
  ASSUME NEW s, NEW t, NEW m, Wraps(t, s, m)
  PROVE  /\ s \in Texts /\ t \in Texts /\ m \in Nat /\ m <= Len(s) /\ Len(t) = m + 2
         /\ Len(s) \in Nat /\ Never(s) = Len(s) + 2 /\ Never(t) = m + 4
<1>1. s \in Texts /\ t \in Texts /\ m \in 0..Len(s) /\ Len(t) = m + 2
  BY DEF Wraps
<1>2. Len(s) \in Nat
  BY <1>1, TextFacts
<1> QED
  BY <1>1, <1>2 DEF Never

\* A firm text stands in the wrapped statement where it stood, and not in what is dropped.
LEMMA FirmStays ==
  ASSUME NEW s, NEW t, NEW m, Wraps(t, s, m), NEW p, Firm(p), NEW i \in Nat, i > 0
  PROVE  /\ StandsAt(s, i, p) => i + Len(p) <= m + 1
         /\ i <= m + 1 => (StandsAt(t, i + 1, p) <=> StandsAt(s, i, p))
<1> DEFINE n == Len(p)
<1>1. m \in Nat /\ Len(s) \in Nat /\ m <= Len(s) /\ Len(t) = m + 2
  BY WrapsFacts
<1>2. n \in Nat /\ n > 0
  BY TextFacts DEF Firm
<1>7. n \in 1..n
  BY <1>2
<1>8. p[n] \notin Whitespace \cup {";"} /\ p[n] # ")"
  BY DEF Firm
<1>9. /\ \A j \in Nat : StandsAt(s, j, p) <=> j + n - 1 <= Len(s) /\ \A k \in 1..n : s[j + k - 1] = p[k]
      /\ \A j \in Nat : StandsAt(t, j, p) <=> j + n - 1 <= Len(t) /\ \A k \in 1..n : t[j + k - 1] = p[k]
  BY DEF StandsAt
<1> HIDE DEF n
<1>3. StandsAt(s, i, p) => i + n - 1 <= m
  <2> SUFFICES ASSUME StandsAt(s, i, p), ~(i + n - 1 <= m)
               PROVE  FALSE
    OBVIOUS
  <2>1. i + n - 1 <= Len(s) /\ s[i + n - 1] = p[n]
    BY <1>7, <1>9
  <2>2. i + n - 1 \in (m + 1)..Len(s)
    BY <1>1, <1>2, <2>1
  <2>3. s[i + n - 1] \in Whitespace \cup {";"}
    BY <2>2 DEF Wraps
  <2> QED
    BY <1>8, <2>1, <2>3
<1>4. ASSUME i <= m + 1, StandsAt(t, i + 1, p)
      PROVE  i + n - 1 <= m
  <2>1. (i + 1) + n - 1 <= m + 2 /\ t[(i + 1) + n - 1] = p[n]
    <3>1. i + 1 \in Nat
      OBVIOUS
    <3> QED
      BY <1>1, <1>4, <1>7, <1>9, <3>1
  <2>2. (i + 1) + n - 1 # m + 2
    BY <1>8, <2>1 DEF Wraps
  <2> QED
    BY <1>1, <1>2, <2>1, <2>2
<1>5. ASSUME i + n - 1 <= m
      PROVE  StandsAt(t, i + 1, p) <=> StandsAt(s, i, p)
  <2>1. (i + 1) + n - 1 <= Len(t) /\ i + n - 1 <= Len(s)
    BY <1>1, <1>2, <1>5
  <2>2. \A k \in 1..n : t[(i + 1) + k - 1] = s[i + k - 1]
    <3>1. \A k \in 1..n : i + k - 1 \in 1..m /\ (i + k - 1) + 1 = (i + 1) + k - 1
      BY <1>1, <1>2, <1>5
    <3>2. \A j \in 1..m : t[j + 1] = s[j]
      BY DEF Wraps
    <3> QED
      BY <3>1, <3>2
  <2>3. i + 1 \in Nat
    OBVIOUS
  <2> QED
    BY <1>9, <2>1, <2>2, <2>3
<1>6. i + n - 1 <= m => i + n <= m + 1
  BY <1>1, <1>2
<1>10. i + n - 1 <= m => i + Len(p) <= m + 1
  BY <1>6 DEF n
<1> QED
  BY <1>3, <1>4, <1>5, <1>10

LEMMA FirmTokens ==
  /\ Firm(<<"-", "-">>) /\ Firm(<<"/", "*">>) /\ Firm(<<"*", "/">>)
  /\ Firm(<<"'">>) /\ Firm(<<"\"">>)
  /\ \A p \in Texts : Len(p) > 0 /\ p[Len(p)] = "$" => Firm(p)
<1>1. \A b \in {"-", "*", "/", "'", "\"", "$"} : b \notin Whitespace \cup {";", ")"}
  BY DEF Whitespace, Blank, Newline
<1>2. {"-", "*", "/", "'", "\""} \subseteq Bytes
  BY DEF Bytes, Punctuation
<1>3. ASSUME NEW a \in Bytes, NEW b \in Bytes, b \notin Whitespace \cup {";", ")"}
      PROVE  Firm(<<a, b>>)
  <2> DEFINE p == <<a, b>>
  <2>1. p \in Texts
    BY DEF Texts
  <2>2. Len(p) = 2 /\ Len(p) > 0
    OBVIOUS
  <2>3. p[2] = b
    OBVIOUS
  <2> HIDE DEF p
  <2>4. p[Len(p)] = b
    BY <2>2, <2>3, Zenon
  <2>5. Firm(p)
    BY <1>3, <2>1, <2>2, <2>4, Zenon DEF Firm
  <2> QED
    BY <2>5 DEF p
<1>4. ASSUME NEW b \in Bytes, b \notin Whitespace \cup {";", ")"}
      PROVE  Firm(<<b>>)
  <2> DEFINE p == <<b>>
  <2>1. p \in Texts
    BY DEF Texts
  <2>2. Len(p) = 1 /\ Len(p) > 0
    OBVIOUS
  <2>3. p[1] = b
    OBVIOUS
  <2> HIDE DEF p
  <2>4. p[Len(p)] = b
    BY <2>2, <2>3, Zenon
  <2>5. Firm(p)
    BY <1>4, <2>1, <2>2, <2>4, Zenon DEF Firm
  <2> QED
    BY <2>5 DEF p
<1>5. Firm(<<"-", "-">>) /\ Firm(<<"/", "*">>) /\ Firm(<<"*", "/">>)
  BY <1>1, <1>2, <1>3
<1>6. Firm(<<"'">>) /\ Firm(<<"\"">>)
  BY <1>1, <1>2, <1>4
<1>7. \A p \in Texts : Len(p) > 0 /\ p[Len(p)] = "$" => Firm(p)
  BY <1>1 DEF Firm
<1> QED
  BY <1>5, <1>6, <1>7

\* What is looked for is found where it was, one place later, or found in neither.
LEMMA BehindMoves ==
  ASSUME NEW s, NEW t, NEW m, Wraps(t, s, m), NEW p, Firm(p), NEW i \in 1..(m + 1)
  PROVE  \/ Behind(s, i, p) = Never(s) /\ Behind(t, i + 1, p) = Never(t)
         \/ Behind(s, i, p) <= m + 1 /\ Behind(t, i + 1, p) = Behind(s, i, p) + 1
<1> DEFINE Moved(k) ==
             \/ Behind(s, k, p) = Never(s) /\ Behind(t, k + 1, p) = Never(t)
             \/ Behind(s, k, p) <= m + 1 /\ Behind(t, k + 1, p) = Behind(s, k, p) + 1
           S == {k \in Nat : Moved(k)}
<1>1. /\ s \in Texts /\ t \in Texts /\ m \in Nat /\ m <= Len(s) /\ Len(t) = m + 2
      /\ Len(s) \in Nat /\ Never(s) = Len(s) + 2 /\ Never(t) = m + 4
  BY WrapsFacts
<1>2. p \in Texts /\ p # <<>> /\ Len(p) \in Nat /\ Len(p) > 0
  <2>1. p \in Texts /\ Len(p) > 0 /\ Len(<<>>) = 0
    BY DEF Firm
  <2> QED
    BY <2>1, TextFacts
<1>3. m + 1 \in S
  <2>1. \A k \in (m + 1)..Len(s) : ~StandsAt(s, k, p)
    <3> SUFFICES ASSUME NEW k \in (m + 1)..Len(s), StandsAt(s, k, p)
                 PROVE  FALSE
      OBVIOUS
    <3>1. k \in Nat /\ k > 0 /\ k >= m + 1
      BY <1>1
    <3>2. k + Len(p) <= m + 1
      BY <3>1, FirmStays
    <3> QED
      BY <1>1, <1>2, <3>1, <3>2
  <2>2. Behind(s, m + 1, p) = Never(s)
    <3> DEFINE ends == {j + Len(p) : j \in {k \in (m + 1)..Len(s) : StandsAt(s, k, p)}}
    <3>1. ends = {}
      BY <2>1
    <3> QED
      BY <3>1 DEF Behind, Least
  <2>3. ~StandsAt(t, m + 2, p)
    <3>1. m + 1 \in Nat /\ m + 1 > 0 /\ m + 1 <= m + 1 /\ (m + 1) + 1 = m + 2
      BY <1>1
    <3>2. StandsAt(t, (m + 1) + 1, p) => (m + 1) + Len(p) <= m + 1
      BY <3>1, FirmStays
    <3> QED
      BY <1>1, <1>2, <3>1, <3>2
  <2>4. /\ m + 2 \in 1..(Len(t) + 1) /\ m + 2 <= Len(t) /\ (m + 2) + 1 = m + 3
        /\ m + 3 \in 1..(Len(t) + 1) /\ m + 3 > Len(t) /\ (m + 1) + 1 = m + 2 /\ m + 1 \in Nat
    BY <1>1
  <2>5. Behind(t, m + 2, p) = Behind(t, (m + 2) + 1, p)
    BY <1>1, <1>2, <2>3, <2>4, BehindFacts
  <2>6. Behind(t, m + 3, p) = Never(t)
    BY <1>1, <1>2, <2>4, BehindFacts
  <2>7. Moved(m + 1)
    BY <2>2, <2>4, <2>5, <2>6
  <2> QED
    BY <2>4, <2>7
<1>4. ASSUME NEW k \in 1..m, k + 1 \in S
      PROVE  k \in S
  <2>1. /\ k \in Nat /\ k > 0 /\ k <= m + 1 /\ k <= Len(s) /\ k \in 1..(Len(s) + 1)
        /\ k + 1 <= Len(t) /\ k + 1 \in 1..(Len(t) + 1)
    BY <1>1
  <2>2. StandsAt(t, k + 1, p) <=> StandsAt(s, k, p)
    BY <2>1, FirmStays
  <2>3. CASE StandsAt(s, k, p)
    <3>1. k + Len(p) <= m + 1
      BY <2>1, <2>3, FirmStays
    <3>2. Behind(s, k, p) = k + Len(p)
      BY <1>1, <1>2, <2>1, <2>3, BehindFacts
    <3>3. Behind(t, k + 1, p) = (k + 1) + Len(p)
      BY <1>1, <1>2, <2>1, <2>2, <2>3, BehindFacts
    <3>4. (k + 1) + Len(p) = (k + Len(p)) + 1
      BY <1>2, <2>1
    <3>5. Moved(k)
      BY <3>1, <3>2, <3>3, <3>4
    <3> QED
      BY <2>1, <3>5
  <2>4. CASE ~StandsAt(s, k, p)
    <3>1. Behind(s, k, p) = Behind(s, k + 1, p)
      BY <1>1, <1>2, <2>1, <2>4, BehindFacts
    <3>2. Behind(t, k + 1, p) = Behind(t, (k + 1) + 1, p)
      BY <1>1, <1>2, <2>1, <2>2, <2>4, BehindFacts
    <3>3. Moved(k + 1)
      BY <1>4
    <3>4. Moved(k)
      BY <3>1, <3>2, <3>3
    <3> QED
      BY <2>1, <3>4
  <2> QED
    BY <2>3, <2>4
<1> HIDE DEF S
<1>5. i \in S
  <2>1. m + 1 \in Nat /\ (m + 1) - 1 = m /\ 1 \in Nat
    BY <1>1
  <2> QED
    BY <1>3, <1>4, <2>1, Backwards
<1> QED
  BY <1>5 DEF S

\* A line comment may lose its newline, and the parenthesis is in it then.
LEMMA LineEndMoves ==
  ASSUME NEW s, NEW t, NEW m, Wraps(t, s, m), NEW i \in 1..(m + 1)
  PROVE  \/ LineEnd(t, i + 1) = m + 3
         \/ LineEnd(s, i) <= m + 1 /\ LineEnd(t, i + 1) = LineEnd(s, i) + 1
<1> DEFINE Moved(k) == \/ LineEnd(t, k + 1) = m + 3
                       \/ LineEnd(s, k) <= m + 1 /\ LineEnd(t, k + 1) = LineEnd(s, k) + 1
           S == {k \in Nat : Moved(k)}
<1>1. s \in Texts /\ t \in Texts /\ m \in Nat /\ m <= Len(s) /\ Len(t) = m + 2 /\ Len(s) \in Nat
  BY WrapsFacts
<1>2. m + 1 \in S
  <2>1. /\ m + 2 \in 1..(Len(t) + 1) /\ m + 2 <= Len(t) /\ (m + 2) + 1 = m + 3
        /\ m + 3 \in 1..(Len(t) + 1) /\ (m + 1) + 1 = m + 2 /\ m + 1 \in Nat
        /\ Len(t) + 1 = m + 3
    BY <1>1
  <2>2. t[m + 2] # Newline
    BY DEF Wraps, Newline
  <2>3. LineEnd(t, m + 2) = LineEnd(t, (m + 2) + 1)
    BY <1>1, <2>1, <2>2, LineEndFacts
  <2>4. LineEnd(t, m + 3) \in (m + 3)..(m + 3)
    <3>1. LineEnd(t, m + 3) \in (m + 3)..(Len(t) + 1)
      BY <1>1, <2>1, LineEndFacts
    <3> QED
      BY <2>1, <3>1
  <2>5. LineEnd(t, m + 3) = m + 3
    BY <1>1, <2>4
  <2>6. Moved(m + 1)
    BY <2>1, <2>3, <2>5
  <2> QED
    BY <2>1, <2>6
<1>3. ASSUME NEW k \in 1..m, k + 1 \in S
      PROVE  k \in S
  <2>1. /\ k \in Nat /\ k <= m + 1 /\ k <= Len(s) /\ k \in 1..(Len(s) + 1)
        /\ k + 1 <= Len(t) /\ k + 1 \in 1..(Len(t) + 1)
    BY <1>1
  <2>2. t[k + 1] = s[k]
    BY DEF Wraps
  <2>3. CASE s[k] = Newline
    <3>1. LineEnd(s, k) = k /\ LineEnd(t, k + 1) = k + 1
      BY <1>1, <2>1, <2>2, <2>3, LineEndFacts
    <3>2. Moved(k)
      BY <2>1, <3>1
    <3> QED
      BY <2>1, <3>2
  <2>4. CASE s[k] # Newline
    <3>1. LineEnd(s, k) = LineEnd(s, k + 1) /\ LineEnd(t, k + 1) = LineEnd(t, (k + 1) + 1)
      BY <1>1, <2>1, <2>2, <2>4, LineEndFacts
    <3>2. Moved(k + 1)
      BY <1>3
    <3>3. Moved(k)
      BY <3>1, <3>2
    <3> QED
      BY <2>1, <3>3
  <2> QED
    BY <2>3, <2>4
<1> HIDE DEF S
<1>4. i \in S
  <2>1. m + 1 \in Nat /\ (m + 1) - 1 = m /\ 1 \in Nat
    BY <1>1
  <2> QED
    BY <1>2, <1>3, <2>1, Backwards
<1> QED
  BY <1>4 DEF S

\* A comment that is open where the dropped bytes begin never ends.
LEMMA BlockDropped ==
  ASSUME NEW s, NEW t, NEW m, Wraps(t, s, m), NEW i \in (m + 1)..(Len(s) + 1)
  PROVE  \A d \in Nat : d > 0 => BlockEnd(s)[i][d] = Never(s)
<1> DEFINE Lost(k) == \A d \in Nat : d > 0 => BlockEnd(s)[k][d] = Never(s)
           S == {k \in Nat : Lost(k)}
<1>1. s \in Texts /\ m \in Nat /\ m <= Len(s) /\ Len(s) \in Nat
  BY WrapsFacts
<1>2. Len(s) + 1 \in S
  <2>1. Len(s) + 1 \in Nat /\ Len(s) + 1 > Len(s) /\ \A d \in Nat : d > 0 => d # 0
    BY <1>1
  <2>2. Lost(Len(s) + 1)
    BY <1>1, <2>1, BlockEquation
  <2> QED
    BY <2>1, <2>2
<1>3. ASSUME NEW k \in (m + 1)..Len(s), k + 1 \in S
      PROVE  k \in S
  <2>1. k \in Nat /\ k > 0 /\ ~(k > Len(s)) /\ k >= m + 1
    BY <1>1
  <2>2. ~StandsAt(s, k, <<"/", "*">>) /\ ~StandsAt(s, k, <<"*", "/">>)
    <3>1. \A p : Firm(p) => ~StandsAt(s, k, p)
      <4> SUFFICES ASSUME NEW p, Firm(p), StandsAt(s, k, p)
                   PROVE  FALSE
        OBVIOUS
      <4>1. k + Len(p) <= m + 1
        BY <2>1, FirmStays
      <4>2. Len(p) \in Nat /\ Len(p) > 0
        BY TextFacts DEF Firm
      <4> QED
        BY <1>1, <2>1, <4>1, <4>2
    <3> QED
      BY <3>1, FirmTokens
  <2>3. ASSUME NEW d \in Nat, d > 0
        PROVE  BlockEnd(s)[k][d] = Never(s)
    <3>1. d # 0
      BY <2>3
    <3>2. BlockEnd(s)[k][d] = BlockEnd(s)[k + 1][d]
      BY <1>1, <2>1, <2>2, <3>1, BlockEquation, ZenonT(60)
    <3> QED
      BY <1>3, <2>3, <3>2
  <2> QED
    BY <2>1, <2>3
<1> HIDE DEF S
<1>4. i \in S
  <2>1. Len(s) + 1 \in Nat /\ (Len(s) + 1) - 1 = Len(s) /\ m + 1 \in Nat
    BY <1>1
  <2> QED
    BY <1>2, <1>3, <2>1, Backwards
<1> QED
  BY <1>4 DEF S

LEMMA BlockEndMoves ==
  ASSUME NEW s, NEW t, NEW m, Wraps(t, s, m), NEW i \in 1..(m + 1), NEW d \in Nat
  PROVE  \/ BlockEnd(s)[i][d] = Never(s)
         \/ BlockEnd(s)[i][d] <= m + 1 /\ BlockEnd(t)[i + 1][d] = BlockEnd(s)[i][d] + 1
<1> DEFINE Moved(k) ==
             \A x \in Nat :
               \/ BlockEnd(s)[k][x] = Never(s)
               \/ BlockEnd(s)[k][x] <= m + 1 /\ BlockEnd(t)[k + 1][x] = BlockEnd(s)[k][x] + 1
           S == {k \in Nat : k <= m + 1 /\ \A j \in k..(m + 1) : Moved(j)}
<1>1. s \in Texts /\ t \in Texts /\ m \in Nat /\ m <= Len(s) /\ Len(t) = m + 2 /\ Len(s) \in Nat
  BY WrapsFacts
<1>2. Moved(m + 1)
  <2> SUFFICES ASSUME NEW x \in Nat
               PROVE  \/ BlockEnd(s)[m + 1][x] = Never(s)
                      \/ /\ BlockEnd(s)[m + 1][x] <= m + 1
                         /\ BlockEnd(t)[(m + 1) + 1][x] = BlockEnd(s)[m + 1][x] + 1
    OBVIOUS
  <2>1. CASE x = 0
    <3>1. m + 1 \in Nat /\ (m + 1) + 1 \in Nat /\ m + 1 <= m + 1
      BY <1>1
    <3>2. BlockEnd(s)[m + 1][x] = m + 1
      BY <1>1, <2>1, <3>1, BlockEquation
    <3>3. BlockEnd(t)[(m + 1) + 1][x] = (m + 1) + 1
      BY <1>1, <2>1, <3>1, BlockEquation
    <3> QED
      BY <3>1, <3>2, <3>3
  <2>2. CASE x # 0
    <3>1. m + 1 \in (m + 1)..(Len(s) + 1) /\ x > 0
      BY <1>1, <2>2
    <3> QED
      BY <3>1, BlockDropped
  <2> QED
    BY <2>1, <2>2
<1>3. ASSUME NEW k \in 1..m, \A j \in (k + 1)..(m + 1) : Moved(j)
      PROVE  Moved(k)
  <2> SUFFICES ASSUME NEW x \in Nat
               PROVE  \/ BlockEnd(s)[k][x] = Never(s)
                      \/ /\ BlockEnd(s)[k][x] <= m + 1
                         /\ BlockEnd(t)[k + 1][x] = BlockEnd(s)[k][x] + 1
    OBVIOUS
  <2>1. /\ k \in Nat /\ k > 0 /\ k <= m + 1 /\ k + 1 \in Nat
        /\ ~(k > Len(s)) /\ ~(k + 1 > Len(t)) /\ (k + 1) + 2 = (k + 2) + 1
        /\ k + 1 \in (k + 1)..(m + 1)
    BY <1>1
  <2> DEFINE so == StandsAt(s, k, <<"/", "*">>)
             to == StandsAt(t, k + 1, <<"/", "*">>)
             sc == StandsAt(s, k, <<"*", "/">>)
             tc == StandsAt(t, k + 1, <<"*", "/">>)
  <2>2. (to <=> so) /\ (tc <=> sc)
    BY <2>1, FirmStays, FirmTokens
  <2>3. so \/ sc => k + 2 \in (k + 1)..(m + 1)
    <3>1. Len(<<"/", "*">>) = 2 /\ Len(<<"*", "/">>) = 2
      OBVIOUS
    <3>2. so => k + Len(<<"/", "*">>) <= m + 1
      BY <2>1, FirmStays, FirmTokens
    <3>3. sc => k + Len(<<"*", "/">>) <= m + 1
      BY <2>1, FirmStays, FirmTokens
    <3> HIDE DEF so, sc
    <3>4. so \/ sc => k + 2 <= m + 1
      BY <3>1, <3>2, <3>3
    <3> QED
      BY <1>1, <2>1, <3>4
  <2>10. BlockEnd(s)[k][x] = IF x = 0 THEN k
                             ELSE IF k > Len(s) THEN Never(s)
                             ELSE IF so THEN BlockEnd(s)[k + 2][x + 1]
                             ELSE IF sc THEN BlockEnd(s)[k + 2][x - 1]
                             ELSE BlockEnd(s)[k + 1][x]
    BY <1>1, <2>1, BlockEquation, ZenonT(60)
  <2>11. BlockEnd(t)[k + 1][x] = IF x = 0 THEN k + 1
                                 ELSE IF k + 1 > Len(t) THEN Never(t)
                                 ELSE IF to THEN BlockEnd(t)[(k + 1) + 2][x + 1]
                                 ELSE IF tc THEN BlockEnd(t)[(k + 1) + 2][x - 1]
                                 ELSE BlockEnd(t)[(k + 1) + 1][x]
    BY <1>1, <2>1, BlockEquation, ZenonT(60)
  <2> HIDE DEF so, to, sc, tc
  <2>4. BlockEnd(s)[k][x] = IF x = 0 THEN k
                            ELSE IF so THEN BlockEnd(s)[k + 2][x + 1]
                            ELSE IF sc THEN BlockEnd(s)[k + 2][x - 1]
                            ELSE BlockEnd(s)[k + 1][x]
    BY <2>1, <2>10
  <2>5. BlockEnd(t)[k + 1][x] = IF x = 0 THEN k + 1
                                ELSE IF to THEN BlockEnd(t)[(k + 1) + 2][x + 1]
                                ELSE IF tc THEN BlockEnd(t)[(k + 1) + 2][x - 1]
                                ELSE BlockEnd(t)[(k + 1) + 1][x]
    BY <2>1, <2>11
  <2>6. CASE x = 0
    BY <2>1, <2>4, <2>5, <2>6
  <2>7. CASE x # 0 /\ so
    <3>1. x + 1 \in Nat
      OBVIOUS
    <3>2. BlockEnd(s)[k][x] = BlockEnd(s)[k + 2][x + 1]
      BY <2>4, <2>7
    <3>3. BlockEnd(t)[k + 1][x] = BlockEnd(t)[(k + 2) + 1][x + 1]
      BY <2>1, <2>2, <2>5, <2>7
    <3> QED
      BY <1>3, <2>3, <2>7, <3>1, <3>2, <3>3
  <2>8. CASE x # 0 /\ ~so /\ sc
    <3>1. x - 1 \in Nat
      BY <2>8
    <3>2. BlockEnd(s)[k][x] = BlockEnd(s)[k + 2][x - 1]
      BY <2>4, <2>8
    <3>3. BlockEnd(t)[k + 1][x] = BlockEnd(t)[(k + 2) + 1][x - 1]
      BY <2>1, <2>2, <2>5, <2>8
    <3> QED
      BY <1>3, <2>3, <2>8, <3>1, <3>2, <3>3
  <2>9. CASE x # 0 /\ ~so /\ ~sc
    <3>1. BlockEnd(s)[k][x] = BlockEnd(s)[k + 1][x]
      BY <2>4, <2>9
    <3>2. BlockEnd(t)[k + 1][x] = BlockEnd(t)[(k + 1) + 1][x]
      BY <2>2, <2>5, <2>9
    <3> QED
      BY <1>3, <2>1, <3>1, <3>2
  <2> QED
    BY <2>6, <2>7, <2>8, <2>9
<1> HIDE DEF Moved
<1>4. m + 1 \in S
  BY <1>1, <1>2
<1>5. ASSUME NEW k \in 1..m, k + 1 \in S
      PROVE  k \in S
  <2>1. Moved(k)
    BY <1>3, <1>5
  <2>2. k \in Nat /\ k <= m + 1 /\ \A j \in k..(m + 1) : j = k \/ j \in (k + 1)..(m + 1)
    BY <1>1
  <2> QED
    BY <1>5, <2>1, <2>2
<1> HIDE DEF S
<1>6. i \in S
  <2>1. m + 1 \in Nat /\ (m + 1) - 1 = m /\ 1 \in Nat
    BY <1>1
  <2> QED
    BY <1>4, <1>5, <2>1, Backwards
<1>7. Moved(i)
  <2>1. i \in i..(m + 1)
    BY <1>1
  <2> QED
    BY <1>6, <2>1 DEF S
<1> QED
  BY <1>7 DEF Moved

TagText(s, i, k) == SubSeq(s, i, i + k - 1)

LEMMA TagTextFacts ==
  ASSUME NEW s \in Texts, NEW i \in 1..Len(s), NEW k \in Tags(s, i)
  PROVE  /\ TagText(s, i, k) \in Texts /\ Len(TagText(s, i, k)) = k
         /\ \A x \in 1..k : TagText(s, i, k)[x] = s[i + x - 1]
         /\ TokenEnd(s, i) = Behind(s, i + k, TagText(s, i, k))
BY TagFacts, TokenEndTag DEF TagText

LEMMA TagsMove ==
  ASSUME NEW s, NEW t, NEW m, Wraps(t, s, m), NEW i \in 1..m
  PROVE  /\ Tags(t, i + 1) = Tags(s, i)
         /\ \A k \in Tags(s, i) : i + k <= m + 1 /\ TagText(t, i + 1, k) = TagText(s, i, k)
<1>1. /\ s \in Texts /\ t \in Texts /\ m \in Nat /\ m <= Len(s) /\ Len(t) = m + 2 /\ Len(s) \in Nat
      /\ i \in Nat /\ i \in 1..Len(s) /\ i + 1 \in 1..Len(t)
  BY WrapsFacts
<1>2. /\ \A j \in 1..m : t[j + 1] = s[j]
      /\ \A j \in (m + 1)..Len(s) : s[j] # "$"
      /\ t[m + 2] # "$"
  BY DEF Wraps, Whitespace, Blank, Newline
<1>3. ASSUME NEW k \in Tags(s, i)
      PROVE  k \in Nat /\ k >= 2 /\ i + k <= m + 1 /\ k \in Tags(t, i + 1)
  <2>1. /\ k \in Nat /\ k >= 2 /\ i + k - 1 <= Len(s) /\ s[i] = "$" /\ s[i + k - 1] = "$"
        /\ \A j \in (i + 1)..(i + k - 2) : s[j] \in IdentifierPart
    BY <1>1 DEF Tags
  <2>2. i + k - 1 <= m
    <3>1. i + k - 1 \in Nat /\ i + k - 1 \notin (m + 1)..Len(s)
      BY <1>1, <1>2, <2>1
    <3> QED
      BY <1>1, <2>1, <3>1
  <2>3. /\ i \in 1..m /\ i + k - 1 \in 1..m /\ (i + k - 1) + 1 = (i + 1) + k - 1
        /\ k \in 2..(Len(t) - (i + 1) + 1)
    BY <1>1, <2>1, <2>2
  <2>4. t[i + 1] = "$" /\ t[(i + 1) + k - 1] = "$"
    BY <1>2, <2>1, <2>3
  <2>5. ASSUME NEW j \in ((i + 1) + 1)..((i + 1) + k - 2)
        PROVE  t[j] \in IdentifierPart
    <3>1. j - 1 \in 1..m /\ (j - 1) + 1 = j /\ j - 1 \in (i + 1)..(i + k - 2)
      BY <1>1, <2>1, <2>2
    <3> QED
      BY <1>2, <2>1, <3>1
  <2>6. k \in Tags(t, i + 1)
    BY <2>3, <2>4, <2>5 DEF Tags
  <2>7. i + k <= m + 1
    BY <1>1, <2>1, <2>2
  <2> QED
    BY <2>1, <2>6, <2>7
<1>4. ASSUME NEW k \in Tags(t, i + 1)
      PROVE  k \in Tags(s, i)
  <2>1. /\ k \in Nat /\ k >= 2 /\ (i + 1) + k - 1 <= Len(t) /\ t[i + 1] = "$"
        /\ t[(i + 1) + k - 1] = "$"
        /\ \A j \in ((i + 1) + 1)..((i + 1) + k - 2) : t[j] \in IdentifierPart
    BY <1>1 DEF Tags
  <2>2. i + k - 1 <= m
    <3>1. (i + 1) + k - 1 # m + 2
      BY <1>2, <2>1
    <3> QED
      BY <1>1, <2>1, <3>1
  <2>3. /\ i \in 1..m /\ i + k - 1 \in 1..m /\ (i + k - 1) + 1 = (i + 1) + k - 1
        /\ k \in 2..(Len(s) - i + 1)
    BY <1>1, <2>1, <2>2
  <2>4. s[i] = "$" /\ s[i + k - 1] = "$"
    BY <1>2, <2>1, <2>3
  <2>5. ASSUME NEW j \in (i + 1)..(i + k - 2)
        PROVE  s[j] \in IdentifierPart
    <3>1. j \in 1..m /\ j + 1 \in ((i + 1) + 1)..((i + 1) + k - 2)
      BY <1>1, <2>1, <2>2
    <3> QED
      BY <1>2, <2>1, <3>1
  <2> QED
    BY <2>3, <2>4, <2>5 DEF Tags
<1>5. Tags(t, i + 1) = Tags(s, i)
  BY <1>3, <1>4
<1>6. ASSUME NEW k \in Tags(s, i)
      PROVE  TagText(t, i + 1, k) = TagText(s, i, k)
  <2> DEFINE u == TagText(s, i, k)
             v == TagText(t, i + 1, k)
  <2>1. k \in Nat /\ u \in Texts /\ Len(u) = k /\ \A x \in 1..k : u[x] = s[i + x - 1]
    BY <1>1, <1>3, TagTextFacts
  <2>2. v \in Texts /\ Len(v) = k /\ \A x \in 1..k : v[x] = t[(i + 1) + x - 1]
    <3>1. k \in Tags(t, i + 1)
      BY <1>3
    <3> QED
      BY <1>1, <3>1, TagTextFacts
  <2>3. ASSUME NEW x \in 1..k
        PROVE  u[x] = v[x]
    <3>1. i + x - 1 \in 1..m /\ (i + x - 1) + 1 = (i + 1) + x - 1
      <4>1. i + k <= m + 1
        BY <1>3, <1>6
      <4> QED
        BY <1>1, <2>1, <4>1
    <3>2. t[(i + x - 1) + 1] = s[i + x - 1]
      BY <1>2, <3>1
    <3> QED
      BY <2>1, <2>2, <3>1, <3>2
  <2> HIDE DEF u, v
  <2>4. u = v
    <3>1. u \in Seq(Bytes) /\ v \in Seq(Bytes) /\ Len(u) = Len(v) /\ \A x \in 1..Len(u) : u[x] = v[x]
      BY <2>1, <2>2, <2>3 DEF Texts
    <3> QED
      BY <3>1
  <2> QED
    BY <2>4 DEF u, v
<1> QED
  BY <1>3, <1>5, <1>6

\* A token of the wrapped statement ends where it ended, unless it ends with the text.
LEMMA TokenEndMoves ==
  ASSUME NEW s, NEW t, NEW m, Wraps(t, s, m), NEW i \in 1..m
  PROVE  \/ TokenEnd(s, i) = Never(s)
         \/ TokenEnd(t, i + 1) = m + 3
         \/ TokenEnd(s, i) <= m + 1 /\ TokenEnd(t, i + 1) = TokenEnd(s, i) + 1
<1>1. /\ s \in Texts /\ t \in Texts /\ m \in Nat /\ m <= Len(s) /\ Len(t) = m + 2 /\ Len(s) \in Nat
      /\ i \in Nat /\ i > 0 /\ i <= m + 1 /\ i \in 1..(m + 1) /\ i + 1 \in 1..(m + 1)
      /\ i \in 1..Len(s) /\ i + 1 \in 1..Len(t) /\ i <= m /\ (i + 1) + 2 = (i + 2) + 1
  BY WrapsFacts
<1>2. t[i + 1] = s[i]
  BY DEF Wraps
<1> DEFINE lines == StandsAt(s, i, <<"-", "-">>)
           blocks == StandsAt(s, i, <<"/", "*">>)
<1>3. /\ StandsAt(t, i + 1, <<"-", "-">>) <=> lines
      /\ StandsAt(t, i + 1, <<"/", "*">>) <=> blocks
  BY <1>1, FirmStays, FirmTokens
<1>4. CASE lines
  <2>1. TokenEnd(s, i) = LineEnd(s, i) /\ TokenEnd(t, i + 1) = LineEnd(t, i + 1)
    BY <1>3, <1>4 DEF TokenEnd
  <2> QED
    BY <1>1, <2>1, LineEndMoves
<1>5. CASE ~lines /\ blocks
  <2>1. TokenEnd(s, i) = BlockEnd(s)[i + 2][1]
    BY <1>5 DEF TokenEnd
  <2>2. TokenEnd(t, i + 1) = BlockEnd(t)[(i + 2) + 1][1]
    BY <1>1, <1>3, <1>5 DEF TokenEnd
  <2>3. i + 2 \in 1..(m + 1)
    <3>1. Len(<<"/", "*">>) = 2
      OBVIOUS
    <3>2. i + Len(<<"/", "*">>) <= m + 1
      BY <1>1, <1>5, FirmStays, FirmTokens
    <3> HIDE DEF blocks, lines
    <3>3. i + 2 <= m + 1
      BY <3>1, <3>2
    <3> QED
      BY <1>1, <3>3
  <2> QED
    BY <2>1, <2>2, <2>3, BlockEndMoves
<1>6. CASE ~lines /\ ~blocks /\ \E q \in DOMAIN Quote : s[i] = Quote[q]
  <2> DEFINE p == <<s[i]>>
  <2>1. TokenEnd(s, i) = Behind(s, i + 1, p)
    BY <1>6 DEF TokenEnd
  <2>2. TokenEnd(t, i + 1) = Behind(t, (i + 1) + 1, p)
    BY <1>2, <1>3, <1>6 DEF TokenEnd
  <2>3. Firm(p)
    BY <1>6, QuoteFacts, FirmTokens
  <2> HIDE DEF p
  <2> QED
    BY <1>1, <2>1, <2>2, <2>3, BehindMoves
<1>7. ASSUME NEW k \in Tags(s, i)
      PROVE  \/ TokenEnd(s, i) = Never(s)
             \/ TokenEnd(s, i) <= m + 1 /\ TokenEnd(t, i + 1) = TokenEnd(s, i) + 1
  <2> DEFINE p == TagText(s, i, k)
  <2>1. TokenEnd(s, i) = Behind(s, i + k, p)
    BY <1>1, TagTextFacts
  <2>2. k \in Tags(t, i + 1) /\ TagText(t, i + 1, k) = p /\ i + k <= m + 1
    BY TagsMove
  <2>3. k \in Nat /\ k >= 2 /\ s[i + k - 1] = "$"
    BY <1>1, TagFacts
  <2>7. p \in Texts /\ Len(p) = k /\ \A x \in 1..k : p[x] = s[i + x - 1]
    BY <1>1, TagTextFacts
  <2>4. TokenEnd(t, i + 1) = Behind(t, (i + 1) + k, p)
    BY <1>1, <2>2, TagTextFacts
  <2> HIDE DEF p
  <2>5. Firm(p)
    <3>1. k \in 1..k /\ Len(p) > 0
      BY <2>3, <2>7
    <3>2. p[Len(p)] = "$"
      BY <2>3, <2>7, <3>1
    <3> QED
      BY <2>7, <3>1, <3>2, FirmTokens
  <2>6. i + k \in 1..(m + 1) /\ (i + 1) + k = (i + k) + 1
    BY <1>1, <2>2, <2>3
  <2> QED
    BY <2>1, <2>4, <2>5, <2>6, BehindMoves
<1>8. CASE ~lines /\ ~blocks /\ ~(\E q \in DOMAIN Quote : s[i] = Quote[q]) /\ Tags(s, i) = {}
  <2>1. TokenEnd(s, i) = i
    BY <1>8 DEF TokenEnd
  <2>2. Tags(t, i + 1) = {}
    BY <1>8, TagsMove
  <2>3. TokenEnd(t, i + 1) = i + 1
    BY <1>2, <1>3, <1>8, <2>2 DEF TokenEnd
  <2> QED
    BY <1>1, <2>1, <2>3
<1> QED
  BY <1>4, <1>5, <1>6, <1>7, <1>8

\* A place no token begins at.
LEMMA ParenthesisIsBare ==
  ASSUME NEW s \in Texts, NEW i \in 1..Len(s), s[i] \in {"(", ")"}
  PROVE  TokenEnd(s, i) = i
<1>1. s[i] # "-" /\ s[i] # "/" /\ s[i] # "$" /\ s[i] \notin {"'", "\""}
  OBVIOUS
<1>2. i \in 1..(Len(s) + 1)
  BY TextFacts
<1>3. ~StandsAt(s, i, <<"-", "-">>) /\ ~StandsAt(s, i, <<"/", "*">>)
  BY <1>1, <1>2, StandsTwo
<1>4. ~(\E m \in DOMAIN Quote : s[i] = Quote[m])
  BY <1>1, QuoteFacts
<1>5. Tags(s, i) = {}
  BY <1>1 DEF Tags
<1> QED
  BY <1>3, <1>4, <1>5 DEF TokenEnd

\* Wrapping opens no token that has no end.
LEMMA WrapCloses ==
  ASSUME NEW s, NEW t, NEW m, Wraps(t, s, m), ~Tokens(s).open
  PROVE  ~Tokens(t).open
<1> DEFINE Closes(k) == ~Scan(s)[k].open => ~Scan(t)[k + 1].open
           S == {k \in Nat : k <= m + 1 /\ \A j \in k..(m + 1) : Closes(j)}
<1>1. /\ s \in Texts /\ t \in Texts /\ m \in Nat /\ m <= Len(s) /\ Len(t) = m + 2
      /\ Len(s) \in Nat /\ Never(s) = Len(s) + 2 /\ Never(t) = m + 4
  BY WrapsFacts
<1>2. /\ m + 3 \in 1..Never(t) /\ m + 3 > Len(t) /\ m + 3 # Never(t)
      /\ m + 2 \in 1..Never(t) /\ m + 2 \in 1..Len(t) /\ m + 2 <= Len(t) /\ (m + 2) + 1 = m + 3
      /\ (m + 1) + 1 = m + 2 /\ m + 1 \in Nat /\ m + 1 <= m + 1
      /\ Never(s) \in 1..Never(s) /\ Never(s) > Len(s)
  BY <1>1
<1>3. ~Scan(t)[m + 3].open
  BY <1>1, <1>2, ScanEquation
<1>4. Scan(s)[Never(s)].open
  BY <1>1, <1>2, ScanEquation
<1>5. Closes(m + 1)
  <2>1. t[m + 2] \in {"(", ")"}
    BY DEF Wraps
  <2>2. TokenEnd(t, m + 2) = m + 2
    BY <1>1, <1>2, <2>1, ParenthesisIsBare
  <2>3. Scan(t)[m + 2] = Scan(t)[(m + 2) + 1]
    BY <1>1, <1>2, <2>2, ScanEquation
  <2> QED
    BY <1>2, <1>3, <2>3
<1>6. ASSUME NEW k \in 1..m, \A j \in (k + 1)..(m + 1) : Closes(j), ~Scan(s)[k].open
      PROVE  ~Scan(t)[k + 1].open
  <2>1. /\ k \in Nat /\ k \in 1..Len(s) /\ k <= Len(s) /\ k \in 1..Never(s)
        /\ k + 1 \in 1..Never(t) /\ k + 1 <= Len(t) /\ k + 1 \in (k + 1)..(m + 1)
        /\ m + 3 # k + 1 /\ k # Never(s) /\ k + 1 \in 1..Len(t)
    BY <1>1
  <2>2. /\ TokenEnd(s, k) = k => Scan(s)[k] = Scan(s)[k + 1]
        /\ TokenEnd(s, k) # k => Scan(s)[k].open = Scan(s)[TokenEnd(s, k)].open
    BY <1>1, <2>1, ScanEquation
  <2>3. /\ TokenEnd(t, k + 1) = k + 1 => Scan(t)[k + 1] = Scan(t)[(k + 1) + 1]
        /\ TokenEnd(t, k + 1) # k + 1 => Scan(t)[k + 1].open = Scan(t)[TokenEnd(t, k + 1)].open
    BY <1>1, <2>1, ScanEquation
  <2> DEFINE e == TokenEnd(s, k)
             f == TokenEnd(t, k + 1)
  <2>4. e \in k..Never(s)
    BY <1>1, <2>1, TokenEndBounds
  <2>5. e = Never(s) \/ f = m + 3 \/ (e <= m + 1 /\ f = e + 1)
    BY TokenEndMoves
  <2> HIDE DEF e, f
  <2>6. e # Never(s)
    BY <1>4, <1>6, <2>1, <2>2 DEF e
  <2>7. CASE f = m + 3
    BY <1>3, <2>1, <2>3, <2>7 DEF f
  <2>8. CASE e <= m + 1 /\ f = e + 1 /\ e = k
    <3>1. ~Scan(s)[k + 1].open
      BY <1>6, <2>2, <2>8 DEF e
    <3>2. ~Scan(t)[(k + 1) + 1].open
      BY <1>6, <2>1, <3>1
    <3>3. Scan(t)[k + 1] = Scan(t)[(k + 1) + 1]
      BY <2>3, <2>8 DEF f
    <3> QED
      BY <3>2, <3>3
  <2>9. CASE e <= m + 1 /\ f = e + 1 /\ e # k
    <3>1. e \in (k + 1)..(m + 1) /\ e + 1 # k + 1
      BY <1>1, <2>1, <2>4, <2>9
    <3>2. ~Scan(s)[e].open
      BY <1>6, <2>2, <2>9 DEF e
    <3>3. ~Scan(t)[e + 1].open
      BY <1>6, <3>1, <3>2
    <3>4. Scan(t)[k + 1].open = Scan(t)[f].open
      BY <2>3, <2>9, <3>1 DEF f
    <3> QED
      BY <2>9, <3>3, <3>4
  <2> QED
    BY <2>5, <2>6, <2>7, <2>8, <2>9
<1> HIDE DEF Closes
<1>7. m + 1 \in S
  <2>1. \A j \in (m + 1)..(m + 1) : j = m + 1
    BY <1>1
  <2> QED
    BY <1>2, <1>5, <2>1
<1>8. ASSUME NEW k \in 1..m, k + 1 \in S
      PROVE  k \in S
  <2>1. Closes(k)
    BY <1>6, <1>8 DEF Closes
  <2>2. k \in Nat /\ k <= m + 1 /\ \A j \in k..(m + 1) : j = k \/ j \in (k + 1)..(m + 1)
    BY <1>1
  <2> QED
    BY <1>8, <2>1, <2>2
<1> HIDE DEF S
<1>9. 1 \in S
  <2>1. m + 1 \in Nat /\ (m + 1) - 1 = m /\ 1 \in Nat /\ 1 \in 1..(m + 1)
    BY <1>1
  <2> QED
    BY <1>7, <1>8, <2>1, Backwards
<1>10. Closes(1)
  <2>1. 1 \in 1..(m + 1)
    BY <1>1
  <2> QED
    BY <1>9, <2>1 DEF S
<1>11. ~Scan(t)[2].open
  <2>1. 1 + 1 = 2
    OBVIOUS
  <2> QED
    BY <1>10, <2>1 DEF Closes, Tokens
<1>12. Scan(t)[1] = Scan(t)[2]
  <2>1. 1 \in 1..Len(t) /\ 1 \in 1..Never(t) /\ 1 <= Len(t) /\ 1 + 1 = 2
    BY <1>1
  <2>2. t[1] \in {"(", ")"}
    BY DEF Wraps
  <2>3. TokenEnd(t, 1) = 1
    BY <1>1, <2>1, <2>2, ParenthesisIsBare
  <2> QED
    BY <1>1, <2>1, <2>3, ScanEquation
<1> QED
  BY <1>11, <1>12 DEF Tokens

-----------------------------------------------------------------------------
(* What the policy lets through                                              *)

\* The classes of bytes, as the masks keep them apart.
LEMMA MaskClasses ==
  /\ \A b : MaskHiddenByte(b) \in Whitespace /\ MaskHiddenByte(b) \notin IdentifierPart
  /\ \A b \in IdentifierPart \cup Punctuation : MaskByte(b) = b
  /\ \A b : MaskByte(b) \in IdentifierPart => b \in IdentifierPart
  /\ \A b \in Whitespace \cup Unprintable : MaskByte(b) \in Whitespace
<1>1. Blank \in Whitespace /\ Newline \in Whitespace /\ Whitespace \subseteq Punctuation
  BY DEF Whitespace, Punctuation
<1>2. IdentifierPart \cap (Unprintable \cup Punctuation) = {} /\ Unprintable \cap Punctuation = {}
  BY AlphabetAssumption
<1> QED
  BY <1>1, <1>2 DEF MaskByte, MaskHiddenByte

\* No forbidden word is shown in a statement whose surface has none.
LEMMA KeywordsHidden ==
  ASSUME NEW s \in Texts, NEW hidden, ~ContainsForbiddenKeyword(Masked(s, hidden)),
         NEW k \in DOMAIN s \ hidden, s[k] \in ForbiddenKeywords
  PROVE  \/ k - 1 \in DOMAIN s \ hidden /\ s[k - 1] \in IdentifierPart
         \/ k + 1 \in DOMAIN s \ hidden /\ s[k + 1] \in IdentifierPart
<1> DEFINE out == Masked(s, hidden)
<1>1. Len(s) \in Nat /\ DOMAIN s = 1..Len(s) /\ k \in 1..Len(s) /\ k \in Nat
  BY TextFacts
<1>2. /\ DOMAIN out = 1..Len(s) /\ Len(out) = Len(s)
      /\ \A j \in 1..Len(s) : out[j] = IF j \in hidden THEN MaskHiddenByte(s[j]) ELSE MaskByte(s[j])
  BY <1>1 DEF Masked
<1> HIDE DEF out
<1>3. ForbiddenKeywords \subseteq IdentifierPart
  BY AlphabetAssumption DEF IdentifierPart
<1>4. out[k] = s[k]
  BY <1>1, <1>2, <1>3, MaskClasses
<1>5. \A j \in 1..Len(s) : out[j] \in IdentifierPart => j \notin hidden /\ s[j] \in IdentifierPart
  BY <1>2, MaskClasses
<1>6. ~ContainsForbiddenKeyword(out)
  BY DEF out
<1>7. \/ k > 1 /\ out[k - 1] \in IdentifierPart
      \/ k < Len(out) /\ out[k + 1] \in IdentifierPart
  BY <1>1, <1>2, <1>4, <1>6 DEF ContainsForbiddenKeyword
<1>8. /\ k > 1 => k - 1 \in 1..Len(s)
      /\ k < Len(out) => k + 1 \in 1..Len(s)
  BY <1>1, <1>2
<1> QED
  BY <1>1, <1>5, <1>7, <1>8

\* No forbidden call is shown in a statement whose surface has none.
LEMMA CallsHidden ==
  ASSUME NEW s \in Texts, NEW hidden, ~ContainsForbiddenFunctionCall(Masked(s, hidden)),
         NEW k \in DOMAIN s \ hidden, s[k] \in ForbiddenFunctions,
         ~(k - 1 \in DOMAIN s \ hidden /\ s[k - 1] \in IdentifierPart),
         NEW p \in DOMAIN s, k < p,
         \A j \in (k + 1)..(p - 1) : j \in hidden \/ s[j] \in Whitespace \cup Unprintable
  PROVE  ~(p \in DOMAIN s \ hidden /\ s[p] = "(")
<1> SUFFICES ASSUME p \in DOMAIN s \ hidden, s[p] = "("
             PROVE  FALSE
  OBVIOUS
<1> DEFINE out == Masked(s, hidden)
<1>1. /\ Len(s) \in Nat /\ DOMAIN s = 1..Len(s) /\ k \in 1..Len(s) /\ k \in Nat
      /\ p \in 1..Len(s) /\ p \in Nat
  BY TextFacts
<1>2. /\ DOMAIN out = 1..Len(s) /\ Len(out) = Len(s)
      /\ \A j \in 1..Len(s) : out[j] = IF j \in hidden THEN MaskHiddenByte(s[j]) ELSE MaskByte(s[j])
  BY <1>1 DEF Masked
<1> HIDE DEF out
<1>3. ForbiddenFunctions \subseteq Letters /\ Letters \subseteq IdentifierPart
  BY AlphabetAssumption DEF IdentifierPart
<1>4. out[k] = s[k]
  BY <1>1, <1>2, <1>3, MaskClasses
<1>5. out[p] = "("
  <2>1. "(" \in Punctuation
    BY DEF Punctuation
  <2> QED
    BY <1>1, <1>2, <2>1, MaskClasses
<1>6. \A j \in 1..Len(s) : out[j] \in IdentifierPart => j \notin hidden /\ s[j] \in IdentifierPart
  BY <1>2, MaskClasses
<1>7. IdentifierBegins(out, k)
  <2>1. out[k] \in Letters
    BY <1>3, <1>4
  <2>2. ASSUME NEW j \in 1..(k - 1)
        PROVE  \E i \in j..(k - 1) : out[i] \notin IdentifierPart
    <3>1. k - 1 \in j..(k - 1) /\ k - 1 \in 1..Len(s)
      BY <1>1
    <3>2. out[k - 1] \notin IdentifierPart
      BY <1>1, <1>6, <3>1
    <3> QED
      BY <3>1, <3>2
  <2> QED
    BY <2>1, <2>2 DEF IdentifierBegins
<1>8. \A j \in (k + 1)..(p - 1) : out[j] \in Whitespace
  <2> TAKE j \in (k + 1)..(p - 1)
  <2>1. j \in 1..Len(s)
    BY <1>1
  <2>2. j \in hidden \/ s[j] \in Whitespace \cup Unprintable
    OBVIOUS
  <2> QED
    BY <1>2, <2>1, <2>2, MaskClasses
<1>9. p \in (k + 1)..Len(out)
  BY <1>1, <1>2
<1>10. ContainsForbiddenFunctionCall(out)
  BY <1>1, <1>2, <1>4, <1>5, <1>7, <1>8, <1>9 DEF ContainsForbiddenFunctionCall
<1> QED
  BY <1>10 DEF out

-----------------------------------------------------------------------------
(* The lexer's invariant is kept                                             *)

LEMMA LexerInv_Init == Init => LexerInv
BY LexerIdleHolds DEF Init

LEMMA LexerInv_Next ==
  ASSUME IInv, LexerInv, [Next]_vars
  PROVE  LexerInv'
<1>1. ASSUME UNCHANGED lexer
      PROVE  LexerInv'
  BY <1>1 DEF lexer, LexerInv
<1>2. CASE PrepareQuery
  <2>1. CASE UNCHANGED lexer
    BY <1>1, <2>1
  <2>2. CASE StartLexer(Trim(request.sql))
    <3>1. request \in Requests
      <4>1. stage # "idle"
        BY <1>2 DEF PrepareQuery
      <4> QED
        BY <4>1, StageServing
    <3>2. Trim(request.sql) \in Texts
      BY <3>1, TrimsTyped DEF Requests, Texts
    <3> DEFINE s == Trim(request.sql)
    <3> HIDE DEF s
    <3>3. s \in Texts /\ StartLexer(s)
      BY <2>2, <3>2 DEF s
    <3> QED
      BY <3>3, StartLexerKeeps
  <2> QED
    BY <1>2, <2>1, <2>2 DEF PrepareQuery
<1>3. CASE LexStep
  BY <1>3, LexKeeps DEF LexStep, IInv, TypeOK
<1>4. CASE Start \/ Arrive \/ AuthSurface \/ ClientIpGuard \/ HostGuard \/ InboundAuthGuard
           \/ Route \/ RequestAudit \/ ListTools \/ CallTool \/ RunTool \/ DecideQuery \/ RunQuery
  <2>1. UNCHANGED lexer
    BY <1>4 DEF Start, Arrive, AuthSurface, ClientIpGuard, HostGuard, InboundAuthGuard, Route,
                RequestAudit, ListTools, CallTool, RunTool, DecideQuery, RunQuery, Pass, Answer
  <2> QED
    BY <1>1, <2>1
<1>5. CASE UNCHANGED vars
  BY <1>1, <1>5 DEF vars, lexer
<1> QED
  BY <1>2, <1>3, <1>4, <1>5 DEF Next, Handle

LEMMA LexerInvariant == Spec => [](IInv /\ LexerInv)
<1>1. Init => LexerInv
  BY LexerInv_Init
<1>2. IInv /\ LexerInv /\ [Next]_vars => LexerInv'
  BY LexerInv_Next
<1> QED
  BY <1>1, <1>2, Invariant, PTL DEF Spec

\* For every statement, however long: the lexer's surface is the statement with exactly the
\* bytes of its hidden tokens blanked, and it is refused as unterminated exactly if one of
\* its tokens has no end.
THEOREM SurfaceRight == Spec => []SurfaceExact
<1>1. IInv /\ LexerInv => SurfaceExact
  <2> SUFFICES ASSUME IInv, LexerInv
               PROVE  SurfaceExact
    OBVIOUS
  <2>1. LexerTypes
    BY DEF IInv, TypeOK
  <2>2. Len(surface) = at
    BY DEF LexerInv, Agree
  <2>3. Read => /\ Unterminated <=> Tokens(sql).open
                /\ surface = Masked(sql, Tokens(sql).hidden)
    BY <2>1, ReadExactly DEF Read
  <2> QED
    BY <2>2, <2>3 DEF SurfaceExact
<1> QED
  BY <1>1, LexerInvariant, PTL

-----------------------------------------------------------------------------
(* What the engine is given                                                  *)

ShownIn(s, k, bytes) == k \in DOMAIN s \ Tokens(s).hidden /\ s[k] \in bytes

\* Running g is running a statement s that keeps to the policy.
Sound(s, g) ==
  /\ ~Tokens(s).open /\ ~Tokens(g).open
  /\ \A k \in DOMAIN s : ShownIn(s, k, ForbiddenKeywords) =>
       ShownIn(s, k - 1, IdentifierPart) \/ ShownIn(s, k + 1, IdentifierPart)
  /\ \A k, p \in DOMAIN s :
       /\ ShownIn(s, k, ForbiddenFunctions) /\ ~ShownIn(s, k - 1, IdentifierPart)
       /\ k < p
       /\ \A j \in (k + 1)..(p - 1) : j \in Tokens(s).hidden \/ s[j] \in Whitespace \cup Unprintable
       => ~ShownIn(s, p, {"("})

QueryInv ==
  /\ stage \in {"idle", "dispatch", "tool", "query", "lex"} \cup Layers => given = <<>>
  /\ stage \in {"query", "lex"} => cli.profile = "scratchpad"
  /\ stage = "lex" => Len(sql) <= cli.maxSqlBytes
  /\ given # <<>> => /\ cli.profile = "scratchpad" /\ Len(sql) <= cli.maxSqlBytes
                     /\ Sound(sql, given)

LEMMA AllowedIsSound ==
  ASSUME LexerTypes, LexerInv, ~Scanning, NEW decision, Verdict(decision) = "ALLOWED"
  PROVE  Sound(sql, sql) /\ Sound(sql, WrapQuery(sql))
<1> DEFINE hidden == Tokens(sql).hidden
<1>1. sql \in Texts
  BY DEF LexerTypes, Texts
<1>2. /\ Unterminated <=> Tokens(sql).open
      /\ surface = Masked(sql, hidden)
  BY ReadExactly
<1>3. /\ ~Unterminated /\ ~ContainsForbiddenKeyword(surface)
      /\ ~ContainsForbiddenFunctionCall(surface)
  <2>1. \A code \in DecisionCodes \cup {"CLASSIFIER_UNAVAILABLE"} : code # "ALLOWED"
    BY DEF DecisionCodes
  <2>2. ScratchpadErrorCode(decision) # "ALLOWED"
    BY <2>1 DEF ScratchpadErrorCode
  <2> QED
    BY <2>2 DEF Verdict
<1>4. ~Tokens(sql).open /\ ~ContainsForbiddenKeyword(Masked(sql, hidden))
      /\ ~ContainsForbiddenFunctionCall(Masked(sql, hidden))
  BY <1>2, <1>3
<1> HIDE DEF hidden
<1>5. ASSUME NEW k \in DOMAIN sql, k \notin hidden, sql[k] \in ForbiddenKeywords
      PROVE  \/ k - 1 \in DOMAIN sql \ hidden /\ sql[k - 1] \in IdentifierPart
             \/ k + 1 \in DOMAIN sql \ hidden /\ sql[k + 1] \in IdentifierPart
  BY <1>1, <1>4, <1>5, KeywordsHidden
<1>6. ASSUME NEW k \in DOMAIN sql, k \notin hidden, sql[k] \in ForbiddenFunctions,
             ~(k - 1 \in DOMAIN sql \ hidden /\ sql[k - 1] \in IdentifierPart),
             NEW p \in DOMAIN sql, k < p,
             \A j \in (k + 1)..(p - 1) : j \in hidden \/ sql[j] \in Whitespace \cup Unprintable
      PROVE  ~(p \in DOMAIN sql \ hidden /\ sql[p] = "(")
  BY <1>1, <1>4, <1>6, CallsHidden
<1>7. ~Tokens(WrapQuery(sql)).open
  <2>1. PICK m \in 0..Len(sql) : Wraps(WrapQuery(sql), sql, m)
    BY <1>1, WrapQueryWraps
  <2> QED
    BY <1>4, <2>1, WrapCloses
<1>8. \A k, bytes : ShownIn(sql, k, bytes) <=> k \in DOMAIN sql \ hidden /\ sql[k] \in bytes
  BY DEF ShownIn, hidden
<1>9. \A k \in DOMAIN sql : ShownIn(sql, k, ForbiddenKeywords) =>
        ShownIn(sql, k - 1, IdentifierPart) \/ ShownIn(sql, k + 1, IdentifierPart)
  BY <1>5, <1>8
<1>10. ASSUME NEW k \in DOMAIN sql, NEW p \in DOMAIN sql,
              ShownIn(sql, k, ForbiddenFunctions), ~ShownIn(sql, k - 1, IdentifierPart), k < p,
              \A j \in (k + 1)..(p - 1) : j \in hidden \/ sql[j] \in Whitespace \cup Unprintable
       PROVE  ~ShownIn(sql, p, {"("})
  BY <1>6, <1>8, <1>10
<1>11. \A g : ~Tokens(g).open => Sound(sql, g)
  BY <1>4, <1>9, <1>10 DEF Sound, hidden
<1> QED
  BY <1>4, <1>7, <1>11

LEMMA QueryInv_Init == Init => QueryInv
BY DEF Init, QueryInv

LEMMA QueryInv_Next ==
  ASSUME IInv, LexerInv, QueryInv, [Next]_vars
  PROVE  QueryInv'
<1>1. CASE Start
  <2>1. stage = "idle" /\ given' = given /\ stage' = stage
    BY <1>1 DEF Start, StartNext, ReadOptions, ReadEnvironment, BuildServer,
                BuildAuthSurfaceLayer, Bind, IInv, StartSettled, answering
  <2> QED
    BY <2>1 DEF QueryInv
<1>2. ASSUME UNCHANGED <<given, start, lexer>>,
             stage' \in {"query", "lex"} => stage' = stage \/ cli.profile = "scratchpad",
             stage' = "lex" => stage = "lex",
             stage' \in {"idle", "dispatch", "tool", "query", "lex"} \cup Layers => given = <<>>
      PROVE  QueryInv'
  <2>1. cli' = cli /\ sql' = sql /\ given' = given
    BY <1>2 DEF cli, start, lexer
  <2> QED
    BY <1>2, <2>1 DEF QueryInv
<1>3. CASE Arrive
  BY <1>2, <1>3 DEF Arrive, QueryInv
<1>4. CASE AuthSurface \/ ClientIpGuard \/ HostGuard \/ InboundAuthGuard \/ Route
  <2>1. /\ stage \in Layers /\ UNCHANGED <<given, start, lexer>>
        /\ stage' \in Layers \cup {"dispatch", "audit"}
    BY <1>4 DEF AuthSurface, ClientIpGuard, HostGuard, InboundAuthGuard, Route, Pass, Answer,
                answering, Layers
  <2>2. given = <<>> /\ stage' \notin {"query", "lex"}
    BY <2>1 DEF QueryInv, Layers
  <2> QED
    BY <1>2, <2>1, <2>2
<1>5. CASE RequestAudit \/ ListTools \/ RunTool \/ RunQuery
  <2>1. UNCHANGED <<given, start, lexer>> /\ stage' \in {"audit", "answered"}
    BY <1>5 DEF RequestAudit, ListTools, RunTool, RunQuery, Finish, Reply
  <2>2. stage' \notin {"idle", "dispatch", "tool", "query", "lex"} \cup Layers
    BY <2>1 DEF Layers
  <2> QED
    BY <1>2, <2>1, <2>2
<1>6. CASE CallTool
  <2>1. stage = "dispatch" /\ given = <<>> /\ UNCHANGED <<given, start, lexer>>
    BY <1>6 DEF CallTool, QueryInv
  <2>2. stage' \in {"audit", "answered", "tool", "query"}
    BY <1>6 DEF CallTool, Reply
  <2>3. stage' = "query" => cli.profile = "scratchpad"
    <3>1. stage' = "query" => AllowsTool(cli.profile, request.tool) /\ request.tool = "scratchpad_query"
      BY <1>6 DEF CallTool, Reply
    <3>2. cli.profile \in {"read_only", "scratchpad"}
      BY DEF IInv, TypeOK, StartTypes, AllDeployments, Options, cli
    <3> QED
      BY <3>1, <3>2 DEF AllowsTool
  <2> QED
    BY <1>2, <2>1, <2>2, <2>3
<1>7. CASE PrepareQuery
  <2>1. /\ stage = "query" /\ given = <<>> /\ cli.profile = "scratchpad"
        /\ UNCHANGED <<given, start>> /\ cli' = cli
    BY <1>7 DEF PrepareQuery, QueryInv, cli, start
  <2> DEFINE statement == Trim(request.sql)
  <2>2. CASE StartLexer(statement) /\ stage' = "lex" /\ SizeVerdict(cli.maxSqlBytes, statement) = "ALLOWED"
    <3>1. sql' = statement /\ Len(statement) <= cli.maxSqlBytes
      <4>1. Len(statement) \in Nat /\ cli.maxSqlBytes \in Nat
        <5>1. request \in Requests
          BY <2>1, StageServing
        <5>2. statement \in Seq(Bytes)
          BY <5>1, TrimsTyped DEF Requests
        <5>3. cli.maxSqlBytes \in Nat
          BY DEF IInv, TypeOK, StartTypes, AllDeployments, Options, cli
        <5> HIDE DEF statement
        <5> QED
          BY <5>2, <5>3
      <4>2. ~(Len(statement) > cli.maxSqlBytes)
        BY <2>2 DEF SizeVerdict
      <4> HIDE DEF statement
      <4> QED
        BY <2>2, <4>1, <4>2 DEF StartLexer
    <3> QED
      BY <2>1, <2>2, <3>1 DEF QueryInv
  <2>3. CASE stage' \in {"audit", "answered"}
    <3>1. stage' \notin {"idle", "dispatch", "tool", "query", "lex"} \cup Layers
      BY <2>3 DEF Layers
    <3> QED
      BY <2>1, <2>3, <3>1 DEF QueryInv
  <2> QED
    BY <1>7, <2>2, <2>3 DEF PrepareQuery, Finish, Reply
<1>8. CASE LexStep
  <2>1. /\ stage = "lex" /\ stage' = "lex" /\ given' = given /\ given = <<>>
        /\ cli' = cli /\ sql' = sql
    BY <1>8 DEF LexStep, answering, QueryInv, cli, start, Lex, InDollarQuote, InNormal, InQuotes,
                InLineComment, InBlockComment, Push, PushBlanks, PushHidden
  <2> QED
    BY <2>1 DEF QueryInv
<1>9. CASE DecideQuery
  <2>1. /\ stage = "lex" /\ given = <<>> /\ ~Scanning /\ UNCHANGED <<start, lexer>>
        /\ cli.profile = "scratchpad" /\ Len(sql) <= cli.maxSqlBytes
    BY <1>9 DEF DecideQuery, QueryInv
  <2>2. CASE stage' \in {"audit", "answered"} /\ UNCHANGED given
    <3>1. stage' \notin {"idle", "dispatch", "tool", "query", "lex"} \cup Layers
      BY <2>2 DEF Layers
    <3> QED
      BY <1>2, <2>1, <2>2, <3>1
  <2>3. ASSUME NEW decision, Verdict(decision) = "ALLOWED", stage' = "engine",
               given' = IF SupportsWrappedPagination(sql) THEN WrapQuery(sql) ELSE sql
        PROVE  QueryInv'
    <3>1. Sound(sql, given')
      <4>1. LexerTypes
        BY DEF IInv, TypeOK
      <4>2. Sound(sql, sql) /\ Sound(sql, WrapQuery(sql))
        BY <2>1, <2>3, <4>1, AllowedIsSound
      <4> QED
        BY <2>3, <4>2
    <3>2. cli' = cli /\ sql' = sql
      BY <2>1 DEF cli, start, lexer
    <3>3. stage' \notin {"idle", "dispatch", "tool", "query", "lex"} \cup Layers
      BY <2>3 DEF Layers
    <3>4. Sound(sql', given')
      BY <3>1, <3>2
    <3> QED
      BY <2>1, <3>2, <3>3, <3>4 DEF QueryInv
  <2> QED
    BY <1>9, <2>2, <2>3 DEF DecideQuery, Finish, Reply
<1>10. CASE UNCHANGED vars
  <2>1. UNCHANGED <<given, start, lexer>> /\ stage' = stage
    BY <1>10 DEF vars, start, lexer
  <2> QED
    BY <1>2, <2>1 DEF QueryInv
<1> QED
  BY <1>1, <1>3, <1>4, <1>5, <1>6, <1>7, <1>8, <1>9, <1>10 DEF Next, Handle

\* For every statement, decision of the authority, word list and limit: what reaches the
\* engine names no forbidden keyword and calls no forbidden function outside of a hidden
\* token, and neither it nor what it is wrapped in ends inside a token.
THEOREM PolicyHolds == Spec => []PolicySound
<1>1. Init => QueryInv
  BY QueryInv_Init
<1>2. IInv /\ LexerInv /\ QueryInv /\ [Next]_vars => QueryInv'
  BY QueryInv_Next
<1>3. QueryInv => PolicySound
  BY DEF QueryInv, Sound, ShownIn, PolicySound
<1> QED
  BY <1>1, <1>2, <1>3, LexerInvariant, PTL DEF Spec
=============================================================================
