---------------------------- MODULE SasmParserProofs ----------------------------
(***************************************************************************)
(* Proofs about the reading of the SASM assembler's lines, for all texts.  *)
(***************************************************************************)
EXTENDS SasmParser, Induction

(* What a search finds is a place of the text or the one behind it.            *)
LEMMA FirstPlace ==
  ASSUME NEW n \in Nat, NEW M
  PROVE  LET i == CHOOSE j \in 1 .. n + 1 : /\ j \in 1 .. n => j \in M
                                            /\ \A k \in 1 .. j - 1 : ~(k \in M)
         IN  i \in 1 .. n + 1
<1> DEFINE T == {j \in 1 .. n + 1 : j \in 1 .. n => j \in M}
<1>1. T \subseteq Nat /\ n + 1 \in T
  OBVIOUS
<1>2. PICK j \in T : \A m \in T : j <= m
  BY <1>1, LeastNatural
<1>3. ASSUME NEW k \in 1 .. j - 1 PROVE ~(k \in M)
  <2>1. k \in 1 .. n + 1 /\ ~(j <= k)
    BY <1>2
  <2> QED BY <1>2, <2>1
<1> QED BY <1>2, <1>3

(* splitStrByChar splits at a place of the text or behind it.                  *)
SplitAt(s, c) == FirstFrom(s, 1, LAMBDA d : d = c)
LEMMA SplitPlace ==
  ASSUME NEW g, NEW s \in Seq(g), NEW c
  PROVE  SplitAt(s, c) \in 1 .. Len(s) + 1
<1>1. PICK n \in Nat : n = Len(s) /\ DOMAIN s = 1 .. n
  BY LenProperties
<1> DEFINE M == {k \in 1 .. n : s[k] = c}
           Is(j) == /\ j \in 1 .. n => j \in M
                    /\ \A k \in 1 .. j - 1 : ~(k \in M)
           Found(j) == /\ j \in DOMAIN s => s[j] = c
                       /\ \A k \in 1 .. j - 1 : ~(s[k] = c)
<1>2. (CHOOSE j \in 1 .. n + 1 : Is(j)) \in 1 .. n + 1
  BY FirstPlace
<1>3. \A j \in 1 .. n + 1 : Is(j) <=> Found(j)
  BY <1>1
<1> HIDE DEF Is, Found
<1>4. (CHOOSE j \in 1 .. n + 1 : Is(j)) = (CHOOSE j \in 1 .. n + 1 : Found(j))
  BY <1>3
<1>5. SplitAt(s, c) = CHOOSE j \in 1 .. n + 1 : Found(j)
  BY <1>1 DEF SplitAt, FirstFrom, Found
<1> QED BY <1>1, <1>2, <1>4, <1>5

(* The last of some places.                                                    *)
LEMMA MaxIsThere ==
  ASSUME NEW n \in Nat, NEW T \in SUBSET (1 .. n), T # {}
  PROVE  Max(T) \in T
<1> DEFINE R == {n - x : x \in T}
<1>0. \A x \in T : x \in Int /\ n - x \in Nat
  OBVIOUS
<1>1. R \subseteq Nat /\ R # {}
  BY <1>0
<1>2. PICK m \in R : \A r \in R : m <= r
  BY <1>1, LeastNatural
<1>3. PICK x \in T : m = n - x
  BY <1>2
<1>4. \A y \in T : x >= y
  <2> SUFFICES ASSUME NEW y \in T PROVE x >= y
    OBVIOUS
  <2>1. n - x <= n - y /\ x \in Int /\ y \in Int
    BY <1>0, <1>2, <1>3
  <2> QED BY <1>0, <2>1
<1> QED BY <1>4 DEF Max

(* A text with glyphs in it has a length.                                      *)
Sizes(s) == [i \in Nat |-> IF i \in DOMAIN s THEN Size(s[i]) ELSE 0]
LEMMA LengthIsPositive ==
  ASSUME NEW g, \A c \in g : Size(c) \in Nat \ {0}, NEW s \in Seq(g)
  PROVE  Length(s) \in Nat /\ (s = <<>> => Length(s) = 0) /\ (s # <<>> => Length(s) > 0)
<1>1. PICK n \in Nat : n = Len(s) /\ DOMAIN s = 1 .. n
  BY LenProperties
<1> DEFINE D == 1 .. n
           Iterates(h) == h = [t \in SUBSET D |-> IF t = {} THEN 0
                                                  ELSE h[t \ {Max(t)}] + Size(s[Max(t)])]
           h == CHOOSE f : Iterates(f)
<1>2. Length(s) = h[D]
  BY <1>1 DEF Length, FoldLeft, MapThenFoldSet
<1>3. Sizes(s) \in [Nat -> Nat] /\ \A i \in D : Sizes(s)[i] = Size(s[i]) /\ Size(s[i]) \in Nat \ {0}
  <2>1. \A i \in D : s[i] \in g
    BY <1>1, ElementOfSeq
  <2> QED BY <1>1, <2>1 DEF Sizes
<1>4. PICK F : SumsOver(F, Sizes(s), n)
  BY <1>3, SumsExist
<1>5. ASSUME NEW t \in SUBSET D, t # {} PROVE Max(t) \in t /\ Max(t) \in D /\ t \ {Max(t)} \in SUBSET D
  BY <1>5, MaxIsThere
<1> DEFINE f == [t \in SUBSET D |-> F[t]]
<1>6. Iterates(f)
  <2>1. ASSUME NEW t \in SUBSET D
        PROVE  F[t] = IF t = {} THEN 0 ELSE f[t \ {Max(t)}] + Size(s[Max(t)])
    <3>1. CASE t = {}
      BY <1>4, <3>1 DEF SumsOver
    <3>2. CASE t # {}
      <4>1. F[t] = Sizes(s)[Max(t)] + F[t \ {Max(t)}]
        BY <1>4, <1>5, <3>2 DEF SumsOver
      <4>2. F[t \ {Max(t)}] \in Nat /\ f[t \ {Max(t)}] = F[t \ {Max(t)}]
        BY <1>4, <1>5, <3>2 DEF SumsOver
      <4>3. Sizes(s)[Max(t)] \in Nat /\ Sizes(s)[Max(t)] = Size(s[Max(t)])
        <5>1. Max(t) \in D
          BY <1>5, <3>2
        <5> QED BY <1>3, <5>1
      <4>4. \A a, b \in Nat : a + b = b + a
        OBVIOUS
      <4> HIDE DEF f
      <4>5. F[t] = f[t \ {Max(t)}] + Size(s[Max(t)])
        BY ONLY <4>1, <4>2, <4>3, <4>4
      <4> QED BY ONLY <3>2, <4>5
    <3> QED BY <3>1, <3>2
  <2> QED BY <2>1, Zenon
<1>7. Iterates(h)
  <2> HIDE DEF f, Iterates
  <2> QED BY <1>6
<1> HIDE DEF h
<1>8. h[{}] = 0
  BY <1>7
<1> DEFINE T == {m \in Nat : m <= n => h[1 .. m] \in Nat /\ (m > 0 => h[1 .. m] > 0)}
<1>9. 0 \in T
  <2>1. 1 .. 0 = {}
    OBVIOUS
  <2> QED BY <1>8, <2>1
<1>10. ASSUME NEW m \in Nat, m \in T PROVE m + 1 \in T
  <2>1. SUFFICES ASSUME m + 1 <= n PROVE h[1 .. m + 1] \in Nat /\ h[1 .. m + 1] > 0
    OBVIOUS
  <2> DEFINE t == 1 .. m + 1
  <2>2. t \in SUBSET D /\ m + 1 \in t /\ m + 1 \in D
    BY <2>1
  <2>3. Max(t) = m + 1
    BY DEF Max
  <2>4. t \ {m + 1} = 1 .. m
    OBVIOUS
  <2> HIDE DEF t
  <2>5. h[t] = h[1 .. m] + Size(s[m + 1])
    BY <1>7, <2>2, <2>3, <2>4
  <2>6. Size(s[m + 1]) \in Nat \ {0} /\ h[1 .. m] \in Nat
    BY <1>3, <1>10, <2>1, <2>2
  <2>7. h[t] \in Nat /\ h[t] > 0
    BY ONLY <2>5, <2>6
  <2> QED BY <2>7 DEF t
<1>11. n \in T
  <2> HIDE DEF T
  <2> QED BY <1>1, <1>9, <1>10, NaturalInduction
<1>12. h[D] \in Nat /\ (n > 0 => h[D] > 0) /\ (n = 0 => h[D] = 0)
  BY <1>1, <1>8, <1>11
<1>13. s = <<>> <=> n = 0
  BY <1>1, EmptySeq
<1> QED BY <1>1, <1>2, <1>12, <1>13

(* What splitStrByChar leaves to be split is shorter.                          *)
LEMMA SplitGetsAhead ==
  ASSUME NEW g, \A c \in g : Size(c) \in Nat \ {0}, NEW s \in Seq(g), NEW c
  PROVE  /\ splitStrByChar(s, c).rest \in Seq(g)
         /\ s # <<>> => Len(splitStrByChar(s, c).rest) < Len(s)
         /\ s = <<>> => splitStrByChar(s, c) = [first |-> <<>>, rest |-> <<>>]
<1> DEFINE i == SplitAt(s, c)
           first == SubSeq(s, 1, i - 1)
           rest == From(s, i)
<1>1. i \in 1 .. Len(s) + 1 /\ Len(s) \in Nat /\ \A k \in 1 .. Len(s) : s[k] \in g
  <2>1. Len(s) \in Nat /\ \A k \in 1 .. Len(s) : s[k] \in g
    BY LenProperties, ElementOfSeq
  <2>2. i \in 1 .. Len(s) + 1
    BY SplitPlace
  <2> QED BY ONLY <2>1, <2>2
<1>2. splitStrByChar(s, c) = [first |-> first, rest |-> IF Length(first) < Length(rest) THEN Tail(rest) ELSE rest]
  BY DEF splitStrByChar, SplitAt, FirstFrom
<1> HIDE DEF i
<1>3. first \in Seq(g) /\ Len(first) = i - 1
  BY <1>1, SubSeqProperties
<1>4. rest \in Seq(g) /\ Len(rest) = Len(s) + 1 - i
  BY <1>1, SubSeqProperties DEF From
<1>5. first = <<>> <=> i = 1
  BY <1>1, <1>3, EmptySeq
<1>6. rest = <<>> <=> i = Len(s) + 1
  BY <1>1, <1>4, EmptySeq
<1> HIDE DEF first, rest
<1>7. rest # <<>> => Tail(rest) \in Seq(g) /\ Len(Tail(rest)) = Len(rest) - 1
  BY <1>4, HeadTailProperties
<1>8. /\ Length(first) \in Nat /\ (first = <<>> => Length(first) = 0)
      /\ Length(rest) \in Nat /\ (rest = <<>> => Length(rest) = 0) /\ (rest # <<>> => Length(rest) > 0)
  BY <1>3, <1>4, LengthIsPositive
<1>9. Length(first) < Length(rest) => rest # <<>>
  BY <1>8
<1>10. splitStrByChar(s, c).rest \in Seq(g)
  BY <1>2, <1>4, <1>7, <1>9
<1>11. ASSUME s # <<>> PROVE Len(splitStrByChar(s, c).rest) < Len(s)
  <2>1. Len(s) > 0
    BY <1>1, <1>11, EmptySeq
  <2>2. CASE i = 1
    <3>1. Length(first) < Length(rest)
      BY <1>1, <1>5, <1>6, <1>8, <2>1, <2>2
    <3> QED BY <1>1, <1>2, <1>4, <1>7, <1>9, <2>2, <3>1
  <2>3. CASE i > 1
    BY <1>1, <1>2, <1>4, <1>7, <1>9, <2>3
  <2> QED BY <1>1, <2>2, <2>3
<1>12. ASSUME s = <<>> PROVE splitStrByChar(s, c) = [first |-> <<>>, rest |-> <<>>]
  <2>1. i = 1 /\ Len(s) = 0
    BY <1>1, <1>12, EmptySeq
  <2>2. first = <<>> /\ rest = <<>>
    BY <1>5, <1>6, <2>1
  <2>3. ~(Length(first) < Length(rest))
    BY <1>8, <2>2
  <2> QED BY <1>2, <2>2, <2>3
<1> QED BY <1>10, <1>11, <1>12

(* Nothing is split, trimmed and uncommented to nothing.                       *)
LEMMA NoContent == Content(<<>>) = <<>>
<1>1. <<>> \in Seq({}) /\ Len(<<>>) = 0 /\ SubSeq(<<>>, 1, 0) = <<>>
  BY EmptySeq, SubSeqEmpty
<1>2. Reverse(<<>>) = <<>>
  <2>1. Reverse(<<>>) \in Seq({}) /\ Len(Reverse(<<>>)) = 0
    BY <1>1 DEF Reverse
  <2> QED BY <2>1, EmptySeq
<1>3. ltrim(<<>>) = <<>>
  <2> DEFINE Found(j) == /\ j \in DOMAIN <<>> => <<>>[j] \notin Blanks
                         /\ \A k \in 1 .. j - 1 : ~(<<>>[k] \notin Blanks)
  <2>1. DOMAIN <<>> = {} /\ 1 .. Len(<<>>) + 1 = {1} /\ 1 .. 1 - 1 = {}
    BY <1>1
  <2>2. (CHOOSE j \in 1 .. Len(<<>>) + 1 : Found(j)) = 1
    BY <2>1
  <2>3. ltrim(<<>>) = SubSeq(<<>>, 1, 0)
    BY <1>1, <2>2 DEF ltrim, From, FirstFrom
  <2> QED BY <1>1, <2>3
<1>4. trim(<<>>) = <<>>
  BY <1>2, <1>3 DEF trim
<1>5. \A c : splitStrByChar(<<>>, c) = [first |-> <<>>, rest |-> <<>>]
  <2> DEFINE g == {}
             s == <<>>
  <2>1. s \in Seq(g) /\ \A c \in g : Size(c) \in Nat \ {0}
    BY <1>1
  <2> HIDE DEF g, s
  <2>2. s = <<>> => \A c : splitStrByChar(s, c) = [first |-> <<>>, rest |-> <<>>]
    BY <2>1, SplitGetsAhead
  <2> QED BY <2>2 DEF s
<1>6. \A c : trim(splitStrByChar(trim(<<>>), c).first) = <<>>
  BY <1>4, <1>5
<1> QED BY <1>6, Zenon DEF Content
-----------------------------------------------------------------------------
(* The file is one of the texts, and what is left of it made of its glyphs.    *)
SourceInv == text \in Texts /\ source \in Seq(ToSet(text))

LEMMA LineIsFetched ==
  ASSUME SourceInv, FetchLine
  PROVE  /\ SourceInv'
         /\ \/ line' = EndOfFile /\ line = NoLine
            \/ Len(source') < Len(source) /\ line = NoLine
<1> DEFINE g == ToSet(text)
           split == splitStrByChar(source, "\n")
<1>1. source \in Seq(g) /\ \A c \in g : Size(c) \in Nat \ {0}
  BY TextsAssumption DEF SourceInv
<1>2. /\ source' = split.rest /\ line = NoLine /\ text' = text
      /\ line' = IF Content(split.first) # <<>> THEN LineOf(Content(split.first))
                 ELSE IF split.rest = <<>> THEN EndOfFile ELSE NoLine
  BY DEF FetchLine
<1> HIDE DEF g
<1>3. /\ split.rest \in Seq(g)
      /\ source # <<>> => Len(split.rest) < Len(source)
      /\ source = <<>> => split = [first |-> <<>>, rest |-> <<>>]
  BY <1>1, SplitGetsAhead
<1> HIDE DEF split
<1>4. SourceInv'
  BY <1>2, <1>3 DEF SourceInv, g
<1>5. CASE source = <<>>
  <2>1. split.first = <<>> /\ split.rest = <<>>
    BY <1>3, <1>5
  <2>2. line' = EndOfFile
    BY <1>2, <2>1, NoContent
  <2> QED BY <1>2, <1>4, <2>2
<1>6. CASE source # <<>>
  BY <1>2, <1>3, <1>4, <1>6
<1> QED BY <1>5, <1>6

(* A statement leaves its line behind, or ends the work.                       *)
GetsAhead == \/ status' \in Ended
             \/ line # NoLine /\ line' = NoLine /\ source' = source
             \/ line' = EndOfFile /\ line = NoLine
             \/ Len(source') < Len(source) /\ line = NoLine
LEMMA LineIsRead ==
  ASSUME Next, ~FetchLine
  PROVE  /\ UNCHANGED <<text, source>>
         /\ status' \in Ended \/ (line # NoLine /\ line' = NoLine)
<1>1. \A kind : kind # "none" /\ At(kind) => line # NoLine
  BY DEF At, NoLine, Line
<1>2. \A word : Directive(word) => At("directive")
  BY DEF Directive
<1>3. Exit => UNCHANGED <<text, source>> /\ status' \in Ended
  BY DEF Exit, Ended
<1>4. \A st : Becomes(st) => UNCHANGED <<text, source>> /\ line' = NoLine
  BY DEF Becomes
<1>5. CASE Instruction
  BY <1>1, <1>3, <1>4, <1>5 DEF Instruction
<1>6. CASE Label
  BY <1>1, <1>3, <1>4, <1>6 DEF Label
<1>7. CASE Include
  BY <1>1, <1>2, <1>3, <1>4, <1>7 DEF Include
<1>8. CASE Bind
  BY <1>1, <1>2, <1>3, <1>4, <1>8 DEF Bind
<1>9. CASE Entry
  BY <1>1, <1>2, <1>3, <1>4, <1>9 DEF Entry
<1>10. CASE Scope
  BY <1>1, <1>2, <1>10 DEF Scope
<1>11. CASE End
  BY <1>1, <1>2, <1>11 DEF End, Ended
<1>12. CASE UnknownDirective
  BY <1>3, <1>12 DEF UnknownDirective
<1>13. CASE Finish
  BY <1>3, <1>13 DEF Finish, Ended
<1> QED BY <1>5, <1>6, <1>7, <1>8, <1>9, <1>10, <1>11, <1>12, <1>13 DEF Next

(* Every step ends the work, leaves a line behind or takes a shorter file on.  *)
THEOREM ParserGetsAhead == Spec => EveryStepGetsAhead
<1>1. Init => SourceInv
  BY TextsAssumption DEF Init, SourceInv
<1>2. SourceInv /\ [Next]_vars => SourceInv' /\ [GetsAhead]_vars
  <2>1. ASSUME SourceInv, Next PROVE SourceInv' /\ GetsAhead
    BY <2>1, LineIsFetched, LineIsRead DEF SourceInv, GetsAhead
  <2>2. ASSUME SourceInv, UNCHANGED vars PROVE SourceInv'
    BY <2>2 DEF SourceInv, vars
  <2> QED BY <2>1, <2>2
<1>3. Spec => [][GetsAhead]_vars
  BY <1>1, <1>2, PTL DEF Spec
<1> QED BY <1>3, PTL DEF EveryStepGetsAhead, GetsAhead
===============================================================================
