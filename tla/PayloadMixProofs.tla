-------------------------- MODULE PayloadMixProofs --------------------------
(***************************************************************************)
(* The --payload flag for every set of shapes and texts, all sizes and     *)
(* every largest int: what it can set is printed in a form that reads back *)
(* as the same mix; a mix that Validate accepts has a selector, which      *)
(* draws each shape as often as its weight says; and the requests have the *)
(* promised sizes.                                                         *)
(***************************************************************************)
EXTENDS PayloadMix, SequenceTheorems, DataLemmas

Entry == [shape : Shape, weight : 0..IntMax]

-----------------------------------------------------------------------------
(* Printing and parsing. *)

\* A text that is accepted is parsed to a mix of its shapes, each once.
LEMMA ParsedOK ==
    ASSUME NEW text \in Seq([name : Name, weights : Seq(Int)]), Accepts(text)
    PROVE  LET m == ParsePayloadMix(text)
           IN  /\ m \in Seq(Entry)
               /\ m # << >>
               /\ \A i, j \in 1..Len(m) : i # j => m[i].shape # m[j].shape
<1> DEFINE m == ParsePayloadMix(text)
<1>0. Len(text) \in Nat /\ Len(text) # 0
  BY EmptySeq DEF Accepts
<1>1. ASSUME NEW i \in 1..Len(text)
      PROVE  m[i] \in Entry /\ m[i].shape = text[i].name
  <2>1. /\ TokenOK(text, i)
        /\ text[i] \in [name : Name, weights : Seq(Int)]
    <3>1. TokenOK(text, i)
      BY DEF Accepts
    <3>2. text[i] \in [name : Name, weights : Seq(Int)]
      BY <1>0, ElementOfSeq
    <3> QED
      BY <3>1, <3>2
  <2>2. text[i].name \in Shape /\ text[i].weights \in Seq(Int)
    BY <2>1 DEF TokenOK
  <2>3. CASE text[i].weights = << >>
    BY <2>2, <2>3, IntMaxAssumption DEF ParsePayloadMix, Entry
  <2>4. CASE text[i].weights # << >>
    <3>1. Len(text[i].weights) = 1
      <4> DEFINE n == Len(text[i].weights)
      <4>1. n <= 1
        BY <2>1 DEF TokenOK
      <4>2. n \in Nat \ {0}
        BY <2>2, <2>4, EmptySeq
      <4> HIDE DEF n
      <4>3. n = 1
        BY <4>1, <4>2
      <4> QED
        BY <4>3 DEF n
    <3>2. text[i].weights[1] \in 0..IntMax
      BY <2>1, <3>1 DEF TokenOK
    <3> QED
      BY <2>2, <2>4, <3>2 DEF ParsePayloadMix, Entry
  <2> QED
    BY <2>3, <2>4
<1>2. m \in Seq(Entry) /\ Len(m) = Len(text)
  BY <1>0, <1>1 DEF ParsePayloadMix
<1>3. ASSUME NEW i \in 1..Len(text), NEW j \in 1..Len(text), j < i
      PROVE  text[j].name # text[i].name
  BY <1>0, <1>3 DEF Accepts, TokenOK
<1>4. \A i, j \in 1..Len(text) : i # j => m[i].shape # m[j].shape
  <2> SUFFICES ASSUME NEW i \in 1..Len(text), NEW j \in 1..Len(text), i # j
               PROVE  m[i].shape # m[j].shape
    OBVIOUS
  <2>1. m[i].shape = text[i].name /\ m[j].shape = text[j].name
    BY <1>1
  <2>2. i < j \/ j < i
    OBVIOUS
  <2> QED
    BY <1>3, <2>1, <2>2
<1> QED
  BY <1>0, <1>2, <1>4, EmptySeq

\* Printing a mix with each shape once and parsing the text gives it back.
LEMMA PrintedReadsBack == MixOK => RoundTrip
<1> SUFFICES ASSUME MixOK PROVE RoundTrip
  OBVIOUS
<1> DEFINE text == String(mix)
<1>0. /\ mix \in Seq(Entry) /\ Len(mix) \in Nat /\ Len(mix) # 0
      /\ \A i \in 1..Len(mix) : mix[i] \in Entry
  <2>1. mix \in Seq(Entry) /\ mix # << >>
    BY DEF MixOK, Entry
  <2>2. Len(mix) \in Nat \ {0}
    BY <2>1, EmptySeq
  <2> QED
    BY <2>1, <2>2
<1>1. /\ text \in Seq([name : Shape, weights : Seq(Int)])
      /\ Len(text) = Len(mix)
      /\ \A i \in 1..Len(mix) :
            /\ text[i].name = mix[i].shape
            /\ text[i].weights = IF Len(mix) = 1 /\ mix[1].weight = 1 THEN << >>
                                 ELSE <<mix[i].weight>>
  BY <1>0, IntMaxAssumption DEF String, Entry
<1>2. ASSUME NEW i \in 1..Len(mix) PROVE TokenOK(text, i)
  <2>1. mix[i].shape \in Shape /\ mix[i].weight \in 0..IntMax
    BY <1>0 DEF Entry
  <2>2. text[i].name = mix[i].shape
    BY <1>1
  <2>3. text[i].weights = << >> \/ text[i].weights = <<mix[i].weight>>
    BY <1>1
  <2>4. /\ Len(text[i].weights) <= 1
        /\ \A k \in 1..Len(text[i].weights) : text[i].weights[k] \in 0..IntMax
    <3>1. CASE text[i].weights = << >>
      BY <3>1
    <3>2. CASE text[i].weights = <<mix[i].weight>>
      BY <2>1, <3>2
    <3> QED
      BY <2>3, <3>1, <3>2
  <2>5. \A j \in 1..(i - 1) : text[j].name # text[i].name
    <3> SUFFICES ASSUME NEW j \in 1..(i - 1) PROVE text[j].name # text[i].name
      OBVIOUS
    <3>1. j \in 1..Len(mix) /\ j # i
      BY <1>0
    <3>2. mix[j].shape # mix[i].shape
      BY <3>1 DEF MixOK
    <3> QED
      BY <1>1, <2>2, <3>1, <3>2
  <2> HIDE DEF text
  <2> QED
    BY <2>1, <2>2, <2>4, <2>5 DEF TokenOK
<1>3. Weighted(text) \in {{}, 1..Len(text)}
  <2>1. CASE Len(mix) = 1 /\ mix[1].weight = 1
    BY <1>1, <2>1 DEF Weighted
  <2>2. CASE ~ (Len(mix) = 1 /\ mix[1].weight = 1)
    <3>1. \A i \in 1..Len(mix) : text[i].weights = <<mix[i].weight>>
      BY <1>1, <2>2
    <3>2. \A i \in 1..Len(mix) : text[i].weights # << >>
      BY <3>1
    <3> HIDE DEF text
    <3> QED
      BY <1>1, <3>2 DEF Weighted
  <2> QED
    BY <2>1, <2>2
<1>4. Accepts(text)
  BY <1>0, <1>1, <1>2, <1>3, EmptySeq DEF Accepts
<1>5. ParsePayloadMix(text) = mix
  <2>1. \A i \in 1..Len(mix) : ParsePayloadMix(text)[i] = mix[i]
    <3> SUFFICES ASSUME NEW i \in 1..Len(mix)
                 PROVE  ParsePayloadMix(text)[i] = mix[i]
      OBVIOUS
    <3>1. mix[i] = [shape |-> mix[i].shape, weight |-> mix[i].weight]
      BY <1>0 DEF Entry
    <3>2. ParsePayloadMix(text)[i] =
            [shape |-> text[i].name,
             weight |-> IF text[i].weights = << >> THEN 1 ELSE text[i].weights[1]]
      BY <1>1 DEF ParsePayloadMix
    <3>3. CASE Len(mix) = 1 /\ mix[1].weight = 1
      BY <1>0, <1>1, <3>1, <3>2, <3>3
    <3>4. CASE ~ (Len(mix) = 1 /\ mix[1].weight = 1)
      <4>1. text[i].weights = <<mix[i].weight>> /\ text[i].name = mix[i].shape
        BY <1>1, <3>4
      <4>2. text[i].weights # << >> /\ text[i].weights[1] = mix[i].weight
        BY <4>1
      <4> HIDE DEF text
      <4> QED
        BY <3>1, <3>2, <4>1, <4>2
    <3> QED
      BY <3>3, <3>4
  <2>2. ParsePayloadMix(text) \in Seq(Entry) /\ Len(ParsePayloadMix(text)) = Len(mix)
    BY <1>0, <1>1, <2>1 DEF ParsePayloadMix
  <2> QED
    BY <1>0, <2>1, <2>2, SeqEqual
<1> QED
  BY <1>4, <1>5 DEF RoundTrip

\* The mix of New is one, and a step of the flags or the workers leaves one.
LEMMA InitMixOK == Init => MixOK
BY ShapeAssumption, IntMaxAssumption DEF Init, MixOK

LEMMA NextMixOK == MixOK /\ [Next]_vars => MixOK'
<1> SUFFICES ASSUME MixOK, [Next]_vars PROVE MixOK'
  OBVIOUS
<1>1. ASSUME NEW text \in Text, Set(text) PROVE MixOK'
  <2>1. CASE Accepts(text)
    BY <1>1, <2>1, TextAssumption, ParsedOK DEF Set, MixOK, Entry
  <2>2. CASE ~ Accepts(text)
    BY <1>1, <2>2 DEF Set, MixOK
  <2> QED
    BY <2>1, <2>2
<1>2. CASE (\E z \in Sizes : Start(z)) \/ Pick \/ PickPanics \/ UNCHANGED vars
  BY <1>2 DEF Start, Pick, PickPanics, vars, MixOK
<1> QED
  BY <1>1, <1>2 DEF Next

\* A payload that the flags have set names each shape once, with a weight
\* that is an int.
THEOREM FlagsSetMixes == Spec => []MixOK
BY InitMixOK, NextMixOK, PTL DEF Spec

\* String renders any payload that the flags can set in a form that
\* ParsePayloadMix reads back as the same mix.
THEOREM StringReadsBack == Spec => []RoundTrip
BY FlagsSetMixes, PrintedReadsBack, PTL

-----------------------------------------------------------------------------
(* sort.SearchInts. *)

\* SearchInts is defined by recursion over the pairs of indexes.
SearchStep(a, x, g, i, j) ==
    LET h == (i + j) \div 2
    IN  IF i >= j THEN i
        ELSE IF a[h + 1] < x THEN g[<<h + 1, j>>] ELSE g[<<i, h>>]

LEMMA SearchUnfolds ==
    ASSUME NEW a, NEW x
    PROVE  SearchInts(a, x) =
              (CHOOSE g : g = [ij \in (0..Len(a)) \X (0..Len(a)) |->
                                  SearchStep(a, x, g, ij[1], ij[2])])[<<0, Len(a)>>]
BY DEF SearchInts, SearchStep

\* There is a function that this recursion defines: a step leads to a shorter
\* interval.
LEMMA SearchExists ==
    ASSUME NEW a, NEW x, Len(a) \in Nat
    PROVE  \E g : g = [ij \in (0..Len(a)) \X (0..Len(a)) |-> SearchStep(a, x, g, ij[1], ij[2])]
<1> DEFINE L == Len(a)
           I == 0..L
           N == {d \in Nat : \E g : \A i, j \in I : j - i <= d => g[<<i, j>>] = SearchStep(a, x, g, i, j)}
<1> HIDE DEF L
<1>0. L \in Nat
  BY DEF L
<1>1. 0 \in N
  <2> DEFINE g == [ij \in I \X I |-> ij[1]]
  <2>1. \A i, j \in I : j - i <= 0 => g[<<i, j>>] = SearchStep(a, x, g, i, j)
    BY <1>0 DEF SearchStep
  <2> QED
    BY <2>1
<1>2. ASSUME NEW d \in N \cap Nat PROVE d + 1 \in N
  <2>0. d \in Nat
    OBVIOUS
  <2>1. PICK g : \A i, j \in I : j - i <= d => g[<<i, j>>] = SearchStep(a, x, g, i, j)
    OBVIOUS
  <2> DEFINE h == [ij \in I \X I |-> SearchStep(a, x, g, ij[1], ij[2])]
  <2>2. ASSUME NEW i \in I, NEW j \in I, j - i <= d + 1
        PROVE  h[<<i, j>>] = SearchStep(a, x, h, i, j)
    <3>0. h[<<i, j>>] = SearchStep(a, x, g, i, j)
      OBVIOUS
    <3>1. CASE i >= j
      BY <3>0, <3>1 DEF SearchStep
    <3>2. CASE i < j
      <4> DEFINE k == (i + j) \div 2
      <4>1. k \in i..(j - 1)
        BY <1>0, <3>2
      <4>2. k + 1 \in I /\ k \in I /\ j - (k + 1) <= d /\ k - i <= d
        BY <1>0, <2>0, <2>2, <3>2, <4>1
      <4>3. h[<<k + 1, j>>] = SearchStep(a, x, g, k + 1, j) /\ h[<<i, k>>] = SearchStep(a, x, g, i, k)
        BY <4>2
      <4> HIDE DEF h
      <4>4. h[<<k + 1, j>>] = g[<<k + 1, j>>] /\ h[<<i, k>>] = g[<<i, k>>]
        BY <2>1, <4>2, <4>3
      <4> QED
        BY <3>0, <3>2, <4>4 DEF SearchStep
    <3> QED
      BY <1>0, <3>1, <3>2
  <2> HIDE DEF h
  <2>3. d + 1 \in Nat /\ \A i, j \in I : j - i <= d + 1 => h[<<i, j>>] = SearchStep(a, x, h, i, j)
    BY <2>0, <2>2
  <2> QED
    BY <2>3
<1> HIDE DEF N
<1>3. Nat \subseteq N
  BY <1>1, <1>2, NatInduct
<1>4. PICK g : \A i, j \in I : j - i <= L => g[<<i, j>>] = SearchStep(a, x, g, i, j)
  BY <1>0, <1>3 DEF N
<1> DEFINE h == [ij \in I \X I |-> g[ij]]
<1>5. ASSUME NEW i \in I, NEW j \in I PROVE h[<<i, j>>] = SearchStep(a, x, h, i, j)
  <2>0. h[<<i, j>>] = SearchStep(a, x, g, i, j)
    BY <1>0, <1>4
  <2>1. CASE i >= j
    BY <2>0, <2>1 DEF SearchStep
  <2>2. CASE i < j
    <3> DEFINE k == (i + j) \div 2
    <3>1. k \in i..(j - 1)
      BY <1>0, <2>2
    <3>2. k + 1 \in I /\ k \in I
      BY <1>0, <2>2, <3>1
    <3>3. h[<<k + 1, j>>] = g[<<k + 1, j>>] /\ h[<<i, k>>] = g[<<i, k>>]
      BY <3>2
    <3> HIDE DEF h
    <3> QED
      BY <2>0, <2>2, <3>3 DEF SearchStep
  <2> QED
    BY <1>0, <2>1, <2>2
<1>6. h = [ij \in I \X I |-> SearchStep(a, x, h, ij[1], ij[2])]
  <2>1. \A ij \in I \X I : h[ij] = SearchStep(a, x, h, ij[1], ij[2])
    <3> TAKE ij \in I \X I
    <3>1. ij = <<ij[1], ij[2]>> /\ ij[1] \in I /\ ij[2] \in I
      OBVIOUS
    <3> HIDE DEF h
    <3>2. h[<<ij[1], ij[2]>>] = SearchStep(a, x, h, ij[1], ij[2])
      BY <1>5, <3>1
    <3> QED
      BY <3>1, <3>2
  <2> QED
    BY <2>1
<1> QED
  BY <1>6 DEF L

\* The search stops at an element that is at least x, the one before it being
\* less: wherever it stops if the last element is at least x.
LEMMA SearchFinds ==
    ASSUME NEW a, NEW x \in Int, Len(a) \in Nat,
           \A k \in 1..Len(a) : a[k] \in Int
    PROVE  LET r == SearchInts(a, x)
           IN  /\ r \in 0..Len(a)
               /\ r > 0 => a[r] < x
               /\ r < Len(a) => a[r + 1] >= x
<1> DEFINE L == Len(a)
           I == 0..L
<1> HIDE DEF L
<1>0. L \in Nat /\ \A k \in 1..L : a[k] \in Int
  BY DEF L
<1>1. PICK g : g = [ij \in I \X I |-> SearchStep(a, x, g, ij[1], ij[2])]
              /\ SearchInts(a, x) = g[<<0, L>>]
  BY SearchExists, SearchUnfolds DEF L
<1>2. \A i, j \in I : g[<<i, j>>] = SearchStep(a, x, g, i, j)
  BY <1>1
<1> DEFINE Post(r) == r \in I /\ (r > 0 => a[r] < x) /\ (r < L => a[r + 1] >= x)
           Pre(i, j) == i <= j /\ (i > 0 => a[i] < x) /\ (j < L => a[j + 1] >= x)
           N == {d \in Nat : \A i, j \in I : j - i <= d /\ Pre(i, j) => Post(g[<<i, j>>])}
<1>3. 0 \in N
  <2> SUFFICES ASSUME NEW i \in I, NEW j \in I, j - i <= 0, Pre(i, j)
               PROVE  Post(g[<<i, j>>])
    OBVIOUS
  <2>1. i = j
    BY <1>0
  <2>2. g[<<i, j>>] = i
    BY <1>0, <1>2, <2>1 DEF SearchStep
  <2> QED
    BY <2>1, <2>2
<1>4. ASSUME NEW d \in N \cap Nat PROVE d + 1 \in N
  <2>0. d \in Nat /\ d + 1 \in Nat
    OBVIOUS
  <2> SUFFICES ASSUME NEW i \in I, NEW j \in I, j - i <= d + 1, Pre(i, j)
               PROVE  Post(g[<<i, j>>])
    BY <2>0
  <2>1. CASE i = j
    <3>1. g[<<i, j>>] = i
      BY <1>0, <1>2, <2>1 DEF SearchStep
    <3> QED
      BY <2>1, <3>1
  <2>2. CASE i < j
    <3> DEFINE h == (i + j) \div 2
    <3>1. h \in i..(j - 1)
      BY <1>0, <2>2
    <3>2. /\ g[<<i, j>>] = IF a[h + 1] < x THEN g[<<h + 1, j>>] ELSE g[<<i, h>>]
          /\ h \in I /\ h + 1 \in I /\ a[h + 1] \in Int
      BY <1>0, <1>2, <2>2, <3>1 DEF SearchStep
    <3> HIDE DEF h
    <3>3. \A k, l \in I : l - k <= d /\ Pre(k, l) => Post(g[<<k, l>>])
      OBVIOUS
    <3>4. CASE a[h + 1] < x
      <4>1. Pre(h + 1, j) /\ j - (h + 1) <= d
        BY <1>0, <2>0, <3>1, <3>2, <3>4
      <4> HIDE DEF Pre, Post, N
      <4>2. Post(g[<<h + 1, j>>])
        BY <3>2, <3>3, <4>1
      <4> QED
        BY <3>2, <3>4, <4>2
    <3>5. CASE ~ (a[h + 1] < x)
      <4>1. Pre(i, h) /\ h - i <= d
        BY <1>0, <2>0, <3>1, <3>2, <3>5
      <4> HIDE DEF Pre, Post, N
      <4>2. Post(g[<<i, h>>])
        BY <3>2, <3>3, <4>1
      <4> QED
        BY <3>2, <3>5, <4>2
    <3> QED
      BY <3>4, <3>5
  <2> QED
    BY <1>0, <2>1, <2>2
<1> HIDE DEF N
<1>5. Nat \subseteq N
  BY <1>3, <1>4, NatInduct
<1>6. Pre(0, L) /\ L - 0 <= L /\ 0 \in I /\ L \in I
  BY <1>0
<1> HIDE DEF Pre
<1>7. Post(g[<<0, L>>])
  BY <1>0, <1>5, <1>6 DEF N
<1> QED
  BY <1>1, <1>7 DEF L

-----------------------------------------------------------------------------
(* The loop of NewPayloadSelector. *)

\* A wrapped number is an int, and the number itself if that is one.
LEMMA WrapInt == ASSUME NEW n \in Int PROVE Wrap(n) \in Int
BY IntMaxAssumption DEF Wrap

LEMMA WrapId == ASSUME NEW n \in 0..IntMax PROVE Wrap(n) = n
BY IntMaxAssumption DEF Wrap

AfterStep(m, g, i) == IF i = 0 THEN None ELSE AddEntry(g[i - 1], m[i])

\* The states of the loop.
LEMMA LoopRuns ==
    ASSUME NEW m, Len(m) \in Nat
    PROVE  \E g : /\ NewPayloadSelector(m) = g[Len(m)]
                  /\ g[0] = None
                  /\ \A i \in 1..Len(m) : g[i] = AddEntry(g[i - 1], m[i])
<1> DEFINE L == Len(m)
<1> HIDE DEF L
<1>0. L \in Nat
  BY DEF L
<1> DEFINE N == {n \in Nat : \E g : \A i \in 0..L : i <= n => g[i] = AfterStep(m, g, i)}
<1>1. 0 \in N
  <2>1. \A i \in 0..L : i <= 0 => [j \in 0..L |-> None][i] = AfterStep(m, [j \in 0..L |-> None], i)
    BY <1>0 DEF AfterStep
  <2> QED
    BY <2>1
<1>2. ASSUME NEW n \in N \cap Nat PROVE n + 1 \in N
  <2>0. n \in Nat /\ n + 1 \in Nat
    OBVIOUS
  <2>1. PICK g : \A i \in 0..L : i <= n => g[i] = AfterStep(m, g, i)
    OBVIOUS
  <2> DEFINE h == [i \in 0..L |-> AfterStep(m, g, i)]
  <2>2. ASSUME NEW i \in 0..L, i <= n + 1 PROVE h[i] = AfterStep(m, h, i)
    <3>0. h[i] = AfterStep(m, g, i)
      OBVIOUS
    <3>1. CASE i = 0
      BY <3>0, <3>1 DEF AfterStep
    <3>2. CASE i # 0
      <4>1. i - 1 \in 0..L /\ i - 1 <= n
        BY <1>0, <2>0, <2>2, <3>2
      <4>2. h[i - 1] = g[i - 1]
        BY <2>1, <4>1
      <4> HIDE DEF h
      <4> QED
        BY <3>0, <3>2, <4>2 DEF AfterStep
    <3> QED
      BY <3>1, <3>2
  <2> HIDE DEF h
  <2>3. \A i \in 0..L : i <= n + 1 => h[i] = AfterStep(m, h, i)
    BY <2>2
  <2> QED
    BY <2>0, <2>3
<1> HIDE DEF N
<1>3. Nat \subseteq N
  BY <1>1, <1>2, NatInduct
<1>4. PICK g : \A i \in 0..L : i <= L => g[i] = AfterStep(m, g, i)
  BY <1>0, <1>3 DEF N
<1> DEFINE h == [i \in 0..L |-> g[i]]
<1>5. h = [i \in 0..L |-> AfterStep(m, h, i)]
  <2>1. ASSUME NEW i \in 0..L PROVE h[i] = AfterStep(m, h, i)
    <3>0. h[i] = AfterStep(m, g, i)
      BY <1>0, <1>4
    <3>1. CASE i = 0
      BY <3>0, <3>1 DEF AfterStep
    <3>2. CASE i # 0
      <4>1. i - 1 \in 0..L
        BY <1>0, <3>2
      <4>2. h[i - 1] = g[i - 1]
        BY <4>1
      <4> HIDE DEF h
      <4> QED
        BY <3>0, <3>2, <4>2 DEF AfterStep
    <3> QED
      BY <3>1, <3>2
  <2> QED
    BY <2>1
<1> DEFINE c == CHOOSE f : f = [i \in 0..L |-> AfterStep(m, f, i)]
<1>6. c = [i \in 0..L |-> AfterStep(m, c, i)]
  BY <1>5
<1>7. NewPayloadSelector(m) = c[L]
  BY DEF NewPayloadSelector, L, AfterStep
<1> HIDE DEF c
<1>8. c[0] = None /\ \A i \in 1..L : c[i] = AddEntry(c[i - 1], m[i])
  <2>1. \A i \in 0..L : c[i] = AfterStep(m, c, i)
    BY <1>6
  <2> QED
    BY <1>0, <2>1 DEF AfterStep
<1> QED
  BY <1>7, <1>8 DEF L

\* The weights are added one after the other, and never make the sum smaller.
LEMMA SumOfWeights ==
    ASSUME NEW m \in Seq(Entry)
    PROVE  /\ SumUpTo(m, 0) = 0
           /\ \A i \in 1..Len(m) : SumUpTo(m, i) = SumUpTo(m, i - 1) + m[i].weight
           /\ \A i \in 0..Len(m) : SumUpTo(m, i) \in Nat /\ SumUpTo(m, i) <= SumUpTo(m, Len(m))
<1> DEFINE L == Len(m)
           f(i) == [k \in 1..i |-> m[k].weight]
<1>0. L \in Nat /\ \A k \in 1..L : m[k].weight \in Nat
  <2>1. L \in Nat /\ \A k \in 1..L : m[k] \in Entry
    BY ElementOfSeq
  <2> QED
    BY <2>1, IntMaxAssumption DEF Entry
<1> HIDE DEF L
<1>1. \A i \in Nat : SumUpTo(m, i) = SumFunctionOnSet(f(i), 1..i) /\ IsFiniteSet(1..i)
  BY FS_Interval DEF SumUpTo, SumFunction
<1>2. SumUpTo(m, 0) = 0
  <2>1. 1..0 = {}
    OBVIOUS
  <2> QED
    BY <1>1, <2>1, SumEmpty
<1>3. ASSUME NEW i \in 1..L PROVE SumUpTo(m, i) = SumUpTo(m, i - 1) + m[i].weight
  <2> DEFINE A == 1..(i - 1)
             F == f(i)
             G == f(i - 1)
  <2>0. i - 1 \in Nat /\ i \in Nat
    BY <1>0
  <2>1. IsFiniteSet(A) /\ i \notin A /\ A \cup {i} = 1..i
    <3>1. IsFiniteSet(1..(i - 1))
      BY <1>1, <2>0
    <3>2. i \notin 1..(i - 1) /\ 1..(i - 1) \cup {i} = 1..i
      BY <2>0
    <3> QED
      BY <3>1, <3>2
  <2>2. /\ F[i] = m[i].weight
        /\ \A k \in A : F[k] = m[k].weight /\ G[k] = m[k].weight
    OBVIOUS
  <2>3. \A k \in 1..i : m[k].weight \in Nat
    BY <1>0
  <2>4. F[i] \in Int /\ \A k \in A : G[k] \in Int /\ F[k] = G[k]
    BY <2>2, <2>3
  <2>5. SumUpTo(m, i) = SumFunctionOnSet(F, A \cup {i}) /\ SumUpTo(m, i - 1) = SumFunctionOnSet(G, A)
    BY <1>1, <2>0, <2>1
  <2> HIDE DEF A, F, G
  <2>6. SumFunctionOnSet(F, A \cup {i}) = F[i] + SumFunctionOnSet(F, A)
    BY <2>1, <2>4, SumAdd
  <2>7. SumFunctionOnSet(F, A) = SumFunctionOnSet(G, A) /\ SumFunctionOnSet(G, A) \in Int
    BY <2>1, <2>4, SumSame, SumRemove
  <2>8. SumUpTo(m, i) = F[i] + SumUpTo(m, i - 1) /\ SumUpTo(m, i - 1) \in Int
    BY <2>5, <2>6, <2>7
  <2> QED
    BY <2>2, <2>4, <2>8
<1> HIDE DEF f
<1> DEFINE N == {n \in 0..L : \A i \in 0..n : SumUpTo(m, i) \in Nat /\ SumUpTo(m, i) <= SumUpTo(m, n)}
<1>4. 0 \in N
  BY <1>0, <1>2
<1>5. ASSUME NEW n \in N, n \in 0..(L - 1) PROVE n + 1 \in N
  <2>1. n + 1 \in 1..L /\ SumUpTo(m, n + 1) = SumUpTo(m, n) + m[n + 1].weight
    <3>1. n + 1 \in 1..L /\ (n + 1) - 1 = n
      BY <1>0, <1>5
    <3> QED
      BY <1>3, <3>1
  <2>2. m[n + 1].weight \in Nat
    BY <1>0, <2>1
  <2>3. \A i \in 0..n : SumUpTo(m, i) \in Nat /\ SumUpTo(m, i) <= SumUpTo(m, n)
    OBVIOUS
  <2>4. SumUpTo(m, n) \in Nat
    BY <2>3
  <2>5. SumUpTo(m, n + 1) \in Nat /\ SumUpTo(m, n) <= SumUpTo(m, n + 1)
    BY <2>1, <2>2, <2>4
  <2>6. ASSUME NEW i \in 0..(n + 1)
        PROVE  SumUpTo(m, i) \in Nat /\ SumUpTo(m, i) <= SumUpTo(m, n + 1)
    <3>1. CASE i = n + 1
      BY <2>5, <3>1
    <3>2. CASE i # n + 1
      <4>1. i \in 0..n
        BY <3>2
      <4> QED
        BY <2>3, <2>4, <2>5, <4>1
    <3> QED
      BY <3>1, <3>2
  <2> QED
    BY <2>1, <2>6
<1> HIDE DEF N
<1>6. 0..L \subseteq N
  BY <1>0, <1>4, <1>5, NatInductUpTo
<1>7. L \in N
  BY <1>0, <1>6
<1> QED
  BY <1>0, <1>2, <1>3, <1>7 DEF L, N

\* A selector as the loop leaves it, whatever the total has wrapped to.
Shaped(s) ==
    /\ s.shapes \in Seq(Shape) /\ s.cum \in Seq(Int) /\ s.total \in Int
    /\ Len(s.cum) = Len(s.shapes)
    /\ Len(s.cum) > 0 => s.cum[Len(s.cum)] = s.total

LEMMA AddEntryShaped ==
    ASSUME NEW s, Shaped(s), NEW e, e.shape \in Shape, e.weight \in Nat
    PROVE  /\ Shaped(AddEntry(s, e))
           /\ e.weight > 0 => Len(AddEntry(s, e).shapes) > 0
           /\ Len(s.shapes) > 0 => Len(AddEntry(s, e).shapes) > 0
<1>1. CASE e.weight <= 0
  <2>1. AddEntry(s, e) = s /\ ~ (e.weight > 0)
    BY <1>1 DEF AddEntry
  <2> QED
    BY <2>1
<1>2. CASE ~ (e.weight <= 0)
  <2> DEFINE t == Wrap(s.total + e.weight)
  <2>1. t \in Int
    <3>1. s.total + e.weight \in Int
      BY DEF Shaped
    <3> QED
      BY <3>1, WrapInt
  <2> HIDE DEF t
  <2>2. AddEntry(s, e) = [shapes |-> Append(s.shapes, e.shape),
                          cum |-> Append(s.cum, t), total |-> t]
    BY <1>2 DEF AddEntry, t
  <2>3. /\ s.shapes \in Seq(Shape) /\ s.cum \in Seq(Int) /\ Len(s.cum) = Len(s.shapes)
    BY DEF Shaped
  <2>4. /\ Append(s.shapes, e.shape) \in Seq(Shape) /\ Append(s.cum, t) \in Seq(Int)
        /\ Len(Append(s.shapes, e.shape)) = Len(s.shapes) + 1
        /\ Len(Append(s.cum, t)) = Len(s.cum) + 1
        /\ Append(s.cum, t)[Len(s.cum) + 1] = t
        /\ Len(s.shapes) \in Nat
    BY <2>1, <2>3
  <2> QED
    BY <2>1, <2>2, <2>3, <2>4 DEF Shaped
<1> QED
  BY <1>1, <1>2

LEMMA SelectorShaped ==
    ASSUME NEW m \in Seq(Entry)
    PROVE  /\ Shaped(NewPayloadSelector(m))
           /\ Valid(m) => Len(NewPayloadSelector(m).shapes) > 0
<1> DEFINE L == Len(m)
<1>0. L \in Nat /\ \A i \in 1..L : m[i].shape \in Shape /\ m[i].weight \in Nat
  <2>1. L \in Nat /\ \A k \in 1..L : m[k] \in Entry
    BY ElementOfSeq
  <2> QED
    BY <2>1, IntMaxAssumption DEF Entry
<1>1. PICK g : /\ NewPayloadSelector(m) = g[L]
               /\ g[0] = None
               /\ \A i \in 1..L : g[i] = AddEntry(g[i - 1], m[i])
  BY <1>0, LoopRuns
<1> HIDE DEF L
<1> DEFINE N == {n \in 0..L : /\ Shaped(g[n])
                              /\ (\E i \in 1..n : m[i].weight > 0) => Len(g[n].shapes) > 0}
<1>2. 0 \in N
  <2>1. Shaped(None) /\ 0 \in 0..L
    BY <1>0 DEF None, Shaped
  <2> QED
    BY <1>1, <2>1
<1>3. ASSUME NEW n \in N, n \in 0..(L - 1) PROVE n + 1 \in N
  <2>1. n + 1 \in 1..L /\ (n + 1) - 1 = n /\ n + 1 \in 0..L
    BY <1>0, <1>3
  <2>2. g[n + 1] = AddEntry(g[n], m[n + 1])
    BY <1>1, <2>1
  <2>3. Shaped(g[n]) /\ ((\E i \in 1..n : m[i].weight > 0) => Len(g[n].shapes) > 0)
    OBVIOUS
  <2> HIDE DEF N
  <2>4. /\ Shaped(g[n + 1])
        /\ m[n + 1].weight > 0 => Len(g[n + 1].shapes) > 0
        /\ Len(g[n].shapes) > 0 => Len(g[n + 1].shapes) > 0
    BY <1>0, <2>1, <2>2, <2>3, AddEntryShaped
  <2>5. \A i \in 1..(n + 1) : i = n + 1 \/ i \in 1..n
    BY <2>1
  <2> QED
    BY <2>1, <2>3, <2>4, <2>5 DEF N
<1> HIDE DEF N
<1>4. 0..L \subseteq N
  BY <1>0, <1>2, <1>3, NatInductUpTo
<1>5. L \in N
  BY <1>0, <1>4
<1>6. Valid(m) => \E i \in 1..L : m[i].weight > 0
  BY DEF Valid, L
<1> QED
  BY <1>1, <1>5, <1>6 DEF N

\* Weight e of the mix has place j of the selector: the draws from the end of
\* the place before up to its own end.
Begin(s, j) == IF j = 1 THEN 0 ELSE s.cum[j - 1]

Place(m, s, e, j) ==
    /\ s.shapes[j] = m[e].shape
    /\ m[e].weight > 0
    /\ s.cum[j] = Begin(s, j) + m[e].weight

\* As long as the weights add up to an int, the selector after i entries has a
\* place for each of positive weight among them, and no other.
Exact(m, s, i) ==
    /\ s.total = SumUpTo(m, i)
    /\ Len(s.cum) = 0 => s.total = 0
    /\ \A j \in 1..Len(s.cum) : \E e \in 1..i : Place(m, s, e, j)
    /\ \A e \in 1..i : m[e].weight > 0 => \E j \in 1..Len(s.cum) : Place(m, s, e, j)
    /\ \A j, k \in 1..Len(s.cum) : s.shapes[j] = s.shapes[k] => j = k

LEMMA AddEntryExact ==
    ASSUME NEW m \in Seq(Entry), SumUpTo(m, Len(m)) <= IntMax,
           \A i, j \in 1..Len(m) : i # j => m[i].shape # m[j].shape,
           NEW i \in 1..Len(m),
           NEW s, Shaped(s), Exact(m, s, i - 1)
    PROVE  Exact(m, AddEntry(s, m[i]), i)
<1> DEFINE e == m[i]
           q == AddEntry(s, e)
           L == Len(s.cum)
<1>0. /\ i - 1 \in Nat /\ i \in Nat /\ Len(m) \in Nat
      /\ e.shape \in Shape /\ e.weight \in Nat
      /\ \A k \in 1..i : k = i \/ k \in 1..(i - 1)
      /\ i \in 1..i /\ 1..(i - 1) \subseteq 1..i
  <2>1. Len(m) \in Nat /\ m[i] \in Entry
    BY ElementOfSeq
  <2> QED
    BY <2>1, IntMaxAssumption DEF Entry
<1>1. /\ s.shapes \in Seq(Shape) /\ s.cum \in Seq(Int) /\ s.total \in Int
      /\ L \in Nat /\ Len(s.shapes) = L /\ (L > 0 => s.cum[L] = s.total)
  BY DEF Shaped
<1>2. /\ SumUpTo(m, i) = SumUpTo(m, i - 1) + e.weight
      /\ SumUpTo(m, i) \in Nat /\ SumUpTo(m, i) <= IntMax /\ SumUpTo(m, i - 1) \in Nat
  <2>1. SumUpTo(m, i) = SumUpTo(m, i - 1) + e.weight
    BY SumOfWeights
  <2>2. i \in 0..Len(m) /\ i - 1 \in 0..Len(m) /\ Len(m) \in 0..Len(m)
    BY <1>0
  <2>3. /\ SumUpTo(m, i) \in Nat /\ SumUpTo(m, i) <= SumUpTo(m, Len(m))
        /\ SumUpTo(m, i - 1) \in Nat /\ SumUpTo(m, Len(m)) \in Nat
    BY <2>2, SumOfWeights
  <2> QED
    BY <2>1, <2>3, IntMaxAssumption
<1>3. CASE e.weight <= 0
  <2>1. q = s /\ e.weight = 0
    BY <1>0, <1>3 DEF AddEntry
  <2>2. s.total = SumUpTo(m, i)
    BY <1>0, <1>1, <1>2, <2>1 DEF Exact
  <2>3. \A k \in 1..i : m[k].weight > 0 => k \in 1..(i - 1)
    BY <1>0, <2>1
  <2> HIDE DEF q, e
  <2> QED
    BY <1>0, <2>1, <2>2, <2>3 DEF Exact, e, q
<1>4. CASE ~ (e.weight <= 0)
  <2> DEFINE t == SumUpTo(m, i)
  <2>1. Wrap(s.total + e.weight) = t /\ s.total + e.weight = t
    <3>1. s.total + e.weight = t /\ t \in 0..IntMax
      BY <1>0, <1>2, IntMaxAssumption DEF Exact
    <3> QED
      BY <3>1, WrapId
  <2>2. q = [shapes |-> Append(s.shapes, e.shape), cum |-> Append(s.cum, t), total |-> t]
    BY <1>4, <2>1 DEF AddEntry
  <2> HIDE DEF q, t, e, L
  <2>3. /\ Len(q.cum) = L + 1 /\ Len(q.shapes) = L + 1
        /\ q.cum[L + 1] = t /\ q.shapes[L + 1] = e.shape
        /\ \A j \in 1..L : q.cum[j] = s.cum[j] /\ q.shapes[j] = s.shapes[j]
    <3>1. t \in Int /\ e.shape \in Shape
      BY <1>0, <1>2 DEF t
    <3>2. /\ Len(Append(s.cum, t)) = L + 1 /\ Append(s.cum, t)[L + 1] = t
          /\ \A j \in 1..L : Append(s.cum, t)[j] = s.cum[j]
      BY <1>1, <3>1 DEF L
    <3>3. /\ Len(Append(s.shapes, e.shape)) = L + 1
          /\ Append(s.shapes, e.shape)[L + 1] = e.shape
          /\ \A j \in 1..L : Append(s.shapes, e.shape)[j] = s.shapes[j]
      BY <1>1, <3>1
    <3> QED
      BY <2>2, <3>2, <3>3
  <2>4. \A j \in 1..(L + 1) : j = L + 1 \/ j \in 1..L
    BY <1>1
  <2>5. ASSUME NEW j \in 1..L, NEW k \in 1..(i - 1), Place(m, s, k, j)
        PROVE  Place(m, q, k, j)
    <3>1. j # 1 => j - 1 \in 1..L
      BY <1>1
    <3>2. Begin(q, j) = Begin(s, j)
      BY <2>3, <3>1 DEF Begin
    <3> QED
      BY <2>3, <2>5, <3>2 DEF Place
  <2>6. Place(m, q, i, L + 1)
    <3>1. Begin(q, L + 1) = s.total
      <4>1. CASE L = 0
        BY <4>1 DEF Begin, Exact, L
      <4>2. CASE L # 0
        BY <1>1, <2>3, <4>2 DEF Begin
      <4> QED
        BY <4>1, <4>2
    <3>2. e.weight > 0
      BY <1>0, <1>4
    <3> QED
      BY <2>1, <2>3, <3>1, <3>2 DEF Place, e
  <2>7. \A j \in 1..(L + 1) : \E k \in 1..i : Place(m, q, k, j)
    <3> TAKE j \in 1..(L + 1)
    <3>1. CASE j = L + 1
      BY <1>0, <2>6, <3>1
    <3>2. CASE j \in 1..L
      <4>1. PICK k \in 1..(i - 1) : Place(m, s, k, j)
        BY <3>2 DEF Exact, L
      <4> QED
        BY <1>0, <2>5, <3>2, <4>1
    <3> QED
      BY <2>4, <3>1, <3>2
  <2>8. \A k \in 1..i : m[k].weight > 0 => \E j \in 1..(L + 1) : Place(m, q, k, j)
    <3> SUFFICES ASSUME NEW k \in 1..i, m[k].weight > 0
                 PROVE  \E j \in 1..(L + 1) : Place(m, q, k, j)
      OBVIOUS
    <3>0. L + 1 \in 1..(L + 1) /\ 1..L \subseteq 1..(L + 1)
      BY <1>1
    <3>1. CASE k = i
      BY <2>6, <3>0, <3>1
    <3>2. CASE k \in 1..(i - 1)
      <4>1. PICK j \in 1..L : Place(m, s, k, j)
        BY <3>2 DEF Exact, L
      <4> QED
        BY <2>5, <3>0, <3>2, <4>1
    <3> QED
      BY <1>0, <3>1, <3>2
  <2>9. ASSUME NEW j \in 1..L PROVE q.shapes[j] # q.shapes[L + 1]
    <3>1. PICK k \in 1..(i - 1) : Place(m, s, k, j)
      BY DEF Exact, L
    <3>2. k \in 1..Len(m) /\ k # i /\ s.shapes[j] = m[k].shape
      BY <1>0, <3>1 DEF Place
    <3>3. m[k].shape # m[i].shape
      BY <3>2
    <3> QED
      BY <2>3, <3>2, <3>3 DEF e
  <2>10. \A j, k \in 1..(L + 1) : q.shapes[j] = q.shapes[k] => j = k
    <3> SUFFICES ASSUME NEW j \in 1..(L + 1), NEW k \in 1..(L + 1), q.shapes[j] = q.shapes[k]
                 PROVE  j = k
      OBVIOUS
    <3>1. CASE j \in 1..L /\ k \in 1..L
      BY <2>3, <3>1 DEF Exact, L
    <3> QED
      BY <2>4, <2>9, <3>1
  <2>11. q.total = t /\ Len(q.cum) # 0
    BY <1>1, <2>2, <2>3
  <2> QED
    BY <2>3, <2>7, <2>8, <2>10, <2>11 DEF Exact, t, q, e
<1> QED
  BY <1>3, <1>4

LEMMA SelectorExact ==
    ASSUME NEW m \in Seq(Entry), SumUpTo(m, Len(m)) <= IntMax,
           \A i, j \in 1..Len(m) : i # j => m[i].shape # m[j].shape
    PROVE  Exact(m, NewPayloadSelector(m), Len(m))
<1> DEFINE L == Len(m)
<1>0. L \in Nat /\ \A i \in 1..L : m[i].shape \in Shape /\ m[i].weight \in Nat
  <2>1. L \in Nat /\ \A k \in 1..L : m[k] \in Entry
    BY ElementOfSeq
  <2> QED
    BY <2>1, IntMaxAssumption DEF Entry
<1>1. PICK g : /\ NewPayloadSelector(m) = g[L]
               /\ g[0] = None
               /\ \A i \in 1..L : g[i] = AddEntry(g[i - 1], m[i])
  BY <1>0, LoopRuns
<1> HIDE DEF L
<1> DEFINE N == {n \in 0..L : Shaped(g[n]) /\ Exact(m, g[n], n)}
<1>2. 0 \in N
  <2>1. Shaped(None) /\ Exact(m, None, 0) /\ 0 \in 0..L
    BY <1>0, SumOfWeights DEF None, Shaped, Exact
  <2> QED
    BY <1>1, <2>1
<1>3. ASSUME NEW n \in N, n \in 0..(L - 1) PROVE n + 1 \in N
  <2>1. n + 1 \in 1..L /\ (n + 1) - 1 = n /\ n + 1 \in 0..L
    BY <1>0, <1>3
  <2>2. g[n + 1] = AddEntry(g[n], m[n + 1])
    BY <1>1, <2>1
  <2>3. Shaped(g[n]) /\ Exact(m, g[n], (n + 1) - 1)
    BY <2>1
  <2> HIDE DEF N
  <2>4. Exact(m, AddEntry(g[n], m[n + 1]), n + 1)
    BY <2>1, <2>3, AddEntryExact DEF L
  <2>5. Shaped(AddEntry(g[n], m[n + 1]))
    BY <1>0, <2>1, <2>3, AddEntryShaped
  <2> QED
    BY <2>1, <2>2, <2>4, <2>5 DEF N
<1> HIDE DEF N
<1>4. 0..L \subseteq N
  BY <1>0, <1>2, <1>3, NatInductUpTo
<1>5. L \in N
  BY <1>0, <1>4
<1> QED
  BY <1>1, <1>5 DEF N, L

-----------------------------------------------------------------------------
(* Pick. *)

\* A draw is looked up at a place of the selector, one that it lies in: the
\* search never runs past the end, because the last place ends at the total.
LEMMA DrawHasPlace ==
    ASSUME NEW s, Shaped(s), Len(s.shapes) > 0, NEW n \in Draws(s)
    PROVE  \E j \in 1..Len(s.cum) : /\ ShapeAt(s, n) = s.shapes[j]
                                    /\ Begin(s, j) <= n /\ n < s.cum[j]
<1> DEFINE K == Len(s.cum)
           r == SearchInts(s.cum, n + 1)
<1>1. /\ K \in Nat /\ K > 0 /\ Len(s.shapes) = K /\ s.cum[K] = s.total /\ s.total \in Int
      /\ \A k \in 1..K : s.cum[k] \in Int
  BY DEF Shaped
<1>2. n \in Int /\ 0 <= n /\ n + 1 <= s.total
  BY <1>1 DEF Draws
<1>3. /\ r \in 0..K
      /\ r > 0 => s.cum[r] < n + 1
      /\ r < K => s.cum[r + 1] >= n + 1
  BY <1>1, <1>2, SearchFinds
<1> HIDE DEF K, r
<1>4. r < K
  BY <1>1, <1>2, <1>3
<1>5. r + 1 \in 1..K /\ (r + 1) - 1 = r /\ (r = 0 \/ r \in 1..K)
  BY <1>1, <1>3, <1>4
<1>6. ShapeAt(s, n) = s.shapes[r + 1]
  BY <1>1, <1>5 DEF ShapeAt, r
<1>7. Begin(s, r + 1) <= n
  BY <1>1, <1>2, <1>3, <1>5 DEF Begin
<1>8. n < s.cum[r + 1]
  BY <1>1, <1>2, <1>3, <1>4, <1>5
<1> QED
  BY <1>5, <1>6, <1>7, <1>8 DEF K

\* The places of an exact selector follow each other.
LEMMA PlacesFollow ==
    ASSUME NEW m \in Seq(Entry), NEW s, Shaped(s), Exact(m, s, Len(m))
    PROVE  /\ \A k \in 1..Len(s.cum) : s.cum[k] \in Int /\ 0 <= Begin(s, k) /\ Begin(s, k) \in Int
           /\ \A k \in 1..Len(s.cum) : \A j \in 1..k : s.cum[j] <= s.cum[k]
           /\ \A k \in 1..Len(s.cum) : \A j \in 1..(k - 1) : s.cum[j] <= Begin(s, k)
<1> DEFINE K == Len(s.cum)
<1>1. K \in Nat /\ \A k \in 1..K : s.cum[k] \in Int
  BY DEF Shaped
<1>2. ASSUME NEW k \in 1..K PROVE Begin(s, k) < s.cum[k] /\ Begin(s, k) \in Int
  <2>1. PICK e \in 1..Len(m) : Place(m, s, e, k)
    BY DEF Exact
  <2>2. m[e].weight \in Nat
    <3>1. m[e] \in Entry
      BY ElementOfSeq
    <3> QED
      BY <3>1, IntMaxAssumption DEF Entry
  <2>3. k # 1 => k - 1 \in 1..K
    BY <1>1
  <2> HIDE DEF K
  <2>4. Begin(s, k) \in Int
    BY <1>1, <2>3 DEF Begin
  <2> QED
    BY <2>1, <2>2, <2>4 DEF Place
<1> HIDE DEF K
<1> DEFINE N == {n \in 0..K : \A k \in 1..n : /\ 0 <= s.cum[k]
                                              /\ \A j \in 1..k : s.cum[j] <= s.cum[k]}
<1>3. 0 \in N
  BY <1>1
<1>4. ASSUME NEW n \in N, n \in 0..(K - 1) PROVE n + 1 \in N
  <2>1. n + 1 \in 1..K /\ n \in Nat
    BY <1>1, <1>4
  <2>2. \A k \in 1..n : 0 <= s.cum[k] /\ \A j \in 1..k : s.cum[j] <= s.cum[k]
    OBVIOUS
  <2>3. CASE n = 0
    <3>1. Begin(s, 1) = 0 /\ Begin(s, 1) < s.cum[1]
      BY <1>2, <2>1, <2>3 DEF Begin
    <3>2. \A k \in 1..1 : 0 <= s.cum[k] /\ \A j \in 1..k : s.cum[j] <= s.cum[k]
      BY <1>1, <2>1, <2>3, <3>1
    <3> QED
      BY <2>1, <2>3, <3>2
  <2>4. CASE n # 0
    <3>1. Begin(s, n + 1) = s.cum[n] /\ n \in 1..n /\ n \in 1..K /\ n + 1 # 1
      BY <2>1, <2>4 DEF Begin
    <3>2. s.cum[n] < s.cum[n + 1] /\ s.cum[n] \in Int /\ s.cum[n + 1] \in Int
      BY <1>1, <1>2, <2>1, <3>1
    <3>3. 0 <= s.cum[n] /\ \A j \in 1..n : s.cum[j] <= s.cum[n] /\ s.cum[j] \in Int
      BY <1>1, <2>1, <2>2, <3>1
    <3>4. \A j \in 1..(n + 1) : j = n + 1 \/ j \in 1..n
      BY <2>1
    <3>5. 0 <= s.cum[n + 1] /\ \A j \in 1..(n + 1) : s.cum[j] <= s.cum[n + 1]
      BY <3>2, <3>3, <3>4
    <3>6. \A k \in 1..(n + 1) : 0 <= s.cum[k] /\ \A j \in 1..k : s.cum[j] <= s.cum[k]
      BY <2>2, <3>4, <3>5
    <3> QED
      BY <2>1, <3>6
  <2> QED
    BY <2>3, <2>4
<1> HIDE DEF N
<1>5. 0..K \subseteq N
  BY <1>1, <1>3, <1>4, NatInductUpTo
<1>6. \A k \in 1..K : 0 <= s.cum[k] /\ \A j \in 1..k : s.cum[j] <= s.cum[k]
  BY <1>1, <1>5 DEF N
<1>7. ASSUME NEW k \in 1..K
      PROVE  0 <= Begin(s, k) /\ \A j \in 1..(k - 1) : s.cum[j] <= Begin(s, k)
  <2>1. CASE k = 1
    BY <2>1 DEF Begin
  <2>2. CASE k # 1
    <3>1. k - 1 \in 1..K
      BY <1>1, <2>2
    <3> QED
      BY <1>6, <2>2, <3>1 DEF Begin
  <2> QED
    BY <2>1, <2>2
<1> QED
  BY <1>1, <1>2, <1>6, <1>7 DEF K

\* Over all draws of an exact selector a shape comes as often as its weight
\* says.
LEMMA DrawsAsWeighted ==
    ASSUME NEW m \in Seq(Entry),
           \A i, j \in 1..Len(m) : i # j => m[i].shape # m[j].shape,
           NEW s, Shaped(s), Exact(m, s, Len(m)), Len(s.shapes) > 0,
           NEW e \in 1..Len(m)
    PROVE  Cardinality({n \in Draws(s) : ShapeAt(s, n) = m[e].shape}) = m[e].weight
<1> DEFINE K == Len(s.cum)
           S == {n \in Draws(s) : ShapeAt(s, n) = m[e].shape}
<1>0. K \in Nat /\ K > 0 /\ s.total \in Int /\ s.cum[K] = s.total
  BY DEF Shaped
<1>1. m[e].weight \in Nat
  <2>1. m[e] \in Entry
    BY ElementOfSeq
  <2> QED
    BY <2>1, IntMaxAssumption DEF Entry
<1>2. CASE m[e].weight = 0
  <2>1. \A n \in S : FALSE
    <3> TAKE n \in S
    <3>1. PICK j \in 1..K : ShapeAt(s, n) = s.shapes[j]
      BY DrawHasPlace
    <3>2. PICK f \in 1..Len(m) : Place(m, s, f, j)
      BY DEF Exact
    <3>3. m[f].shape = m[e].shape /\ f # e
      BY <1>2, <3>1, <3>2 DEF Place
    <3> QED
      BY <3>3
  <2>2. S = {}
    BY <2>1
  <2> QED
    BY <1>2, <2>2, FS_EmptySet
<1>3. CASE m[e].weight > 0
  <2>1. PICK j \in 1..K : Place(m, s, e, j)
    BY <1>3 DEF Exact
  <2> DEFINE a == Begin(s, j)
             b == s.cum[j]
  <2>2. a \in Int /\ b \in Int /\ 0 <= a /\ b <= s.total /\ b = a + m[e].weight
    <3>1. j \in 1..K /\ K \in 1..K /\ j \in 1..K
      BY <1>0
    <3>2. a \in Int /\ b \in Int /\ 0 <= a /\ s.cum[j] <= s.cum[K]
      BY <3>1, PlacesFollow
    <3> QED
      BY <1>0, <2>1, <3>2 DEF Place
  <2>3. ASSUME NEW n \in S PROVE n \in a..(b - 1)
    <3>1. PICK k \in 1..K : ShapeAt(s, n) = s.shapes[k] /\ Begin(s, k) <= n /\ n < s.cum[k]
      BY DrawHasPlace
    <3>2. s.shapes[k] = s.shapes[j]
      BY <2>1, <3>1 DEF Place
    <3>3. k = j
      BY <3>2 DEF Exact
    <3>4. n \in Int
      BY <1>0 DEF Draws
    <3> QED
      BY <2>2, <3>1, <3>3, <3>4
  <2>4. ASSUME NEW n \in a..(b - 1) PROVE n \in S
    <3>1. n \in Draws(s)
      BY <1>0, <2>2 DEF Draws
    <3>2. PICK k \in 1..K : ShapeAt(s, n) = s.shapes[k] /\ Begin(s, k) <= n /\ n < s.cum[k]
      BY <3>1, DrawHasPlace
    <3>3. k = j
      <4> SUFFICES ASSUME k # j PROVE FALSE
        OBVIOUS
      <4>1. s.cum[k] \in Int /\ Begin(s, k) \in Int
        BY PlacesFollow
      <4>2. CASE k < j
        <5>1. k \in 1..(j - 1)
          BY <1>0, <4>2
        <5>2. s.cum[k] <= Begin(s, j)
          BY <5>1, PlacesFollow
        <5> QED
          BY <2>2, <3>2, <4>1, <5>2
      <4>3. CASE j < k
        <5>1. j \in 1..(k - 1)
          BY <1>0, <4>3
        <5>2. s.cum[j] <= Begin(s, k)
          BY <5>1, PlacesFollow
        <5> QED
          BY <2>2, <3>2, <4>1, <5>2
      <4> QED
        BY <1>0, <4>2, <4>3
    <3>4. ShapeAt(s, n) = m[e].shape
      BY <2>1, <3>2, <3>3 DEF Place
    <3> QED
      BY <3>1, <3>4
  <2>5. S = a..(b - 1)
    BY <2>3, <2>4
  <2> HIDE DEF a, b, S
  <2>6. Cardinality(a..(b - 1)) = m[e].weight
    <3>1. b - 1 \in Int /\ b - 1 >= a /\ (b - 1) - a + 1 = m[e].weight
      BY <1>1, <1>3, <2>2
    <3>2. Cardinality(a..(b - 1)) = IF a > b - 1 THEN 0 ELSE (b - 1) - a + 1
      BY <2>2, <3>1, FS_Interval
    <3> QED
      BY <2>2, <3>1, <3>2
  <2> QED
    BY <2>5, <2>6 DEF S
<1> QED
  BY <1>1, <1>2, <1>3

-----------------------------------------------------------------------------
(* The theorems. *)

\* A started run shares the selector of a valid mix; a request is one that
\* was built for a shape of the grammar and the run's sizes.
PickInv ==
    /\ MixOK
    /\ phase = "running" =>
          /\ selector = NewPayloadSelector(mix) /\ Valid(mix)
          /\ SizesOK(sizes) /\ sizes \in [dim : GoInt, bytes : GoInt, string : GoInt]
    /\ phase = "flags" => request = NoRequest
    /\ request # NoRequest =>
          /\ SizesOK(sizes) /\ sizes \in [dim : GoInt, bytes : GoInt, string : GoInt]
          /\ \E shape \in payloadShapeNames :
                CanBuild(shape, sizes) /\ request = BuildEchoRequest(shape, sizes)

\* A shape that Pick returns is one of the selector's.
LEMMA PickedIsShape ==
    ASSUME Shaped(selector), Len(selector.shapes) > 0
    PROVE  Pickable \subseteq Shape
<1> SUFFICES ASSUME NEW n \in IF Len(selector.shapes) = 1 THEN {0} ELSE Draws(selector)
             PROVE  ShapeAt(selector, n) \in Shape
  BY DEF Pickable
<1>1. \A j \in 1..Len(selector.shapes) : selector.shapes[j] \in Shape
  BY ElementOfSeq DEF Shaped
<1>2. CASE Len(selector.shapes) = 1
  BY <1>1, <1>2 DEF ShapeAt
<1>3. CASE Len(selector.shapes) # 1
  BY <1>1, <1>3, DrawHasPlace DEF Shaped
<1> QED
  BY <1>2, <1>3

\* Nothing that the flags set and the workers build leaves the invariant.
THEOREM PicksAreOfTheMix == Spec => []PickInv
<1>1. Init => PickInv
  BY InitMixOK DEF Init, PickInv
<1>2. PickInv /\ [Next]_vars => PickInv'
  <2> SUFFICES ASSUME PickInv, [Next]_vars PROVE PickInv'
    OBVIOUS
  <2>0. MixOK'
    BY NextMixOK DEF PickInv
  <2>1. ASSUME NEW text \in Text, Set(text) PROVE PickInv'
    BY <2>0, <2>1 DEF Set, PickInv
  <2>2. ASSUME NEW z \in Sizes, Start(z) PROVE PickInv'
    <3>1. z \in [dim : GoInt, bytes : GoInt, string : GoInt]
      BY SizesAssumption
    <3>2. request = NoRequest /\ request' = NoRequest
      BY <2>2 DEF Start, PickInv
    <3> QED
      BY <2>0, <2>2, <3>1, <3>2 DEF Start, PickInv
  <2>3. CASE Pick
    <3>1. mix \in Seq(Entry) /\ selector = NewPayloadSelector(mix) /\ Valid(mix)
      BY <2>3 DEF Pick, PickInv, MixOK, Entry
    <3>2. Pickable \subseteq Shape
      BY <3>1, SelectorShaped, PickedIsShape
    <3>3. \E shape \in payloadShapeNames :
             CanBuild(shape, sizes) /\ request' = BuildEchoRequest(shape, sizes)
      BY <2>3, <3>2, ShapeAssumption DEF Pick
    <3>4. UNCHANGED <<phase, mix, selector, sizes>> /\ phase = "running"
      BY <2>3 DEF Pick
    <3> QED
      BY <2>0, <3>3, <3>4 DEF PickInv, Valid, SizesOK, CanBuild
  <2>4. CASE PickPanics
    BY <2>0, <2>4 DEF PickPanics, PickInv
  <2>5. CASE UNCHANGED vars
    BY <2>0, <2>5 DEF vars, PickInv
  <2> QED
    BY <2>1, <2>2, <2>3, <2>4, <2>5 DEF Next
<1> QED
  BY <1>1, <1>2, PTL DEF Spec

\* Workers that Config.run has started never see the nil selector.
THEOREM ValidMixHasSelector == Spec => []SelectorExists
<1>1. PickInv => SelectorExists
  <2> SUFFICES ASSUME PickInv, phase = "running" PROVE selector.shapes # << >>
    BY DEF SelectorExists
  <2>1. mix \in Seq(Entry) /\ selector = NewPayloadSelector(mix) /\ Valid(mix)
    BY DEF PickInv, MixOK, Entry
  <2>2. Len(selector.shapes) > 0
    BY <2>1, SelectorShaped
  <2> QED
    BY <2>2
<1> QED
  BY <1>1, PicksAreOfTheMix, PTL

\* Every shape is drawn exactly as often as its weight says, for every mix
\* whose weights add up to an int.
THEOREM DrawnInProportion == Spec => []Proportional
<1>1. PickInv => Proportional
  <2> SUFFICES ASSUME PickInv, phase = "running", SumUpTo(mix, Len(mix)) <= IntMax,
                      NEW i \in 1..Len(mix)
               PROVE  Cardinality({n \in Draws(selector) :
                                      ShapeAt(selector, n) = mix[i].shape})
                         = mix[i].weight
    BY DEF Proportional
  <2>1. /\ mix \in Seq(Entry) /\ selector = NewPayloadSelector(mix) /\ Valid(mix)
        /\ \A k, j \in 1..Len(mix) : k # j => mix[k].shape # mix[j].shape
    BY DEF PickInv, MixOK, Entry
  <2>2. Shaped(selector) /\ Len(selector.shapes) > 0 /\ Exact(mix, selector, Len(mix))
    BY <2>1, SelectorShaped, SelectorExact
  <2> QED
    BY <2>1, <2>2, DrawsAsWeighted
<1> QED
  BY <1>1, PicksAreOfTheMix, PTL

\* Every request has the payload of its shape, both kinds of embedding are of
\* one length, and the server sends the payload back.
THEOREM RequestsHaveSizes == Spec => []RequestSizes
<1>1. PickInv => RequestSizes
  <2> SUFFICES ASSUME PickInv, request # NoRequest, 4 * sizes.dim <= IntMax
               PROVE  /\ request.payload # NoPayload
                      /\ request.payload.kind \in {"floats", "embedding"} =>
                            request.payload.length = 4 * sizes.dim
                      /\ echoRequestPayload(request.payload) = request.payload
    BY DEF RequestSizes
  <2>1. PICK shape \in payloadShapeNames : request = BuildEchoRequest(shape, sizes)
    BY DEF PickInv
  <2>2. request.payload = PayloadOf(shape, sizes)
    BY <2>1 DEF BuildEchoRequest
  <2>3. Wrap(4 * sizes.dim) = 4 * sizes.dim
    <3>1. 4 * sizes.dim \in 0..IntMax
      BY IntMaxAssumption DEF PickInv, SizesOK, GoInt
    <3> QED
      BY <3>1, WrapId
  <2> QED
    BY <2>2, <2>3 DEF PayloadOf, payloadShapeNames, Payload, NoPayload, echoRequestPayload
<1> QED
  BY <1>1, PicksAreOfTheMix, PTL

\* Within an int, the selector of a valid mix has something to draw.
LEMMA ValidMixDraws ==
    ASSUME PickInv, phase = "running", SumUpTo(mix, Len(mix)) <= IntMax
    PROVE  Pickable # {} /\ Pickable \subseteq payloadShapeNames
<1>1. /\ mix \in Seq(Entry) /\ selector = NewPayloadSelector(mix) /\ Valid(mix)
      /\ \A k, j \in 1..Len(mix) : k # j => mix[k].shape # mix[j].shape
  BY DEF PickInv, MixOK, Entry
<1>2. Shaped(selector) /\ Len(selector.shapes) > 0 /\ Exact(mix, selector, Len(mix))
  BY <1>1, SelectorShaped, SelectorExact
<1>3. \E n : n \in IF Len(selector.shapes) = 1 THEN {0} ELSE Draws(selector)
  <2>1. CASE Len(selector.shapes) = 1
    BY <2>1
  <2>2. CASE Len(selector.shapes) # 1
    <3>1. selector.total \in Int /\ selector.total > 0
      <4>1. PICK e \in 1..Len(mix) : mix[e].weight > 0
        BY <1>1 DEF Valid
      <4>2. Len(mix) \in Nat /\ mix[e].weight \in Nat
        <5>1. mix[e] \in Entry /\ Len(mix) \in Nat
          BY <1>1, ElementOfSeq
        <5> QED
          BY <5>1 DEF Entry
      <4>3. /\ SumUpTo(mix, e) = SumUpTo(mix, e - 1) + mix[e].weight
            /\ SumUpTo(mix, e - 1) \in Nat
            /\ SumUpTo(mix, e) <= SumUpTo(mix, Len(mix)) /\ SumUpTo(mix, Len(mix)) \in Nat
        <5>1. e \in 0..Len(mix) /\ e - 1 \in 0..Len(mix) /\ Len(mix) \in 0..Len(mix)
          BY <4>2
        <5> QED
          BY <1>1, <5>1, SumOfWeights
      <4>4. selector.total = SumUpTo(mix, Len(mix))
        BY <1>2 DEF Exact
      <4> QED
        BY <4>1, <4>2, <4>3, <4>4
    <3>2. 0 \in Draws(selector)
      BY <3>1 DEF Draws
    <3> QED
      BY <2>2, <3>2
  <2> QED
    BY <2>1, <2>2
<1>4. Pickable \subseteq Shape
  BY <1>2, PickedIsShape
<1> QED
  BY <1>3, <1>4, ShapeAssumption DEF Pickable

\* A worker of a validated run panics only where an int does not hold the sum
\* of the weights or the bytes of an embedding.
THEOREM PanicsOnlyBeyondInt == Spec => []PanicsBeyondInt
<1>1. Init => PanicsBeyondInt
  BY DEF Init, PanicsBeyondInt
<1>2. PickInv /\ PanicsBeyondInt /\ [Next]_vars => PanicsBeyondInt'
  <2> SUFFICES ASSUME PickInv, PanicsBeyondInt, [Next]_vars PROVE PanicsBeyondInt'
    OBVIOUS
  <2>1. CASE PickPanics
    <3> SUFFICES ASSUME SumUpTo(mix, Len(mix)) <= IntMax, 4 * sizes.dim <= IntMax
                 PROVE  FALSE
      <4>1. UNCHANGED <<mix, sizes>>
        BY <2>1 DEF PickPanics
      <4>2. SumUpTo(mix, Len(mix)) \in Int /\ sizes.dim \in Int /\ IntMax \in Int
        <5>1. mix \in Seq(Entry)
          BY DEF PickInv, MixOK, Entry
        <5>2. sizes.dim \in GoInt
          BY <2>1 DEF PickPanics, PickInv
        <5> QED
          BY <5>1, <5>2, SumOfWeights, IntMaxAssumption DEF GoInt
      <4> QED
        BY <4>1, <4>2 DEF PanicsBeyondInt, SumUpTo
    <3>1. phase = "running"
      BY <2>1 DEF PickPanics
    <3>2. Pickable # {} /\ Pickable \subseteq payloadShapeNames
      BY <3>1, ValidMixDraws
    <3>3. ASSUME NEW shape \in payloadShapeNames PROVE CanBuild(shape, sizes)
      <4>1. sizes.dim \in 0..IntMax /\ sizes.bytes \in 0..IntMax /\ sizes.string \in 0..IntMax
        BY <3>1, IntMaxAssumption DEF PickInv, SizesOK, GoInt
      <4>2. 4 * sizes.dim \in 0..IntMax /\ Wrap(4 * sizes.dim) = 4 * sizes.dim
        BY <4>1, IntMaxAssumption, WrapId
      <4> QED
        BY <4>1, <4>2 DEF CanBuild, PayloadOf, payloadShapeNames, Payload
    <3> QED
      BY <2>1, <3>2, <3>3 DEF PickPanics
  <2>2. CASE ~ PickPanics
    BY <2>2 DEF Next, Set, Start, Pick, vars, PanicsBeyondInt
  <2> QED
    BY <2>1, <2>2
<1> QED
  BY <1>1, <1>2, PicksAreOfTheMix, PTL DEF Spec
=============================================================================
