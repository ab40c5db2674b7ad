----------------------------- MODULE PayloadMix -----------------------------
(***************************************************************************)
(* The --payload flag of a bench run, from its text to the requests that   *)
(* are sent: PayloadMix.Set and String, the payload part of                *)
(* Config.Validate, NewPayloadSelector, Pick and BuildEchoRequest          *)
(* (pkg/bench/payload.go, config.go), and what the echo server sends back. *)
(*                                                                         *)
(* A flag's text is the sequence of its tokens between commas, and a token *)
(* is what stands before its first colon and the sequence of what stands   *)
(* after each colon.  A weight is a Go int of Width bits; text that Atoi   *)
(* refuses is the number after the largest int.  Of a payload only its     *)
(* kind and its length in bytes are kept.                                  *)
(***************************************************************************)
EXTENDS Integers, Sequences, FiniteSets, Functions

CONSTANTS
    Shape,      \* the shapes that a mix can name
    Name,       \* what can stand before a colon
    Text,       \* the texts that --payload can be given
    Sizes,      \* what the size flags can be: records of dim, bytes, string
    IntMax      \* the largest int: with w bits, 2^(w - 1) - 1

ASSUME IntMaxAssumption == IntMax \in Nat \ {0}

\* The values of payloadShapeNames.
payloadShapeNames ==
    {"string", "bytes", "embedding-float", "embedding-bytes", "mixed"}

ASSUME ShapeAssumption ==
    "embedding-float" \in Shape /\ Shape \subseteq payloadShapeNames

\* The values of an int.
GoInt == (-IntMax - 1)..IntMax

ASSUME SizesAssumption == Sizes \subseteq [dim : GoInt, bytes : GoInt, string : GoInt]
ASSUME TextAssumption == Text \subseteq Seq([name : Name, weights : Seq(Int)])

NotANumber == IntMax + 1

\* What is left of a sum in an int.
Wrap(n) == ((n + IntMax + 1) % (2 * IntMax + 2)) - IntMax - 1

VARIABLES
    phase,      \* "flags", "running", "refused", "panicked"
    mix,        \* Config.Payload: a sequence of shapes and weights
    selector,   \* the run's PayloadSelector, None for nil
    sizes,      \* the run's PayloadSizes
    request     \* the last request that doCall built, NoRequest before

vars == <<phase, mix, selector, sizes, request>>

None == [shapes |-> << >>, cum |-> << >>, total |-> 0]
NoSizes == [dim |-> 0, bytes |-> 0, string |-> 0]

-----------------------------------------------------------------------------
(* ParsePayloadMix and String. *)

\* Mutant: a shape may come twice.
TokenOK_Repeats(text, i) ==
    /\ Len(text[i].weights) <= 1
    /\ text[i].name \in Shape
    /\ \A k \in 1..Len(text[i].weights) : text[i].weights[k] \in 0..IntMax

\* The checks of the token loop.
TokenOK(text, i) ==
    /\ Len(text[i].weights) <= 1
    /\ text[i].name \in Shape
    /\ \A j \in 1..(i - 1) : text[j].name # text[i].name
    /\ \A k \in 1..Len(text[i].weights) : text[i].weights[k] \in 0..IntMax

Weighted(text) == {i \in 1..Len(text) : text[i].weights # << >>}

\* ParsePayloadMix returns no error.
Accepts(text) ==
    /\ text # << >>
    /\ \A i \in 1..Len(text) : TokenOK(text, i)
    /\ Weighted(text) \in {{}, 1..Len(text)}

\* The mix it returns then.
ParsePayloadMix(text) ==
    [i \in 1..Len(text) |->
        [shape |-> text[i].name,
         weight |-> IF text[i].weights = << >> THEN 1 ELSE text[i].weights[1]]]

\* Mutant: every single shape is printed bare.
String_AlwaysBare(m) ==
    [i \in 1..Len(m) |->
        [name |-> m[i].shape,
         weights |-> IF Len(m) = 1 THEN << >> ELSE <<m[i].weight>>]]

\* PayloadMix.String: bare for a single shape of weight one.
String(m) ==
    [i \in 1..Len(m) |->
        [name |-> m[i].shape,
         weights |-> IF Len(m) = 1 /\ m[1].weight = 1 THEN << >>
                     ELSE <<m[i].weight>>]]

-----------------------------------------------------------------------------
(* Validate, NewPayloadSelector and Pick. *)

\* Mutant: any entry will do.
Valid_AnyEntry(m) == m # << >>

\* Config.Validate, as far as it looks at the mix.
Valid(m) == \E i \in 1..Len(m) : m[i].weight > 0

\* Mutant: the dimension is not looked at.
SizesOK_AnyDim(z) == z.bytes >= 0 /\ z.string >= 0

\* Config.Validate, as far as it looks at the sizes.
SizesOK(z) == z.dim >= 0 /\ z.bytes >= 0 /\ z.string >= 0

\* The loop body: an entry of positive weight adds to the running total, an
\* int, and records it.
AddEntry(s, e) ==
    IF e.weight <= 0 THEN s
    ELSE LET total == Wrap(s.total + e.weight)
         IN  [shapes |-> Append(s.shapes, e.shape), cum |-> Append(s.cum, total),
              total |-> total]

\* The loop over the mix.
NewPayloadSelector(m) ==
    LET after[i \in 0..Len(m)] ==
            IF i = 0 THEN None ELSE AddEntry(after[i - 1], m[i])
    IN  after[Len(m)]

\* sort.SearchInts: the binary search, with indexes from 0.
SearchInts(a, x) ==
    LET n == Len(a)
        search[ij \in (0..n) \X (0..n)] ==
            LET i == ij[1]
                j == ij[2]
                h == (i + j) \div 2
            IN  IF i >= j THEN i
                ELSE IF a[h + 1] < x THEN search[<<h + 1, j>>] ELSE search[<<i, h>>]
    IN  search[<<0, n>>]

\* Mutant: the draw itself is looked up.
ShapeAt_SearchN(s, n) ==
    IF Len(s.shapes) = 1 THEN s.shapes[1]
    ELSE s.shapes[SearchInts(s.cum, n) + 1]

\* The shape that draw n selects.
ShapeAt(s, n) ==
    IF Len(s.shapes) = 1 THEN s.shapes[1]
    ELSE s.shapes[SearchInts(s.cum, n + 1) + 1]

\* What rand.IntN(total) can return; it panics when there is nothing.
Draws(s) == 0..(s.total - 1)

-----------------------------------------------------------------------------
(* BuildEchoRequest, and the payload of the response. *)

Payload(kind, length) == [kind |-> kind, length |-> length]
NoPayload == Payload("none", 0)
NoRequest == [shape |-> "none", payload |-> NoPayload]

\* Mutant: the dimensions are taken for bytes.
PayloadOf_DimBytes(shape, z) ==
    CASE shape = "string" -> Payload("string", z.string)
      [] shape = "bytes" -> Payload("bytes", z.bytes)
      [] shape = "embedding-float" -> Payload("floats", 4 * z.dim)
      [] shape = "embedding-bytes" -> Payload("embedding", z.dim)
      [] shape = "mixed" -> Payload("mixed", z.string + z.bytes)
      [] OTHER -> NoPayload

\* A float32 has four bytes; the bytes of an embedding are counted in an int.
PayloadOf(shape, z) ==
    CASE shape = "string" -> Payload("string", z.string)
      [] shape = "bytes" -> Payload("bytes", z.bytes)
      [] shape = "embedding-float" -> Payload("floats", 4 * z.dim)
      [] shape = "embedding-bytes" -> Payload("embedding", Wrap(4 * z.dim))
      [] shape = "mixed" -> Payload("mixed", z.string + z.bytes)
      [] OTHER -> NoPayload

\* make refuses a length that is negative or does not fit; the two parts of a
\* mixed payload are made apart.
CanBuild(shape, z) == shape = "mixed" \/ PayloadOf(shape, z).length \in 0..IntMax

BuildEchoRequest(shape, z) == [shape |-> shape, payload |-> PayloadOf(shape, z)]

\* The server sends the payload back as it came.
echoRequestPayload(payload) ==
    IF payload.kind \in {"string", "bytes", "floats", "embedding", "mixed"}
    THEN payload ELSE NoPayload

-----------------------------------------------------------------------------

\* New gives a Config one shape of weight one.
Init ==
    /\ phase = "flags"
    /\ mix = <<[shape |-> "embedding-float", weight |-> 1]>>
    /\ selector = None
    /\ sizes = NoSizes
    /\ request = NoRequest

\* --payload is parsed; a text that is refused leaves the mix as it was.
Set(text) ==
    /\ phase = "flags"
    /\ mix' = IF Accepts(text) THEN ParsePayloadMix(text) ELSE mix
    /\ UNCHANGED <<phase, selector, sizes, request>>

\* Config.run with the size flags z: Validate, and the selector and the sizes
\* that the workers share.
Start(z) ==
    /\ phase = "flags"
    /\ IF Valid(mix) /\ SizesOK(z)
       THEN phase' = "running" /\ selector' = NewPayloadSelector(mix) /\ sizes' = z
       ELSE phase' = "refused" /\ UNCHANGED <<selector, sizes>>
    /\ UNCHANGED <<mix, request>>

\* The shapes that Pick can return.
Pickable ==
    {ShapeAt(selector, n) :
        n \in IF Len(selector.shapes) = 1 THEN {0} ELSE Draws(selector)}

\* doCall picks a shape and builds the request.
Pick ==
    /\ phase = "running"
    /\ \E shape \in Pickable :
          /\ CanBuild(shape, sizes)
          /\ request' = BuildEchoRequest(shape, sizes)
    /\ UNCHANGED <<phase, mix, selector, sizes>>

\* rand.IntN has nothing to draw from, or make refuses the length.
PickPanics ==
    /\ phase = "running"
    /\ \/ Pickable = {}
       \/ \E shape \in Pickable : ~ CanBuild(shape, sizes)
    /\ phase' = "panicked"
    /\ UNCHANGED <<mix, selector, sizes, request>>

Next ==
    \/ \E text \in Text : Set(text)
    \/ \E z \in Sizes : Start(z)
    \/ Pick \/ PickPanics

Spec == Init /\ [][Next]_vars

-----------------------------------------------------------------------------
(* Properties. *)

\* "renders the mix in a form ParsePayloadMix can re-parse" (payload.go:128):
\* whatever the flags have set, printing it and parsing that gives it back.
RoundTrip ==
    Accepts(String(mix)) /\ ParsePayloadMix(String(mix)) = mix

\* The sum of the first k weights, exactly.
SumUpTo(m, k) == SumFunction([i \in 1..k |-> m[i].weight])

\* Over all draws a shape is picked exactly as often as its weight says, a
\* shape of weight zero never, as long as the weights add up to an int.
Proportional ==
    phase = "running" /\ SumUpTo(mix, Len(mix)) <= IntMax =>
        \A i \in 1..Len(mix) :
            Cardinality({n \in Draws(selector) : ShapeAt(selector, n) = mix[i].shape})
                = mix[i].weight

\* What the flags can set, and what makes printing and parsing inverse: each
\* shape at most once, and weights that Atoi reads back.
MixOK ==
    /\ mix \in Seq([shape : Shape, weight : 0..IntMax])
    /\ mix # << >>
    /\ \A i, j \in 1..Len(mix) : i # j => mix[i].shape # mix[j].shape

\* Callers that have run Validate never see the nil selector (payload.go:
\* 184-185), whatever weights of zero the flag holds.
SelectorExists == phase = "running" => selector.shapes # << >>

\* "Same wire size": "both shapes carry 4 KiB of payload" (docs/
\* bench-local.md:20-21).  Every request has a payload, the two kinds of
\* embedding are of one length, and the response carries the payload back; a
\* dimension so large that its bytes do not fit an int is excepted.
RequestSizes ==
    request # NoRequest /\ 4 * sizes.dim <= IntMax =>
        /\ request.payload # NoPayload
        /\ request.payload.kind \in {"floats", "embedding"} =>
              request.payload.length = 4 * sizes.dim
        /\ echoRequestPayload(request.payload) = request.payload

\* What Validate accepts makes a worker panic only where an int does not hold
\* the sum of the weights (payload.go:195) or the bytes of an embedding
\* (payload.go:239, 244), whatever else the mix and the sizes are: there is a
\* selector, with something to draw, and a request can be made of any draw.
PanicsBeyondInt ==
    phase = "panicked" =>
        SumUpTo(mix, Len(mix)) > IntMax \/ 4 * sizes.dim > IntMax

\* "Validate checks every field that the worker pool and report writers rely
\* on" (config.go:89-90): a mix that it accepts can be picked from.
PicksFromValid == phase # "panicked"
=============================================================================
