---------------------------- MODULE MCPayloadMix ----------------------------
(* Small instances of PayloadMix for TLC. *)
EXTENDS PayloadMix

MCShape == {"embedding-float", "embedding-bytes", "mixed"}
MCName == MCShape \cup {"float"}

\* No weight, zero, one and a larger weight.
GoodTokens(weights) ==
    [name : MCShape, weights : {<< >>} \cup {<<w>> : w \in weights}]

\* An unknown shape, two colons, a negative weight and one that is no number.
BadTokens ==
    {[name |-> "float", weights |-> << >>], [name |-> "mixed", weights |-> <<1, 1>>],
     [name |-> "mixed", weights |-> <<-1>>], [name |-> "mixed", weights |-> <<NotANumber>>]}

Texts(tokens, n) == UNION {[1..k -> tokens] : k \in 0..n}

\* Weights that add up to an int of four bits, or do not.
SmallTexts == Texts(GoodTokens({0, 1, 3, IntMax}) \cup BadTokens, 3)

\* Small sizes, one that Validate refuses, and dimensions whose bytes do not
\* fit an int of four bits or wrap around to none.
MCSizes ==
    {[dim |-> d, bytes |-> 2, string |-> 1] : d \in {-1, 0, 1, 2, 4}}

OneSize == {[dim |-> 1, bytes |-> 2, string |-> 1]}

\* Weights as large as an int.
LargeTexts == Texts(GoodTokens({1, IntMax}), 2)
=============================================================================
