\* Weights up to the largest int.
CONSTANTS
    Shape <- MCShape
    Name <- MCName
    Text <- LargeTexts
    Sizes <- OneSize
    IntMax = 7
SPECIFICATION Spec
INVARIANTS PicksFromValid
CHECK_DEADLOCK FALSE
