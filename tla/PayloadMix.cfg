\* Every text of up to three tokens.
CONSTANTS
    Shape <- MCShape
    Name <- MCName
    Text <- SmallTexts
    Sizes <- MCSizes
    IntMax = 7
SPECIFICATION Spec
INVARIANTS RoundTrip MixOK Proportional RequestSizes 
CHECK_DEADLOCK FALSE
