\* A configuration with a shape outside the enum.
CONSTANTS
    Truncated <- MCTruncated
    Config <- ForeignConfigs
    Setting <- NamedSettings
SPECIFICATION Spec
INVARIANTS ShapesReadBack
CHECK_DEADLOCK FALSE
