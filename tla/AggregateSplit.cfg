\* One server that answers and fails.
CONSTANTS
    Truncated <- MCTruncated
    Config <- NamedConfigs
    Setting <- NamedSettings
SPECIFICATION Spec
INVARIANTS NoSkewOfOne
CHECK_DEADLOCK FALSE
