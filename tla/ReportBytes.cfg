\* One server whose messages are compressed, reported in both formats.
CONSTANTS
    Truncated <- MCTruncated
    Config <- NamedConfigs
    Setting <- NamedSettings
SPECIFICATION Spec
INVARIANTS CompressionShown
CHECK_DEADLOCK FALSE
