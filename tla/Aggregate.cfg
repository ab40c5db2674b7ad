\* Mixed, failing and timed traffic, with and without a sidecar.
CONSTANTS
    Truncated <- MCTruncated
    Config <- NamedConfigs
    Setting <- AllSettings
SPECIFICATION Spec
INVARIANTS CountsAddUp OrderFree ErrorsUntimed SkewDefined TopMessagesAreTop LatenciesRight BackendsToldApart ElapsedSpans ReportsAgree Writable
CHECK_DEADLOCK FALSE
