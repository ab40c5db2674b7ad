\* Two servers without POD_NAME.
CONSTANTS
    Truncated <- MCTruncated
    Config <- NamedConfigs
    Setting <- UnnamedSettings
SPECIFICATION Spec
INVARIANTS BackendsToldApart
CHECK_DEADLOCK FALSE
