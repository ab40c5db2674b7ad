\* Two servers with pod names behind a sidecar.
CONSTANTS
    Truncated <- MCTruncated
    Config <- NamedConfigs
    Setting <- MeshSettings
SPECIFICATION Spec
INVARIANTS MeshRowsByPeer
CHECK_DEADLOCK FALSE
