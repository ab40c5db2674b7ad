\* What the comment of doCall says about dropped calls.
CONSTANTS
    Concurrency = 2
    MaxCalls = 1
SPECIFICATION Spec
PROPERTY DropOnlyAtRunEnd
