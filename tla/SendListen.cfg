\* Two clients of two chunks each, one descriptor, a buffer of one chunk.
CONSTANTS
    Client = {c1, c2}
    Buffer = 1
    FdLimit = 1
    MaxChunks = 2
SPECIFICATION FairSpec
INVARIANTS LoggedWhole AddrListens StoppedClean OnlyCancelEnds
PROPERTIES CancelStopsRun WatcherEnds HandlersEnd BacklogDrains
CHECK_DEADLOCK FALSE
