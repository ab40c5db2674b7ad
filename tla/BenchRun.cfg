\* Two workers of up to two attempts, every connection model.
CONSTANTS
    Concurrency = 2
    MaxCalls = 2
SPECIFICATION FairSpec
INVARIANTS TypeOK CallsUseOpenConn NothingLeaks Dialing Accounted OneLateAttempt
PROPERTIES SuccessRecorded DropIsLast ReportPromise RunReturns
