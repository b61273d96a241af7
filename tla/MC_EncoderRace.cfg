CONSTANTS
    Threads = {T1, T2}
    Calls <- RaceCalls
SPECIFICATION Spec
INVARIANT CopiedOwnEncoding
CHECK_DEADLOCK FALSE
