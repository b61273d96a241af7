CONSTANTS
    Calls <- EmittedCalls
    MaxInstrs = 3

SPECIFICATION Spec

INVARIANT
    ECMARoundTrip

\* The streams are bounded by MaxInstrs: a stream of that length is final.
CHECK_DEADLOCK FALSE
