CONSTANTS
    Calls <- SoundCalls
    MaxInstrs = 3

SPECIFICATION Spec

INVARIANTS
    ECMARoundTrip

\* The streams are bounded by MaxInstrs: a stream of that length is final.
CHECK_DEADLOCK FALSE
