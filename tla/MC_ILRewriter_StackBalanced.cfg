CONSTANTS
    Descs <- MCDescs
    Padding = 512
    MaxArgs = 1024

SPECIFICATION Spec

INVARIANT StackBalanced

\* Rewrite is one call: it returns (pc = "done") and the thread moves on.
CHECK_DEADLOCK FALSE
