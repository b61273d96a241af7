--------------------------- MODULE MC_EncoderRace ---------------------------
EXTENDS EncoderRace

\* Two box instructions for different value types, as two threads rewriting
\* methods with different argument types emit them.
RaceCalls == {[enc |-> "Box", arg |-> 16777221], [enc |-> "Box", arg |-> 33554435]}
====
