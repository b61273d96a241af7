--------------------------- MODULE ILInstructions ---------------------------
(***************************************************************************)
(* Code streams built by the encoders of il_instructions.cpp (module       *)
(* ILEncoders), and the ECMA-335 decoding a JIT applies to a whole stream.  *)
(*                                                                         *)
(* The state is a code stream built by a series of encoder calls, as the   *)
(* rewriter builds the prolog: each call appends the bytes the encoder     *)
(* returns and records the instruction it was asked for.  The property is  *)
(* that the decoder reads the stream back as exactly those instructions.  *)
(***************************************************************************)
EXTENDS ILEncoders

CONSTANTS
    Calls,     \* encoder calls: [enc |-> encoder name, arg |-> its int argument]
    MaxInstrs  \* length of the streams explored

ASSUME EncoderCallsAssumption ==
    /\ MaxInstrs \in Nat
    /\ \A c \in Calls :
          /\ c.enc \in {"LoadString", "CallMethod", "LoadArg", "StoreLocal",
                        "Box", "NewArray", "LoadConstantI4", "StoreElementRef"}
          /\ c.arg \in IntMin..IntMax

VARIABLES
    code,      \* the bytes emitted so far
    emitted,   \* the instructions the encoder calls stand for
    starts     \* the offset in code (from 1) at which each call's bytes begin

vars == <<code, emitted, starts>>

-----------------------------------------------------------------------------
\* The whole stream, instruction after instruction, from each position p;
\* an instruction whose operand runs past the end is "truncated" and ends
\* the stream.  (A recursive function: p grows towards Len(s) + 1.)
DecodeFrom(s) ==
    LET from[p \in Nat] ==
          IF p > Len(s) THEN <<>>
          ELSE IF \/ p + 4 > Len(s) /\ s[p] \in {32, 40, 114, 140, 141}
                  \/ p + 1 > Len(s) /\ s[p] \in {14, 17, 19, 31, 254}
                  \/ p + 3 > Len(s) /\ s[p] = 254
               THEN <<[op |-> "truncated", arg |-> s[p]]>>
               ELSE LET d == DecodeAt(s, p) IN <<d.ins>> \o from[p + d.len]
    IN from

Decode(s) == DecodeFrom(s)[1]

-----------------------------------------------------------------------------
Init ==
    /\ code = <<>>
    /\ emitted = <<>>
    /\ starts = <<>>

\* memcpy(newIL, il, size); AdvanceIL(size) for one encoder call.
EmitInstr(c) ==
    /\ Len(emitted) < MaxInstrs
    /\ code' = code \o Encode(c)
    /\ emitted' = Append(emitted, Meaning(c))
    /\ starts' = Append(starts, Len(code) + 1)

Next == \E c \in Calls : EmitInstr(c)

Spec == Init /\ [][Next]_vars

-----------------------------------------------------------------------------
(* Properties. *)

TypeOK ==
    /\ code \in Seq(0..255)
    /\ emitted \in Seq([op : EncodedOps, arg : Int])
    /\ starts \in Seq(Nat)

\* A JIT decoding the emitted bytes reads exactly the instructions the
\* rewriter meant, with their operands: opcode byte order, operand widths,
\* little-endian tokens and constants, and the short forms' ranges.
ECMARoundTrip == Decode(code) = emitted

\* Where the next instruction after the i-th begins: the next call's offset,
\* or one past the end of the stream.
NextStart(i) == IF i < Len(emitted) THEN starts[i + 1] ELSE Len(code) + 1

\* Every instruction is read back where the rewriter put it: at the offset
\* where an encoder call's bytes begin, a JIT decodes exactly the
\* instruction the call stands for, and that instruction ends where the
\* next call's bytes begin (the last one at the end of the stream); the
\* first call's bytes begin the stream.  Reading from offset 1 and stepping
\* by the decoded lengths therefore visits exactly these offsets.
InstrAtBoundaries ==
    /\ emitted # <<>> => starts[1] = 1
    /\ \A i \in 1..Len(emitted) :
          DecodeAt(code, starts[i]) = [ins |-> emitted[i], len |-> NextStart(i) - starts[i]]

=============================================================================
