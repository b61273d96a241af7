--------------------------- MODULE RewriteAbstract ---------------------------
(***************************************************************************)
(* What one rewrite of a method promises its caller, InstrumentMethod:    *)
(* it fails, and the host keeps the original body; or it succeeds, and the *)
(* host holds the original body behind a complete entry prolog, one array  *)
(* slot per argument (and one for the receiver of an instance method).     *)
(* Success is possible only for a descriptor whose argument types are all  *)
(* known and whose argument count is within the limit.  The body is        *)
(* described by its slot count and its length in bytes, the length being  *)
(* that of the prolog's instructions in the encodings of ECMA-335 III.     *)
(***************************************************************************)
EXTENDS Integers, FiniteSets

CONSTANTS Descs, MaxArgs

VARIABLES
    aDesc,    \* the descriptor being rewritten
    status,   \* "running", "failed" or "installed"
    body      \* "original", or [slots, len] of the body the host now holds

avars == <<aDesc, status, body>>

\* Length of an instruction: opcode bytes + operand bytes.  The macro forms
\* ldarg.0-3, ldc.i4.0-8 and stloc.0 have no operand; ldarg and stloc are
\* FE xx + unsigned int16; ldc.i4 is 20 + int32; box, newarr, ldstr and
\* call take a 4-byte token; the locals declaration is a byte and a token.
ECMALength(op, operand) ==
    IF op = "ldarg" THEN (IF operand \in 0..3 THEN 1 ELSE 2 + 2)
    ELSE IF op = "stloc" THEN (IF operand = 0 THEN 1 ELSE 2 + 2)
    ELSE IF op = "ldc" THEN (IF operand \in 0..8 THEN 1 ELSE 1 + 4)
    ELSE IF op = "stelem" THEN 1
    ELSE 1 + 4    \* box, newarr, ldstr, call, locals

\* The slot of argument j: the receiver of an instance method takes slot 0.
ArgSlot(d, j) == IF d.isStatic THEN j ELSE j + 1

\* Among the first n arguments: those loaded by a macro ldarg, and those
\* of a value type.
ShortArgs(d, n) == {j \in 0..(n - 1) : ArgSlot(d, j) <= 3}
BoxedArgs(d, n) == {j \in 0..(n - 1) : d.argVT[j]}

\* Staging the first n arguments: per argument an ldarg of its slot, a box
\* for a value type, a stelem.
ArgsCostUpTo(d, n) ==
    LET short == Cardinality(ShortArgs(d, n))
    IN  short * ECMALength("ldarg", 0)
          + (n - short) * ECMALength("ldarg", 4)
          + Cardinality(BoxedArgs(d, n)) * ECMALength("box", 0)
          + n * ECMALength("stelem", 0)

ArgsCost(d) == ArgsCostUpTo(d, d.argCount)

PrologSize(d) ==
    ECMALength("locals", 0)
      + ECMALength("ldc", d.argCount) + ECMALength("newarr", 0) + ECMALength("stloc", 0)
      + (IF d.isStatic THEN 0
         ELSE ECMALength("ldarg", 0)
              + (IF d.isValueType THEN ECMALength("box", 0) ELSE 0)
              + ECMALength("stelem", 0))
      + ArgsCost(d)
      + ECMALength("ldstr", 0) + ECMALength("ldarg", 0) + ECMALength("call", 0)

Slots(d) == d.argCount + (IF d.isStatic THEN 0 ELSE 1)

Rewritable(d) == d.argCount <= MaxArgs /\ d.nTypes >= d.argCount

Init ==
    /\ aDesc \in Descs
    /\ status = "running"
    /\ body = "original"

Fail ==
    /\ status = "running"
    /\ status' = "failed"
    /\ UNCHANGED <<aDesc, body>>

Install ==
    /\ status = "running"
    /\ Rewritable(aDesc)
    /\ status' = "installed"
    /\ body' = [slots |-> Slots(aDesc), len |-> PrologSize(aDesc) + aDesc.codeSize]
    /\ UNCHANGED aDesc

Next == Fail \/ Install

Spec == Init /\ [][Next]_avars

=============================================================================
