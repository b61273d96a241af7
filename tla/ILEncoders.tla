---------------------------- MODULE ILEncoders ----------------------------
(***************************************************************************)
(* The instruction encoders of il_instructions.cpp as byte sequences, what *)
(* each encoder call stands for, and the ECMA-335 (Partition III) decoding *)
(* of one instruction.  Values are C++ ints (32-bit two's complement): the *)
(* arithmetic shift x >> 8k is floor division by 2^8k, and & 0xFF its      *)
(* remainder mod 256.  The code streams and the decoding of a whole stream *)
(* are in ILInstructions.                                                  *)
(***************************************************************************)
EXTENDS Integers, Sequences

\* The range of a 32-bit int (tokens too stay below 2^31: their table byte
\* is at most 0x70).
IntMin == -2147483647 - 1
IntMax == 2147483647

-----------------------------------------------------------------------------
(* il_codes.h *)
CEE_LDARG_0 == 2
CEE_STLOC_0 == 10
CEE_LDARG == 65033        \* 0xFE09
CEE_STLOC == 65038        \* 0xFE0E
CEE_CALL == 40            \* 0x28
CEE_BOX == 140            \* 0x8C
CEE_NEWARR == 141         \* 0x8D
CEE_LDSTR == 114          \* 0x72
CEE_LDC_I4 == 32          \* 0x20
CEE_LDC_I4_0 == 22        \* 0x16
CEE_STELEM_REF == 162     \* 0xA2

\* (BYTE)((x >> (8 * k)) & 0xFF) for a 32-bit x and k \in 0..3.
Byte(x, k) == (x \div 2^(8 * k)) % 256

\* The four little-endian bytes of a token or an int32.
LE4(x) == <<Byte(x, 0), Byte(x, 1), Byte(x, 2), Byte(x, 3)>>

-----------------------------------------------------------------------------
(* il_instructions.cpp.  Each encoder clears its buffer and pushes bytes.  *)

\* ldstr with a zero token: "String token will be replaced by metadata emit".
LoadString == <<CEE_LDSTR, 0, 0, 0, 0>>

CallMethod(methodToken) == <<CEE_CALL>> \o LE4(methodToken)

\* The low byte of the two-byte opcode is pushed first.
LoadArg(argIndex) ==
    IF argIndex <= 3
    THEN <<Byte(CEE_LDARG_0 + argIndex, 0)>>
    ELSE <<Byte(CEE_LDARG, 0), Byte(CEE_LDARG, 1), Byte(argIndex, 0), Byte(argIndex, 1)>>

StoreLocal(localIndex) ==
    IF localIndex = 0
    THEN <<CEE_STLOC_0>>
    ELSE <<Byte(CEE_STLOC, 0), Byte(CEE_STLOC, 1), Byte(localIndex, 0), Byte(localIndex, 1)>>

Box(typeRef) == <<CEE_BOX>> \o LE4(typeRef)

NewArray(elementTypeRef) == <<CEE_NEWARR>> \o LE4(elementTypeRef)

\* Mutant: the one-byte form taken for one value too many.
LoadConstantI4ShortToNine(value) ==
    IF value >= 0 /\ value <= 9
    THEN <<Byte(CEE_LDC_I4_0 + value, 0)>>
    ELSE <<CEE_LDC_I4>> \o LE4(value)

LoadConstantI4(value) ==
    IF value >= 0 /\ value <= 8
    THEN <<Byte(CEE_LDC_I4_0 + value, 0)>>
    ELSE <<CEE_LDC_I4>> \o LE4(value)

StoreElementRef == <<CEE_STELEM_REF>>

\* The bytes of one encoder call.
Encode(c) ==
    CASE c.enc = "LoadString"      -> LoadString
      [] c.enc = "CallMethod"      -> CallMethod(c.arg)
      [] c.enc = "LoadArg"         -> LoadArg(c.arg)
      [] c.enc = "StoreLocal"      -> StoreLocal(c.arg)
      [] c.enc = "Box"             -> Box(c.arg)
      [] c.enc = "NewArray"        -> NewArray(c.arg)
      [] c.enc = "LoadConstantI4"  -> LoadConstantI4(c.arg)
      [] c.enc = "StoreElementRef" -> StoreElementRef

-----------------------------------------------------------------------------
(* What each call asks for, as an ECMA-335 instruction [op, arg].  Token   *)
(* operands are checked by their table (the top byte): ldstr takes a user  *)
(* string (0x70), call a MethodDef, MemberRef or MethodSpec, box and newarr *)
(* a TypeDef, TypeRef or TypeSpec; arg of ldstr is that table.              *)
UserStringTable == 112   \* 0x70

\* The instructions an encoder call stands for.
EncodedOps == {"ldstr", "call", "ldarg", "stloc", "box", "newarr", "ldc", "stelem"}

Meaning(c) ==
    CASE c.enc = "LoadString"      -> [op |-> "ldstr", arg |-> UserStringTable]
      [] c.enc = "CallMethod"      -> [op |-> "call", arg |-> c.arg]
      [] c.enc = "LoadArg"         -> [op |-> "ldarg", arg |-> c.arg]
      [] c.enc = "StoreLocal"      -> [op |-> "stloc", arg |-> c.arg]
      [] c.enc = "Box"             -> [op |-> "box", arg |-> c.arg]
      [] c.enc = "NewArray"        -> [op |-> "newarr", arg |-> c.arg]
      [] c.enc = "LoadConstantI4"  -> [op |-> "ldc", arg |-> c.arg]
      [] c.enc = "StoreElementRef" -> [op |-> "stelem", arg |-> 0]

-----------------------------------------------------------------------------
(* The reference decoder (ECMA-335 III.1.2, III.3 and III.4): the opcodes   *)
(* near the ones emitted, each with its operand size.  A byte outside the   *)
(* table decodes as a one-byte "other" instruction.                         *)

U16(s, p) == s[p] + 256 * s[p + 1]
I32(s, p) == s[p] + 256 * s[p + 1] + 65536 * s[p + 2]
               + 16777216 * (IF s[p + 3] >= 128 THEN s[p + 3] - 256 ELSE s[p + 3])
I8(s, p)  == IF s[p] >= 128 THEN s[p] - 256 ELSE s[p]
Table(tok) == (tok \div 16777216) % 256

\* An instruction with a token operand, or "badToken" if it names the wrong
\* table.
TokenInstr(op, tok, tables) ==
    IF Table(tok) \in tables THEN [op |-> op, arg |-> IF op = "ldstr" THEN Table(tok) ELSE tok]
                             ELSE [op |-> "badToken", arg |-> tok]

\* The instruction at position p and its length.
DecodeAt(s, p) ==
    LET b == s[p]
        ins(op, arg, len) == [ins |-> [op |-> op, arg |-> arg], len |-> len]
        tok(op, tables) == [ins |-> TokenInstr(op, I32(s, p + 1), tables), len |-> 5]
    IN CASE b \in 2..5       -> ins("ldarg", b - 2, 1)
         [] b \in 6..9       -> ins("ldloc", b - 6, 1)
         [] b \in 10..13     -> ins("stloc", b - 10, 1)
         [] b = 14           -> ins("ldarg", s[p + 1], 2)       \* ldarg.s
         [] b = 17           -> ins("ldloc", s[p + 1], 2)       \* ldloc.s
         [] b = 19           -> ins("stloc", s[p + 1], 2)       \* stloc.s
         [] b = 21           -> ins("ldc", -1, 1)               \* ldc.i4.m1
         [] b \in 22..30     -> ins("ldc", b - 22, 1)
         [] b = 31           -> ins("ldc", I8(s, p + 1), 2)     \* ldc.i4.s
         [] b = 32           -> ins("ldc", I32(s, p + 1), 5)
         [] b = 40           -> tok("call", {6, 10, 43})
         [] b = 114          -> tok("ldstr", {112})
         [] b = 140          -> tok("box", {1, 2, 27})
         [] b = 141          -> tok("newarr", {1, 2, 27})
         [] b = 162          -> ins("stelem", 0, 1)
         [] b = 254 /\ s[p + 1] = 9  -> ins("ldarg", U16(s, p + 2), 4)
         [] b = 254 /\ s[p + 1] = 12 -> ins("ldloc", U16(s, p + 2), 4)
         [] b = 254 /\ s[p + 1] = 14 -> ins("stloc", U16(s, p + 2), 4)
         [] OTHER            -> ins("other", b, 1)

=============================================================================
