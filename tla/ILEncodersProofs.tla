------------------------- MODULE ILEncodersProofs -------------------------
(* Proofs about the instruction encoders: what a JIT decodes from the      *)
(* bytes of one encoder call, for every argument of the call's C++ type.    *)
(* TLC checks whole streams on a handful of arguments (run encoders_core); *)
(* the decoding of a whole stream is recursive and stays with TLC.         *)
EXTENDS ILInstructions, TLAPS

\* The shift amounts 8k of (x >> 8k) & 0xFF.
LEMMA ShiftPowers ==
    /\ 2^(8 * 0) = 1
    /\ 2^(8 * 1) = 256
    /\ 2^(8 * 2) = 65536
    /\ 2^(8 * 3) = 16777216
<1>1. 2^(8 * 0) = 1 BY SMT
<1>2. 2^(8 * 1) = 256 BY SMT
<1>3. 2^(8 * 2) = 65536 BY SMT
<1>4. 2^(8 * 3) = 16777216 BY SMT
<1>5. QED BY <1>1, <1>2, <1>3, <1>4

\* The bytes the encoders push, as divisions by constants.
LEMMA ByteValues ==
    ASSUME NEW x \in Int
    PROVE  /\ Byte(x, 0) = x % 256
           /\ Byte(x, 1) = (x \div 256) % 256
           /\ Byte(x, 2) = (x \div 65536) % 256
           /\ Byte(x, 3) = (x \div 16777216) % 256
<1>1. Byte(x, 0) = x % 256 BY ShiftPowers, SMT DEF Byte
<1>2. Byte(x, 1) = (x \div 256) % 256 BY ShiftPowers, SMT DEF Byte
<1>3. Byte(x, 2) = (x \div 65536) % 256 BY ShiftPowers, SMT DEF Byte
<1>4. Byte(x, 3) = (x \div 16777216) % 256 BY ShiftPowers, SMT DEF Byte
<1>5. QED BY <1>1, <1>2, <1>3, <1>4

\* Reading four little-endian bytes as a signed int32 (the operand of
\* ldc.i4 and of the token instructions) gives back every 32-bit int the
\* encoders split with shifts and masks.
LEMMA LE4RoundTrip ==
    ASSUME NEW x \in Int, IntMin <= x, x <= IntMax
    PROVE  (x % 256) + 256 * ((x \div 256) % 256) + 65536 * ((x \div 65536) % 256)
             + 16777216 * (IF (x \div 16777216) % 256 >= 128
                           THEN ((x \div 16777216) % 256) - 256
                           ELSE (x \div 16777216) % 256)
           = x
<1> DEFINE q1 == x \div 256
           q2 == x \div 65536
           q3 == x \div 16777216
<1> USE DEF q1, q2, q3
<1>1. x = 256 * q1 + (x % 256) BY SMT
<1>2. q1 = 256 * q2 + (q1 % 256) BY SMT
<1>3. q2 = 256 * q3 + (q2 % 256) BY SMT
<1>4. q3 \in -128..127 BY SMT DEF IntMin, IntMax
<1>5. (IF q3 % 256 >= 128 THEN (q3 % 256) - 256 ELSE q3 % 256) = q3 BY <1>4, SMT
<1>6. QED BY <1>1, <1>2, <1>3, <1>5, SMT

\* The table byte of a token below 2^31.
LEMMA TokenTable ==
    ASSUME NEW x \in Int, 0 <= x, x <= IntMax
    PROVE  Table(x) = x \div 16777216
BY SMT DEF Table, IntMax

\* The arms of the decoder the encoders' first bytes select.
LEMMA DecodeArms ==
    ASSUME NEW s
    PROVE  /\ s[1] \in 2..5 => DecodeAt(s, 1) = [ins |-> [op |-> "ldarg", arg |-> s[1] - 2], len |-> 1]
           /\ s[1] \in 6..9 => DecodeAt(s, 1) = [ins |-> [op |-> "ldloc", arg |-> s[1] - 6], len |-> 1]
           /\ s[1] = 10 => DecodeAt(s, 1) = [ins |-> [op |-> "stloc", arg |-> 0], len |-> 1]
           /\ s[1] = 14 => DecodeAt(s, 1) = [ins |-> [op |-> "ldarg", arg |-> s[2]], len |-> 2]
           /\ s[1] \in 22..30 => DecodeAt(s, 1) = [ins |-> [op |-> "ldc", arg |-> s[1] - 22], len |-> 1]
           /\ s[1] = 32 => DecodeAt(s, 1) = [ins |-> [op |-> "ldc", arg |-> I32(s, 2)], len |-> 5]
           /\ s[1] = 40 => DecodeAt(s, 1) = [ins |-> TokenInstr("call", I32(s, 2), {6, 10, 43}), len |-> 5]
           /\ s[1] = 140 => DecodeAt(s, 1) = [ins |-> TokenInstr("box", I32(s, 2), {1, 2, 27}), len |-> 5]
           /\ s[1] = 141 => DecodeAt(s, 1) = [ins |-> TokenInstr("newarr", I32(s, 2), {1, 2, 27}), len |-> 5]
           /\ s[1] = 162 => DecodeAt(s, 1) = [ins |-> [op |-> "stelem", arg |-> 0], len |-> 1]
<1>1. s[1] \in 2..5 => DecodeAt(s, 1) = [ins |-> [op |-> "ldarg", arg |-> s[1] - 2], len |-> 1]
  BY DEF DecodeAt
<1>2. s[1] \in 6..9 => DecodeAt(s, 1) = [ins |-> [op |-> "ldloc", arg |-> s[1] - 6], len |-> 1]
  BY DEF DecodeAt
<1>3. s[1] = 10 => DecodeAt(s, 1) = [ins |-> [op |-> "stloc", arg |-> 0], len |-> 1]
  BY DEF DecodeAt
<1>4. s[1] = 14 => DecodeAt(s, 1) = [ins |-> [op |-> "ldarg", arg |-> s[2]], len |-> 2]
  BY DEF DecodeAt
<1>5. s[1] \in 22..30 => DecodeAt(s, 1) = [ins |-> [op |-> "ldc", arg |-> s[1] - 22], len |-> 1]
  BY DEF DecodeAt
<1>6. s[1] = 32 => DecodeAt(s, 1) = [ins |-> [op |-> "ldc", arg |-> I32(s, 2)], len |-> 5]
  BY DEF DecodeAt
<1>7. s[1] = 40 => DecodeAt(s, 1) = [ins |-> TokenInstr("call", I32(s, 2), {6, 10, 43}), len |-> 5]
  BY DEF DecodeAt
<1>8. s[1] = 140 => DecodeAt(s, 1) = [ins |-> TokenInstr("box", I32(s, 2), {1, 2, 27}), len |-> 5]
  BY DEF DecodeAt
<1>9. s[1] = 141 => DecodeAt(s, 1) = [ins |-> TokenInstr("newarr", I32(s, 2), {1, 2, 27}), len |-> 5]
  BY DEF DecodeAt
<1>10. s[1] = 162 => DecodeAt(s, 1) = [ins |-> [op |-> "stelem", arg |-> 0], len |-> 1]
  BY DEF DecodeAt
<1>11. QED BY <1>1, <1>2, <1>3, <1>4, <1>5, <1>6, <1>7, <1>8, <1>9, <1>10

\* A stream that begins with the bytes of one encoder call.
StartsWith(s, bytes) == \A k \in 1..Len(bytes) : s[k] = bytes[k]

\* The bytes of a five-byte instruction: an opcode byte and LE4 of its
\* operand.
LEMMA FiveBytes ==
    ASSUME NEW op \in Int, NEW x \in Int, NEW s, StartsWith(s, <<op>> \o LE4(x))
    PROVE  /\ s[1] = op
           /\ s[2] = Byte(x, 0) /\ s[2 + 1] = Byte(x, 1)
           /\ s[2 + 2] = Byte(x, 2) /\ s[2 + 3] = Byte(x, 3)
           /\ Len(<<op>> \o LE4(x)) = 5
BY DEF StartsWith, LE4

\* Four bytes that are LE4 of an int32 are read back as it.
LEMMA LE4Operand ==
    ASSUME NEW x \in Int, IntMin <= x, x <= IntMax, NEW s,
           s[2] = Byte(x, 0), s[2 + 1] = Byte(x, 1),
           s[2 + 2] = Byte(x, 2), s[2 + 3] = Byte(x, 3)
    PROVE  I32(s, 2) = x
<1>1. /\ s[2] = x % 256 /\ s[2 + 1] = (x \div 256) % 256
      /\ s[2 + 2] = (x \div 65536) % 256 /\ s[2 + 3] = (x \div 16777216) % 256
  BY ByteValues
<1>2. (x % 256) + 256 * ((x \div 256) % 256) + 65536 * ((x \div 65536) % 256)
        + 16777216 * (IF (x \div 16777216) % 256 >= 128
                      THEN ((x \div 16777216) % 256) - 256
                      ELSE (x \div 16777216) % 256)
      = x
  BY LE4RoundTrip
<1>3. QED BY <1>1, <1>2 DEF I32

\* LoadConstantI4 (the constants of the prolog: argument counts and
\* indexes) is read back as ldc.i4 with its value, for every int: the
\* one-byte forms ldc.i4.0 .. ldc.i4.8 and the five-byte form elsewhere.
THEOREM LoadConstantI4Decodes ==
    ASSUME NEW v \in Int, IntMin <= v, v <= IntMax,
           NEW s, StartsWith(s, LoadConstantI4(v))
    PROVE  DecodeAt(s, 1) = [ins |-> [op |-> "ldc", arg |-> v], len |-> Len(LoadConstantI4(v))]
<1>1. CASE v >= 0 /\ v <= 8
  <2>1. Byte(CEE_LDC_I4_0 + v, 0) = 22 + v
    BY <1>1, ShiftPowers, SMT DEF Byte, CEE_LDC_I4_0
  <2>2. s[1] = 22 + v /\ Len(LoadConstantI4(v)) = 1
    BY <1>1, <2>1 DEF LoadConstantI4, StartsWith
  <2>3. 22 + v \in 22..30 /\ 22 + v - 22 = v
    BY <1>1
  <2>4. QED BY <2>2, <2>3, DecodeArms
<1>2. CASE ~(v >= 0 /\ v <= 8)
  <2>1. LoadConstantI4(v) = <<32>> \o LE4(v)
    BY <1>2 DEF LoadConstantI4, CEE_LDC_I4
  <2>2. /\ s[1] = 32
        /\ s[2] = Byte(v, 0) /\ s[2 + 1] = Byte(v, 1)
        /\ s[2 + 2] = Byte(v, 2) /\ s[2 + 3] = Byte(v, 3)
        /\ Len(LoadConstantI4(v)) = 5
    BY <2>1, FiveBytes
  <2>3. I32(s, 2) = v
    BY <2>2, LE4Operand
  <2>4. QED BY <2>2, <2>3, DecodeArms
<1>3. QED BY <1>1, <1>2
\* A token below 2^31 after its opcode byte is read back as it.
LEMMA TokenOperand ==
    ASSUME NEW op \in Int, NEW t \in Int, 0 <= t, t <= IntMax,
           NEW s, StartsWith(s, <<op>> \o LE4(t))
    PROVE  s[1] = op /\ I32(s, 2) = t /\ Len(<<op>> \o LE4(t)) = 5
<1>1. IntMin <= t BY DEF IntMin
<1>2. /\ s[1] = op
      /\ s[2] = Byte(t, 0) /\ s[2 + 1] = Byte(t, 1)
      /\ s[2 + 2] = Byte(t, 2) /\ s[2 + 3] = Byte(t, 3)
      /\ Len(<<op>> \o LE4(t)) = 5
  BY FiveBytes
<1>3. QED BY <1>1, <1>2, LE4Operand

\* Box, NewArray and CallMethod are read back with their token, for every
\* token of a table the instruction accepts (box and newarr: TypeDef,
\* TypeRef, TypeSpec; call: MethodDef, MemberRef, MethodSpec).
THEOREM BoxDecodes ==
    ASSUME NEW t \in Int, 0 <= t, t <= IntMax, Table(t) \in {1, 2, 27},
           NEW s, StartsWith(s, Box(t))
    PROVE  DecodeAt(s, 1) = [ins |-> [op |-> "box", arg |-> t], len |-> Len(Box(t))]
<1>1. Box(t) = <<140>> \o LE4(t) BY DEF Box, CEE_BOX
<1>2. s[1] = 140 /\ I32(s, 2) = t /\ Len(Box(t)) = 5 BY <1>1, TokenOperand
<1>3. TokenInstr("box", t, {1, 2, 27}) = [op |-> "box", arg |-> t] BY DEF TokenInstr
<1>4. QED BY <1>2, <1>3, DecodeArms

THEOREM NewArrayDecodes ==
    ASSUME NEW t \in Int, 0 <= t, t <= IntMax, Table(t) \in {1, 2, 27},
           NEW s, StartsWith(s, NewArray(t))
    PROVE  DecodeAt(s, 1) = [ins |-> [op |-> "newarr", arg |-> t], len |-> Len(NewArray(t))]
<1>1. NewArray(t) = <<141>> \o LE4(t) BY DEF NewArray, CEE_NEWARR
<1>2. s[1] = 141 /\ I32(s, 2) = t /\ Len(NewArray(t)) = 5 BY <1>1, TokenOperand
<1>3. TokenInstr("newarr", t, {1, 2, 27}) = [op |-> "newarr", arg |-> t] BY DEF TokenInstr
<1>4. QED BY <1>2, <1>3, DecodeArms

THEOREM CallMethodDecodes ==
    ASSUME NEW t \in Int, 0 <= t, t <= IntMax, Table(t) \in {6, 10, 43},
           NEW s, StartsWith(s, CallMethod(t))
    PROVE  DecodeAt(s, 1) = [ins |-> [op |-> "call", arg |-> t], len |-> Len(CallMethod(t))]
<1>1. CallMethod(t) = <<40>> \o LE4(t) BY DEF CallMethod, CEE_CALL
<1>2. s[1] = 40 /\ I32(s, 2) = t /\ Len(CallMethod(t)) = 5 BY <1>1, TokenOperand
<1>3. TokenInstr("call", t, {6, 10, 43}) = [op |-> "call", arg |-> t] BY DEF TokenInstr
<1>4. QED BY <1>2, <1>3, DecodeArms

\* LoadArg's one-byte forms ldarg.0 .. ldarg.3 are read back as meant.
THEOREM ShortLoadArgDecodes ==
    ASSUME NEW i \in 0..3, NEW s, StartsWith(s, LoadArg(i))
    PROVE  DecodeAt(s, 1) = [ins |-> [op |-> "ldarg", arg |-> i], len |-> Len(LoadArg(i))]
<1>1. Byte(CEE_LDARG_0 + i, 0) = 2 + i
  BY ShiftPowers, SMT DEF Byte, CEE_LDARG_0
<1>2. s[1] = 2 + i /\ Len(LoadArg(i)) = 1
  BY <1>1 DEF LoadArg, StartsWith
<1>3. 2 + i \in 2..5 /\ 2 + i - 2 = i
  OBVIOUS
<1>4. QED BY <1>2, <1>3, DecodeArms

\* The LoadArg long form (argument index 4 and up, the rewriter's fifth
\* argument slot on) pushes the two-byte opcode 0xFE09 low byte first: a
\* JIT reads its first byte 0x09 as ldloc.3, for every index.
THEOREM LongLoadArgMisread ==
    ASSUME NEW i \in Int, i >= 4, NEW s, StartsWith(s, LoadArg(i))
    PROVE  DecodeAt(s, 1) = [ins |-> [op |-> "ldloc", arg |-> 3], len |-> 1]
<1>1. Byte(CEE_LDARG, 0) = 9
  BY ShiftPowers, SMT DEF Byte, CEE_LDARG
<1>2. s[1] = 9
  BY <1>1 DEF LoadArg, StartsWith
<1>3. QED BY <1>2, DecodeArms

\* StoreLocal's long form (any local but 0) pushes 0xFE0E low byte first:
\* a JIT reads 0x0E 0xFE as ldarg.s 254, for every index.
THEOREM LongStoreLocalMisread ==
    ASSUME NEW i \in Int, i # 0, NEW s, StartsWith(s, StoreLocal(i))
    PROVE  DecodeAt(s, 1) = [ins |-> [op |-> "ldarg", arg |-> 254], len |-> 2]
<1>1. Byte(CEE_STLOC, 0) = 14 /\ Byte(CEE_STLOC, 1) = 254
  BY ShiftPowers, SMT DEF Byte, CEE_STLOC
<1>2. s[1] = 14 /\ s[2] = 254
  BY <1>1 DEF StoreLocal, StartsWith
<1>3. QED BY <1>2, DecodeArms

\* stloc.0 and stelem.ref, the one-byte forms with no operand.
THEOREM StoreLocalZeroDecodes ==
    ASSUME NEW s, StartsWith(s, StoreLocal(0))
    PROVE  DecodeAt(s, 1) = [ins |-> [op |-> "stloc", arg |-> 0], len |-> Len(StoreLocal(0))]
<1>1. s[1] = 10 /\ Len(StoreLocal(0)) = 1
  BY DEF StoreLocal, StartsWith, CEE_STLOC_0
<1>2. QED BY <1>1, DecodeArms

THEOREM StoreElementRefDecodes ==
    ASSUME NEW s, StartsWith(s, StoreElementRef)
    PROVE  DecodeAt(s, 1) = [ins |-> [op |-> "stelem", arg |-> 0], len |-> Len(StoreElementRef)]
<1>1. s[1] = 162 /\ Len(StoreElementRef) = 1
  BY DEF StoreElementRef, StartsWith, CEE_STELEM_REF
<1>2. QED BY <1>1, DecodeArms

\* The encoder calls whose bytes mean what the call stands for: LoadArg of
\* slots 0..3, StoreLocal of local 0, LoadConstantI4 of any int, Box,
\* NewArray and CallMethod of a token of a table the instruction accepts,
\* StoreElementRef.
SoundCall(c) ==
    \/ c.enc = "LoadArg" /\ c.arg \in 0..3
    \/ c.enc = "StoreLocal" /\ c.arg = 0
    \/ c.enc = "LoadConstantI4" /\ IntMin <= c.arg /\ c.arg <= IntMax
    \/ c.enc \in {"Box", "NewArray"} /\ 0 <= c.arg /\ c.arg <= IntMax
          /\ Table(c.arg) \in {1, 2, 27}
    \/ c.enc = "CallMethod" /\ 0 <= c.arg /\ c.arg <= IntMax
          /\ Table(c.arg) \in {6, 10, 43}
    \/ c.enc = "StoreElementRef"

\* What a JIT reads at the start of the bytes of a sound encoder call,
\* whatever follows them, is the instruction the call stands for, and its
\* length is that of the bytes: the first step of the stream round trip
\* (ECMARoundTrip) for every argument of the call's C++ type.
THEOREM EncodeDecodes ==
    ASSUME NEW c, c.arg \in Int, SoundCall(c), NEW s, StartsWith(s, Encode(c))
    PROVE  DecodeAt(s, 1) = [ins |-> Meaning(c), len |-> Len(Encode(c))]
<1>1. CASE c.enc = "LoadArg" /\ c.arg \in 0..3
  <2>1. Encode(c) = LoadArg(c.arg) /\ Meaning(c) = [op |-> "ldarg", arg |-> c.arg]
    BY <1>1 DEF Encode, Meaning
  <2>2. QED BY <2>1, ShortLoadArgDecodes, <1>1
<1>2. CASE c.enc = "StoreLocal" /\ c.arg = 0
  <2>1. Encode(c) = StoreLocal(0) /\ Meaning(c) = [op |-> "stloc", arg |-> 0]
    BY <1>2 DEF Encode, Meaning
  <2>2. QED BY <2>1, StoreLocalZeroDecodes
<1>3. CASE c.enc = "LoadConstantI4" /\ IntMin <= c.arg /\ c.arg <= IntMax
  <2>1. Encode(c) = LoadConstantI4(c.arg) /\ Meaning(c) = [op |-> "ldc", arg |-> c.arg]
    BY <1>3 DEF Encode, Meaning
  <2>2. QED BY <1>3, <2>1, LoadConstantI4Decodes
<1>4. CASE c.enc = "Box" /\ 0 <= c.arg /\ c.arg <= IntMax /\ Table(c.arg) \in {1, 2, 27}
  <2>1. Encode(c) = Box(c.arg) /\ Meaning(c) = [op |-> "box", arg |-> c.arg]
    BY <1>4 DEF Encode, Meaning
  <2>2. QED BY <1>4, <2>1, BoxDecodes
<1>5. CASE c.enc = "NewArray" /\ 0 <= c.arg /\ c.arg <= IntMax /\ Table(c.arg) \in {1, 2, 27}
  <2>1. Encode(c) = NewArray(c.arg) /\ Meaning(c) = [op |-> "newarr", arg |-> c.arg]
    BY <1>5 DEF Encode, Meaning
  <2>2. QED BY <1>5, <2>1, NewArrayDecodes
<1>6. CASE c.enc = "CallMethod" /\ 0 <= c.arg /\ c.arg <= IntMax /\ Table(c.arg) \in {6, 10, 43}
  <2>1. Encode(c) = CallMethod(c.arg) /\ Meaning(c) = [op |-> "call", arg |-> c.arg]
    BY <1>6 DEF Encode, Meaning
  <2>2. QED BY <1>6, <2>1, CallMethodDecodes
<1>7. CASE c.enc = "StoreElementRef"
  <2>1. Encode(c) = StoreElementRef /\ Meaning(c) = [op |-> "stelem", arg |-> 0]
    BY <1>7 DEF Encode, Meaning
  <2>2. QED BY <2>1, StoreElementRefDecodes
<1>8. QED BY <1>1, <1>2, <1>3, <1>4, <1>5, <1>6, <1>7 DEF SoundCall

-----------------------------------------------------------------------------
(* The streams the encoder calls build are byte streams (ILInstructions). *)

\* Every byte an encoder pushes is masked into 0..255, whatever the sign and
\* size of the int it comes from.
LEMMA ByteRange ==
    \A x \in Int : /\ Byte(x, 0) \in 0..255
                   /\ Byte(x, 1) \in 0..255
                   /\ Byte(x, 2) \in 0..255
                   /\ Byte(x, 3) \in 0..255
<1> SUFFICES ASSUME NEW x \in Int
             PROVE  /\ Byte(x, 0) \in 0..255
                    /\ Byte(x, 1) \in 0..255
                    /\ Byte(x, 2) \in 0..255
                    /\ Byte(x, 3) \in 0..255
  OBVIOUS
<1>1. Byte(x, 0) \in 0..255 BY ShiftPowers, SMT DEF Byte
<1>2. Byte(x, 1) \in 0..255 BY ShiftPowers, SMT DEF Byte
<1>3. Byte(x, 2) \in 0..255 BY ShiftPowers, SMT DEF Byte
<1>4. Byte(x, 3) \in 0..255 BY ShiftPowers, SMT DEF Byte
<1>5. QED BY <1>1, <1>2, <1>3, <1>4

\* The names of the encoders.
Encoders == {"LoadString", "CallMethod", "LoadArg", "StoreLocal",
             "Box", "NewArray", "LoadConstantI4", "StoreElementRef"}

\* Every encoder call on an int returns a sequence of bytes.
LEMMA EncodeBytes ==
    \A c : c.enc \in Encoders /\ c.arg \in Int => Encode(c) \in Seq(0..255)
<1> SUFFICES ASSUME NEW c, c.enc \in Encoders, NEW x \in Int, c.arg = x
             PROVE  Encode(c) \in Seq(0..255)
  OBVIOUS
<1>1. LE4(x) \in Seq(0..255)
  BY ByteRange DEF LE4
<1>2. \A op \in 0..255 : <<op>> \o LE4(x) \in Seq(0..255)
  BY <1>1
<1>3. LoadArg(x) \in Seq(0..255)
  <2>1. Byte(CEE_LDARG_0 + x, 0) \in 0..255
    BY ShiftPowers, SMT DEF Byte, CEE_LDARG_0
  <2>2. Byte(CEE_LDARG, 0) \in 0..255 /\ Byte(CEE_LDARG, 1) \in 0..255
    BY ShiftPowers, SMT DEF Byte, CEE_LDARG
  <2>3. Byte(x, 0) \in 0..255 /\ Byte(x, 1) \in 0..255
    BY ByteRange
  <2>4. CASE x <= 3
    <3>1. LoadArg(x) = <<Byte(CEE_LDARG_0 + x, 0)>> BY <2>4 DEF LoadArg
    <3>2. QED BY <2>1, <3>1
  <2>5. CASE ~(x <= 3)
    <3>1. LoadArg(x) = <<Byte(CEE_LDARG, 0), Byte(CEE_LDARG, 1), Byte(x, 0), Byte(x, 1)>>
      BY <2>5 DEF LoadArg
    <3>2. QED BY <2>2, <2>3, <3>1
  <2>6. QED BY <2>4, <2>5
<1>4. StoreLocal(x) \in Seq(0..255)
  <2>1. Byte(CEE_STLOC, 0) \in 0..255 /\ Byte(CEE_STLOC, 1) \in 0..255
    BY ShiftPowers, SMT DEF Byte, CEE_STLOC
  <2>2. Byte(x, 0) \in 0..255 /\ Byte(x, 1) \in 0..255
    BY ByteRange
  <2>3. CASE x = 0
    <3>1. StoreLocal(x) = <<10>> BY <2>3 DEF StoreLocal, CEE_STLOC_0
    <3>2. QED BY <3>1
  <2>4. CASE x # 0
    <3>1. StoreLocal(x) = <<Byte(CEE_STLOC, 0), Byte(CEE_STLOC, 1), Byte(x, 0), Byte(x, 1)>>
      BY <2>4 DEF StoreLocal
    <3>2. QED BY <2>1, <2>2, <3>1
  <2>5. QED BY <2>3, <2>4
<1>5. LoadConstantI4(x) \in Seq(0..255)
  <2>1. Byte(CEE_LDC_I4_0 + x, 0) \in 0..255
    BY ShiftPowers, SMT DEF Byte, CEE_LDC_I4_0
  <2>2. CASE x >= 0 /\ x <= 8
    <3>1. LoadConstantI4(x) = <<Byte(CEE_LDC_I4_0 + x, 0)>> BY <2>2 DEF LoadConstantI4
    <3>2. QED BY <2>1, <3>1
  <2>3. CASE ~(x >= 0 /\ x <= 8)
    <3>1. LoadConstantI4(x) = <<32>> \o LE4(x) BY <2>3 DEF LoadConstantI4, CEE_LDC_I4
    <3>2. QED BY <1>2, <3>1
  <2>4. QED BY <2>2, <2>3
<1>6. /\ CallMethod(x) \in Seq(0..255)
      /\ Box(x) \in Seq(0..255)
      /\ NewArray(x) \in Seq(0..255)
  BY <1>2 DEF CallMethod, Box, NewArray, CEE_CALL, CEE_BOX, CEE_NEWARR
<1>7. LoadString \in Seq(0..255) /\ StoreElementRef \in Seq(0..255)
  BY DEF LoadString, StoreElementRef, CEE_LDSTR, CEE_STELEM_REF
<1>8. QED BY <1>3, <1>4, <1>5, <1>6, <1>7 DEF Encode, Encoders

\* What an encoder call stands for is an instruction with an int operand.
LEMMA MeaningType ==
    \A c : c.enc \in Encoders /\ c.arg \in Int => Meaning(c) \in [op : EncodedOps, arg : Int]
BY DEF Meaning, Encoders, EncodedOps, UserStringTable

\* The encoder calls of the model are calls on 32-bit ints.
LEMMA CallsTyped ==
    \A c \in Calls : c.enc \in Encoders /\ c.arg \in Int
<1>1. IntMin \in Int /\ IntMax \in Int BY DEF IntMin, IntMax
<1>2. \A lo, hi \in Int : lo..hi \subseteq Int OBVIOUS
<1>3. IntMin..IntMax \subseteq Int BY <1>1, <1>2
<1>4. QED BY <1>3, EncoderCallsAssumption DEF Encoders

\* Every stream the encoder calls build is a sequence of bytes, and every
\* instruction recorded for it has an int operand: for every set of encoder
\* calls on 32-bit ints and every stream length.  It rests on the & 0xFF of
\* each pushed byte (ByteRange).
\* One step of the encoder calls keeps the stream a byte stream (TypeOK).
LEMMA TypeStep == TypeOK /\ [Next]_vars => TypeOK'
<1> SUFFICES ASSUME TypeOK, [Next]_vars PROVE TypeOK' OBVIOUS
<1>1. CASE UNCHANGED vars
  BY <1>1 DEF vars, TypeOK
<1>2. ASSUME NEW c \in Calls, EmitInstr(c) PROVE TypeOK'
  <2>1. Encode(c) \in Seq(0..255) /\ Meaning(c) \in [op : EncodedOps, arg : Int]
    BY CallsTyped, EncodeBytes, MeaningType
  <2>2. Len(code) + 1 \in Nat BY DEF TypeOK
  <2>3. QED BY <1>2, <2>1, <2>2 DEF EmitInstr, TypeOK
<1>3. QED BY <1>1, <1>2 DEF Next

THEOREM StreamTypeCorrect == Spec => []TypeOK
<1>1. Init => TypeOK
  BY DEF Init, TypeOK
<1>2. QED BY <1>1, TypeStep, PTL DEF Spec

-----------------------------------------------------------------------------
(* Every instruction at its boundary.  A stream read from position p is the *)
(* stream shifted by p - 1, so the decoding of a call's bytes at the start  *)
(* of a stream (EncodeDecodes) carries over to every offset where the       *)
(* rewriter put them.                                                       *)

\* The stream read from its position p on.
Shifted(s, p) == [k \in Int |-> s[p + k - 1]]

\* What DecodeAt returns at position p, one conjunct per opcode arm of its
\* CASE (all but the arm for the bytes it does not know).
ArmsHold(s, p) ==
    /\ s[p] \in 2..5
       => DecodeAt(s, p) = [ins |-> [op |-> "ldarg", arg |-> s[p] - 2], len |-> 1]
    /\ s[p] \in 6..9
       => DecodeAt(s, p) = [ins |-> [op |-> "ldloc", arg |-> s[p] - 6], len |-> 1]
    /\ s[p] \in 10..13
       => DecodeAt(s, p) = [ins |-> [op |-> "stloc", arg |-> s[p] - 10], len |-> 1]
    /\ s[p] = 14
       => DecodeAt(s, p) = [ins |-> [op |-> "ldarg", arg |-> s[p + 1]], len |-> 2]
    /\ s[p] = 17
       => DecodeAt(s, p) = [ins |-> [op |-> "ldloc", arg |-> s[p + 1]], len |-> 2]
    /\ s[p] = 19
       => DecodeAt(s, p) = [ins |-> [op |-> "stloc", arg |-> s[p + 1]], len |-> 2]
    /\ s[p] = 21
       => DecodeAt(s, p) = [ins |-> [op |-> "ldc", arg |-> -1], len |-> 1]
    /\ s[p] \in 22..30
       => DecodeAt(s, p) = [ins |-> [op |-> "ldc", arg |-> s[p] - 22], len |-> 1]
    /\ s[p] = 31
       => DecodeAt(s, p) = [ins |-> [op |-> "ldc", arg |-> I8(s, p + 1)], len |-> 2]
    /\ s[p] = 32
       => DecodeAt(s, p) = [ins |-> [op |-> "ldc", arg |-> I32(s, p + 1)], len |-> 5]
    /\ s[p] = 40
       => DecodeAt(s, p) = [ins |-> TokenInstr("call", I32(s, p + 1), {6, 10, 43}), len |-> 5]
    /\ s[p] = 114
       => DecodeAt(s, p) = [ins |-> TokenInstr("ldstr", I32(s, p + 1), {112}), len |-> 5]
    /\ s[p] = 140
       => DecodeAt(s, p) = [ins |-> TokenInstr("box", I32(s, p + 1), {1, 2, 27}), len |-> 5]
    /\ s[p] = 141
       => DecodeAt(s, p) = [ins |-> TokenInstr("newarr", I32(s, p + 1), {1, 2, 27}), len |-> 5]
    /\ s[p] = 162
       => DecodeAt(s, p) = [ins |-> [op |-> "stelem", arg |-> 0], len |-> 1]
    /\ s[p] = 254 /\ s[p + 1] = 9
       => DecodeAt(s, p) = [ins |-> [op |-> "ldarg", arg |-> U16(s, p + 2)], len |-> 4]
    /\ s[p] = 254 /\ s[p + 1] = 12
       => DecodeAt(s, p) = [ins |-> [op |-> "ldloc", arg |-> U16(s, p + 2)], len |-> 4]
    /\ s[p] = 254 /\ s[p + 1] = 14
       => DecodeAt(s, p) = [ins |-> [op |-> "stloc", arg |-> U16(s, p + 2)], len |-> 4]
\* Each arm of DecodeAt, at any position of any stream.
LEMMA DecodeArmsAt ==
    ASSUME NEW s, NEW p
    PROVE  ArmsHold(s, p)
<1>1. s[p] \in 2..5
       => DecodeAt(s, p) = [ins |-> [op |-> "ldarg", arg |-> s[p] - 2], len |-> 1]
  BY DEF DecodeAt
<1>2. s[p] \in 6..9
       => DecodeAt(s, p) = [ins |-> [op |-> "ldloc", arg |-> s[p] - 6], len |-> 1]
  BY DEF DecodeAt
<1>3. s[p] \in 10..13
       => DecodeAt(s, p) = [ins |-> [op |-> "stloc", arg |-> s[p] - 10], len |-> 1]
  BY DEF DecodeAt
<1>4. s[p] = 14
       => DecodeAt(s, p) = [ins |-> [op |-> "ldarg", arg |-> s[p + 1]], len |-> 2]
  BY DEF DecodeAt
<1>5. s[p] = 17
       => DecodeAt(s, p) = [ins |-> [op |-> "ldloc", arg |-> s[p + 1]], len |-> 2]
  BY DEF DecodeAt
<1>6. s[p] = 19
       => DecodeAt(s, p) = [ins |-> [op |-> "stloc", arg |-> s[p + 1]], len |-> 2]
  BY DEF DecodeAt
<1>7. s[p] = 21
       => DecodeAt(s, p) = [ins |-> [op |-> "ldc", arg |-> -1], len |-> 1]
  BY DEF DecodeAt
<1>8. s[p] \in 22..30
       => DecodeAt(s, p) = [ins |-> [op |-> "ldc", arg |-> s[p] - 22], len |-> 1]
  BY DEF DecodeAt
<1>9. s[p] = 31
       => DecodeAt(s, p) = [ins |-> [op |-> "ldc", arg |-> I8(s, p + 1)], len |-> 2]
  BY DEF DecodeAt
<1>10. s[p] = 32
       => DecodeAt(s, p) = [ins |-> [op |-> "ldc", arg |-> I32(s, p + 1)], len |-> 5]
  BY DEF DecodeAt
<1>11. s[p] = 40
       => DecodeAt(s, p) = [ins |-> TokenInstr("call", I32(s, p + 1), {6, 10, 43}), len |-> 5]
  BY DEF DecodeAt
<1>12. s[p] = 114
       => DecodeAt(s, p) = [ins |-> TokenInstr("ldstr", I32(s, p + 1), {112}), len |-> 5]
  BY DEF DecodeAt
<1>13. s[p] = 140
       => DecodeAt(s, p) = [ins |-> TokenInstr("box", I32(s, p + 1), {1, 2, 27}), len |-> 5]
  BY DEF DecodeAt
<1>14. s[p] = 141
       => DecodeAt(s, p) = [ins |-> TokenInstr("newarr", I32(s, p + 1), {1, 2, 27}), len |-> 5]
  BY DEF DecodeAt
<1>15. s[p] = 162
       => DecodeAt(s, p) = [ins |-> [op |-> "stelem", arg |-> 0], len |-> 1]
  BY DEF DecodeAt
<1>16. s[p] = 254 /\ s[p + 1] = 9
       => DecodeAt(s, p) = [ins |-> [op |-> "ldarg", arg |-> U16(s, p + 2)], len |-> 4]
  BY DEF DecodeAt
<1>17. s[p] = 254 /\ s[p + 1] = 12
       => DecodeAt(s, p) = [ins |-> [op |-> "ldloc", arg |-> U16(s, p + 2)], len |-> 4]
  BY DEF DecodeAt
<1>18. s[p] = 254 /\ s[p + 1] = 14
       => DecodeAt(s, p) = [ins |-> [op |-> "stloc", arg |-> U16(s, p + 2)], len |-> 4]
  BY DEF DecodeAt
<1>19. QED
  BY <1>1, <1>2, <1>3, <1>4, <1>5, <1>6, <1>7, <1>8, <1>9, <1>10, <1>11, <1>12, <1>13, <1>14, <1>15, <1>16, <1>17, <1>18
     DEF ArmsHold

\* The first bytes of the encoders' sound forms.
SoundFirstBytes == 2..5 \cup {10} \cup 22..30 \cup {32, 40, 140, 141, 162}

\* At an opcode a sound call begins with, the decoding at p is the decoding
\* at the start of the stream shifted by p - 1.
LEMMA ShiftDecode ==
    ASSUME NEW s, NEW p \in Int, s[p] \in SoundFirstBytes
    PROVE  DecodeAt(s, p) = DecodeAt(Shifted(s, p), 1)
<1> DEFINE t == Shifted(s, p)
<1>1. /\ t[1] = s[p]
      /\ t[1 + 1] = s[p + 1]
  BY SMT DEF Shifted
<1>2. /\ I32(t, 1 + 1) = I32(s, p + 1)
      /\ U16(t, 1 + 2) = U16(s, p + 2)
      /\ I8(t, 1 + 1) = I8(s, p + 1)
  BY SMT DEF Shifted, I32, U16, I8
<1>3. ArmsHold(s, p) /\ ArmsHold(t, 1)
  BY DecodeArmsAt
<1>4. QED BY <1>1, <1>2, <1>3 DEF ArmsHold, SoundFirstBytes, t
\* A sound call pushes at least one byte, and its first byte is one of
\* SoundFirstBytes.
LEMMA SoundFirstByte ==
    ASSUME NEW c, c.arg \in Int, SoundCall(c)
    PROVE  Len(Encode(c)) >= 1 /\ Encode(c)[1] \in SoundFirstBytes
<1>1. CASE c.enc = "LoadArg" /\ c.arg \in 0..3
  <2>1. Byte(CEE_LDARG_0 + c.arg, 0) = 2 + c.arg
    BY <1>1, ShiftPowers, SMT DEF Byte, CEE_LDARG_0
  <2>2. Encode(c) = <<2 + c.arg>> BY <1>1, <2>1 DEF Encode, LoadArg
  <2>3. QED BY <1>1, <2>2 DEF SoundFirstBytes
<1>2. CASE c.enc = "StoreLocal" /\ c.arg = 0
  <2>1. Encode(c) = <<10>> BY <1>2 DEF Encode, StoreLocal, CEE_STLOC_0
  <2>2. QED BY <2>1 DEF SoundFirstBytes
<1>3. CASE c.enc = "LoadConstantI4" /\ c.arg >= 0 /\ c.arg <= 8
  <2>1. Byte(CEE_LDC_I4_0 + c.arg, 0) = 22 + c.arg
    BY <1>3, ShiftPowers, SMT DEF Byte, CEE_LDC_I4_0
  <2>2. Encode(c) = <<22 + c.arg>> BY <1>3, <2>1 DEF Encode, LoadConstantI4
  <2>3. QED BY <1>3, <2>2 DEF SoundFirstBytes
<1>4. CASE c.enc = "LoadConstantI4" /\ ~(c.arg >= 0 /\ c.arg <= 8)
  <2>1. Encode(c) = <<32>> \o LE4(c.arg) BY <1>4 DEF Encode, LoadConstantI4, CEE_LDC_I4
  <2>2. QED BY <2>1 DEF SoundFirstBytes, LE4
<1>5. CASE c.enc \in {"Box", "NewArray", "CallMethod"}
  <2>1. Encode(c) \in {<<140>> \o LE4(c.arg), <<141>> \o LE4(c.arg), <<40>> \o LE4(c.arg)}
    BY <1>5 DEF Encode, Box, NewArray, CallMethod, CEE_BOX, CEE_NEWARR, CEE_CALL
  <2>2. QED BY <2>1 DEF SoundFirstBytes, LE4
<1>6. CASE c.enc = "StoreElementRef"
  <2>1. Encode(c) = <<162>> BY <1>6 DEF Encode, StoreElementRef, CEE_STELEM_REF
  <2>2. QED BY <2>1 DEF SoundFirstBytes
<1>7. QED BY <1>1, <1>2, <1>3, <1>4, <1>5, <1>6 DEF SoundCall

\* A sound call's bytes found at any position p of a stream decode there.
THEOREM EncodeDecodesAt ==
    ASSUME NEW c, c.arg \in Int, SoundCall(c), NEW s, NEW p \in Int,
           \A k \in 1..Len(Encode(c)) : s[p + k - 1] = Encode(c)[k]
    PROVE  DecodeAt(s, p) = [ins |-> Meaning(c), len |-> Len(Encode(c))]
<1> DEFINE t == Shifted(s, p)
<1>1. Len(Encode(c)) >= 1 /\ Encode(c)[1] \in SoundFirstBytes
  BY SoundFirstByte
<1>2. s[p] \in SoundFirstBytes
  <2>1. s[p + 1 - 1] = Encode(c)[1] BY <1>1
  <2>2. QED BY <1>1, <2>1
<1>3. StartsWith(t, Encode(c))
  BY SMT DEF StartsWith, Shifted, t
<1>4. DecodeAt(t, 1) = [ins |-> Meaning(c), len |-> Len(Encode(c))]
  BY <1>3, EncodeDecodes DEF t
<1>5. DecodeAt(s, p) = DecodeAt(t, 1)
  BY <1>2, ShiftDecode DEF t
<1>6. QED BY <1>4, <1>5


\* The inductive invariant behind InstrAtBoundaries: starts holds one offset
\* per recorded instruction, the first at 1, each inside the stream, and the
\* bytes from each offset up to the next (or to the end) are exactly the
\* bytes of an encoder call that stands for the recorded instruction.
BInv ==
    /\ TypeOK
    /\ Len(starts) = Len(emitted)
    /\ emitted = <<>> => code = <<>>
    /\ emitted # <<>> => starts[1] = 1
    /\ \A i \in 1..Len(emitted) :
          /\ 1 <= starts[i] /\ starts[i] <= Len(code)
          /\ \E c \in Calls :
                /\ emitted[i] = Meaning(c)
                /\ NextStart(i) = starts[i] + Len(Encode(c))
                /\ \A k \in 1..Len(Encode(c)) : code[starts[i] + k - 1] = Encode(c)[k]

\* The rewriter starts with no bytes and no instructions.
LEMMA BInvInit == Init => BInv
BY DEF Init, BInv, TypeOK

\* Appending a sound call's bytes keeps BInv: the earlier offsets and bytes
\* are untouched, the last instruction now ends where the new bytes begin,
\* and the new offset points at the new bytes.
LEMMA BInvEmit ==
    ASSUME BInv, NEW c0 \in Calls, SoundCall(c0), EmitInstr(c0)
    PROVE  BInv'
<1> DEFINE n == Len(emitted)
           L == Len(code)
           E == Encode(c0)
<1>1. /\ E \in Seq(0..255) /\ Len(E) >= 1
      /\ Meaning(c0) \in [op : EncodedOps, arg : Int]
  <2>1. c0.enc \in Encoders /\ c0.arg \in Int BY CallsTyped
  <2>2. QED BY <2>1, EncodeBytes, MeaningType, SoundFirstByte DEF E
<1>2. TypeOK' BY TypeStep DEF BInv, Next
<1>3. /\ n \in Nat /\ L \in Nat /\ Len(starts) = n
      /\ code \in Seq(0..255) /\ starts \in Seq(Nat)
      /\ emitted \in Seq([op : EncodedOps, arg : Int])
  BY DEF BInv, TypeOK, n, L
<1>4. /\ Len(code') = L + Len(E)
      /\ \A j \in 1..L : code'[j] = code[j]
      /\ \A k \in 1..Len(E) : code'[L + k] = E[k]
  BY <1>1, <1>3 DEF EmitInstr, n, L, E
<1>5. /\ Len(emitted') = n + 1 /\ Len(starts') = n + 1
      /\ \A i \in 1..n : emitted'[i] = emitted[i] /\ starts'[i] = starts[i]
      /\ emitted'[n + 1] = Meaning(c0) /\ starts'[n + 1] = L + 1
  <2>1. emitted' = Append(emitted, Meaning(c0)) /\ starts' = Append(starts, L + 1)
    BY DEF EmitInstr, L
  <2>2. QED BY <2>1, <1>3 DEF n
<1>6. /\ \A i \in 1..n : NextStart(i)' = NextStart(i)
      /\ \A j \in {n + 1} : NextStart(j)' = L + Len(E) + 1
  <2>1. ASSUME NEW i \in 1..n PROVE NextStart(i)' = NextStart(i)
    <3>1. NextStart(i)' = starts'[i + 1] BY <1>3, <1>5 DEF NextStart, n
    <3>2. CASE i < n
      <4>1. i + 1 \in 1..n BY <3>2, <1>3 DEF n
      <4>2. starts'[i + 1] = starts[i + 1] BY <4>1, <1>5
      <4>3. NextStart(i) = starts[i + 1] BY <3>2, <1>3 DEF NextStart, n
      <4>4. QED BY <3>1, <4>2, <4>3
    <3>3. CASE i = n
      BY <3>1, <3>3, <1>3, <1>5 DEF NextStart, n, L
    <3>4. QED BY <3>2, <3>3, <1>3 DEF n
  <2>2. \A j \in {n + 1} : NextStart(j)' = L + Len(E) + 1
    BY <1>3, <1>4, <1>5 DEF NextStart, n, L, E
  <2>3. QED BY <2>1, <2>2
<1>7. \A i \in 1..n : NextStart(i) <= L + 1
  <2> SUFFICES ASSUME NEW i \in 1..n PROVE NextStart(i) <= L + 1 OBVIOUS
  <2>1. CASE i < n
    <3>1. i + 1 \in 1..Len(emitted) /\ NextStart(i) = starts[i + 1]
      BY <2>1, <1>3 DEF NextStart, n
    <3>2. starts[i + 1] <= L BY <3>1 DEF BInv, L
    <3>3. QED BY <3>1, <3>2, <1>3 DEF L
  <2>5. CASE ~(i < n)
    BY <2>5, <1>3 DEF NextStart, n, L
  <2>6. QED BY <2>1, <2>5
<1>8. \A i \in 1..n :
        /\ 1 <= starts'[i] /\ starts'[i] <= Len(code')
        /\ \E c \in Calls :
              /\ emitted'[i] = Meaning(c)
              /\ NextStart(i)' = starts'[i] + Len(Encode(c))
              /\ \A k \in 1..Len(Encode(c)) : code'[starts'[i] + k - 1] = Encode(c)[k]
  <2> SUFFICES ASSUME NEW i \in 1..n
               PROVE  /\ 1 <= starts'[i] /\ starts'[i] <= Len(code')
                      /\ \E c \in Calls :
                            /\ emitted'[i] = Meaning(c)
                            /\ NextStart(i)' = starts'[i] + Len(Encode(c))
                            /\ \A k \in 1..Len(Encode(c)) :
                                  code'[starts'[i] + k - 1] = Encode(c)[k]
    OBVIOUS
  <2>1. PICK c \in Calls :
            /\ emitted[i] = Meaning(c)
            /\ NextStart(i) = starts[i] + Len(Encode(c))
            /\ \A k \in 1..Len(Encode(c)) : code[starts[i] + k - 1] = Encode(c)[k]
    BY DEF BInv, n
  <2>2. 1 <= starts[i] /\ starts[i] <= L BY DEF BInv, n, L
  <2>3. Encode(c) \in Seq(0..255)
    BY CallsTyped, EncodeBytes
  <2>4. \A k \in 1..Len(Encode(c)) : starts[i] + k - 1 \in 1..L
    BY <1>3, <1>7, <2>1, <2>2, <2>3
  <2>5. \A k \in 1..Len(Encode(c)) : code'[starts[i] + k - 1] = Encode(c)[k]
    BY <1>4, <2>1, <2>4
  <2>6. /\ starts'[i] = starts[i] /\ emitted'[i] = emitted[i]
        /\ NextStart(i)' = NextStart(i)
    BY <1>5, <1>6
  <2>7. 1 <= starts'[i] /\ starts'[i] <= Len(code')
    BY <1>1, <1>3, <1>4, <2>2, <2>6
  <2>8. /\ emitted'[i] = Meaning(c)
        /\ NextStart(i)' = starts'[i] + Len(Encode(c))
        /\ \A k \in 1..Len(Encode(c)) : code'[starts'[i] + k - 1] = Encode(c)[k]
    BY <2>1, <2>5, <2>6
  <2>9. QED BY <2>7, <2>8
<1>9. \A j \in {n + 1} :
        /\ 1 <= starts'[j] /\ starts'[j] <= Len(code')
        /\ emitted'[j] = Meaning(c0)
        /\ NextStart(j)' = starts'[j] + Len(Encode(c0))
        /\ \A k \in 1..Len(Encode(c0)) : code'[starts'[j] + k - 1] = Encode(c0)[k]
  BY <1>1, <1>3, <1>4, <1>5, <1>6 DEF E
<1>10. emitted' # <<>> /\ starts'[1] = 1
  <2>1. CASE n = 0
    BY <2>1, <1>3, <1>5 DEF BInv, n, L
  <2>2. CASE n # 0
    BY <2>2, <1>3, <1>5 DEF BInv, n
  <2>3. QED BY <2>1, <2>2
<1>11. \A i \in 1..Len(emitted') :
          /\ 1 <= starts'[i] /\ starts'[i] <= Len(code')
          /\ \E c \in Calls :
                /\ emitted'[i] = Meaning(c)
                /\ NextStart(i)' = starts'[i] + Len(Encode(c))
                /\ \A k \in 1..Len(Encode(c)) : code'[starts'[i] + k - 1] = Encode(c)[k]
  <2> SUFFICES ASSUME NEW i \in 1..Len(emitted') PROVE
          /\ 1 <= starts'[i] /\ starts'[i] <= Len(code')
          /\ \E c \in Calls :
                /\ emitted'[i] = Meaning(c)
                /\ NextStart(i)' = starts'[i] + Len(Encode(c))
                /\ \A k \in 1..Len(Encode(c)) : code'[starts'[i] + k - 1] = Encode(c)[k]
    OBVIOUS
  <2>1. i \in 1..n \/ i = n + 1 BY <1>3, <1>5
  <2>2. CASE i \in 1..n BY <2>2, <1>8 DEF NextStart
  <2>3. CASE i = n + 1
    <3>1. /\ 1 <= starts'[i] /\ starts'[i] <= Len(code')
          /\ emitted'[i] = Meaning(c0)
          /\ NextStart(i)' = starts'[i] + Len(Encode(c0))
          /\ \A k \in 1..Len(Encode(c0)) : code'[starts'[i] + k - 1] = Encode(c0)[k]
      BY <2>3, <1>9
    <3>2. QED BY <3>1
  <2>4. QED BY <2>1, <2>2, <2>3
<1>12. QED BY <1>2, <1>5, <1>10, <1>11 DEF BInv


\* BInv gives InstrAtBoundaries: at each recorded offset the call's bytes
\* are in place, and a sound call's bytes decode where they are found.
LEMMA BInvBoundaries ==
    ASSUME BInv, \A c \in Calls : SoundCall(c)
    PROVE  InstrAtBoundaries
<1>1. emitted # <<>> => starts[1] = 1 BY DEF BInv
<1>2. ASSUME NEW i \in 1..Len(emitted)
      PROVE  DecodeAt(code, starts[i])
               = [ins |-> emitted[i], len |-> NextStart(i) - starts[i]]
  <2>1. PICK c \in Calls :
            /\ emitted[i] = Meaning(c)
            /\ NextStart(i) = starts[i] + Len(Encode(c))
            /\ \A k \in 1..Len(Encode(c)) : code[starts[i] + k - 1] = Encode(c)[k]
    BY DEF BInv
  <2>2. c.enc \in Encoders /\ c.arg \in Int /\ SoundCall(c) BY CallsTyped
  <2>3. starts[i] \in Int /\ Encode(c) \in Seq(0..255)
    BY <2>2, EncodeBytes DEF BInv, TypeOK
  <2>4. DecodeAt(code, starts[i]) = [ins |-> Meaning(c), len |-> Len(Encode(c))]
    BY <2>1, <2>2, <2>3, EncodeDecodesAt
  <2>5. QED BY <2>1, <2>3, <2>4
<1>3. QED BY <1>1, <1>2 DEF InstrAtBoundaries

\* Every instruction is decoded where the rewriter put it (InstrAtBoundaries):
\* whenever every encoder call the rewriter makes is sound (SoundCall), for
\* every length of the stream.  The calls the prolog makes with argument
\* slots past 3, locals past 0 or a string token are not sound, and with them
\* the stream round trip fails (run encoders_emitted_il).
THEOREM BoundariesHold ==
    ASSUME \A c \in Calls : SoundCall(c)
    PROVE  Spec => []InstrAtBoundaries
<1>1. Init => BInv BY BInvInit
<1>2. BInv /\ [Next]_vars => BInv'
  <2> SUFFICES ASSUME BInv, [Next]_vars PROVE BInv' OBVIOUS
  <2>1. CASE UNCHANGED vars
    BY <2>1 DEF vars, BInv, TypeOK, NextStart
  <2>2. ASSUME NEW c \in Calls, EmitInstr(c) PROVE BInv'
    BY <2>2, BInvEmit
  <2>3. QED BY <2>1, <2>2 DEF Next
<1>3. BInv => InstrAtBoundaries BY BInvBoundaries
<1>4. QED BY <1>1, <1>2, <1>3, PTL DEF Spec
=============================================================================
