--------------------------- MODULE ILRewriterProofs ---------------------------
(***************************************************************************)
(* Proofs about one call of ILRewriter::Rewrite, for every descriptor,     *)
(* padding and argument limit that satisfy RewriterAssumption.             *)
(***************************************************************************)
EXTENDS ILRewriter, FiniteSets, TLAPS

Phases == {"getmeta", "locals", "loadargs", "arrtype", "this", "arg",
           "copy", "set", "done"}

\* The shape of a queued instruction; only its size matters here.
OpNames == {"locals", "token", "ldc", "newarr", "stloc", "ldarg", "box",
            "stelem", "ldstr", "call"}
InstrType == [op : OpNames, size : 0..MaxInstrSize,
              arg : {"val", "ref", "none", NoKind}]

(***************************************************************************)
(* PrologOverrunBounded is not inductive: a state with the write cursor    *)
(* already far past the buffer and an instruction still queued satisfies   *)
(* it, and the next memcpy breaks it.  The strengthening says why that     *)
(* state is unreachable: AdvanceIL throws at the first instruction that    *)
(* ends past the buffer, so while prolog instructions can still be         *)
(* emitted (any phase before "set") the cursor is inside the buffer;       *)
(* from "set" on nothing is queued; and no instruction is longer than      *)
(* MaxInstrSize.                                                           *)
(***************************************************************************)
PInv ==
    /\ desc \in Descs
    /\ pc \in Phases
    /\ off \in Nat
    /\ prologHi \in Nat
    /\ i \in Nat
    /\ queue \in Seq(InstrType)
    /\ pc \in {"set", "done"} => queue = <<>>
    /\ pc \notin {"set", "done"} => off <= BufSize
    /\ PrologOverrunBounded



LEMMA BufSizeNat == desc \in Descs => BufSize \in Nat
BY RewriterAssumption DEF BufSize

\* The fields of a descriptor that the encoders read.
LEMMA DescFields ==
    ASSUME desc \in Descs
    PROVE  /\ desc.argCount \in Nat /\ desc.nTypes \in Nat /\ desc.codeSize \in Nat
           /\ desc.isStatic \in BOOLEAN /\ desc.isValueType \in BOOLEAN
           /\ \A j \in 0..(desc.nTypes - 1) : desc.argVT[j] \in BOOLEAN
BY RewriterAssumption

\* ldarg pushes the kind of the argument it loads.
LEMMA ArgKindString == \A k \in Nat : ArgKind(k) \in {"val", "ref", "none"}
BY DEF ArgKind

\* A queued instruction has a length in bytes.
LEMMA InstrSizeNat == \A a \in InstrType : a.size \in Nat
<1>1. \A a \in InstrType : a.size \in 0..MaxInstrSize
  BY Zenon DEF InstrType
<1>2. QED
  BY <1>1 DEF MaxInstrSize

\* Short sequences of queued instructions, and their concatenations.
LEMMA QueueShapes ==
    /\ \A x \in InstrType : <<x>> \in Seq(InstrType)
    /\ \A x, y \in InstrType : <<x, y>> \in Seq(InstrType)
    /\ \A x, y, z \in InstrType : <<x, y, z>> \in Seq(InstrType)
    /\ \A s, t \in Seq(InstrType) : s \o t \in Seq(InstrType)
OBVIOUS

\* The instructions the encoders build have the queued shape.
LEMMA InstrShapes ==
    /\ \A k \in Nat : LdArg(k) \in InstrType
    /\ \A vt \in BOOLEAN : BoxIf(vt) \in Seq(InstrType)
    /\ StElem \in InstrType
    /\ \A v \in Nat : Instr("ldc", LoadConstantI4Size(v), NoKind) \in InstrType
    /\ \A op \in {"newarr", "box", "ldstr", "call"} : Instr(op, TokenInstrSize, NoKind) \in InstrType
    /\ Instr("stloc", StoreLocalSize(0), NoKind) \in InstrType
    /\ Instr("locals", 1, NoKind) \in InstrType
    /\ Instr("token", 4, NoKind) \in InstrType
<1>1. ASSUME NEW k \in Nat PROVE LdArg(k) \in InstrType
  <2>1. LoadArgSize(k) \in 0..MaxInstrSize
    BY DEF LoadArgSize, MaxInstrSize
  <2>2. ArgKind(k) \in {"val", "ref", "none", NoKind}
    BY ArgKindString
  <2>3. "ldarg" \in OpNames
    BY DEF OpNames
  <2>4. QED
    BY <2>1, <2>2, <2>3 DEF LdArg, Instr, InstrType
<1>2. ASSUME NEW op \in {"newarr", "box", "ldstr", "call"}
      PROVE  Instr(op, TokenInstrSize, NoKind) \in InstrType
  BY DEF Instr, InstrType, OpNames, TokenInstrSize, MaxInstrSize
<1>3. \A vt \in BOOLEAN : BoxIf(vt) \in Seq(InstrType)
  <2>1. Instr("box", TokenInstrSize, NoKind) \in InstrType
    BY <1>2
  <2>2. <<Instr("box", TokenInstrSize, NoKind)>> \in Seq(InstrType)
    BY <2>1, QueueShapes
  <2>3. <<>> \in Seq(InstrType)
    OBVIOUS
  <2>4. QED
    BY <2>2, <2>3, Zenon DEF BoxIf
<1>4. StElem \in InstrType
  BY DEF StElem, Instr, InstrType, OpNames, StoreElementRefSize, MaxInstrSize
<1>5. \A v \in Nat : Instr("ldc", LoadConstantI4Size(v), NoKind) \in InstrType
  BY DEF Instr, InstrType, OpNames, LoadConstantI4Size, MaxInstrSize
<1>6. /\ Instr("stloc", StoreLocalSize(0), NoKind) \in InstrType
      /\ Instr("locals", 1, NoKind) \in InstrType
      /\ Instr("token", 4, NoKind) \in InstrType
  BY DEF Instr, InstrType, OpNames, StoreLocalSize, MaxInstrSize
<1>7. QED
  BY <1>1, <1>2, <1>3, <1>4, <1>5, <1>6

\* A phase step: the cursors and the descriptor stay, the phase moves on
\* (never back from "set" or "done") and the queue is refilled or emptied.
LEMMA PhaseStep ==
    ASSUME PInv,
           desc' = desc, off' = off, prologHi' = prologHi, i' \in Nat,
           pc' \in Phases, queue' \in Seq(InstrType),
           pc' \in {"set", "done"} => queue' = <<>>,
           pc' \notin {"set", "done"} => pc \notin {"set", "done"}
    PROVE  PInv'
BY DEF PInv, BufSize, PrologOverrunBounded

\* PInv is inductive: every step of Rewrite preserves it.
LEMMA PInvStep == PInv /\ [Next]_vars => PInv'
<1> SUFFICES ASSUME PInv, [Next]_vars PROVE PInv'
  OBVIOUS
<1>0. BufSize \in Nat /\ BufSize' = BufSize
  BY BufSizeNat DEF PInv, BufSize, Next, vars, EmitNext, GetMetaData,
     InsertProlog, EmitLoadArgumentsBegin, EmitArrayType, EmitThis,
     EmitArg, EmitCallToManagedBridge, CopyOriginalIL, SetILFunctionBody
<1>1. CASE EmitNext
  <2> DEFINE ins == Head(queue)
             end == off + ins.size
  <2>1. queue # <<>> /\ pc \notin {"set", "done"}
    BY <1>1 DEF EmitNext, PInv, Phases
  <2>2. ins \in InstrType
    BY <2>1 DEF PInv
  <2>3. end \in Nat /\ end <= BufSize + MaxInstrSize
    <3>1. ins.size \in 0..MaxInstrSize
      BY <2>2 DEF InstrType
    <3>2. off \in Nat /\ off <= BufSize
      BY <2>1 DEF PInv
    <3>3. QED
      BY <3>1, <3>2, <1>0 DEF MaxInstrSize
  <2>4. prologHi' <= BufSize + MaxInstrSize /\ prologHi' \in Nat
    BY <1>1, <2>3, <1>0 DEF EmitNext, PInv, PrologOverrunBounded
  <2>5. CASE end > BufSize
    <3>1. pc' = "done" /\ queue' = <<>> /\ UNCHANGED <<off, desc, i>>
      BY <1>1, <2>5 DEF EmitNext, Fail
    <3>2. QED
      BY <3>1, <2>4, <1>0 DEF PInv, Phases, PrologOverrunBounded
  <2>6. CASE end <= BufSize
    <3>0. ~(end > BufSize)
      BY <2>3, <2>6, <1>0
    <3>1. off' = end /\ queue' = Tail(queue) /\ UNCHANGED <<pc, desc, i>>
      BY <1>1, <3>0, Zenon DEF EmitNext, Advance
    <3>2. Tail(queue) \in Seq(InstrType)
      BY <2>1 DEF PInv
    <3>3. QED
      BY <3>1, <3>2, <2>1, <2>3, <2>4, <2>6, <1>0
      DEF PInv, PrologOverrunBounded
  <2>7. QED
    BY <2>5, <2>6, <2>3, <1>0
<1>2. CASE GetMetaData
  BY <1>2, PhaseStep DEF GetMetaData, Fail, Phase, PInv, Phases
<1>3. CASE InsertProlog
  BY <1>3, PhaseStep, InstrShapes, QueueShapes
  DEF InsertProlog, Fail, Phase, PInv, Phases
<1>4. CASE EmitLoadArgumentsBegin
  <2>1. desc.argCount \in Nat
    BY DescFields DEF PInv
  <2>2. <<Instr("ldc", LoadConstantI4Size(desc.argCount), NoKind)>> \in Seq(InstrType)
    BY <2>1, InstrShapes, QueueShapes
  <2>3. QED
    BY <1>4, <2>2, PhaseStep DEF EmitLoadArgumentsBegin, Fail, Phase, PInv, Phases
<1>5. CASE EmitArrayType
  BY <1>5, PhaseStep, InstrShapes, QueueShapes
  DEF EmitArrayType, Fail, Phase, PInv, Phases
<1>6. CASE EmitThis
  <2>1. desc.isValueType \in BOOLEAN
    BY DescFields DEF PInv
  <2>2. <<LdArg(0)>> \o BoxIf(desc.isValueType) \o <<StElem>> \in Seq(InstrType)
    BY <2>1, InstrShapes, QueueShapes
  <2>3. <<>> \in Seq(InstrType)
    OBVIOUS
  <2>4. QED
    BY <1>6, <2>2, <2>3, PhaseStep DEF EmitThis, Phase, PInv, Phases
<1>7. CASE EmitArg
  <2>0. i \in Nat /\ desc.nTypes \in Nat
    BY DescFields DEF PInv
  <2>1. CASE i >= desc.nTypes
    <3>1. pc' = "done" /\ queue' = <<>> /\ UNCHANGED <<desc, off, prologHi, i>>
      BY <1>7, <2>0, <2>1 DEF EmitArg, Fail
    <3>2. QED
      BY <3>1, PhaseStep DEF PInv, Phases
  <2>2. CASE i < desc.nTypes
    <3> DEFINE k == IF desc.isStatic THEN i ELSE i + 1
    <3>1. k \in Nat /\ desc.argVT[i] \in BOOLEAN
      BY <2>0, <2>2, DescFields DEF PInv
    <3>2. <<LdArg(k)>> \o BoxIf(desc.argVT[i]) \o <<StElem>> \in Seq(InstrType)
      BY <3>1, InstrShapes, QueueShapes
    <3>3. /\ queue' = <<LdArg(k)>> \o BoxIf(desc.argVT[i]) \o <<StElem>>
          /\ i' = i + 1 /\ pc' = pc /\ UNCHANGED <<desc, off, prologHi>>
      BY <1>7, <2>0, <2>2 DEF EmitArg
    <3>4. pc = "arg"
      BY <1>7 DEF EmitArg, Phase
    <3>5. QED
      BY <2>0, <3>2, <3>3, <3>4, PhaseStep DEF PInv, Phases
  <2>3. QED
    BY <2>0, <2>1, <2>2
<1>8. CASE EmitCallToManagedBridge
  <2>1. <<Instr("ldstr", TokenInstrSize, NoKind), LdArg(0),
          Instr("call", TokenInstrSize, NoKind)>> \in Seq(InstrType)
    BY InstrShapes, QueueShapes
  <2>2. QED
    BY <1>8, <2>1, PhaseStep DEF EmitCallToManagedBridge, Fail, Phase, PInv, Phases
<1>9. CASE CopyOriginalIL
  BY <1>9, DescFields DEF CopyOriginalIL, Phase, PInv, Phases, BufSize, PrologOverrunBounded
<1>10. CASE SetILFunctionBody
  BY <1>10, PhaseStep DEF SetILFunctionBody, Fail, Phase, PInv, Phases
<1>11. CASE UNCHANGED vars
  BY <1>11 DEF vars, PInv, BufSize, PrologOverrunBounded
<1>12. QED
  BY <1>1, <1>2, <1>3, <1>4, <1>5, <1>6, <1>7, <1>8, <1>9, <1>10, <1>11
  DEF Next

\* A write of the prolog lands at most MaxInstrSize bytes past ilBuffer,
\* whatever the descriptor: the bound on the overrun that AdvanceIL's
\* late check leaves (il_rewriter.h, EmitIL/AdvanceIL).
THEOREM PrologOverrun == Spec => []PrologOverrunBounded
<1>1. Init => PInv
  BY BufSizeNat DEF Init, PInv, Phases, PrologOverrunBounded, MaxInstrSize
<1>2. PInv /\ [Next]_vars => PInv'
  BY PInvStep
<1>3. PInv => PrologOverrunBounded
  BY DEF PInv
<1>4. QED
  BY <1>1, <1>2, <1>3, PTL DEF Spec

\* The variables a step of Rewrite may leave with a value out of its type:
\* the cursors, the phase, the loop index and the result.  TypeOK alone is
\* not inductive (the copy of the head instruction adds its size to off),
\* so the step is proved under PInv, which types the queue.
LEMMA TypeStep == PInv /\ TypeOK /\ [Next]_vars => TypeOK'
<1> SUFFICES ASSUME PInv, TypeOK, [Next]_vars PROVE TypeOK'
  OBVIOUS
<1>1. CASE EmitNext
  <2> DEFINE ins == Head(queue)
             end == off + ins.size
  <2>1. queue # <<>> /\ ins \in InstrType
    BY <1>1 DEF EmitNext, PInv
  <2>2. end \in Nat
    BY <2>1, InstrSizeNat DEF TypeOK
  <2>3. hiWrite' \in Nat /\ prologHi' \in Nat
    BY <1>1, <2>2 DEF EmitNext, TypeOK
  <2>4. CASE end > BufSize
    BY <1>1, <2>3, <2>4 DEF EmitNext, Fail, TypeOK
  <2>5. CASE ~(end > BufSize)
    <3>1. verr' \subseteq {"underflow", "badOpcode"}
      BY <1>1, <2>5 DEF EmitNext, Advance, TypeOK
    <3>2. off' = end /\ stored' \in Nat
      BY <1>1, <2>5 DEF EmitNext, Advance, TypeOK
    <3>3. QED
      BY <1>1, <2>2, <2>3, <2>5, <3>1, <3>2 DEF EmitNext, TypeOK
  <2>6. QED
    BY <2>4, <2>5
<1>2. CASE EmitArg
  <2>1. i < desc.argCount /\ desc.argCount \in Nat /\ i \in Nat
    BY <1>2, DescFields DEF EmitArg, TypeOK
  <2>2. QED
    BY <1>2, <2>1 DEF EmitArg, Fail, TypeOK
<1>3. CASE EmitThis
  BY <1>3, DescFields DEF EmitThis, TypeOK
<1>4. CASE EmitArrayType
  BY <1>4 DEF EmitArrayType, Fail, DetectRuntimeStatic, TypeOK
<1>5. CASE CopyOriginalIL
  BY <1>5, DescFields DEF CopyOriginalIL, TypeOK
<1>6. QED
  BY <1>1, <1>2, <1>3, <1>4, <1>5
  DEF Next, vars, TypeOK, GetMetaData, InsertProlog, EmitLoadArgumentsBegin,
      EmitCallToManagedBridge, SetILFunctionBody, Fail

\* The initial state of Rewrite is typed.
LEMMA TypeInit == Init => PInv /\ TypeOK
<1> SUFFICES ASSUME Init PROVE PInv /\ TypeOK
  OBVIOUS
<1>1. PInv
  BY BufSizeNat DEF Init, PInv, Phases, PrologOverrunBounded, MaxInstrSize
<1>2. desc.argCount \in Nat
  BY DescFields DEF Init
<1>3. i \in 0..desc.argCount
  BY <1>2 DEF Init
<1>4. TypeOK
  BY <1>3, Zenon DEF Init, TypeOK
<1>5. QED
  BY <1>1, <1>4

\* Every variable of Rewrite keeps its type, for every descriptor.
THEOREM RewriterTypeCorrect == Spec => []TypeOK
<1>1. Init => PInv /\ TypeOK
  BY TypeInit
<1>2. PInv /\ TypeOK /\ [Next]_vars => PInv' /\ TypeOK'
  BY PInvStep, TypeStep
<1>3. QED
  BY <1>1, <1>2, PTL DEF Spec

-----------------------------------------------------------------------------
(***************************************************************************)
(* The refinement of RewriteAbstract and the completeness of an installed  *)
(* body.  Both rest on one bookkeeping invariant: in every phase, the     *)
(* bytes already copied (off) plus those of the queued instructions are    *)
(* the ECMA-335 length of the prolog emitted up to that phase, and the     *)
(* stelem.ref instructions copied plus those queued are the array slots   *)
(* filled up to it.                                                        *)
(***************************************************************************)

\* Size and stelem count of the (at most three) queued instructions.
QAt(q, n) == IF Len(q) >= n THEN q[n].size ELSE 0
QSize(q) == QAt(q, 1) + QAt(q, 2) + QAt(q, 3)
StAt(q, n) == IF Len(q) >= n /\ q[n].op = "stelem" THEN 1 ELSE 0
QStores(q) == StAt(q, 1) + StAt(q, 2) + StAt(q, 3)

\* The prolog bytes of the receiver: ldarg.0, box for a value type, stelem.
ThisCost(d) ==
    IF d.isStatic THEN 0
    ELSE LoadArgSize(0) + (IF d.isValueType THEN TokenInstrSize ELSE 0)
           + StoreElementRefSize

\* The locals declaration, ldc.i4 argCount, newarr, stloc.0.
ArrayCost(d) == 5 + LoadConstantI4Size(d.argCount) + TokenInstrSize + StoreLocalSize(0)

\* ldstr, ldarg.0, call.
BridgeCost == TokenInstrSize + LoadArgSize(0) + TokenInstrSize

\* The bytes emitted once phase p has queued its instructions, with n
\* arguments staged.
Target(d, p, n) ==
    IF p \in {"getmeta", "locals"} THEN 0
    ELSE IF p = "loadargs" THEN 5
    ELSE IF p = "arrtype" THEN 5 + LoadConstantI4Size(d.argCount)
    ELSE IF p = "this" THEN ArrayCost(d)
    ELSE IF p = "arg" THEN ArrayCost(d) + ThisCost(d) + Abs!ArgsCostUpTo(d, n)
    ELSE IF p = "copy"
         THEN ArrayCost(d) + ThisCost(d) + Abs!ArgsCostUpTo(d, n) + BridgeCost
    ELSE ArrayCost(d) + ThisCost(d) + Abs!ArgsCostUpTo(d, n) + BridgeCost + d.codeSize

\* The array slots filled once phase p has queued its instructions.
SlotsTarget(d, p, n) ==
    IF p \in {"arg", "copy", "set"} THEN (IF d.isStatic THEN 0 ELSE 1) + n ELSE 0

\* The bookkeeping of the phases, and what the refinement needs of them.
Books ==
    /\ Len(queue) <= 3
    /\ i <= desc.nTypes
    /\ pc # "done" => /\ off + QSize(queue) = Target(desc, pc, i)
                      /\ stored + QStores(queue) = SlotsTarget(desc, pc, i)
    /\ pc \in {"arrtype", "this", "arg", "copy", "set"} => desc.argCount <= MaxArgs
    /\ pc \in {"copy", "set"} => i = desc.argCount
    /\ installed => /\ pc = "done" /\ i = desc.argCount /\ desc.argCount <= MaxArgs
                    /\ off = Target(desc, "set", i)
                    /\ stored = SlotsTarget(desc, "set", i)

RInv == PInv /\ TypeOK /\ Books

\* The facts about finite sets that counting the staged arguments needs:
\* the theorems FS_EmptySet, FS_Interval, FS_Subset, FS_CardinalityType and
\* FS_AddElement of the library's FiniteSetTheorems, stated here because
\* that module reaches a RECURSIVE operator (through Functions and Folds).
FiniteSetFacts ==
    /\ Cardinality({}) = 0
    /\ \A a, b \in Int : IsFiniteSet(a..b)
    /\ \A S, T : IsFiniteSet(S) /\ T \subseteq S => IsFiniteSet(T)
    /\ \A S : IsFiniteSet(S) => Cardinality(S) \in Nat
    /\ \A S, x : IsFiniteSet(S) /\ x \notin S => Cardinality(S \cup {x}) = Cardinality(S) + 1

\* The contract's Cardinality is the one of FiniteSets.
LEMMA AbsCardinality == \A S : Abs!Cardinality(S) = Cardinality(S)
BY DEF Abs!Cardinality, Cardinality

\* The ECMA-335 lengths of the contract, per instruction.
LEMMA ECMALengths ==
    /\ Abs!ECMALength("locals", 0) = 5
    /\ Abs!ECMALength("newarr", 0) = 5
    /\ Abs!ECMALength("stloc", 0) = 1
    /\ Abs!ECMALength("ldarg", 0) = 1
    /\ Abs!ECMALength("ldarg", 4) = 4
    /\ Abs!ECMALength("box", 0) = 5
    /\ Abs!ECMALength("stelem", 0) = 1
    /\ Abs!ECMALength("ldstr", 0) = 5
    /\ Abs!ECMALength("call", 0) = 5
    /\ \A v \in Nat : Abs!ECMALength("ldc", v) = LoadConstantI4Size(v)
BY DEF Abs!ECMALength, LoadConstantI4Size

\* The queue after a step: emptied, or one of the shapes the phases fill it
\* with, or its tail after a copy.
LEMMA QueueEmpty == QSize(<<>>) = 0 /\ QStores(<<>>) = 0
BY DEF QSize, QAt, QStores, StAt

LEMMA QueueTail ==
    ASSUME NEW q \in Seq(InstrType), 1 <= Len(q), Len(q) <= 3
    PROVE  /\ Len(Tail(q)) <= 3
           /\ QSize(Tail(q)) = QSize(q) - q[1].size
           /\ QStores(Tail(q)) = QStores(q) - StAt(q, 1)
<1>1. /\ Len(Tail(q)) = Len(q) - 1
      /\ \A n \in 1..(Len(q) - 1) : Tail(q)[n] = q[n + 1]
  OBVIOUS
<1>2. \A n \in 1..Len(q) : q[n].size \in Nat
  BY InstrSizeNat
<1>3. QED
  BY <1>1, <1>2 DEF QSize, QAt, QStores, StAt

LEMMA QueueLiterals ==
    ASSUME NEW a \in InstrType, NEW b \in InstrType, NEW c \in InstrType
    PROVE  /\ QSize(<<a>>) = a.size
           /\ QStores(<<a>>) = StAt(<<a>>, 1)
           /\ QSize(<<a, b>>) = a.size + b.size
           /\ QStores(<<a, b>>) = StAt(<<a>>, 1) + StAt(<<b>>, 1)
           /\ QSize(<<a, b, c>>) = a.size + b.size + c.size
           /\ QStores(<<a, b, c>>) = StAt(<<a>>, 1) + StAt(<<b>>, 1) + StAt(<<c>>, 1)
<1>1. a.size \in Nat /\ b.size \in Nat /\ c.size \in Nat
  BY InstrSizeNat
<1>2. QED
  BY <1>1 DEF QSize, QAt, QStores, StAt

\* The queue of one staged argument (or of the receiver): ldarg, box for a
\* value type, stelem.ref.
LEMMA StageQueue ==
    ASSUME NEW k \in Nat, NEW vt \in BOOLEAN
    PROVE  /\ <<LdArg(k)>> \o BoxIf(vt) \o <<StElem>> \in Seq(InstrType)
           /\ Len(<<LdArg(k)>> \o BoxIf(vt) \o <<StElem>>) <= 3
           /\ QSize(<<LdArg(k)>> \o BoxIf(vt) \o <<StElem>>) =
                 LoadArgSize(k) + (IF vt THEN TokenInstrSize ELSE 0) + StoreElementRefSize
           /\ QStores(<<LdArg(k)>> \o BoxIf(vt) \o <<StElem>>) = 1
<1>1. <<LdArg(k)>> \o BoxIf(vt) \o <<StElem>> \in Seq(InstrType)
  BY InstrShapes, QueueShapes
<1>2. /\ LdArg(k).op = "ldarg" /\ LdArg(k).size = LoadArgSize(k)
      /\ Instr("box", TokenInstrSize, NoKind).op = "box"
      /\ Instr("box", TokenInstrSize, NoKind).size = TokenInstrSize
      /\ StElem.op = "stelem" /\ StElem.size = StoreElementRefSize
  BY DEF LdArg, Instr, StElem
<1>3. CASE vt
  <2> DEFINE q == <<LdArg(k)>> \o BoxIf(vt) \o <<StElem>>
  <2>1. /\ Len(q) = 3 /\ q[1] = LdArg(k) /\ q[3] = StElem
        /\ q[2] = Instr("box", TokenInstrSize, NoKind)
    BY <1>3 DEF BoxIf, q
  <2>2. QSize(q) = LoadArgSize(k) + TokenInstrSize + StoreElementRefSize
    BY <1>2, <2>1 DEF QSize, QAt, LoadArgSize, TokenInstrSize, StoreElementRefSize
  <2>3. QStores(q) = 1
    BY <1>2, <2>1 DEF QStores, StAt
  <2>4. (IF vt THEN TokenInstrSize ELSE 0) = TokenInstrSize
    BY <1>3
  <2>5. QED
    BY <1>1, <2>1, <2>2, <2>3, <2>4 DEF q, LoadArgSize, TokenInstrSize, StoreElementRefSize
<1>4. CASE ~vt
  <2> DEFINE q == <<LdArg(k)>> \o BoxIf(vt) \o <<StElem>>
  <2>1. Len(q) = 2 /\ q[1] = LdArg(k) /\ q[2] = StElem
    BY <1>4 DEF BoxIf, q
  <2>2. QSize(q) = LoadArgSize(k) + StoreElementRefSize
    BY <1>2, <2>1 DEF QSize, QAt, LoadArgSize, StoreElementRefSize
  <2>3. QStores(q) = 1
    BY <1>2, <2>1 DEF QStores, StAt
  <2>4. (IF vt THEN TokenInstrSize ELSE 0) = 0
    BY <1>4
  <2>5. QED
    BY <1>1, <2>1, <2>2, <2>3, <2>4 DEF q, LoadArgSize, StoreElementRefSize
<1>5. QED
  BY <1>3, <1>4

\* The argument slots counted so far form finite sets.
LEMMA ArgCountsFinite ==
    ASSUME FiniteSetFacts, NEW d, NEW n \in Nat
    PROVE  /\ IsFiniteSet(Abs!ShortArgs(d, n)) /\ IsFiniteSet(Abs!BoxedArgs(d, n))
           /\ Cardinality(Abs!ShortArgs(d, n)) \in Nat
           /\ Cardinality(Abs!BoxedArgs(d, n)) \in Nat
<1>1. IsFiniteSet(0..(n - 1))
  BY DEF FiniteSetFacts
<1>2. Abs!ShortArgs(d, n) \subseteq 0..(n - 1) /\ Abs!BoxedArgs(d, n) \subseteq 0..(n - 1)
  BY DEF Abs!ShortArgs, Abs!BoxedArgs
<1>3. IsFiniteSet(Abs!ShortArgs(d, n)) /\ IsFiniteSet(Abs!BoxedArgs(d, n))
  BY <1>1, <1>2 DEF FiniteSetFacts
<1>4. QED
  BY <1>3 DEF FiniteSetFacts

\* The bytes of the staged arguments are a number.
LEMMA ArgsCostInt ==
    ASSUME FiniteSetFacts, NEW d, NEW n \in Nat
    PROVE  Abs!ArgsCostUpTo(d, n) \in Int
BY ArgCountsFinite, AbsCardinality, ECMALengths DEF Abs!ArgsCostUpTo

\* No argument staged: no bytes.
LEMMA ArgsCostZero ==
    ASSUME FiniteSetFacts, NEW d
    PROVE  Abs!ArgsCostUpTo(d, 0) = 0
<1>1. Abs!ShortArgs(d, 0) = {} /\ Abs!BoxedArgs(d, 0) = {}
  BY DEF Abs!ShortArgs, Abs!BoxedArgs
<1>2. Abs!Cardinality({}) = 0
  BY AbsCardinality DEF FiniteSetFacts
<1>3. QED
  BY <1>1, <1>2, ECMALengths DEF Abs!ArgsCostUpTo

\* Staging one more argument adds its ldarg, its box if it is of a value
\* type, and its stelem.ref: the step of the argument loop of
\* EmitLoadArguments against the counts of the reference length.
LEMMA ArgsCostStep ==
    ASSUME FiniteSetFacts, NEW d \in Descs, NEW n \in Nat, n < d.nTypes
    PROVE  Abs!ArgsCostUpTo(d, n + 1) =
              Abs!ArgsCostUpTo(d, n) + LoadArgSize(Abs!ArgSlot(d, n))
                + (IF d.argVT[n] THEN TokenInstrSize ELSE 0) + StoreElementRefSize
<1>0. d.isStatic \in BOOLEAN /\ d.argVT[n] \in BOOLEAN
  BY RewriterAssumption
<1>1. /\ IsFiniteSet(Abs!ShortArgs(d, n)) /\ IsFiniteSet(Abs!BoxedArgs(d, n))
      /\ Cardinality(Abs!ShortArgs(d, n)) \in Nat
      /\ Cardinality(Abs!BoxedArgs(d, n)) \in Nat
  BY ArgCountsFinite
<1>2. n \notin Abs!ShortArgs(d, n) /\ n \notin Abs!BoxedArgs(d, n)
  BY DEF Abs!ShortArgs, Abs!BoxedArgs
<1>3. Cardinality(Abs!ShortArgs(d, n + 1)) =
        Cardinality(Abs!ShortArgs(d, n)) + (IF Abs!ArgSlot(d, n) <= 3 THEN 1 ELSE 0)
  <2>1. CASE Abs!ArgSlot(d, n) <= 3
    <3>1. Abs!ShortArgs(d, n + 1) = Abs!ShortArgs(d, n) \cup {n}
      BY <2>1 DEF Abs!ShortArgs
    <3>2. Cardinality(Abs!ShortArgs(d, n) \cup {n}) = Cardinality(Abs!ShortArgs(d, n)) + 1
      BY <1>1, <1>2 DEF FiniteSetFacts
    <3>3. QED
      BY <2>1, <3>1, <3>2
  <2>2. CASE ~(Abs!ArgSlot(d, n) <= 3)
    <3>1. Abs!ShortArgs(d, n + 1) = Abs!ShortArgs(d, n)
      BY <2>2 DEF Abs!ShortArgs
    <3>2. QED
      BY <1>1, <2>2, <3>1
  <2>3. QED
    BY <2>1, <2>2
<1>4. Cardinality(Abs!BoxedArgs(d, n + 1)) =
        Cardinality(Abs!BoxedArgs(d, n)) + (IF d.argVT[n] THEN 1 ELSE 0)
  <2>1. CASE d.argVT[n]
    <3>1. Abs!BoxedArgs(d, n + 1) = Abs!BoxedArgs(d, n) \cup {n}
      BY <2>1 DEF Abs!BoxedArgs
    <3>2. Cardinality(Abs!BoxedArgs(d, n) \cup {n}) = Cardinality(Abs!BoxedArgs(d, n)) + 1
      BY <1>1, <1>2 DEF FiniteSetFacts
    <3>3. QED
      BY <2>1, <3>1, <3>2
  <2>2. CASE ~d.argVT[n]
    <3>1. Abs!BoxedArgs(d, n + 1) = Abs!BoxedArgs(d, n)
      BY <2>2 DEF Abs!BoxedArgs
    <3>2. QED
      BY <1>1, <2>2, <3>1
  <2>3. QED
    BY <1>0, <2>1, <2>2
<1>5. \A m \in {n, n + 1} :
        Abs!ArgsCostUpTo(d, m) =
          Cardinality(Abs!ShortArgs(d, m)) * 1
            + (m - Cardinality(Abs!ShortArgs(d, m))) * 4
            + Cardinality(Abs!BoxedArgs(d, m)) * 5 + m * 1
  BY AbsCardinality, ECMALengths DEF Abs!ArgsCostUpTo
<1>6. Abs!ArgSlot(d, n) \in Nat
  BY <1>0 DEF Abs!ArgSlot
<1>7. QED
  BY <1>1, <1>3, <1>4, <1>5, <1>6 DEF LoadArgSize, TokenInstrSize, StoreElementRefSize

\* The reference prolog length is the sum of the phases' instructions.
LEMMA PrologSizeSum ==
    ASSUME FiniteSetFacts, NEW d \in Descs
    PROVE  Abs!PrologSize(d) + d.codeSize = Target(d, "set", d.argCount)
<1>1. d.argCount \in Nat /\ d.codeSize \in Nat /\ d.isStatic \in BOOLEAN
      /\ d.isValueType \in BOOLEAN
  BY RewriterAssumption
<1>2. Abs!ArgsCostUpTo(d, d.argCount) \in Int
  BY <1>1, ArgsCostInt
<1>3. QED
  BY <1>1, <1>2, ECMALengths DEF Abs!PrologSize, Abs!ArgsCost, Target, ArrayCost,
     ThisCost, BridgeCost, LoadArgSize, LoadConstantI4Size, TokenInstrSize,
     StoreLocalSize, StoreElementRefSize

-----------------------------------------------------------------------------
(* Books is preserved by every action of Rewrite.                          *)

\* A phase starts with nothing queued: the cursors are at their targets.
LEMMA EmptyQueueBooks ==
    ASSUME RInv, queue = <<>>, pc # "done"
    PROVE  off = Target(desc, pc, i) /\ stored = SlotsTarget(desc, pc, i)
BY QueueEmpty DEF RInv, Books, TypeOK

\* Copying the head instruction moves its bytes and its stelem from the
\* queue to the buffer; a copy that ends past the buffer ends the call.
LEMMA BooksEmitNext ==
    ASSUME RInv, EmitNext
    PROVE  Books'
<1> DEFINE ins == Head(queue)
           end == off + ins.size
<1>1. /\ queue # <<>> /\ queue \in Seq(InstrType) /\ Len(queue) <= 3
      /\ pc \notin {"set", "done"} /\ installed = FALSE
      /\ off \in Nat /\ stored \in Nat
  BY DEF EmitNext, RInv, PInv, Books, TypeOK
<1>2. ins = queue[1] /\ ins \in InstrType /\ ins.size \in Nat /\ 1 <= Len(queue)
  BY <1>1, InstrSizeNat
<1>3. UNCHANGED <<desc, i, installed>>
  BY DEF EmitNext
<1>4. CASE end > BufSize
  <2>1. pc' = "done" /\ queue' = <<>>
    BY <1>4 DEF EmitNext, Fail
  <2>2. QED
    BY <1>1, <1>3, <2>1 DEF RInv, Books
<1>5. CASE ~(end > BufSize)
  <2>1. /\ off' = end /\ queue' = Tail(queue) /\ pc' = pc
        /\ stored' = IF ins.op = "stelem" THEN stored + 1 ELSE stored
    BY <1>5, Zenon DEF EmitNext, Advance
  <2>2. stored' = stored + StAt(queue, 1)
    BY <1>2, <2>1 DEF StAt
  <2>3. /\ Len(Tail(queue)) <= 3
        /\ QSize(Tail(queue)) = QSize(queue) - ins.size
        /\ QStores(Tail(queue)) = QStores(queue) - StAt(queue, 1)
    BY <1>1, <1>2, QueueTail
  <2>4. StAt(queue, 1) \in {0, 1} /\ QSize(queue) \in Int /\ QStores(queue) \in Int
    <3>1. \A n \in 1..Len(queue) : queue[n].size \in Nat
      BY <1>1, InstrSizeNat
    <3>2. QED
      BY <1>1, <3>1 DEF StAt, QSize, QAt, QStores
  <2>5. QSize(queue') = QSize(Tail(queue)) /\ QStores(queue') = QStores(Tail(queue))
    BY <2>1 DEF QSize, QAt, QStores, StAt
  <2>6. /\ off' + QSize(queue') = off + QSize(queue)
        /\ stored' + QStores(queue') = stored + QStores(queue)
    <3>1. off' = off + ins.size
      BY <2>1 DEF end
    <3>2. off' + QSize(queue') = off + QSize(queue)
      BY <1>1, <1>2, <2>3, <2>4, <2>5, <3>1
    <3>3. stored' + QStores(queue') = stored + QStores(queue)
      BY <1>1, <2>2, <2>3, <2>4, <2>5
    <3>4. QED
      BY <3>2, <3>3
  <2>7. QED
    BY <1>1, <1>3, <2>1, <2>3, <2>6 DEF RInv, Books
<1>6. QED
  BY <1>4, <1>5

\* A helper that fails ends the call with nothing queued.
LEMMA FailBooks ==
    ASSUME RInv, pc # "done", pc' = "done", queue' = <<>>, desc' = desc, i' = i,
           installed' = installed
    PROVE  Books'
BY DEF RInv, Books

\* GetMetaData and InsertProlog: the locals declaration is queued.
LEMMA BooksGetMetaData ==
    ASSUME RInv, GetMetaData
    PROVE  Books'
<1>1. CASE Fail
  BY <1>1, FailBooks DEF GetMetaData, Fail, Phase
<1>2. CASE pc' = "locals" /\ UNCHANGED <<queue, result>>
  <2>1. queue = <<>> /\ pc = "getmeta" /\ installed = FALSE
    BY DEF GetMetaData, Phase, RInv, Books
  <2>2. off = Target(desc, pc, i) /\ stored = SlotsTarget(desc, pc, i)
    BY <2>1, EmptyQueueBooks
  <2>3. UNCHANGED <<desc, off, i, installed, stored>>
    BY DEF GetMetaData
  <2>4. QED
    BY <1>2, <2>1, <2>2, <2>3, QueueEmpty DEF RInv, Books, Target, SlotsTarget
<1>3. QED
  BY <1>1, <1>2 DEF GetMetaData

LEMMA BooksInsertProlog ==
    ASSUME RInv, InsertProlog
    PROVE  Books'
<1>1. CASE Fail
  BY <1>1, FailBooks DEF InsertProlog, Fail, Phase
<1>2. CASE /\ queue' = <<Instr("locals", 1, NoKind), Instr("token", 4, NoKind)>>
           /\ pc' = "loadargs"
  <2>1. queue = <<>> /\ pc = "locals" /\ installed = FALSE
    BY DEF InsertProlog, Phase, RInv, Books
  <2>2. off = Target(desc, pc, i) /\ stored = SlotsTarget(desc, pc, i)
    BY <2>1, EmptyQueueBooks
  <2>3. UNCHANGED <<desc, off, i, installed, stored>>
    BY DEF InsertProlog
  <2>4. Len(queue') = 2 /\ QSize(queue') = 5 /\ QStores(queue') = 0
    BY <1>2 DEF QSize, QAt, QStores, StAt, Instr
  <2>5. QED
    BY <1>2, <2>1, <2>2, <2>3, <2>4 DEF RInv, Books, Target, SlotsTarget
<1>3. QED
  BY <1>1, <1>2 DEF InsertProlog

\* EmitLoadArguments up to the element type: ldc.i4 argCount, under the
\* argCount limit.
LEMMA BooksEmitLoadArgumentsBegin ==
    ASSUME RInv, EmitLoadArgumentsBegin
    PROVE  Books'
<1>1. CASE desc.argCount > MaxArgs /\ Fail
  BY <1>1, FailBooks DEF EmitLoadArgumentsBegin, Fail, Phase
<1>2. CASE /\ desc.argCount <= MaxArgs
           /\ queue' = <<Instr("ldc", LoadConstantI4Size(desc.argCount), NoKind)>>
           /\ pc' = "arrtype"
  <2>1. queue = <<>> /\ pc = "loadargs" /\ installed = FALSE
    BY DEF EmitLoadArgumentsBegin, Phase, RInv, Books
  <2>2. off = Target(desc, pc, i) /\ stored = SlotsTarget(desc, pc, i)
    BY <2>1, EmptyQueueBooks
  <2>3. UNCHANGED <<desc, off, i, installed, stored>>
    BY DEF EmitLoadArgumentsBegin
  <2>4. /\ Len(queue') = 1 /\ QStores(queue') = 0
        /\ QSize(queue') = LoadConstantI4Size(desc.argCount)
    BY <1>2 DEF QSize, QAt, QStores, StAt, Instr, LoadConstantI4Size
  <2>5. QED
    BY <1>2, <2>1, <2>2, <2>3, <2>4
    DEF RInv, Books, Target, SlotsTarget, LoadConstantI4Size
<1>3. QED
  BY <1>1, <1>2 DEF EmitLoadArgumentsBegin

\* The object[] type reference, newarr and stloc.0.
LEMMA BooksEmitArrayType ==
    ASSUME RInv, EmitArrayType
    PROVE  Books'
<1>1. CASE Fail /\ UNCHANGED objAsm
  BY <1>1, FailBooks DEF EmitArrayType, Fail, Phase
<1>2. CASE /\ queue' = <<Instr("newarr", TokenInstrSize, NoKind),
                         Instr("stloc", StoreLocalSize(0), NoKind)>>
           /\ pc' = "this"
  <2>1. queue = <<>> /\ pc = "arrtype" /\ installed = FALSE
    BY DEF EmitArrayType, Phase, RInv, Books
  <2>2. off = Target(desc, pc, i) /\ stored = SlotsTarget(desc, pc, i)
    BY <2>1, EmptyQueueBooks
  <2>3. UNCHANGED <<desc, off, i, installed, stored>>
    BY DEF EmitArrayType
  <2>4. /\ Len(queue') = 2 /\ QStores(queue') = 0
        /\ QSize(queue') = TokenInstrSize + StoreLocalSize(0)
    BY <1>2 DEF QSize, QAt, QStores, StAt, Instr, TokenInstrSize, StoreLocalSize
  <2>5. QED
    BY <1>2, <2>1, <2>2, <2>3, <2>4
    DEF RInv, Books, Target, SlotsTarget, ArrayCost, LoadConstantI4Size,
        TokenInstrSize, StoreLocalSize
<1>3. QED
  BY <1>1, <1>2 DEF EmitArrayType

\* The receiver of an instance method: ldarg.0, box, stelem.ref, and the
\* argument loop starts at 0.
LEMMA BooksEmitThis ==
    ASSUME FiniteSetFacts, RInv, EmitThis
    PROVE  Books'
<1>1. queue = <<>> /\ pc = "this" /\ installed = FALSE
  BY DEF EmitThis, Phase, RInv, Books
<1>2. off = ArrayCost(desc) /\ stored = 0
  BY <1>1, EmptyQueueBooks DEF Target, SlotsTarget
<1>3. /\ UNCHANGED <<desc, off, installed, stored>>
      /\ pc' = "arg" /\ i' = 0
      /\ queue' = IF desc.isStatic THEN <<>>
                  ELSE <<LdArg(0)>> \o BoxIf(desc.isValueType) \o <<StElem>>
  BY DEF EmitThis
<1>4. /\ desc \in Descs /\ desc.isStatic \in BOOLEAN /\ desc.isValueType \in BOOLEAN
      /\ desc.nTypes \in Nat /\ off \in Nat
  BY DescFields DEF RInv, TypeOK
<1>5. Target(desc, "arg", 0) = ArrayCost(desc) + ThisCost(desc)
  BY ArgsCostZero, <1>4 DEF Target, ArrayCost, ThisCost, LoadConstantI4Size,
     StoreLocalSize, LoadArgSize, TokenInstrSize, StoreElementRefSize
<1>6. /\ Len(queue') <= 3
      /\ QSize(queue') = ThisCost(desc)
      /\ QStores(queue') = IF desc.isStatic THEN 0 ELSE 1
  <2>1. CASE desc.isStatic
    <3>1. queue' = <<>>
      BY <1>3, <2>1
    <3>2. QED
      BY <2>1, <3>1 DEF QSize, QAt, QStores, StAt, ThisCost
  <2>2. CASE ~desc.isStatic
    <3> DEFINE q == <<LdArg(0)>> \o BoxIf(desc.isValueType) \o <<StElem>>
    <3>1. queue' = q
      BY <1>3, <2>2
    <3>2. /\ Len(q) <= 3
          /\ QSize(q) = LoadArgSize(0) + (IF desc.isValueType THEN TokenInstrSize ELSE 0)
                          + StoreElementRefSize
          /\ QStores(q) = 1
      BY <1>4, StageQueue
    <3>3. QSize(queue') = QSize(q) /\ QStores(queue') = QStores(q)
      BY <3>1 DEF QSize, QAt, QStores, StAt
    <3>4. QED
      BY <2>2, <3>1, <3>2, <3>3 DEF ThisCost
  <2>3. QED
    BY <1>4, <2>1, <2>2
<1>7. QED
  BY <1>1, <1>2, <1>3, <1>4, <1>5, <1>6 DEF RInv, Books, Target, SlotsTarget

\* One iteration of the argument loop stages argument i and counts it.
LEMMA BooksEmitArg ==
    ASSUME FiniteSetFacts, RInv, EmitArg
    PROVE  Books'
<1>1. queue = <<>> /\ pc = "arg" /\ installed = FALSE /\ i < desc.argCount
  BY DEF EmitArg, Phase, RInv, Books
<1>2. /\ desc \in Descs /\ desc.isStatic \in BOOLEAN /\ desc.nTypes \in Nat
      /\ i \in Nat /\ off \in Nat /\ stored \in Nat
  BY DescFields DEF RInv, TypeOK
<1>3. CASE i >= desc.nTypes /\ Fail /\ UNCHANGED i
  BY <1>3, FailBooks DEF EmitArg, Fail, Phase
<1>4. CASE /\ i < desc.nTypes
           /\ LET k == IF desc.isStatic THEN i ELSE i + 1
              IN queue' = <<LdArg(k)>> \o BoxIf(desc.argVT[i]) \o <<StElem>>
           /\ i' = i + 1
           /\ UNCHANGED <<pc, result>>
  <2> DEFINE k == Abs!ArgSlot(desc, i)
             q == <<LdArg(k)>> \o BoxIf(desc.argVT[i]) \o <<StElem>>
             box == IF desc.argVT[i] THEN TokenInstrSize ELSE 0
  <2>1. k \in Nat /\ desc.argVT[i] \in BOOLEAN
    BY <1>2, <1>4, DescFields DEF Abs!ArgSlot, RInv
  <2>2. queue' = q /\ i' = i + 1 /\ pc' = "arg"
        /\ UNCHANGED <<desc, off, installed, stored>>
    BY <1>1, <1>4 DEF EmitArg, Abs!ArgSlot
  <2>3. off = Target(desc, "arg", i) /\ stored = SlotsTarget(desc, "arg", i)
    BY <1>1, EmptyQueueBooks
  <2>4. /\ Len(q) <= 3
        /\ QSize(q) = LoadArgSize(k) + box + StoreElementRefSize
        /\ QStores(q) = 1
    BY <2>1, StageQueue
  <2>5. QSize(queue') = QSize(q) /\ QStores(queue') = QStores(q) /\ Len(queue') <= 3
    BY <2>2, <2>4 DEF QSize, QAt, QStores, StAt
  <2>6. Target(desc, "arg", i + 1) =
          Target(desc, "arg", i) + LoadArgSize(k) + box + StoreElementRefSize
    <3>1. Abs!ArgsCostUpTo(desc, i + 1) =
            Abs!ArgsCostUpTo(desc, i) + LoadArgSize(k) + box + StoreElementRefSize
      BY <1>2, <1>4, ArgsCostStep
    <3>2. Abs!ArgsCostUpTo(desc, i) \in Int
      BY <1>2, ArgsCostInt
    <3>3. ArrayCost(desc) \in Int /\ ThisCost(desc) \in Int
      BY DEF ArrayCost, ThisCost, LoadConstantI4Size, TokenInstrSize,
         StoreLocalSize, LoadArgSize, StoreElementRefSize
    <3>4. LoadArgSize(k) \in Nat /\ box \in Nat
      BY DEF LoadArgSize, TokenInstrSize
    <3>5. QED
      BY <3>1, <3>2, <3>3, <3>4 DEF Target, StoreElementRefSize
  <2>7. SlotsTarget(desc, "arg", i + 1) = SlotsTarget(desc, "arg", i) + 1
    BY <1>2 DEF SlotsTarget
  <2>8. /\ off' + QSize(queue') = Target(desc, "arg", i + 1)
        /\ stored' + QStores(queue') = SlotsTarget(desc, "arg", i + 1)
    <3>1. LoadArgSize(k) \in Nat /\ box \in Nat /\ StoreElementRefSize \in Nat
      BY DEF LoadArgSize, TokenInstrSize, StoreElementRefSize
    <3>2. off' + QSize(queue') = Target(desc, "arg", i + 1)
      BY <1>2, <2>2, <2>3, <2>4, <2>5, <2>6, <3>1
    <3>3. stored' + QStores(queue') = SlotsTarget(desc, "arg", i + 1)
      BY <1>2, <2>2, <2>3, <2>4, <2>5, <2>7
    <3>4. QED
      BY <3>2, <3>3
  <2>9. /\ Target(desc', pc', i') = Target(desc, "arg", i + 1)
        /\ SlotsTarget(desc', pc', i') = SlotsTarget(desc, "arg", i + 1)
    BY <2>2 DEF Target, SlotsTarget
  <2>10. QED
    BY <1>1, <1>2, <1>4, <2>2, <2>5, <2>8, <2>9 DEF RInv, Books
<1>5. QED
  BY <1>3, <1>4 DEF EmitArg

\* After the last argument: ldstr, ldarg.0, call OnMethodEnter.
LEMMA BooksEmitCallToManagedBridge ==
    ASSUME FiniteSetFacts, RInv, EmitCallToManagedBridge
    PROVE  Books'
<1>1. queue = <<>> /\ pc = "arg" /\ installed = FALSE /\ i >= desc.argCount
      /\ desc.argCount <= MaxArgs
  BY DEF EmitCallToManagedBridge, Phase, RInv, Books
<1>2. /\ desc \in Descs /\ desc.argCount \in Nat /\ i \in 0..desc.argCount
      /\ off \in Nat /\ stored \in Nat
  BY DescFields DEF RInv, TypeOK
<1>3. CASE Fail
  BY <1>3, FailBooks DEF EmitCallToManagedBridge, Fail, Phase
<1>4. CASE /\ queue' = <<Instr("ldstr", TokenInstrSize, NoKind), LdArg(0),
                         Instr("call", TokenInstrSize, NoKind)>>
           /\ pc' = "copy"
  <2>1. UNCHANGED <<desc, off, i, installed, stored>>
    BY DEF EmitCallToManagedBridge
  <2>2. off = Target(desc, "arg", i) /\ stored = SlotsTarget(desc, "arg", i)
    BY <1>1, EmptyQueueBooks
  <2>3. LdArg(0).op = "ldarg" /\ LdArg(0).size = LoadArgSize(0)
    BY DEF LdArg, Instr
  <2>4. Len(queue') = 3 /\ QSize(queue') = BridgeCost /\ QStores(queue') = 0
    BY <1>4, <2>3 DEF QSize, QAt, QStores, StAt, Instr, BridgeCost, TokenInstrSize,
       LoadArgSize
  <2>5. /\ Target(desc', pc', i') = Target(desc, "arg", i) + BridgeCost
        /\ SlotsTarget(desc', pc', i') = SlotsTarget(desc, "arg", i)
    <3>1. Abs!ArgsCostUpTo(desc, i) \in Int
      BY <1>2, ArgsCostInt
    <3>2. QED
      BY <1>4, <2>1, <3>1 DEF Target, SlotsTarget, ArrayCost, ThisCost, BridgeCost,
         LoadConstantI4Size, TokenInstrSize, StoreLocalSize, LoadArgSize,
         StoreElementRefSize
  <2>6. i = desc.argCount
    BY <1>1, <1>2
  <2>7. QED
    BY <1>1, <1>2, <1>4, <2>1, <2>2, <2>4, <2>5, <2>6 DEF RInv, Books, BridgeCost,
       TokenInstrSize, LoadArgSize
<1>5. QED
  BY <1>3, <1>4 DEF EmitCallToManagedBridge

\* CopyOriginalIL: the original body follows the prolog.
LEMMA BooksCopyOriginalIL ==
    ASSUME FiniteSetFacts, RInv, CopyOriginalIL
    PROVE  Books'
<1>1. queue = <<>> /\ pc = "copy" /\ installed = FALSE
  BY DEF CopyOriginalIL, Phase, RInv, Books
<1>2. /\ desc \in Descs /\ desc.codeSize \in Nat /\ i \in Nat
      /\ off \in Nat /\ stored \in Nat
  BY DescFields DEF RInv, TypeOK
<1>3. /\ off' = off + desc.codeSize /\ pc' = "set"
      /\ UNCHANGED <<desc, queue, i, installed, stored>>
  BY DEF CopyOriginalIL
<1>4. off = Target(desc, "copy", i) /\ stored = SlotsTarget(desc, "copy", i)
  BY <1>1, EmptyQueueBooks
<1>5. /\ Target(desc', pc', i') = Target(desc, "copy", i) + desc.codeSize
      /\ SlotsTarget(desc', pc', i') = SlotsTarget(desc, "copy", i)
  <2>1. Abs!ArgsCostUpTo(desc, i) \in Int
    BY <1>2, ArgsCostInt
  <2>2. QED
    BY <1>2, <1>3, <2>1 DEF Target, SlotsTarget, ArrayCost, ThisCost, BridgeCost,
       LoadConstantI4Size, TokenInstrSize, StoreLocalSize, LoadArgSize,
       StoreElementRefSize
<1>6. QED
  BY <1>1, <1>2, <1>3, <1>4, <1>5, QueueEmpty DEF RInv, Books

\* SetILFunctionBody ends the call, installed or not.
LEMMA BooksSetILFunctionBody ==
    ASSUME RInv, SetILFunctionBody
    PROVE  Books'
<1>1. /\ queue = <<>> /\ pc = "set" /\ pc' = "done" /\ queue' = <<>>
      /\ UNCHANGED <<desc, i, off, stored>>
  BY DEF SetILFunctionBody, Phase, Fail
<1>2. /\ off = Target(desc, "set", i) /\ stored = SlotsTarget(desc, "set", i)
      /\ i = desc.argCount /\ desc.argCount <= MaxArgs
  BY <1>1, EmptyQueueBooks DEF RInv, Books
<1>3. QED
  BY <1>1, <1>2 DEF RInv, Books

-----------------------------------------------------------------------------
(* RInv is an inductive invariant of Rewrite.                              *)

LEMMA RInvInit == Init => RInv
<1> SUFFICES ASSUME Init PROVE RInv
  OBVIOUS
<1>1. PInv /\ TypeOK
  BY TypeInit
<1>2. desc.nTypes \in Nat
  BY DescFields DEF Init
<1>3. Books
  BY <1>2, QueueEmpty DEF Init, Books, Target, SlotsTarget
<1>4. QED
  BY <1>1, <1>3 DEF RInv

LEMMA RInvStep ==
    ASSUME FiniteSetFacts
    PROVE  RInv /\ [Next]_vars => RInv'
<1> SUFFICES ASSUME RInv, [Next]_vars PROVE RInv'
  OBVIOUS
<1>1. PInv' /\ TypeOK'
  BY PInvStep, TypeStep DEF RInv
<1>2. Books'
  <2>1. CASE EmitNext
    BY <2>1, BooksEmitNext
  <2>2. CASE GetMetaData
    BY <2>2, BooksGetMetaData
  <2>3. CASE InsertProlog
    BY <2>3, BooksInsertProlog
  <2>4. CASE EmitLoadArgumentsBegin
    BY <2>4, BooksEmitLoadArgumentsBegin
  <2>5. CASE EmitArrayType
    BY <2>5, BooksEmitArrayType
  <2>6. CASE EmitThis
    BY <2>6, BooksEmitThis
  <2>7. CASE EmitArg
    BY <2>7, BooksEmitArg
  <2>8. CASE EmitCallToManagedBridge
    BY <2>8, BooksEmitCallToManagedBridge
  <2>9. CASE CopyOriginalIL
    BY <2>9, BooksCopyOriginalIL
  <2>10. CASE SetILFunctionBody
    BY <2>10, BooksSetILFunctionBody
  <2>11. CASE UNCHANGED vars
    BY <2>11 DEF vars, RInv, Books, QSize, QAt, QStores, StAt, Target, SlotsTarget
  <2>12. QED
    BY <2>1, <2>2, <2>3, <2>4, <2>5, <2>6, <2>7, <2>8, <2>9, <2>10, <2>11
    DEF Next
<1>3. QED
  BY <1>1, <1>2 DEF RInv

\* The body SetILFunctionBody receives holds one stelem.ref per argument
\* (and one for the receiver) and is exactly as long as the ECMA-335
\* encodings of its prolog plus the original body: every helper of
\* EmitLoadArguments and EmitCallToManagedBridge advanced the write cursor
\* by the length of what it emitted.
THEOREM InstalledComplete ==
    ASSUME FiniteSetFacts
    PROVE  Spec => []InstalledBodyComplete
<1>1. RInv => InstalledBodyComplete
  <2> SUFFICES ASSUME RInv, installed
               PROVE  /\ stored = desc.argCount + (IF desc.isStatic THEN 0 ELSE 1)
                      /\ off = PrologSize(desc) + desc.codeSize
    BY DEF InstalledBodyComplete
  <2>1. /\ i = desc.argCount /\ off = Target(desc, "set", i)
        /\ stored = SlotsTarget(desc, "set", i)
        /\ desc \in Descs /\ desc.argCount \in Nat
    BY DescFields DEF RInv, Books, TypeOK
  <2>2. Abs!PrologSize(desc) + desc.codeSize = Target(desc, "set", desc.argCount)
    BY <2>1, PrologSizeSum
  <2>3. QED
    BY <2>1, <2>2 DEF SlotsTarget, PrologSize
<1>2. QED
  BY <1>1, RInvInit, RInvStep, PTL DEF Spec

-----------------------------------------------------------------------------
(* The refinement: under the mapping of ILRewriter's Abs, a step of        *)
(* Rewrite that ends the call without installing is the contract's Fail,  *)
(* SetILFunctionBody's successful call is its Install, and every other     *)
(* step leaves the contract's state alone.                                 *)

\* No step of Rewrite changes the descriptor.
LEMMA DescStep == [Next]_vars => desc' = desc
BY DEF Next, vars, EmitNext, GetMetaData, InsertProlog, EmitLoadArgumentsBegin,
   EmitArrayType, EmitThis, EmitArg, EmitCallToManagedBridge, CopyOriginalIL,
   SetILFunctionBody

\* Once the call is over nothing moves.
LEMMA DoneStutters == pc = "done" /\ [Next]_vars => UNCHANGED vars
BY DEF Next, vars, EmitNext, GetMetaData, InsertProlog, EmitLoadArgumentsBegin,
   EmitArrayType, EmitThis, EmitArg, EmitCallToManagedBridge, CopyOriginalIL,
   SetILFunctionBody, Phase

LEMMA RefineInit == Init => Abs!Init
BY DEF Init, Abs!Init

LEMMA RefineStep ==
    ASSUME FiniteSetFacts, RInv, RInv', [Next]_vars
    PROVE  [Abs!Next]_Abs!avars
<1>1. desc' = desc
  BY DescStep
<1>2. CASE pc = "done"
  <2>1. UNCHANGED <<desc, pc, installed, off, stored>>
    BY <1>2, DoneStutters DEF vars
  <2>2. QED
    BY <2>1 DEF Abs!avars
<1>3. CASE pc # "done"
  <2>1. installed = FALSE
    BY <1>3 DEF RInv, Books
  <2>2. CASE pc' # "done"
    <3>1. installed' = FALSE
      BY <2>2 DEF RInv, Books
    <3>2. QED
      BY <1>1, <1>3, <2>1, <2>2, <3>1 DEF Abs!avars
  <2>3. CASE pc' = "done" /\ ~installed'
    BY <1>1, <1>3, <2>1, <2>3 DEF Abs!Next, Abs!Fail
  <2>4. CASE installed'
    <3>0. /\ i' = desc'.argCount /\ desc'.argCount <= MaxArgs /\ i' <= desc'.nTypes
          /\ off' = Target(desc', "set", i')
          /\ stored' = SlotsTarget(desc', "set", i')
      BY <2>4 DEF RInv, Books
    <3>1. /\ i' = desc.argCount /\ desc.argCount <= MaxArgs
          /\ off' = Target(desc, "set", desc.argCount)
          /\ stored' = SlotsTarget(desc, "set", desc.argCount)
          /\ i' <= desc.nTypes
      BY <1>1, <3>0 DEF Target, SlotsTarget
    <3>2. desc \in Descs /\ desc.argCount \in Nat /\ desc.nTypes \in Nat
      BY DescFields DEF RInv, TypeOK
    <3>3. Abs!Rewritable(desc)
      BY <3>1, <3>2 DEF Abs!Rewritable
    <3>4. /\ stored' = Abs!Slots(desc)
          /\ off' = Abs!PrologSize(desc) + desc.codeSize
      BY <3>1, <3>2, PrologSizeSum DEF SlotsTarget, Abs!Slots
    <3>5. Abs!Install
      BY <1>1, <1>3, <2>1, <2>4, <3>3, <3>4 DEF Abs!Install
    <3>6. QED
      BY <3>5 DEF Abs!Next
  <2>5. QED
    BY <2>2, <2>3, <2>4
<1>4. QED
  BY <1>2, <1>3

\* Rewrite implements its contract: its behaviours, seen through the
\* mapping of ILRewriter's Abs, are behaviours of RewriteAbstract.  The
\* host keeps the original body until SetILFunctionBody, which installs
\* the complete body only for a descriptor the contract calls rewritable.
THEOREM RewriteImplementsContract ==
    ASSUME FiniteSetFacts
    PROVE  Spec => RewriteRefines
<1>1. Spec => []RInv
  BY RInvInit, RInvStep, PTL DEF Spec
<1>2. QED
  BY <1>1, RefineInit, RefineStep, PTL DEF Spec, RewriteRefines, Abs!Spec
====
