----------------------------- MODULE ILRewriter -----------------------------
(***************************************************************************)
(* One call of ILRewriter::Rewrite (src/Aikido.Zen.Profiler/il_rewriter.h) *)
(* on one method descriptor, with the encoders of il_instructions.cpp.     *)
(*                                                                         *)
(* The rewriter emits the prolog instruction by instruction into ilBuffer  *)
(* (codeSize + DEFAULT_IL_BUFFER_PADDING bytes), copies the original body  *)
(* after it and hands the buffer to SetILFunctionBody.  Bytes are          *)
(* abstracted to sizes and instructions to their opcode and the kind of    *)
(* value they leave on the evaluation stack: what the JIT would see when   *)
(* it verifies the new body.  The phases (pc) enqueue the instructions a   *)
(* helper emits; EmitNext performs the memcpy + AdvanceIL of the head.      *)
(* Every metadata call may fail; a failure or a thrown exception ends      *)
(* Rewrite with an error (its catch block).                                *)
(***************************************************************************)
EXTENDS Integers, Sequences

CONSTANTS
    Descs,     \* MethodInfo descriptors handed to the rewriter
    Padding,   \* DEFAULT_IL_BUFFER_PADDING
    MaxArgs    \* the "Too many arguments" limit of EmitLoadArguments

ASSUME RewriterAssumption ==
    /\ Padding \in Nat
    /\ MaxArgs \in Nat
    /\ \A d \in Descs :
          /\ d.argCount \in Nat /\ d.nTypes \in Nat /\ d.codeSize \in Nat
          /\ d.isStatic \in BOOLEAN /\ d.isValueType \in BOOLEAN
          /\ d.argVT \in [0..(d.nTypes - 1) -> BOOLEAN]

VARIABLES
    desc,       \* methodInfo
    pc,         \* phase of Rewrite
    queue,      \* instructions a helper has produced and not yet copied
    off,        \* currentILOffset (newIL moves with it)
    i,          \* the argument loop counter of EmitLoadArguments
    result,     \* "none" while running, then "S_OK", "E_FAIL" or "crash"
    installed,  \* SetILFunctionBody accepted the buffer
    \* --- what the emitted bytes mean ---
    hiWrite,    \* one past the highest byte written through newIL
    prologHi,   \* the same, for the prolog emissions only
    stack,      \* the evaluation stack the emitted IL builds (kinds)
    local0,     \* kind stored in local 0
    stored,     \* stelem.ref instructions emitted
    probeArgs,  \* the stack operands of the call to OnMethodEnter
    verr,       \* ways the emitted IL is invalid
    objAsm,     \* assembly the System.Object reference was defined in
    netCore     \* the host runtime is .NET Core

vars == <<desc, pc, queue, off, i, result, installed, hiWrite, prologHi,
          stack, local0, stored, probeArgs, verr, objAsm, netCore>>

MaxInstrSize == 5    \* opcode + 4-byte token, the longest instruction emitted

BufSize == desc.codeSize + Padding   \* ilBuffer.resize(requiredSize)

-----------------------------------------------------------------------------
(* Encoders (il_instructions.cpp): the size of the bytes each one returns. *)

\* LoadArg: ldarg.0..ldarg.3 in one byte, else the two-byte opcode and a
\* two-byte index.
LoadArgSize(k) == IF k <= 3 THEN 1 ELSE 4

\* LoadConstantI4: ldc.i4.0..ldc.i4.8 in one byte, else ldc.i4 + int32.
LoadConstantI4Size(v) == IF 0 <= v /\ v <= 8 THEN 1 ELSE 5

\* StoreLocal: stloc.0 in one byte, else the two-byte opcode and index.
StoreLocalSize(k) == IF k = 0 THEN 1 ELSE 4

\* LoadString, CallMethod, Box, NewArray: opcode + token; StoreElementRef.
TokenInstrSize == 5
StoreElementRefSize == 1

Instr(op, size, arg) == [op |-> op, size |-> size, arg |-> arg]

\* The kind tag of an instruction that pushes no argument.
NoKind == "nokind"

\* The kind of the value ldarg k pushes.
ArgKind(k) ==
    LET j == IF desc.isStatic THEN k ELSE k - 1
        vt(b) == IF b THEN "val" ELSE "ref"
    IN IF ~desc.isStatic /\ k = 0 THEN vt(desc.isValueType)
       ELSE IF j \in DOMAIN desc.argVT THEN vt(desc.argVT[j])
       ELSE "none"

LdArg(k) == Instr("ldarg", LoadArgSize(k), ArgKind(k))
BoxIf(vt) == IF vt THEN <<Instr("box", TokenInstrSize, NoKind)>> ELSE <<>>
StElem == Instr("stelem", StoreElementRefSize, NoKind)

-----------------------------------------------------------------------------
(* What an instruction does to the evaluation stack (ECMA-335 III).       *)

\* pops n operands: the verifier rejects a body that pops an empty stack
Pop(st, n) == IF Len(st) >= n THEN SubSeq(st, 1, Len(st) - n) ELSE <<>>
Top(st, n) == IF Len(st) >= n THEN SubSeq(st, Len(st) - n + 1, Len(st)) ELSE st

Pops(ins) == CASE ins.op \in {"newarr", "stloc", "box"} -> 1
                [] ins.op = "stelem"                    -> 3
                [] ins.op = "call"                      -> 2
                [] OTHER                                -> 0

Pushes(ins) == CASE ins.op = "ldc"    -> <<"int">>
                 [] ins.op = "newarr" -> <<"arr">>
                 [] ins.op = "ldarg"  -> <<ins.arg>>
                 [] ins.op = "box"    -> <<"ref">>
                 [] ins.op = "ldstr"  -> <<"str">>
                 [] OTHER             -> <<>>

-----------------------------------------------------------------------------
Init ==
    /\ desc \in Descs
    /\ pc = "getmeta"
    /\ queue = <<>>
    /\ off = 0
    /\ i = 0
    /\ result = "none"
    /\ installed = FALSE
    /\ hiWrite = 0
    /\ prologHi = 0
    /\ stack = <<>>
    /\ local0 = "none"
    /\ stored = 0
    /\ probeArgs = <<>>
    /\ verr = {}
    /\ objAsm = "none"
    /\ netCore \in BOOLEAN

\* The catch block of Rewrite: an exception (or a failed HRESULT) ends the
\* call with an error and nothing installed.
Fail == /\ pc' = "done"
        /\ result' = "E_FAIL"
        /\ queue' = <<>>

\* The head instruction lands in the buffer: both cursors advance and the
\* instruction takes effect on the evaluation stack.
Advance(ins) ==
    /\ off' = off + ins.size
    /\ queue' = Tail(queue)
    /\ stack' = Pop(stack, Pops(ins)) \o Pushes(ins)
    /\ local0' = IF ins.op = "stloc" THEN Head(Top(stack, 1) \o <<"none">>) ELSE local0
    /\ stored' = IF ins.op = "stelem" THEN stored + 1 ELSE stored
    /\ probeArgs' = IF ins.op = "call" THEN Top(stack, 2) ELSE probeArgs
    /\ verr' = verr \cup (IF Len(stack) < Pops(ins) THEN {"underflow"} ELSE {})
                    \cup (IF ins.op = "locals" THEN {"badOpcode"} ELSE {})

\* Mutant: memcpy and advance without AdvanceIL's bounds check.
EmitNextUnchecked ==
    /\ pc # "done"
    /\ queue # <<>>
    /\ LET ins == Head(queue)
           end == off + ins.size
       IN /\ hiWrite' = IF end > hiWrite THEN end ELSE hiWrite
          /\ prologHi' = IF end > prologHi THEN end ELSE prologHi
          /\ Advance(ins)
    /\ UNCHANGED <<pc, result, desc, i, installed, objAsm, netCore>>

\* memcpy(newIL, il, size); AdvanceIL(size).  The copy happens before the
\* bounds check, which throws "IL buffer overflow".  The two EmitIL<> calls
\* of InsertProlog check first and write after.
EmitNext ==
    /\ pc # "done"
    /\ queue # <<>>
    /\ LET ins == Head(queue)
           end == off + ins.size
           written == IF ins.op \in {"locals", "token"} THEN end <= BufSize ELSE TRUE
       IN
       /\ hiWrite' = IF written /\ end > hiWrite THEN end ELSE hiWrite
       /\ prologHi' = IF written /\ end > prologHi THEN end ELSE prologHi
       /\ IF end > BufSize
          THEN /\ Fail
               /\ UNCHANGED <<off, stack, local0, stored, probeArgs, verr>>
          ELSE /\ Advance(ins)
               /\ UNCHANGED <<pc, result>>
    /\ UNCHANGED <<desc, i, installed, objAsm, netCore>>

\* A phase runs once the previous helper's instructions are all copied.
Phase(p) == pc = p /\ queue = <<>>

\* Rewrite: GetModuleMetaData(ofWrite, IID_IMetaDataEmit); currentILOffset = 0.
GetMetaData ==
    /\ Phase("getmeta")
    /\ \/ Fail
       \/ pc' = "locals" /\ UNCHANGED <<queue, result>>
    /\ UNCHANGED <<desc, off, i, installed, hiWrite, prologHi, stack, local0,
                   stored, probeArgs, verr, objAsm, netCore>>

\* InsertProlog: GetTokenFromSig on the local signature, then
\* EmitIL<BYTE>(CEE_LOCALS) and EmitIL<mdToken>(localVarSigToken).
InsertProlog ==
    /\ Phase("locals")
    /\ \/ Fail
       \/ /\ queue' = <<Instr("locals", 1, NoKind), Instr("token", 4, NoKind)>>
          /\ pc' = "loadargs"
          /\ UNCHANGED result
    /\ UNCHANGED <<desc, off, i, installed, hiWrite, prologHi, stack, local0,
                   stored, probeArgs, verr, objAsm, netCore>>

\* Mutant: the argCount limit check dropped.
EmitLoadArgumentsNoLimit ==
    /\ Phase("loadargs")
    /\ queue' = <<Instr("ldc", LoadConstantI4Size(desc.argCount), NoKind)>>
    /\ pc' = "arrtype"
    /\ UNCHANGED <<desc, off, i, result, installed, hiWrite, prologHi, stack,
                   local0, stored, probeArgs, verr, objAsm, netCore>>

\* EmitLoadArguments, up to the array's element type: the argCount limit,
\* then LoadConstantI4(argCount).
EmitLoadArgumentsBegin ==
    /\ Phase("loadargs")
    /\ \/ /\ desc.argCount > MaxArgs
          /\ Fail
       \/ /\ desc.argCount <= MaxArgs
          /\ queue' = <<Instr("ldc", LoadConstantI4Size(desc.argCount), NoKind)>>
          /\ pc' = "arrtype"
          /\ UNCHANGED result
    /\ UNCHANGED <<desc, off, i, installed, hiWrite, prologHi, stack, local0,
                   stored, probeArgs, verr, objAsm, netCore>>

\* QueryInterface(IMetaDataAssemblyEmit), DefineAssemblyRef(isNetCore ?
\* "System.Runtime" : "mscorlib"), DefineTypeRefByName("System.Object"),
\* then NewArray(objectTypeRef) and StoreLocal(0).  isNetCore comes from
\* DetectRuntimeStatic, whose detection body is missing: always FALSE.
DetectRuntimeStatic == FALSE

EmitArrayType ==
    /\ Phase("arrtype")
    /\ \/ Fail /\ UNCHANGED objAsm
       \/ /\ objAsm' = IF DetectRuntimeStatic THEN "System.Runtime" ELSE "mscorlib"
          /\ queue' = <<Instr("newarr", TokenInstrSize, NoKind),
                        Instr("stloc", StoreLocalSize(0), NoKind)>>
          /\ pc' = "this"
          /\ UNCHANGED result
    /\ UNCHANGED <<desc, off, i, installed, hiWrite, prologHi, stack, local0,
                   stored, probeArgs, verr, netCore>>

\* Mutant: the argument loop started at 1 for an instance method.
EmitThisLoopFromOne ==
    /\ Phase("this")
    /\ queue' = IF desc.isStatic THEN <<>>
                ELSE <<LdArg(0)>> \o BoxIf(desc.isValueType) \o <<StElem>>
    /\ pc' = "arg"
    /\ i' = IF desc.isStatic THEN 0 ELSE 1
    /\ UNCHANGED <<desc, off, result, installed, hiWrite, prologHi, stack,
                   local0, stored, probeArgs, verr, objAsm, netCore>>

\* if (!isStatic): LoadArg(0), Box(typeToken) for a value type, StoreElementRef.
EmitThis ==
    /\ Phase("this")
    /\ queue' = IF desc.isStatic THEN <<>>
                ELSE <<LdArg(0)>> \o BoxIf(desc.isValueType) \o <<StElem>>
    /\ pc' = "arg"
    /\ i' = 0
    /\ UNCHANGED <<desc, off, result, installed, hiWrite, prologHi, stack,
                   local0, stored, probeArgs, verr, objAsm, netCore>>

\* One iteration of the argument loop: the argTypes check, then LoadArg,
\* Box for a value type and StoreElementRef.
EmitArg ==
    /\ Phase("arg")
    /\ i < desc.argCount
    /\ \/ /\ i >= desc.nTypes
          /\ Fail
          /\ UNCHANGED i
       \/ /\ i < desc.nTypes
          /\ LET k == IF desc.isStatic THEN i ELSE i + 1
             IN queue' = <<LdArg(k)>> \o BoxIf(desc.argVT[i]) \o <<StElem>>
          /\ i' = i + 1
          /\ UNCHANGED <<pc, result>>
    /\ UNCHANGED <<desc, off, installed, hiWrite, prologHi, stack, local0,
                   stored, probeArgs, verr, objAsm, netCore>>

\* The loop has run argCount times: EmitCallToManagedBridge.  Its metadata
\* calls (QueryInterface, DefineAssemblyRef, DefineTypeRefByName,
\* DefineMemberRef) may fail; then LoadString(fullName), LoadArg(0),
\* CallMethod(OnMethodEnter).
EmitCallToManagedBridge ==
    /\ Phase("arg")
    /\ i >= desc.argCount
    /\ \/ Fail
       \/ /\ queue' = <<Instr("ldstr", TokenInstrSize, NoKind), LdArg(0),
                        Instr("call", TokenInstrSize, NoKind)>>
          /\ pc' = "copy"
          /\ UNCHANGED result
    /\ UNCHANGED <<desc, off, i, installed, hiWrite, prologHi, stack, local0,
                   stored, probeArgs, verr, objAsm, netCore>>

\* Mutant: the original body copied without moving newIL/currentILOffset.
CopyOriginalILNoAdvance ==
    /\ Phase("copy")
    /\ hiWrite' = IF off + desc.codeSize > hiWrite THEN off + desc.codeSize ELSE hiWrite
    /\ pc' = "set"
    /\ UNCHANGED <<desc, queue, off, i, result, installed, prologHi, stack,
                   local0, stored, probeArgs, verr, objAsm, netCore>>

\* CopyOriginalIL: memcpy(newIL, ilCode, codeSize) with no bounds check,
\* then both cursors advance.  InsertEpilog does nothing.
CopyOriginalIL ==
    /\ Phase("copy")
    /\ hiWrite' = IF off + desc.codeSize > hiWrite THEN off + desc.codeSize ELSE hiWrite
    /\ off' = off + desc.codeSize
    /\ pc' = "set"
    /\ UNCHANGED <<desc, queue, i, result, installed, prologHi, stack, local0,
                   stored, probeArgs, verr, objAsm, netCore>>

\* SetILFunctionBody(ilBuffer.data()); on failure return hr; on success
\* MemoryCopy(finalBuffer = nullptr, ...) dereferences null.
SetILFunctionBody ==
    /\ Phase("set")
    /\ \/ Fail /\ UNCHANGED installed
       \/ /\ installed' = TRUE
          /\ result' = "crash"
          /\ pc' = "done"
          /\ UNCHANGED queue
    /\ UNCHANGED <<desc, off, i, hiWrite, prologHi, stack, local0, stored,
                   probeArgs, verr, objAsm, netCore>>

Next ==
    \/ EmitNext
    \/ GetMetaData
    \/ InsertProlog
    \/ EmitLoadArgumentsBegin
    \/ EmitArrayType
    \/ EmitThis
    \/ EmitArg
    \/ EmitCallToManagedBridge
    \/ CopyOriginalIL
    \/ SetILFunctionBody

Spec == Init /\ [][Next]_vars

-----------------------------------------------------------------------------
(* The contract of Rewrite (RewriteAbstract): the host sees the original   *)
(* body until SetILFunctionBody accepts the buffer, then a body of          *)
(* stored array slots and off bytes.                                       *)
Abs == INSTANCE RewriteAbstract WITH
    aDesc  <- desc,
    status <- IF installed THEN "installed"
              ELSE IF pc = "done" THEN "failed" ELSE "running",
    body   <- IF installed THEN [slots |-> stored, len |-> off] ELSE "original"

PrologSize(d) == Abs!PrologSize(d)

-----------------------------------------------------------------------------
(* Properties. *)

TypeOK ==
    /\ desc \in Descs
    /\ pc \in {"getmeta", "locals", "loadargs", "arrtype", "this", "arg",
               "copy", "set", "done"}
    /\ off \in Nat /\ hiWrite \in Nat /\ prologHi \in Nat /\ stored \in Nat
    /\ i \in 0..desc.argCount
    /\ result \in {"none", "S_OK", "E_FAIL", "crash"}
    /\ installed \in BOOLEAN
    /\ verr \subseteq {"underflow", "badOpcode"}
    /\ objAsm \in {"none", "mscorlib", "System.Runtime"}
    /\ netCore \in BOOLEAN

\* The bounds check of AdvanceIL comes after the memcpy, so a prolog
\* emission can write past ilBuffer; but only by the one instruction whose
\* advance throws: the prolog never writes more than MaxInstrSize bytes
\* beyond the buffer, however many arguments the method has.
PrologOverrunBounded == prologHi <= BufSize + MaxInstrSize

\* The buffer handed to SetILFunctionBody holds the complete prolog (one
\* stelem.ref per argument and one for the instance) followed by the
\* whole original body, and its length is the reference prolog size plus
\* codeSize: no instruction's encoding length was miscounted.
InstalledBodyComplete ==
    installed =>
        /\ stored = desc.argCount + (IF desc.isStatic THEN 0 ELSE 1)
        /\ off = PrologSize(desc) + desc.codeSize

\* Rewrite implements its contract: it fails with the original body left
\* in place, or it installs a body with every argument slot and the whole
\* prolog, and only for a descriptor whose argument types are all known.
RewriteRefines == Abs!Spec

\* Nothing is written outside ilBuffer (memcpy of the prolog instructions
\* and of the original body).
BufferSafe == hiWrite <= BufSize

\* The emitted prolog never pops an empty evaluation stack.
StackBalanced == "underflow" \notin verr

\* The prolog contains only opcodes of ECMA-335.
ValidOpcodes == "badOpcode" \notin verr

=============================================================================
