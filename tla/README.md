# TLA+ models of the Aikido Zen .NET profiler

This directory holds the formal models of the native CLR profiler in
`src/Aikido.Zen.Profiler/`. They cover the instrumentation registry, the
retroactive activation export (`RequestReJIT`), the profiler lifecycle, the
JIT callbacks and the IL rewriter. Each model is translated from the C++
source. `PROJECT.json` maps every modelled definition to the lines it stands for.

## The system

| Part | Source | What it does |
|---|---|---|
| Registry | `aikido_profiler.h` 63-81, 217-233 | `methodsToInstrument`: assembly → set of `"Type.Method"`, under `configMutex` |
| Activation | `profiler_exports.cpp`, `aikido_profiler.h` 117-193, 235-268 | Registers a target, snapshots the loaded modules, scans each module's types and methods, and calls `RequestReJIT` on the matches |
| Lifecycle | `aikido_profiler.h` 196-211, 271-315 | Singleton `instance`; `Initialize` obtains `profilerInfo`; `Shutdown` releases and nulls it |
| Compile callbacks | `aikido_profiler.h` 83-107, 352-377 | `FromFunctionInfo`, the registry lookup, then `ILRewriter::Rewrite` |
| Descriptor extractor | `method_info.h` | Metadata lookups and signature parsing into a `MethodInfo` |
| IL rewriter | `il_rewriter.h` | Prolog (argument array, probe call) into `codeSize + 512` bytes, the original body copied after it, `SetILFunctionBody` |
| Encoders | `il_instructions.cpp`, `il_codes.h` | Byte encodings of ldarg, stloc, ldc.i4, box, newarr, ldstr, call and stelem.ref |
| Filter, platform, helpers | `instrumentation_filter.h`, `platform_*.h`, `metadata_helper.h` | Not used on any path, or stateless wrappers |

How the parts interact:

- Several managed threads call the exports while the host's JIT threads run
  the compile callbacks.
- The host may call `Shutdown` at any time. Threads already inside an export
  or a callback keep running.
- The only lock is `configMutex`, and it guards only the registry. Everything
  else (`profilerInfo`, the loaded-module list) is read without
  synchronisation.

## Modules

- **`Profiler.tla`** covers the registry, activation, lifecycle and
  callbacks. Its model values are:
  - `Assemblies`, `QNames`, `ScopeNames`, `Modules`, `Methods`, `Callers`;
  - the metadata as constant functions: the module's assembly, the module's
    scope name, each method's module, and each method's `Type.Method` name.

  The state is made of:
  - the profiler's fields: `methodsToInstrument` as a partial function whose
    DOMAIN is the keys present, `profilerInfo`, `isInitialized`,
    `isShuttingDown`, and `instance`;
  - the host's phase, loaded modules, JIT-ed methods and pending ReJIT
    requests;
  - per caller: a program counter and the locals of `RequestReJIT` (target,
    saved `info`, module snapshot);
  - the history the properties read, among it `skipped`: the pairs of a
    target and a method that a `RequestReJIT` of the target passed over on a
    failure it swallowed.

  `RequestReJIT` is split into one action per shared access:
  - `RequestReJITBegin`: the locked insert;
  - `RequestReJITGetInfo`: reading `profilerInfo`;
  - `RequestReJITEnumModules`: the snapshot, through the saved pointer;
  - `RequestReJITForModule`: one module of the loop;
  - `RequestReJITEnd`.

  Each locked section is one action, because it touches nothing else that
  is shared. Every host call may fail, and the model takes the path the code
  takes after it, which depends on the call:
  - `GetModuleMetaData`, `GetScopeProps` or a `RequestReJIT` fails: an
    early `return hr`, which ends the whole call, after the requests already
    issued for the module;
  - `GetTypeDefProps` or `GetMethodProps` fails: the type or method is
    skipped (`continue`);
  - `EnumTypeDefs` or `EnumMethods` fails: its loop ends;
  - the module enumerator's `Next` fails: the snapshot is cut short.

  The last three are swallowed: the module counts as done and the call
  still returns S_OK. `RequestReJITForModule` then requests only a subset
  `S` of the module's matches and records the others in `skipped`;
  `RequestReJITEnumModules` records the methods of the modules its
  snapshot lost. Spec section 4.6 allows this fail-silent scan.
  `CompileCheck` models `FromFunctionInfo` and `ShouldInstrumentMethod`. A
  failed lookup yields empty names, so the method is never eligible.
  `InstrumentMethodRewrite` has three outcomes:
  - any error: the body is left unchanged;
  - `profilerInfo` null after Shutdown: a null dereference;
  - a successful install: the null `MemoryCopy`.

  These are the outcomes `ILRewriter` reaches.
- **`ILRewriter.tla`** models one `Rewrite` call on one descriptor, with
  `Padding = 512` and `MaxArgs = 1024` as in the code.
  - **The phases.** The phases of `Rewrite` (`GetMetaData`, `InsertProlog`,
    `EmitLoadArgumentsBegin`, `EmitArrayType`, `EmitThis`, `EmitArg`,
    `EmitCallToManagedBridge`, `CopyOriginalIL`, `SetILFunctionBody`) put
    the instructions the code would emit into a queue.
  - **Emission.** `EmitNext` performs one `memcpy` + `AdvanceIL`: the bytes
    are written, and only then is the capacity checked. The two
    `EmitIL<>` calls check before they write. An exception or a failed
    HRESULT ends the call with an error (`Fail`, the catch block).
  - **Abstraction of the bytes.** Bytes become lengths, given by the
    encoders of `il_instructions.cpp`.
  - **What the emitted IL means.** Each instruction's effect on the
    evaluation stack is taken from ECMA-335 III. This gives the stack the
    JIT's verifier would see.
  - **The reference.** `PrologSize` sums the ECMA-335 instruction lengths
    over the prolog, independently of the step-wise emission.
  - **The contract.** `RewriteAbstract.tla` states what one rewrite promises
    `InstrumentMethod`. Either it fails and the host keeps the original body,
    or it installs a body with one argument-array slot per argument (plus the
    receiver) and a length equal to the ECMA-335 prolog length plus
    `codeSize`. Installing is allowed only when `argCount <= 1024` and every
    argument type is known. `ILRewriter` instantiates it with a refinement
    mapping: `status` is "installed" once `SetILFunctionBody` has succeeded,
    "failed" when the call ended without it, and "running" otherwise. The
    installed body is the stored slots and the final cursor. The property
    `RewriteRefines` is the abstract `Spec`.
- **`ILEncoders.tla`** models the encoders of `il_instructions.cpp` as the
  byte sequences they return. `Byte(x, k)` is `(BYTE)((x >> 8k) & 0xFF)`
  for a 32-bit int: a floor division by 2^8k, then mod 256. `Meaning(c)` is
  the instruction an encoder call stands for. `DecodeAt(s, p)` is an
  ECMA-335 decoder of the one instruction at `p`, over the opcodes near the
  emitted ones: the macro and short forms, ldc.i4.m1, the `FE`-prefixed
  long forms, and token operands checked by their table byte. The module
  has no state and no recursion, so the provers can reach it.
- **`ILInstructions.tla`** extends `ILEncoders`. A state is the code stream
  that a series of encoder calls builds (`code`), the instructions the
  calls stand for (`emitted`), and the offset at which each call's bytes
  begin (`starts`). `starts` is a history variable: the rewriter's cursor
  (`Len(code) + 1` before each memcpy, `il_rewriter.h` 109-111) recorded
  per call, and no action reads it. Recorded ops range over `EncodedOps`,
  the instructions an encoder call can stand for. `Decode` applies
  `DecodeAt` along the whole stream. It is a recursive function
  (`from[p \in Nat]`), not a RECURSIVE operator, so the provers can reach
  the module.
- **`EncoderRace.tla`** models one encoder's function-local static vector
  under several JIT threads. Its state is the vector's storage and size,
  and per thread the call it makes, its pushes, its `size` and the bytes its
  `memcpy` copied. The actions are `clear()`, each `push_back`, the
  `size`/`data()` return, and the caller's `memcpy`. Once the vector has
  grown, `clear()` keeps its storage, so a late `memcpy` reads whatever the
  storage holds at that moment.
- **`MC_Profiler.tla`**, **`MC_ILRewriter.tla`**, **`MC_ILInstructions.tla`**
  and **`MC_EncoderRace.tla`** instantiate the models for TLC.
- **`ProfilerProofs.tla`**, **`ILRewriterProofs.tla`** and
  **`ILEncodersProofs.tla`** hold the TLAPS proofs.

## Runs

| Run | Expect | What it shows |
|---|---|---|
| `profiler_core` | pass | `TypeOK`, `NoEmptyEntry`, `CoveredOwnScope`, `RejitTargeted` and `RegistryChangesOnlyByExports` hold for 2 callers × (2 assemblies, 2 names, 2 modules, 3 methods), with Initialize failure, Shutdown and swallowed scan failures at any point; M1's scope name is its assembly's, M2's is its file name (≈1.7M distinct states, about 1 min) |
| `profiler_crash_on_install` | violation | `NoCrash`: activation, then the first JIT of the method, then a successful install, then the null `MemoryCopy` |
| `profiler_stale_info` | violation | `NoStaleInfoUse`: `EnumModules` runs through the copy of `profilerInfo` that Shutdown released |
| `profiler_file_scope` | violation | `Covered`: once scope names are file names, a method compiled before activation is never recompiled |
| `rewriter_core` | pass | `TypeOK`, `PrologOverrunBounded` and `RewriteRefines` over 9 descriptor shapes |
| `encoders_core` | pass | `ECMARoundTrip` for every stream of up to 3 prolog encoder calls |
| `encoders_emitted_il` | violation | `ECMARoundTrip` once the long forms and `ldstr` are among the calls. `LoadArg(4)` is `09 FE 04 00`, which decodes as `ldloc.3` and then other bytes. `ldstr` carries token 0, which names no user string |
| `encoders_shared_buffer` | violation | `CopiedOwnEncoding`: a second thread's `clear()` of the encoder's static vector lands between the first thread's `push_back`s and its return, so the first copies fewer bytes than its instruction (none, or the tail without the opcode), even when both encode the same `box` |
| `rewriter_buffer_overrun` | violation | `BufferSafe`: the unchecked memcpy and `CopyOriginalIL` write past `ilBuffer` |
| `rewriter_stack` | violation | `StackBalanced`: `stelem.ref` without the array and the index |
| `rewriter_opcodes` | violation | `ValidOpcodes`: `CEE_LOCALS` (0xF0) in the code stream |

The properties of the passing runs:

- **`CoveredOwnScope`** is the activation guarantee. Once
  `RequestReJIT(a, n)` has returned S_OK and the target has not been
  removed, every matching method that has been JIT-compiled, in a module
  whose scope name is its assembly's name, was handled in one of four ways:
  - found eligible at compile time;
  - sent to ReJIT;
  - its descriptor failed to extract, the code's fail-closed path;
  - a failure the call swallowed passed over it (`skipped`).

  It depends on two things: the registry insert comes before the module
  snapshot, and every module in the snapshot is scanned while JIT callbacks
  race with the scan. `Covered` is the same statement for every module; it
  is what spec section 4.6 asks, and `profiler_file_scope` shows it fail
  for a module loaded from disk. The instance of `profiler_core` has one
  module of each kind, so the check runs beside modules the comparison does
  not recognise. Without the `skipped` excuse the property fails in 8
  states: `Next` fails at once and the call returns S_OK.
- **`RejitTargeted`**: ReJIT is requested only for methods of a requested
  target.
- **`PrologOverrunBounded`**: a prolog write overruns the buffer by at most
  one instruction, because `AdvanceIL` throws right after the write.
- **`RewriteRefines`**: one `Rewrite` call implements the abstract contract.
  It fails and leaves the body alone, or it installs a complete body only
  for a descriptor the contract allows. The mutant drops the 1024-argument
  check. With the 1025-argument descriptor whose prolog still fits, the
  mutant installs a body that the contract forbids.
- **`ECMARoundTrip`**: the decoder reads the encoded stream back as exactly
  the instructions that were asked for. This covers opcode byte order,
  operand widths, little-endian tokens and constants, and the short forms'
  ranges. The calls include ldc.i4 of -1, 8, 9, 1024 and the int32 extremes.
- **`RegistryChangesOnlyByExports`** (action property): a target joins
  `methodsToInstrument` only in a step that requests it. It leaves only in
  a step that removes it, and that step keeps every other registered target.
  The mutant erases the whole assembly entry on a removal.

Each of these properties is broken by the mutant listed in `PROJECT.json`.

**Bounds.**
- **Profiler.** Two callers are enough to interleave two activations, or an
  activation with a removal. Two modules of different assemblies, with a
  method name shared across them (F1 and F2 are both `N1`), make a wrong
  match visible. `MaxCalls = 1` per caller already lets every action
  interleave with every other.
- **Encoders.** Streams of 3 instructions put each encoding between two
  others, so a wrong length or byte order shows up in the instruction that
  follows. Two threads and one encoder are enough to reach the
  buffer race.
- **ILRewriter.** The bounds are the code's own constants. The descriptors
  include the ones that matter:
  - 52 and 60 value-type arguments, the sizes at which the 512-byte padding
    is outgrown;
  - 1025 arguments, above the 1024-argument cap, once with a code size that
    overruns the buffer and once with one that leaves room for the prolog;
  - 5 arguments, which takes the long form of `ldarg`;
  - an argument-type list shorter than `argCount`, which is what
    `FromFunctionInfo` usually produces.

**Deadlock and fairness.** `CHECK_DEADLOCK FALSE` is set because the system
really stops:
- the process dies after a crash;
- a failed Initialize leaves the profiler inert;
- after Shutdown nothing new is compiled;
- a `Rewrite` call returns.

**Fairness.** None is assumed: every property checked is a safety
property.

## Proofs (`ProfilerProofs.tla`, `ILRewriterProofs.tla`, `ILEncodersProofs.tla`, checked by `tlapm`)

Every theorem holds for every value of the constants allowed by the
module's `ASSUME` (`ConstantsAssumption`, `RewriterAssumption`,
`EncoderCallsAssumption`). Each safety
theorem has the same shape. An inductive invariant `I` holds initially and
is kept by every step (one proof step per action), and `I` implies the
property. The last step combines these with `PTL`. Each `I` was first
checked by TLC as an invariant of the run that checks the property.

### Profiler (`ProfilerProofs`)
- **Lemmas.** `AddEntryType` and `RemoveEntryType` give the types of what
  the two registry operations return. They also say that no non-empty set
  is emptied except by removing its last method. `AddEntryKeeps` and
  `RemoveEntryKeeps` say that the locked insert registers its target and
  keeps every other target, and that the locked erase keeps every target but
  its own. `CompileMonotone` and `CompileHandles` describe the
  compile-time check: it only adds to `sawReg` and `extractFailed`, and on
  a method of a registered target it sets one of the two.
- **`TypeCorrect`**: `Spec => []TypeOK`.
- **`RegistryNoEmptyEntry`**: `Spec => []NoEmptyEntry`. The inductive
  invariant is `TypeOK /\ NoEmptyEntry`; the lemmas need the registry's
  shape.
- **`RejitOnlyRequested`**: `Spec => []RejitTargeted`. It holds under the
  hypothesis `ScopeNamesAreAssemblyNames`: a module's scope name, if it is
  an assembly name, is its own assembly's name. The inductive invariant
  adds `CallersTargetRequested`: a caller past `Begin` holds a requested
  target.
- **`CoveredHolds`**: `Spec => []CoveredOwnScope`, with no hypothesis on
  the scope names: whatever the other modules are called, the modules the
  scope comparison recognises are covered. For modules loaded from disk,
  `profiler_file_scope` shows `Covered` fail.
  `CoveredOwnScope` is not inductive. It says nothing about a caller that is in the
  middle of its scan, and that caller's return is what adds a target to
  `activated`. The strengthening `CoverBooks` says five things:
  - a caller's target was requested;
  - activated targets were requested;
  - a requested, unremoved target is in the registry (`RegisteredStays`);
  - compiled methods belong to loaded modules (`JittedLoaded`);
  - for a caller in its scan whose target is unremoved, every compiled
    method of the target in a recognised module is handled (for that
    target: `skipped` is per target) or lies in a module still in its
    snapshot (`ScanCovers`).

  The argument follows the order inside `RequestReJIT`. The registry
  insert comes before the snapshot. So a method compiled before the
  snapshot is in a module the scan will meet. A method compiled after the
  insert finds its target registered. A snapshot cut short by a failed
  `Next` records the methods of the modules it lost in `skipped`. A scan
  iteration removes a recognised module from the snapshot only after
  issuing ReJIT for each of its matches or recording it in `skipped`.
  One lemma per action (`CoverBegin` ... `CoverReJIT`) carries this
  through `CoverStep`.
- **`RegistryExportsOnly`**: `Spec => RegistryChangesOnlyByExports`, the
  action property. `AddEntryOnly` and `RemoveEntryOnly` say what the
  locked insert and erase change in `ShouldInstrument`. One lemma per kind
  of step (`RegistryQuiet` for the steps that leave the registry alone,
  `RegistryBegin`, `RegistryRemove`) shows that every step of `Next` is a
  `RegistryStep`.

### ILRewriter (`ILRewriterProofs`)
- **`PrologOverrun`**: `Spec => []PrologOverrunBounded`, through the
  inductive invariant `PInv`. `PInv` adds the phase, a queue of well-formed
  instructions, and "the cursor is within the buffer whenever an
  instruction may still be written".
- **`RewriterTypeCorrect`**: `Spec => []TypeOK`, from `PInv /\ TypeOK`.
- **`InstalledComplete`**: `Spec => []InstalledBodyComplete` (a body that
  is handed over has one `stelem.ref` per argument, plus one for the
  receiver, and its length is `PrologSize` plus `codeSize`), through
  `RInv == PInv /\ TypeOK /\ Books`. `Books` is the bookkeeping of the
  phases. In every phase before the end, the bytes already copied (`off`)
  plus those of the queued instructions equal `Target`, the ECMA-335
  length of the prolog emitted up to that phase. The `stelem.ref`
  instructions copied plus those queued equal `SlotsTarget`, the array
  slots filled so far. Once the body is installed, `off` and `stored` are
  the totals of the last phase. An installed body is the result of
  `SetILFunctionBody`; without `Books` nothing ties it to what the phases
  emitted. The per-phase lemmas `Books...` and the sums
  `ArgsCostZero`, `ArgsCostStep` and `PrologSizeSum` carry it.
- **`RewriteImplementsContract`**: `Spec => RewriteRefines`, that is,
  `ILRewriter` implements `RewriteAbstract` under the refinement mapping.
  `RefineInit` maps initial states to initial states. `RefineStep` shows
  that every step, taken from `RInv` to `RInv`, is a step or a stutter of
  the contract.
- Both of these take the hypothesis `FiniteSetFacts`. It is five theorems
  of the library's `FiniteSetTheorems` about `{}`, intervals, subsets,
  `Cardinality`'s type and adding an element. They are stated as a
  hypothesis because that module reaches a RECURSIVE operator (through
  `Functions` and `Folds`), and the prover cannot use such modules.

### Encoders (`ILEncodersProofs`)
These are results about the operators, for every argument of each call's
C++ type. TLC tries only a handful of arguments.
- **`LE4RoundTrip`**: reading the four bytes `(x >> 8k) & 0xFF` back as a
  little-endian signed int32 gives `x`, for every 32-bit `x`.
- **`EncodeDecodes`**: for every `SoundCall` and every stream that begins
  with the call's bytes (`StartsWith`), `DecodeAt` reads the instruction
  the call stands for, with the length of its bytes. The sound calls are:
  - `LoadArg` of slots 0..3;
  - `StoreLocal(0)`;
  - `LoadConstantI4` of any int;
  - `Box`, `NewArray` and `CallMethod` of a token of a table the
    instruction accepts;
  - `StoreElementRef`.

  It rests on one theorem per encoder (`LoadConstantI4Decodes`,
  `BoxDecodes`, ...).
- **`LongLoadArgMisread`** and **`LongStoreLocalMisread`** prove the
  finding of `encoders_emitted_il` for every index. `LoadArg(i)` for any
  `i >= 4` is read as `ldloc.3`. `StoreLocal(i)` for any `i # 0` is read as
  `ldarg.s 254`. The two-byte opcode is pushed low byte first.
- **`StreamTypeCorrect`**: `Spec => []TypeOK` for `ILInstructions`, for
  every set of int32 calls allowed by `EncoderCallsAssumption`. It rests on
  `ByteRange` (the `& 0xFF` of each pushed byte), `EncodeBytes` and
  `MeaningType`.
- **`EncodeDecodesAt`**: a sound call's bytes, found at any offset `p` of
  any stream, decode there. `ShiftDecode` reduces decoding at `p` to
  decoding at 1 of the shifted stream (`Shifted`). `DecodeArmsAt` states
  every arm of `DecodeAt`'s CASE. `SoundFirstByte` shows that a sound call
  starts with an opcode of those arms.
- **`BoundariesHold`**: `Spec => []InstrAtBoundaries` (at the offset where
  each call's bytes begin, `DecodeAt` reads the instruction the call stands
  for, with a length that reaches the next offset), under the hypothesis
  that every call in `Calls` is sound. It is proved for every stream
  length. `InstrAtBoundaries` is not inductive, because it does not say
  that the bytes after an offset are still those of its call. The inductive
  invariant `BInv` says that:
  - `starts` has one offset per instruction, the first at 1, each within
    the stream;
  - the bytes from each offset to the next are the bytes of a call that
    stands for the recorded instruction.

  `BInvEmit` shows that appending a call keeps `BInv`: the earlier bytes
  and offsets are untouched, and the new offset points at the new bytes.
  `BInvBoundaries` derives the property through `EncodeDecodesAt`. The
  hypothesis is needed: with the long forms and `ldstr`, `ECMARoundTrip`
  fails (`encoders_emitted_il`).

### What stays with TLC
- `ECMARoundTrip`, the decoding of a whole stream, is stated with the
  recursive function of `DecodeFrom`. Proving it needs induction over the
  stream, and the library's induction theorems take an operator parameter
  that the installed provers cannot instantiate. `BoundariesHold` proves
  the property for each instruction at its offset. TLC checks that reading
  on from one boundary reaches the next, over whole streams.
- The violation runs show counterexamples; there is nothing to prove.

## Not modelled, and the plan

Not modelled yet:
- the byte-level signature parser;
- the ReJIT of an already rewritten body.

Each is listed as a hazard in `PROJECT.json`. The no-op callbacks, COM
reference counting and the platform wrappers hold no state that matters.

Next modules, in order:
1. **`SignatureParser.tla`**: `FromFunctionInfo`'s parser over small
   signature blobs, checked against a reference parser of ECMA-335 II.23.2.
2. **Composition**: `InstrumentMethodRewrite` instantiating `ILRewriter`.
