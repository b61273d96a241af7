---------------------------- MODULE MC_ILRewriter ----------------------------
(* Descriptors for one Rewrite call each.  Padding and the argument limit *)
(* keep the values of il_rewriter.h, so that the overflow cases are the   *)
(* real ones: the prolog of a method with many value-type arguments        *)
(* outgrows the 512 bytes of padding.                                      *)
EXTENDS ILRewriter, TLC

Desc(static, vtThis, argc, ntypes, vt, code) ==
    [isStatic |-> static, isValueType |-> vtThis, argCount |-> argc,
     nTypes |-> ntypes, argVT |-> vt, codeSize |-> code]

AllVT(n) == [j \in 0..(n - 1) |-> TRUE]
NoVT(n)  == [j \in 0..(n - 1) |-> FALSE]

MCDescs ==
    { \* a static method without arguments
      Desc(TRUE, FALSE, 0, 0, NoVT(0), 10),
      \* an instance method without arguments
      Desc(FALSE, FALSE, 0, 0, NoVT(0), 6),
      \* an instance method of a value type (what FromFunctionInfo reports
      \* for every type) with a value-type and a reference argument
      Desc(FALSE, TRUE, 2, 2, (0 :> TRUE) @@ (1 :> FALSE), 10),
      \* the usual descriptor: argument types missing after signature parsing
      Desc(FALSE, TRUE, 2, 0, NoVT(0), 10),
      \* an instance method with five reference arguments (ldarg >= 4)
      Desc(FALSE, FALSE, 5, 5, NoVT(5), 8),
      \* many value-type arguments: the prolog outgrows buffer and padding
      Desc(TRUE, FALSE, 60, 60, AllVT(60), 1),
      \* the prolog fits the buffer but not the padding
      Desc(TRUE, FALSE, 52, 52, AllVT(52), 100),
      \* more arguments than the limit
      Desc(TRUE, FALSE, 1025, 0, NoVT(0), 4),
      \* more arguments than the limit, all typed, in a body long enough that
      \* the prolog would fit: only the limit check rejects it
      Desc(TRUE, FALSE, 1025, 1025, NoVT(1025), 8000) }
=============================================================================
