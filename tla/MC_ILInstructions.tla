------------------------- MODULE MC_ILInstructions -------------------------
(* Encoder calls for TLC.  Constants at the edges of the one-byte forms    *)
(* (-1, 0, 8, 9) and of int32; tokens of the tables the rewriter passes    *)
(* (TypeRef 0x01, TypeDef 0x02, MemberRef 0x0A); argument indexes at the   *)
(* edge of the ldarg.N forms (3, 4).                                        *)
EXTENDS ILInstructions, TLC

Call(e, a) == [enc |-> e, arg |-> a]

TypeRefTok   == 16777216 + 5        \* 0x01000005
TypeDefTok   == 2 * 16777216 + 3    \* 0x02000003
MemberRefTok == 10 * 16777216 + 7   \* 0x0A000007

\* The encoders whose output the JIT reads as meant.
SoundCalls ==
    { Call("LoadArg", 0), Call("LoadArg", 3), Call("StoreLocal", 0),
      Call("LoadConstantI4", -1), Call("LoadConstantI4", 0),
      Call("LoadConstantI4", 8), Call("LoadConstantI4", 9),
      Call("LoadConstantI4", 1024), Call("LoadConstantI4", IntMin),
      Call("LoadConstantI4", IntMax),
      Call("Box", TypeRefTok), Call("Box", TypeDefTok),
      Call("NewArray", TypeRefTok), Call("CallMethod", MemberRefTok),
      Call("StoreElementRef", 0) }

\* The other calls the prolog makes: the long forms of ldarg and stloc
\* (argument slot 4 and more) and the method-name string of
\* EmitCallToManagedBridge.
EmittedCalls ==
    SoundCalls \cup { Call("LoadArg", 4), Call("StoreLocal", 1), Call("LoadString", 0) }
=============================================================================
