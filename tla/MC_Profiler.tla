---------------------------- MODULE MC_Profiler ----------------------------
(* Small instances of Profiler for TLC.  Two assemblies, each with one      *)
(* module; the name N1 exists in both assemblies (so a scan that ignored   *)
(* the assembly would request the wrong method), and A1 has a second name  *)
(* N2 (so an entry can hold two names and lose one).                       *)
EXTENDS Profiler, TLC

CONSTANTS A1, A2, N1, N2, M1, M2, F1, F2, F3, C1, C2, FileM1, FileM2

MCAssemblies == {A1, A2}
MCQNames     == {N1, N2}
MCModules    == {M1, M2}
MCMethods    == {F1, F2, F3}
MCCallers    == {C1, C2}
MCModAsm     == (M1 :> A1) @@ (M2 :> A2)
MCMethMod    == (F1 :> M1) @@ (F2 :> M2) @@ (F3 :> M1)
MCMethName   == (F1 :> N1) @@ (F2 :> N1) @@ (F3 :> N2)

\* Dynamic modules (AssemblyBuilder.DefineDynamicModule) may carry the
\* assembly's name as their scope name: the scan then finds them.
ScopeIsAssembly == MCModAsm
ScopeNamesAsm    == MCAssemblies
\* Modules loaded from disk carry their file name ("MyApp.Orders.dll").
ScopeIsFile      == (M1 :> FileM1) @@ (M2 :> FileM2)
ScopeNamesFile   == {FileM1, FileM2}
\* A process with both: M1 is dynamic and found by its assembly name, M2 is
\* loaded from disk.
ScopeMixed       == (M1 :> A1) @@ (M2 :> FileM2)
ScopeNamesMixed  == {A1, FileM2}

\* F1 has no parameters, so its prolog emission can finish; F2 and F3 have
\* parameters the descriptor extraction loses (ILRewriter throws).
MCRewritable == {F1, F2}

CallerSymmetry == Permutations(MCCallers)

=============================================================================
