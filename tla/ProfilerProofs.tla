--------------------------- MODULE ProfilerProofs ---------------------------
(* Proofs about Profiler for every value of its constants.                 *)
EXTENDS Profiler, TLAPS

USE ConstantsAssumption

\* The two registry operations keep the registry a map from assemblies to
\* sets of names.
LEMMA AddEntryType ==
    ASSUME NEW reg, DOMAIN reg \subseteq Assemblies,
           \A x \in DOMAIN reg : reg[x] \subseteq QNames,
           NEW a \in Assemblies, NEW n \in QNames
    PROVE  /\ DOMAIN AddEntry(reg, a, n) \subseteq Assemblies
           /\ \A x \in DOMAIN AddEntry(reg, a, n) : AddEntry(reg, a, n)[x] \subseteq QNames
           /\ \A x \in DOMAIN AddEntry(reg, a, n) : AddEntry(reg, a, n)[x] # {}
                  \/ (x \in DOMAIN reg /\ x # a /\ reg[x] = {})
BY DEF AddEntry

LEMMA RemoveEntryType ==
    ASSUME NEW reg, DOMAIN reg \subseteq Assemblies,
           \A x \in DOMAIN reg : reg[x] \subseteq QNames,
           NEW a, NEW n
    PROVE  /\ DOMAIN RemoveEntry(reg, a, n) \subseteq DOMAIN reg
           /\ \A x \in DOMAIN RemoveEntry(reg, a, n) :
                 /\ RemoveEntry(reg, a, n)[x] \subseteq reg[x]
                 /\ RemoveEntry(reg, a, n)[x] # {} \/ reg[x] = {}
BY DEF RemoveEntry

\* Every initial state is well typed.
LEMMA InitTypeOK == Init => TypeOK
<1>1. (CHOOSE t \in Targets : TRUE) \in Targets
  <2>1. PICK a \in Assemblies : TRUE OBVIOUS
  <2>2. PICK n \in QNames : TRUE OBVIOUS
  <2>3. <<a, n>> \in Targets BY DEF Targets
  <2>4. QED BY <2>3
<1>2. SUFFICES ASSUME Init PROVE TypeOK OBVIOUS
<1>3. ctarget \in [Callers -> Targets] BY <1>1, <1>2 DEF Init
<1>4. DOMAIN methodsToInstrument = {} BY <1>2 DEF Init
<1>5. /\ ccalls \in [Callers -> 0..MaxCalls]
      /\ cpc \in [Callers -> {"idle", "getinfo", "enum", "scan"}]
      /\ cinfo \in [Callers -> {"live", "null"}]
      /\ ctodo \in [Callers -> SUBSET Modules]
  BY <1>2 DEF Init
<1>6. /\ cbpc \in [Methods -> {"idle", "rewrite"}]
      /\ sawReg \in [Methods -> BOOLEAN]
      /\ extractFailed \in [Methods -> BOOLEAN]
      /\ skipped \subseteq Targets \X Methods
  BY <1>2 DEF Init
<1>7. QED BY <1>2, <1>3, <1>4, <1>5, <1>6 DEF Init, TypeOK

\* Type correctness.
THEOREM TypeCorrect == Spec => []TypeOK
<1>1. Init => TypeOK
  BY InitTypeOK
<1>2. TypeOK /\ [Next]_vars => TypeOK'
  <2> SUFFICES ASSUME TypeOK, [Next]_vars PROVE TypeOK'
    OBVIOUS
  <2>1. CASE Initialize
    BY <2>1 DEF Initialize, TypeOK, callerVars, histVars
  <2>2. CASE Shutdown
    BY <2>2 DEF Shutdown, TypeOK, callerVars, histVars
  <2>3. ASSUME NEW mod \in Modules, ModuleLoad(mod) PROVE TypeOK'
    BY <2>3 DEF ModuleLoad, TypeOK, profVars, callerVars, histVars
  <2>4. ASSUME NEW c \in Callers, NEW a \in Assemblies, NEW n \in QNames,
               RequestReJITBegin(c, a, n)
        PROVE TypeOK'
    <3>1. CASE instance
      <4>1. /\ DOMAIN AddEntry(methodsToInstrument, a, n) \subseteq Assemblies
            /\ \A x \in DOMAIN AddEntry(methodsToInstrument, a, n) :
                  AddEntry(methodsToInstrument, a, n)[x] \subseteq QNames
        BY AddEntryType DEF TypeOK
      <4>2. <<a, n>> \in Targets BY DEF Targets
      <4>3. QED BY <2>4, <3>1, <4>1, <4>2 DEF RequestReJITBegin, CallerIdle,
               TypeOK, hostVars
    <3>2. CASE ~instance
      BY <2>4, <3>2 DEF RequestReJITBegin, CallerIdle, TypeOK, hostVars
    <3>3. QED BY <3>1, <3>2
  <2>5. ASSUME NEW c \in Callers, NEW a \in Assemblies, NEW n \in QNames,
               RemoveMethodToInstrument(c, a, n)
        PROVE TypeOK'
    <3>1. CASE instance
      <4>1. /\ DOMAIN RemoveEntry(methodsToInstrument, a, n) \subseteq Assemblies
            /\ \A x \in DOMAIN RemoveEntry(methodsToInstrument, a, n) :
                  RemoveEntry(methodsToInstrument, a, n)[x] \subseteq QNames
        BY RemoveEntryType DEF TypeOK
      <4>2. <<a, n>> \in Targets BY DEF Targets
      <4>3. QED BY <2>5, <3>1, <4>1, <4>2 DEF RemoveMethodToInstrument,
               CallerIdle, TypeOK, hostVars
    <3>2. CASE ~instance
      BY <2>5, <3>2 DEF RemoveMethodToInstrument, CallerIdle, TypeOK, hostVars
    <3>3. QED BY <3>1, <3>2
  <2>6. ASSUME NEW c \in Callers, RequestReJITGetInfo(c) PROVE TypeOK'
    BY <2>6 DEF RequestReJITGetInfo, TypeOK, profVars, hostVars, histVars
  <2>7. ASSUME NEW c \in Callers, RequestReJITEnumModules(c) PROVE TypeOK'
    <3>1. ctarget[c] \in Targets BY DEF TypeOK
    <3>2. skipped' \subseteq Targets \X Methods
      BY <2>7, <3>1 DEF RequestReJITEnumModules, TypeOK
    <3>3. ctodo' \in [Callers -> SUBSET Modules]
      BY <2>7 DEF RequestReJITEnumModules, TypeOK
    <3>4. QED BY <2>7, <3>2, <3>3 DEF RequestReJITEnumModules, TypeOK, profVars,
             hostVars
  <2>8. ASSUME NEW c \in Callers, NEW mod \in Modules, RequestReJITForModule(c, mod)
        PROVE TypeOK'
    <3> DEFINE a == ctarget[c][1]
               n == ctarget[c][2]
               M == MatchingIn(mod, n)
    <3>1. M \subseteq Methods BY DEF MatchingIn
    <3>2. ctodo[c] \ {mod} \subseteq Modules BY DEF TypeOK
    <3>3. [ctodo EXCEPT ![c] = @ \ {mod}] \in [Callers -> SUBSET Modules]
      BY <3>2 DEF TypeOK
    <3>4. [cpc EXCEPT ![c] = "idle"] \in [Callers -> {"idle", "getinfo", "enum", "scan"}]
      BY DEF TypeOK
    <3>5. /\ rejitPending' \subseteq Methods
          /\ rejitIssued' \subseteq Methods
          /\ ctodo' \in [Callers -> SUBSET Modules]
          /\ cpc' \in [Callers -> {"idle", "getinfo", "enum", "scan"}]
          /\ crashed' \in BOOLEAN
          /\ skipped' \subseteq Targets \X Methods
      <4>0. ctarget[c] \in Targets BY DEF TypeOK
      <4>1. CASE profilerInfo = "null"
        BY <2>8, <4>1 DEF RequestReJITForModule, TypeOK
      <4>2. CASE profilerInfo = "live" /\ ~ModuleMatches(mod, a)
        BY <2>8, <4>2, <3>3 DEF RequestReJITForModule, ModuleDone, TypeOK
      <4>3. CASE profilerInfo = "live" /\ ModuleMatches(mod, a)
        BY <2>8, <4>3, <4>0, <3>1, <3>3, <3>4 DEF RequestReJITForModule, ModuleDone, TypeOK
      <4>4. QED BY <4>1, <4>2, <4>3 DEF TypeOK
    <3>6. QED BY <2>8, <3>5 DEF RequestReJITForModule, TypeOK, profVars
  <2>9. ASSUME NEW c \in Callers, RequestReJITEnd(c) PROVE TypeOK'
    BY <2>9 DEF RequestReJITEnd, TypeOK, profVars, hostVars
  <2>10. ASSUME NEW m \in Methods, JITCompilationStarted(m) PROVE TypeOK'
    BY <2>10 DEF JITCompilationStarted, CompileCheck, TypeOK, profVars, callerVars
  <2>11. ASSUME NEW m \in Methods, ReJITCompilationStarted(m) PROVE TypeOK'
    BY <2>11 DEF ReJITCompilationStarted, CompileCheck, TypeOK, profVars, callerVars
  <2>12. ASSUME NEW m \in Methods, InstrumentMethodRewrite(m) PROVE TypeOK'
    BY <2>12 DEF InstrumentMethodRewrite, TypeOK, profVars, callerVars, histVars
  <2>13. CASE UNCHANGED vars
    BY <2>13 DEF vars, TypeOK, profVars, hostVars, callerVars, histVars
  <2>14. QED
    BY <2>1, <2>2, <2>3, <2>4, <2>5, <2>6, <2>7, <2>8, <2>9, <2>10, <2>11,
       <2>12, <2>13 DEF Next
<1>3. QED BY <1>1, <1>2, PTL DEF Spec

\* The registry never holds an assembly entry with no method: the locked
\* insert of AddMethodToInstrument and the locked erase of
\* RemoveMethodToInstrument (which drops an emptied entry) keep every entry
\* non-empty, whatever the interleaving of callers.  The strengthening is the
\* type invariant: the lemmas about the two operations need the registry's
\* shape.
IInv == TypeOK /\ NoEmptyEntry

THEOREM RegistryNoEmptyEntry == Spec => []NoEmptyEntry
<1>1. Init => IInv
  BY InitTypeOK DEF Init, IInv, NoEmptyEntry
<1>2. IInv /\ [Next]_vars => NoEmptyEntry'
  <2> SUFFICES ASSUME IInv, [Next]_vars PROVE NoEmptyEntry'
    OBVIOUS
  <2>1. ASSUME NEW c \in Callers, NEW a \in Assemblies, NEW n \in QNames,
               RequestReJITBegin(c, a, n)
        PROVE NoEmptyEntry'
    <3>1. CASE instance
      <4>1. \A x \in DOMAIN AddEntry(methodsToInstrument, a, n) :
               AddEntry(methodsToInstrument, a, n)[x] # {}
               \/ (x \in DOMAIN methodsToInstrument /\ x # a
                   /\ methodsToInstrument[x] = {})
        BY AddEntryType DEF IInv, TypeOK
      <4>2. QED BY <2>1, <3>1, <4>1 DEF RequestReJITBegin, IInv, NoEmptyEntry
    <3>2. CASE ~instance
      BY <2>1, <3>2 DEF RequestReJITBegin, IInv, NoEmptyEntry
    <3>3. QED BY <3>1, <3>2
  <2>2. ASSUME NEW c \in Callers, NEW a \in Assemblies, NEW n \in QNames,
               RemoveMethodToInstrument(c, a, n)
        PROVE NoEmptyEntry'
    <3>1. CASE instance
      <4>1. /\ DOMAIN RemoveEntry(methodsToInstrument, a, n)
                 \subseteq DOMAIN methodsToInstrument
            /\ \A x \in DOMAIN RemoveEntry(methodsToInstrument, a, n) :
                  RemoveEntry(methodsToInstrument, a, n)[x] # {}
                  \/ methodsToInstrument[x] = {}
        BY RemoveEntryType DEF IInv, TypeOK
      <4>2. QED BY <2>2, <3>1, <4>1 DEF RemoveMethodToInstrument, IInv, NoEmptyEntry
    <3>2. CASE ~instance
      BY <2>2, <3>2 DEF RemoveMethodToInstrument, IInv, NoEmptyEntry
    <3>3. QED BY <3>1, <3>2
  <2>3. CASE UNCHANGED methodsToInstrument
    BY <2>3 DEF IInv, NoEmptyEntry
  <2>4. QED
    BY <2>1, <2>2, <2>3 DEF Next, vars, profVars, Initialize, Shutdown,
       ModuleLoad, RequestReJITGetInfo, RequestReJITEnumModules,
       RequestReJITForModule, RequestReJITEnd, JITCompilationStarted,
       ReJITCompilationStarted, InstrumentMethodRewrite
<1>3. QED BY <1>1, <1>2, TypeCorrect, PTL DEF Spec, IInv

-----------------------------------------------------------------------------
(* RequestReJITForModule tells the target's module by its scope name.  The *)
(* theorem below holds when no module carries, as scope name, the name of  *)
(* an assembly it does not belong to.  (Scope names that are file names    *)
(* satisfy this trivially; a module of assembly B whose scope name is "A"  *)
(* does not, and then RequestReJIT(A, n) asks for B's methods.)            *)
ScopeNamesAreAssemblyNames ==
    \A mod \in Modules : ModScope[mod] \in Assemblies => ModScope[mod] = ModAsm[mod]

\* A caller inside RequestReJIT works for a target that was requested.
CallersTargetRequested ==
    \A c \in Callers : cpc[c] # "idle" => ctarget[c] \in requested

TInv == CallersTargetRequested /\ RejitTargeted

\* The methods of a scanned module that match the target's name are methods
\* of the target, once the module's scope name is the target's assembly.
LEMMA MatchingInTarget ==
    ASSUME ScopeNamesAreAssemblyNames,
           NEW t \in Targets, NEW mod \in Modules, ModuleMatches(mod, t[1])
    PROVE  MatchingIn(mod, t[2]) \subseteq Matching(t)
<1>1. t[1] \in Assemblies
  BY DEF Targets
<1>2. ModAsm[mod] = t[1]
  BY <1>1 DEF ModuleMatches, ScopeNamesAreAssemblyNames
<1>3. QED
  BY <1>2 DEF MatchingIn, Matching

\* RequestReJIT asks the host to recompile only methods of an assembly and
\* with a name some caller requested (RejitTargeted), for every set of
\* modules, methods and callers whose scope names are assembly names only
\* where they are their own.  The module scan (RequestReJITForModule) runs
\* with the target the caller registered first, and issues requests only
\* after the scope name check.
THEOREM RejitOnlyRequested ==
    ASSUME ScopeNamesAreAssemblyNames
    PROVE  Spec => []RejitTargeted
<1>1. Init => TInv
  BY DEF Init, TInv, CallersTargetRequested, RejitTargeted
<1>2. TypeOK /\ TInv /\ [Next]_vars => TInv'
  <2> SUFFICES ASSUME TypeOK, TInv, [Next]_vars PROVE TInv'
    OBVIOUS
  <2>1. ASSUME NEW c \in Callers, NEW a \in Assemblies, NEW n \in QNames,
               RequestReJITBegin(c, a, n)
        PROVE TInv'
    BY <2>1 DEF RequestReJITBegin, CallerIdle, TInv, CallersTargetRequested,
       RejitTargeted, TypeOK
  <2>2. ASSUME NEW c \in Callers, NEW a \in Assemblies, NEW n \in QNames,
               RemoveMethodToInstrument(c, a, n)
        PROVE TInv'
    BY <2>2 DEF RemoveMethodToInstrument, TInv, CallersTargetRequested,
       RejitTargeted
  <2>3. ASSUME NEW c \in Callers, RequestReJITGetInfo(c) PROVE TInv'
    BY <2>3 DEF RequestReJITGetInfo, TInv, CallersTargetRequested,
       RejitTargeted, histVars, TypeOK
  <2>4. ASSUME NEW c \in Callers, RequestReJITEnumModules(c) PROVE TInv'
    BY <2>4 DEF RequestReJITEnumModules, TInv, CallersTargetRequested,
       RejitTargeted, TypeOK
  <2>5. ASSUME NEW c \in Callers, NEW mod \in Modules,
               RequestReJITForModule(c, mod)
        PROVE TInv'
    <3> DEFINE t == ctarget[c]
               M == MatchingIn(mod, t[2])
    <3>1. t \in Targets /\ t \in requested
      BY <2>5 DEF RequestReJITForModule, TInv, CallersTargetRequested, TypeOK
    <3>2. ModuleMatches(mod, t[1]) => M \subseteq Matching(t)
      BY <3>1, MatchingInTarget
    <3>3. rejitIssued' \subseteq rejitIssued \cup Matching(t)
      <4>1. CASE profilerInfo = "null"
        BY <2>5, <4>1 DEF RequestReJITForModule
      <4>2. CASE profilerInfo # "null" /\ ~ModuleMatches(mod, t[1])
        BY <2>5, <4>2 DEF RequestReJITForModule
      <4>3. CASE profilerInfo # "null" /\ ModuleMatches(mod, t[1])
        BY <2>5, <4>3, <3>2 DEF RequestReJITForModule
      <4>4. QED
        BY <4>1, <4>2, <4>3
    <3>4. UNCHANGED <<ctarget, requested>> /\ \A d \in Callers \ {c} : cpc'[d] = cpc[d]
      BY <2>5 DEF RequestReJITForModule, TypeOK
    <3>5. cpc'[c] # "idle" => cpc[c] # "idle"
      BY <2>5 DEF RequestReJITForModule, TypeOK
    <3>6. QED
      BY <3>1, <3>3, <3>4, <3>5 DEF TInv, CallersTargetRequested, RejitTargeted
  <2>6. ASSUME NEW c \in Callers, RequestReJITEnd(c) PROVE TInv'
    BY <2>6 DEF RequestReJITEnd, TInv, CallersTargetRequested, RejitTargeted,
       TypeOK
  <2>7. CASE UNCHANGED <<cpc, ctarget, requested, rejitIssued>>
    BY <2>7 DEF TInv, CallersTargetRequested, RejitTargeted
  <2>8. QED
    BY <2>1, <2>2, <2>3, <2>4, <2>5, <2>6, <2>7
    DEF Next, vars, callerVars, histVars, Initialize, Shutdown, ModuleLoad,
        JITCompilationStarted, ReJITCompilationStarted, InstrumentMethodRewrite
<1>3. TInv => RejitTargeted
  BY DEF TInv
<1>4. QED
  BY <1>1, <1>2, <1>3, TypeCorrect, PTL DEF Spec

-----------------------------------------------------------------------------
(* Covered: a method of an activated target is never compiled unseen.      *)

\* A method the model counts as handled for target t: ReJIT was asked for
\* it, a compile found it registered, its descriptor could not be read, or a
\* RequestReJIT of t passed over it on a failure it swallowed.
Handled(t, m) ==
    m \in rejitIssued \/ sawReg[m] \/ extractFailed[m] \/ <<t, m>> \in skipped

\* A target registered and not removed since is in the registry.
RegisteredStays ==
    \A t \in requested \ removed : ShouldInstrument(methodsToInstrument, t[1], t[2])

\* A method is compiled only once its module is loaded.
JittedLoaded == \A m \in jitted : MethMod[m] \in loaded

\* A caller scanning for a target that is still registered has handled
\* every compiled method of the target in a module the scope-name
\* comparison recognises, but for those of modules its snapshot has yet to
\* scan.
ScanCovers ==
    \A c \in Callers :
        cpc[c] = "scan" /\ ctarget[c] \notin removed =>
            \A m \in Matching(ctarget[c]) \cap jitted :
                MethMod[m] \in OwnScopeModules =>
                    Handled(ctarget[c], m) \/ MethMod[m] \in ctodo[c]

\* The strengthening of CoveredOwnScope: what a caller between its
\* registration and its return, and the JIT threads, have established.
CoverBooks ==
    /\ CallersTargetRequested
    /\ activated \subseteq requested
    /\ RegisteredStays
    /\ JittedLoaded
    /\ ScanCovers

\* The locked insert registers its target and keeps every other one.
LEMMA AddEntryKeeps ==
    ASSUME NEW reg, NEW a, NEW n, NEW x, NEW y
    PROVE  /\ ShouldInstrument(AddEntry(reg, a, n), a, n)
           /\ ShouldInstrument(reg, x, y) => ShouldInstrument(AddEntry(reg, a, n), x, y)
BY DEF AddEntry, ShouldInstrument

\* The locked erase (dropping an emptied entry) keeps every other target.
LEMMA RemoveEntryKeeps ==
    ASSUME NEW reg, NEW a, NEW n, NEW x, NEW y, <<x, y>> # <<a, n>>,
           ShouldInstrument(reg, x, y)
    PROVE  ShouldInstrument(RemoveEntry(reg, a, n), x, y)
<1>1. CASE x = a
  <2>1. y \in reg[a] \ {n} /\ a \in DOMAIN reg
    BY <1>1 DEF ShouldInstrument
  <2>2. QED BY <1>1, <2>1 DEF RemoveEntry, ShouldInstrument
<1>2. CASE x # a
  BY <1>2 DEF RemoveEntry, ShouldInstrument
<1>3. QED BY <1>1, <1>2

\* A compile-time check only ever adds to sawReg and extractFailed.
LEMMA CompileMonotone ==
    ASSUME TypeOK, NEW m0 \in Methods, CompileCheck(m0)
    PROVE  \A m \in Methods : /\ sawReg[m] => sawReg'[m]
                              /\ extractFailed[m] => extractFailed'[m]
BY DEF CompileCheck, TypeOK

\* A compile-time check of a method of a registered target either reads its
\* descriptor and finds it registered, or fails to read the descriptor.
LEMMA CompileHandles ==
    ASSUME TypeOK, NEW m0 \in Methods, CompileCheck(m0), NEW t \in Targets,
           m0 \in Matching(t), ShouldInstrument(methodsToInstrument, t[1], t[2])
    PROVE  sawReg'[m0] \/ extractFailed'[m0]
<1>1. ShouldInstrument(methodsToInstrument, ModAsm[MethMod[m0]], MethName[m0])
  BY DEF Matching
<1>2. QED BY <1>1 DEF CompileCheck, TypeOK

\* Handled only grows along a step that grows its four parts.
LEMMA HandledGrows ==
    ASSUME NEW t, NEW m, rejitIssued \subseteq rejitIssued', skipped \subseteq skipped',
           sawReg[m] => sawReg'[m], extractFailed[m] => extractFailed'[m],
           Handled(t, m)
    PROVE  Handled(t, m)'
BY DEF Handled

\* Steps that touch none of the registry, the callers' scan state, the
\* compiled methods or the history keep the strengthening and the property.
LEMMA CoverQuiet ==
    ASSUME CoverBooks, CoveredOwnScope, loaded \subseteq loaded',
           UNCHANGED <<methodsToInstrument, jitted, cpc, ctarget, ctodo, histVars>>
    PROVE  CoverBooks' /\ CoveredOwnScope'
BY DEF CoverBooks, CallersTargetRequested, RegisteredStays, JittedLoaded,
       ScanCovers, CoveredOwnScope, CoveredIn, Handled, histVars

\* RequestReJIT's locked insert registers the target before the caller
\* takes any snapshot, so the target counts as registered from then on.
LEMMA CoverBegin ==
    ASSUME TypeOK, CoverBooks, CoveredOwnScope, NEW c \in Callers,
           NEW a \in Assemblies, NEW n \in QNames, RequestReJITBegin(c, a, n)
    PROVE  CoverBooks' /\ CoveredOwnScope'
<1>1. CASE ~instance
  BY <1>1, CoverQuiet DEF RequestReJITBegin, CallerIdle, hostVars, histVars
<1>2. CASE instance
  <2>1. CallersTargetRequested'
    BY <1>2 DEF RequestReJITBegin, CallerIdle, CoverBooks, CallersTargetRequested, TypeOK
  <2>2. RegisteredStays'
    <3> SUFFICES ASSUME NEW t \in requested' \ removed'
                 PROVE  ShouldInstrument(methodsToInstrument', t[1], t[2])
      BY DEF RegisteredStays
    <3>1. CASE t = <<a, n>>
      BY <1>2, <3>1, AddEntryKeeps DEF RequestReJITBegin
    <3>2. CASE t # <<a, n>>
      <4>1. ShouldInstrument(methodsToInstrument, t[1], t[2])
        BY <1>2, <3>2 DEF RequestReJITBegin, CoverBooks, RegisteredStays
      <4>2. QED BY <1>2, <4>1, AddEntryKeeps DEF RequestReJITBegin
    <3>3. QED BY <3>1, <3>2
  <2>3. ScanCovers'
    <3>1. \A d \in Callers : cpc'[d] = "scan" => d # c /\ cpc[d] = "scan"
                                /\ ctarget'[d] = ctarget[d]
      BY <1>2 DEF RequestReJITBegin, TypeOK
    <3>2. QED
      BY <3>1 DEF RequestReJITBegin, CoverBooks, ScanCovers, Handled, hostVars
  <2>4. QED
    BY <2>1, <2>2, <2>3 DEF RequestReJITBegin, CoverBooks, JittedLoaded,
       CoveredOwnScope, CoveredIn, hostVars
<1>3. QED BY <1>1, <1>2

\* RemoveMethodToInstrument's locked erase keeps every other target, and
\* the removed target leaves the scope of ScanCovers and the property.
LEMMA CoverRemove ==
    ASSUME TypeOK, CoverBooks, CoveredOwnScope, NEW c \in Callers,
           NEW a \in Assemblies, NEW n \in QNames, RemoveMethodToInstrument(c, a, n)
    PROVE  CoverBooks' /\ CoveredOwnScope'
<1>1. CASE ~instance
  BY <1>1, CoverQuiet DEF RemoveMethodToInstrument, CallerIdle, hostVars, histVars
<1>2. CASE instance
  <2>1. RegisteredStays'
    <3> SUFFICES ASSUME NEW t \in requested' \ removed'
                 PROVE  ShouldInstrument(methodsToInstrument', t[1], t[2])
      BY DEF RegisteredStays
    <3>1. t \in requested \ removed /\ t # <<a, n>> /\ t = <<t[1], t[2]>>
      BY <1>2 DEF RemoveMethodToInstrument, TypeOK, Targets
    <3>2. ShouldInstrument(methodsToInstrument, t[1], t[2])
      BY <3>1 DEF CoverBooks, RegisteredStays
    <3>3. QED BY <1>2, <3>1, <3>2, RemoveEntryKeeps DEF RemoveMethodToInstrument
  <2>2. QED
    BY <1>2, <2>1 DEF RemoveMethodToInstrument, CoverBooks, CallersTargetRequested,
       JittedLoaded, ScanCovers, CoveredOwnScope, CoveredIn, Handled, hostVars
<1>3. QED BY <1>1, <1>2

\* Reading profilerInfo moves the caller on to enumeration or out.
LEMMA CoverGetInfo ==
    ASSUME TypeOK, CoverBooks, CoveredOwnScope, NEW c \in Callers,
           RequestReJITGetInfo(c)
    PROVE  CoverBooks' /\ CoveredOwnScope'
<1>1. /\ \A d \in Callers : cpc'[d] = "scan" => d # c /\ cpc[d] = "scan"
      /\ \A d \in Callers : cpc'[d] # "idle" => cpc[d] # "idle"
  BY DEF RequestReJITGetInfo, TypeOK
<1>2. QED
  BY <1>1 DEF RequestReJITGetInfo, CoverBooks, CallersTargetRequested,
     RegisteredStays, JittedLoaded, ScanCovers, CoveredOwnScope, CoveredIn,
     Handled, profVars, hostVars, histVars

\* The snapshot of the loaded modules holds the module of every method
\* compiled so far, unless the enumeration failed part way: the scan is
\* still to meet each module of the snapshot, and the methods of the
\* modules it lost are passed over for the caller's target.
LEMMA CoverEnum ==
    ASSUME TypeOK, CoverBooks, CoveredOwnScope, NEW c \in Callers,
           RequestReJITEnumModules(c)
    PROVE  CoverBooks' /\ CoveredOwnScope'
<1>1. /\ skipped \subseteq skipped'
      /\ UNCHANGED <<rejitIssued, sawReg, extractFailed, jitted, ctarget,
                     requested, activated, removed, methodsToInstrument, loaded>>
      /\ \A d \in Callers \ {c} : cpc'[d] = cpc[d] /\ ctodo'[d] = ctodo[d]
      /\ cpc'[c] \in {"scan", "idle"} /\ cpc[c] = "enum"
  BY DEF RequestReJITEnumModules, TypeOK, profVars, hostVars
<1>2. \A t, m : Handled(t, m) => Handled(t, m)'
  BY <1>1, HandledGrows
<1>3. ScanCovers'
  <2> SUFFICES ASSUME NEW d \in Callers, cpc'[d] = "scan", ctarget'[d] \notin removed',
                      NEW m \in Matching(ctarget'[d]) \cap jitted',
                      MethMod[m] \in OwnScopeModules
               PROVE  Handled(ctarget[d], m)' \/ MethMod[m] \in ctodo'[d]
    BY <1>1 DEF ScanCovers
  <2>1. CASE d = c
    <3>1. PICK snap \in SUBSET loaded :
             /\ ctodo'[c] = snap
             /\ skipped' = skipped \cup
                   ({ctarget[c]} \X {x \in Methods : MethMod[x] \in loaded \ snap})
      <4>1. cpc'[c] # "idle" BY <2>1
      <4>2. QED BY <4>1 DEF RequestReJITEnumModules, TypeOK
    <3>2. m \in Methods /\ MethMod[m] \in loaded
      BY <1>1 DEF Matching, CoverBooks, JittedLoaded
    <3>3. MethMod[m] \in snap \/ <<ctarget[c], m>> \in skipped'
      BY <3>1, <3>2
    <3>4. QED BY <1>1, <2>1, <3>1, <3>3 DEF Handled
  <2>2. CASE d # c
    BY <1>1, <1>2, <2>2 DEF CoverBooks, ScanCovers
  <2>3. QED BY <2>1, <2>2
<1>4. CoveredOwnScope'
  <2> SUFFICES ASSUME NEW t \in activated' \ removed', NEW m \in Matching(t),
                      MethMod[m] \in OwnScopeModules, m \in jitted'
               PROVE  Handled(t, m)'
    BY DEF CoveredOwnScope, CoveredIn, Handled
  <2>1. Handled(t, m) BY <1>1 DEF CoveredOwnScope, CoveredIn, Handled
  <2>2. QED BY <1>2, <2>1
<1>5. QED
  BY <1>1, <1>3, <1>4 DEF CoverBooks, CallersTargetRequested, RegisteredStays,
     JittedLoaded
\* A method of the target in a module whose scope name is its assembly's
\* name is in a module the scan recognises, and is one of its matches.
LEMMA OwnScopeMatches ==
    ASSUME NEW t, NEW m \in Methods, m \in Matching(t), MethMod[m] \in OwnScopeModules
    PROVE  /\ ModuleMatches(MethMod[m], t[1])
           /\ m \in MatchingIn(MethMod[m], t[2])
BY DEF OwnScopeModules, ModuleMatches, Matching, MatchingIn

\* One iteration of the module loop: a recognised module leaves the
\* caller's snapshot only after ReJIT was asked for each of its matching
\* methods or the method was passed over; the failing iterations end the
\* call without activation.
LEMMA CoverForModule ==
    ASSUME TypeOK, CoverBooks, CoveredOwnScope,
           NEW c \in Callers, NEW mod \in Modules, RequestReJITForModule(c, mod)
    PROVE  CoverBooks' /\ CoveredOwnScope'
<1>1. /\ rejitIssued \subseteq rejitIssued'
      /\ skipped \subseteq skipped'
      /\ UNCHANGED <<sawReg, extractFailed, jitted, ctarget, requested,
                     activated, removed, methodsToInstrument, loaded>>
      /\ \A d \in Callers \ {c} : cpc'[d] = cpc[d] /\ ctodo'[d] = ctodo[d]
      /\ cpc'[c] \in {cpc[c], "idle"}
  BY DEF RequestReJITForModule, ModuleDone, TypeOK, profVars
<1>2. \A t, m : Handled(t, m) => Handled(t, m)'
  BY <1>1, HandledGrows
<1>3. ScanCovers'
  <2> SUFFICES ASSUME NEW d \in Callers, cpc'[d] = "scan", ctarget'[d] \notin removed',
                      NEW m \in Matching(ctarget'[d]) \cap jitted',
                      MethMod[m] \in OwnScopeModules
               PROVE  Handled(ctarget[d], m)' \/ MethMod[m] \in ctodo'[d]
    BY <1>1 DEF ScanCovers
  <2>1. cpc[d] = "scan" /\ ctarget[d] \notin removed /\ m \in Matching(ctarget[d]) \cap jitted
    BY <1>1
  <2>2. Handled(ctarget[d], m) \/ MethMod[m] \in ctodo[d]
    BY <2>1 DEF CoverBooks, ScanCovers
  <2>3. m \in Methods /\ (Handled(ctarget[d], m) => Handled(ctarget[d], m)')
    BY <1>1, <1>2 DEF Matching, Handled
  <2>4. ctodo'[c] \in {ctodo[c], ctodo[c] \ {mod}}
    BY DEF RequestReJITForModule, ModuleDone, TypeOK
  <2>5. CASE d # c
    BY <1>1, <2>2, <2>3, <2>5
  <2>6. CASE d = c /\ MethMod[m] # mod
    BY <2>2, <2>3, <2>4, <2>6
  <2>7. CASE d = c /\ MethMod[m] = mod /\ ctodo'[c] = ctodo[c]
    BY <2>2, <2>3, <2>7
  <2>8. CASE d = c /\ MethMod[m] = mod /\ ctodo'[c] # ctodo[c]
    <3> DEFINE t == ctarget[c]
               M == MatchingIn(mod, t[2])
    <3>1. ModuleMatches(mod, t[1]) /\ m \in M
      BY <2>1, <2>3, <2>8, OwnScopeMatches
    <3>2. \E S \in SUBSET M : /\ rejitIssued' = rejitIssued \cup S
                              /\ skipped' = skipped \cup ({t} \X (M \ S))
      BY <2>8, <3>1 DEF RequestReJITForModule, ModuleDone
    <3>3. PICK S \in SUBSET M : /\ rejitIssued' = rejitIssued \cup S
                                /\ skipped' = skipped \cup ({t} \X (M \ S))
      BY <3>2
    <3>4. m \in rejitIssued' \/ <<t, m>> \in skipped'
      BY <3>1, <3>3
    <3>5. QED BY <1>1, <2>8, <3>4 DEF Handled
  <2>9. QED BY <2>5, <2>6, <2>7, <2>8
<1>4. CoveredOwnScope'
  <2> SUFFICES ASSUME NEW t \in activated' \ removed', NEW m \in Matching(t),
                      MethMod[m] \in OwnScopeModules, m \in jitted'
               PROVE  Handled(t, m)'
    BY DEF CoveredOwnScope, CoveredIn, Handled
  <2>1. Handled(t, m) BY <1>1 DEF CoveredOwnScope, CoveredIn, Handled
  <2>2. QED BY <1>2, <2>1
<1>5. QED
  BY <1>1, <1>3, <1>4 DEF CoverBooks, CallersTargetRequested, RegisteredStays,
     JittedLoaded

\* The call returns S_OK only with an empty snapshot: every compiled
\* method of the target in a recognised module is then handled.
LEMMA CoverEnd ==
    ASSUME TypeOK, CoverBooks, CoveredOwnScope, NEW c \in Callers, RequestReJITEnd(c)
    PROVE  CoverBooks' /\ CoveredOwnScope'
<1>1. ctarget[c] \in requested
  BY DEF RequestReJITEnd, CoverBooks, CallersTargetRequested
<1>2. ctarget[c] \notin removed =>
         \A m \in Matching(ctarget[c]) \cap jitted :
            MethMod[m] \in OwnScopeModules => Handled(ctarget[c], m)
  BY DEF RequestReJITEnd, CoverBooks, ScanCovers
<1>3. CoveredOwnScope'
  BY <1>2 DEF RequestReJITEnd, CoveredOwnScope, CoveredIn, Handled, hostVars
<1>4. /\ \A d \in Callers : cpc'[d] = "scan" => d # c /\ cpc[d] = "scan"
      /\ \A d \in Callers : cpc'[d] # "idle" => cpc[d] # "idle"
  BY DEF RequestReJITEnd, TypeOK
<1>5. QED
  BY <1>1, <1>3, <1>4 DEF RequestReJITEnd, CoverBooks, CallersTargetRequested,
     RegisteredStays, JittedLoaded, ScanCovers, Handled, profVars, hostVars

\* A first compilation of a method of a still registered target finds it
\* registered (or cannot read its descriptor): compiled methods that no
\* snapshot met are handled at compile time.
LEMMA CoverJIT ==
    ASSUME TypeOK, CoverBooks, CoveredOwnScope, NEW m0 \in Methods,
           JITCompilationStarted(m0)
    PROVE  CoverBooks' /\ CoveredOwnScope'
<1>1. /\ \A t : \A m \in Methods : Handled(t, m) => Handled(t, m)'
      /\ UNCHANGED <<methodsToInstrument, loaded, cpc, ctarget, ctodo, requested,
                     activated, removed>>
      /\ jitted' = jitted \cup {m0} /\ MethMod[m0] \in loaded
  <2>1. \A m \in Methods : /\ sawReg[m] => sawReg'[m]
                           /\ extractFailed[m] => extractFailed'[m]
    BY CompileMonotone DEF JITCompilationStarted
  <2>2. UNCHANGED <<rejitIssued, skipped>>
    BY DEF JITCompilationStarted
  <2>3. QED BY <2>1, <2>2, HandledGrows DEF JITCompilationStarted, profVars, callerVars
<1>2. ASSUME NEW t \in requested \ removed, m0 \in Matching(t) PROVE Handled(t, m0)'
  <2>1. t \in Targets /\ ShouldInstrument(methodsToInstrument, t[1], t[2])
    BY DEF TypeOK, CoverBooks, RegisteredStays
  <2>2. QED BY <1>2, <2>1, CompileHandles DEF JITCompilationStarted, Handled
<1>3. ScanCovers'
  <2> SUFFICES ASSUME NEW d \in Callers, cpc'[d] = "scan", ctarget'[d] \notin removed',
                      NEW m \in Matching(ctarget'[d]) \cap jitted',
                      MethMod[m] \in OwnScopeModules
               PROVE  Handled(ctarget[d], m)' \/ MethMod[m] \in ctodo'[d]
    BY <1>1 DEF ScanCovers
  <2>1. m \in Methods BY DEF Matching
  <2>2. CASE m = m0
    BY <1>1, <1>2, <2>2 DEF CoverBooks, CallersTargetRequested
  <2>3. CASE m # m0
    BY <1>1, <2>1, <2>3 DEF CoverBooks, ScanCovers, Handled
  <2>4. QED BY <2>2, <2>3
<1>4. CoveredOwnScope'
  <2> SUFFICES ASSUME NEW t \in activated' \ removed', NEW m \in Matching(t),
                      MethMod[m] \in OwnScopeModules, m \in jitted'
               PROVE  Handled(t, m)'
    BY DEF CoveredOwnScope, CoveredIn, Handled
  <2>1. m \in Methods BY DEF Matching
  <2>2. CASE m = m0
    BY <1>1, <1>2, <2>2 DEF CoverBooks
  <2>3. CASE m # m0
    BY <1>1, <2>1, <2>3 DEF CoveredOwnScope, CoveredIn, Handled
  <2>4. QED BY <2>2, <2>3
<1>5. QED
  BY <1>1, <1>3, <1>4 DEF CoverBooks, CallersTargetRequested, RegisteredStays,
     JittedLoaded

\* A recompilation only adds to what is handled.
LEMMA CoverReJIT ==
    ASSUME TypeOK, CoverBooks, CoveredOwnScope, NEW m0 \in Methods,
           ReJITCompilationStarted(m0)
    PROVE  CoverBooks' /\ CoveredOwnScope'
<1>1. \A m \in Methods : /\ sawReg[m] => sawReg'[m]
                         /\ extractFailed[m] => extractFailed'[m]
  BY CompileMonotone DEF ReJITCompilationStarted
<1>2. \A t : \A m \in Methods : Handled(t, m) => Handled(t, m)'
  <2>1. UNCHANGED <<rejitIssued, skipped>>
    BY DEF ReJITCompilationStarted
  <2>2. QED BY <1>1, <2>1, HandledGrows
<1>3. UNCHANGED <<methodsToInstrument, loaded, jitted, cpc, ctarget, ctodo,
                 requested, activated, removed>>
  BY DEF ReJITCompilationStarted, profVars, callerVars
<1>4. ScanCovers'
  BY <1>2, <1>3 DEF CoverBooks, ScanCovers, Matching, Handled
<1>5. CoveredOwnScope'
  <2> SUFFICES ASSUME NEW t \in activated' \ removed', NEW m \in Matching(t),
                      MethMod[m] \in OwnScopeModules, m \in jitted'
               PROVE  Handled(t, m)'
    BY DEF CoveredOwnScope, CoveredIn, Handled
  <2>1. m \in Methods /\ Handled(t, m)
    BY <1>3 DEF Matching, CoveredOwnScope, CoveredIn, Handled
  <2>2. QED BY <1>2, <2>1
<1>6. QED
  BY <1>3, <1>4, <1>5 DEF CoverBooks, CallersTargetRequested, RegisteredStays,
     JittedLoaded

\* Every step of the system keeps the strengthening and the property.
LEMMA CoverStep ==
    ASSUME TypeOK, CoverBooks, CoveredOwnScope, [Next]_vars
    PROVE  CoverBooks' /\ CoveredOwnScope'
<1>1. CASE Initialize
  BY <1>1, CoverQuiet DEF Initialize, callerVars, histVars
<1>2. CASE Shutdown
  BY <1>2, CoverQuiet DEF Shutdown, callerVars, histVars
<1>3. ASSUME NEW mod \in Modules, ModuleLoad(mod)
      PROVE CoverBooks' /\ CoveredOwnScope'
  BY <1>3, CoverQuiet DEF ModuleLoad, profVars, callerVars, histVars
<1>4. ASSUME NEW m \in Methods, InstrumentMethodRewrite(m)
      PROVE CoverBooks' /\ CoveredOwnScope'
  BY <1>4, CoverQuiet DEF InstrumentMethodRewrite, profVars, callerVars
<1>5. CASE UNCHANGED vars
  BY <1>5, CoverQuiet DEF vars, profVars, hostVars, callerVars
<1>6. QED
  BY <1>1, <1>2, <1>3, <1>4, <1>5, CoverBegin, CoverRemove, CoverGetInfo,
     CoverEnum, CoverForModule, CoverEnd, CoverJIT, CoverReJIT DEF Next

\* Once RequestReJIT(a, n) has returned S_OK, and until the target is
\* removed, no method of assembly a named n in a module whose scope name is
\* a is compiled without the profiler having asked for its recompilation,
\* seen it registered, failed to read its descriptor, or passed over it on
\* a failure RequestReJIT swallowed: for every set of modules, methods and
\* callers, whatever the other modules' scope names.  The argument is the
\* order inside RequestReJIT: the locked insert comes before the snapshot
\* of the loaded modules, so a method compiled before the snapshot is in a
\* module the scan meets (or one a failed enumeration lost, and then
\* passed over), and one compiled after the insert finds its target in
\* the registry.
THEOREM CoveredHolds == Spec => []CoveredOwnScope
<1>1. Init => CoverBooks /\ CoveredOwnScope
  BY DEF Init, CoverBooks, CallersTargetRequested, RegisteredStays, JittedLoaded,
     ScanCovers, CoveredOwnScope, CoveredIn
<1>2. TypeOK /\ CoverBooks /\ CoveredOwnScope /\ [Next]_vars
         => CoverBooks' /\ CoveredOwnScope'
  BY CoverStep
<1>3. QED
  BY <1>1, <1>2, TypeCorrect, PTL DEF Spec

-----------------------------------------------------------------------------
(* The registry changes only through the exports. *)

\* The locked insert makes no target registered but the one it inserts.
LEMMA AddEntryOnly ==
    ASSUME NEW reg, NEW a, NEW n, NEW x, NEW y,
           ShouldInstrument(AddEntry(reg, a, n), x, y)
    PROVE  ShouldInstrument(reg, x, y) \/ <<x, y>> = <<a, n>>
BY DEF AddEntry, ShouldInstrument

\* The locked erase registers nothing.
LEMMA RemoveEntryOnly ==
    ASSUME NEW reg, NEW a, NEW n, NEW x, NEW y,
           ShouldInstrument(RemoveEntry(reg, a, n), x, y)
    PROVE  ShouldInstrument(reg, x, y)
BY DEF RemoveEntry, ShouldInstrument

\* The body of RegistryChangesOnlyByExports, for one step.
RegistryStep ==
    \A t \in Targets :
         /\ ~Registered(t) /\ Registered(t)' => t \in requested'
         /\ Registered(t) /\ ~Registered(t)' =>
               /\ t \in removed'
               /\ \A u \in Targets \ {t} : Registered(u) => Registered(u)'

\* A step that leaves the registry alone satisfies it.
LEMMA RegistryQuiet ==
    ASSUME methodsToInstrument' = methodsToInstrument
    PROVE  RegistryStep
BY DEF RegistryStep, Registered

\* RequestReJIT's locked insert registers its own target and nothing else.
LEMMA RegistryBegin ==
    ASSUME NEW c \in Callers, NEW a \in Assemblies, NEW n \in QNames,
           RequestReJITBegin(c, a, n)
    PROVE  RegistryStep
<1>1. CASE instance
  <2>1. methodsToInstrument' = AddEntry(methodsToInstrument, a, n)
        /\ requested' = requested \cup {<<a, n>>}
    BY <1>1 DEF RequestReJITBegin
  <2>2. SUFFICES ASSUME NEW t \in Targets
                 PROVE  /\ ~Registered(t) /\ Registered(t)' => t \in requested'
                        /\ ~(Registered(t) /\ ~Registered(t)')
    BY DEF RegistryStep
  <2>3. t = <<t[1], t[2]>> BY DEF Targets
  <2>4. ~Registered(t) /\ Registered(t)' => t \in requested'
    BY <2>1, <2>3, AddEntryOnly DEF Registered
  <2>5. Registered(t) => Registered(t)'
    BY <2>1, AddEntryKeeps DEF Registered
  <2>6. QED BY <2>4, <2>5
<1>2. CASE ~instance
  BY <1>2, RegistryQuiet DEF RequestReJITBegin
<1>3. QED BY <1>1, <1>2

\* The export's locked erase unregisters its own target and nothing else.
LEMMA RegistryRemove ==
    ASSUME NEW c \in Callers, NEW a \in Assemblies, NEW n \in QNames,
           RemoveMethodToInstrument(c, a, n)
    PROVE  RegistryStep
<1>1. CASE instance
  <2>1. methodsToInstrument' = RemoveEntry(methodsToInstrument, a, n)
        /\ removed' = removed \cup {<<a, n>>}
    BY <1>1 DEF RemoveMethodToInstrument
  <2>2. SUFFICES ASSUME NEW t \in Targets
                 PROVE  /\ ~(~Registered(t) /\ Registered(t)')
                        /\ Registered(t) /\ ~Registered(t)' =>
                              /\ t \in removed'
                              /\ \A u \in Targets \ {t} : Registered(u) => Registered(u)'
    BY DEF RegistryStep
  <2>3. \A u \in Targets : u = <<u[1], u[2]>> BY DEF Targets
  <2>4. Registered(t)' => Registered(t)
    BY <2>1, RemoveEntryOnly DEF Registered
  <2>5. \A u \in Targets : u # <<a, n>> /\ Registered(u) => Registered(u)'
    BY <2>1, <2>3, RemoveEntryKeeps DEF Registered
  <2>6. Registered(t) /\ ~Registered(t)' => t = <<a, n>>
    BY <2>5
  <2>7. QED BY <2>1, <2>4, <2>5, <2>6
<1>2. CASE ~instance
  BY <1>2, RegistryQuiet DEF RemoveMethodToInstrument
<1>3. QED BY <1>1, <1>2

\* The registry changes only in the two exports, one target per call: a
\* target appears only in a RequestReJIT of it and disappears only in a
\* RemoveMethodToInstrument of it, which keeps every other target, for
\* every set of assemblies, names and callers.  Every other action leaves
\* the registry as it is.
THEOREM RegistryExportsOnly == Spec => RegistryChangesOnlyByExports
<1>1. [Next]_vars => RegistryStep
  <2>1. CASE UNCHANGED vars
    BY <2>1, RegistryQuiet DEF vars, profVars
  <2>2. ASSUME NEW c \in Callers,
               \/ RequestReJITGetInfo(c) \/ RequestReJITEnumModules(c)
               \/ \E mod \in Modules : RequestReJITForModule(c, mod)
               \/ RequestReJITEnd(c)
        PROVE  RegistryStep
    BY <2>2, RegistryQuiet DEF RequestReJITGetInfo, RequestReJITEnumModules,
       RequestReJITForModule, RequestReJITEnd, profVars
  <2>3. ASSUME NEW m \in Methods,
               \/ JITCompilationStarted(m) \/ ReJITCompilationStarted(m)
               \/ InstrumentMethodRewrite(m)
        PROVE  RegistryStep
    BY <2>3, RegistryQuiet DEF JITCompilationStarted, ReJITCompilationStarted,
       InstrumentMethodRewrite, profVars
  <2>4. CASE Initialize \/ Shutdown \/ \E mod \in Modules : ModuleLoad(mod)
    BY <2>4, RegistryQuiet DEF Initialize, Shutdown, ModuleLoad, profVars
  <2>5. QED
    BY <2>1, <2>2, <2>3, <2>4, RegistryBegin, RegistryRemove DEF Next
<1>2. QED BY <1>1, PTL DEF Spec, RegistryChangesOnlyByExports, RegistryStep

=============================================================================
