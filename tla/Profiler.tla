------------------------------ MODULE Profiler ------------------------------
(***************************************************************************)
(* The AikidoProfiler singleton (src/Aikido.Zen.Profiler/aikido_profiler.h *)
(* and profiler_exports.cpp) together with the host runtime that drives it. *)
(*                                                                         *)
(* Threads:                                                                *)
(*  - managed callers c \in Callers invoke the exports RequestReJIT and    *)
(*    RemoveMethodToInstrument; RequestReJIT runs in several steps because *)
(*    it reads shared state (profilerInfo, the loaded modules) between     *)
(*    calls into the host;                                                 *)
(*  - the host's JIT threads run JITCompilationStarted and                 *)
(*    ReJITCompilationStarted, one callback in flight per method;          *)
(*  - the host itself calls Initialize and Shutdown and loads modules.     *)
(* The registry methodsToInstrument is guarded by configMutex, whose      *)
(* critical sections contain no other shared access: each locked section  *)
(* is one atomic step.  The rewrite itself (ILRewriter::Rewrite) is one    *)
(* step whose outcome is the set the ILRewriter module can reach.          *)
(***************************************************************************)
EXTENDS Naturals, FiniteSets

CONSTANTS
    Assemblies,   \* assembly names (GetAssemblyInfo)
    QNames,       \* "Type.Method" names (className + L"." + methodName)
    ScopeNames,   \* module names returned by GetScopeProps
    Modules,      \* ModuleIDs the host may load
    Methods,      \* methodDefs of those modules
    Callers,      \* managed threads calling the exports
    ModAsm,       \* [Modules -> Assemblies]: the assembly of a module
    ModScope,     \* [Modules -> ScopeNames]: the metadata scope name
    MethMod,      \* [Methods -> Modules]
    MethName,     \* [Methods -> QNames]
    Rewritable,   \* methods whose descriptor lets the prolog emission finish
    MaxCalls      \* exports each caller makes (bound of the model)

ASSUME ConstantsAssumption ==
    /\ Assemblies # {}
    /\ QNames # {}
    /\ ModAsm \in [Modules -> Assemblies]
    /\ ModScope \in [Modules -> ScopeNames]
    /\ MethMod \in [Methods -> Modules]
    /\ MethName \in [Methods -> QNames]
    /\ Rewritable \subseteq Methods
    /\ MaxCalls \in Nat

VARIABLES
    \* --- AikidoProfiler fields ---
    methodsToInstrument, \* map assembly -> set of "Type.Method"; DOMAIN = keys present
    profilerInfo,        \* "live" or "null"
    infoReleased,        \* Shutdown has called profilerInfo->Release()
    isInitialized,
    isShuttingDown,
    instance,            \* AikidoProfiler::GetInstance() # nullptr
    \* --- host runtime ---
    hostPhase,           \* "load", "running", "failed" (Initialize failed), "shutdown"
    loaded,              \* modules loaded so far
    jitted,              \* methods whose first JIT compilation has started
    rejitPending,        \* methods with a ReJIT request the host has not serviced
    crashed,             \* the process died (null dereference)
    \* --- managed callers (locals of RequestReJIT) ---
    cpc, ctarget, cinfo, ctodo, ccalls,
    \* --- JIT callbacks ---
    cbpc,
    \* --- history, for the properties ---
    rejitIssued,         \* methods RequestReJIT ever asked the host to recompile
    sawReg,              \* a compile-time check of the method found it registered
    extractFailed,       \* a compile-time descriptor extraction of it failed
    requested,           \* targets of RequestReJIT calls begun
    activated,           \* targets of RequestReJIT calls that returned S_OK
    removed,             \* targets ever passed to RemoveMethodToInstrument
    staleUse,            \* a released profilerInfo was used through a saved copy
    lateRegistration,    \* the registry was changed after Shutdown
    skipped              \* <<target, method>>: a RequestReJIT of target passed
                         \* over the method on a failure it swallowed

profVars   == <<methodsToInstrument, profilerInfo, infoReleased, isInitialized,
                isShuttingDown, instance>>
hostVars   == <<hostPhase, loaded, jitted, rejitPending, crashed>>
callerVars == <<cpc, ctarget, cinfo, ctodo, ccalls>>
histVars   == <<rejitIssued, sawReg, extractFailed, requested, activated,
                removed, staleUse, lateRegistration, skipped>>
vars == <<profVars, hostVars, callerVars, cbpc, histVars>>

Targets == Assemblies \X QNames

-----------------------------------------------------------------------------
(* Registry operations (the bodies of the configMutex critical sections). *)

(* Mutants: plausible slips in the code below, used to show that each     *)
(* property is able to notice the slip it guards against.                 *)

\* Erasing the whole assembly entry whatever is left in it (the emptiness
\* test before methodsToInstrument.erase(assemblyIt) left out).
RemoveEntryWholeAssembly(reg, a, n) ==
    IF a \in DOMAIN reg THEN [x \in DOMAIN reg \ {a} |-> reg[x]] ELSE reg

\* Registering the probe's full name "assembly!Type.Method" (GetFullName)
\* instead of "Type.Method".
AddEntryFullName(reg, a, n) ==
    [x \in DOMAIN reg \cup {a} |->
        IF x = a THEN (IF a \in DOMAIN reg THEN reg[a] ELSE {}) \cup {<<a, n>>}
                 ELSE reg[x]]

\* Erasing the method but forgetting to erase the emptied entry.
RemoveEntryKeepEmpty(reg, a, n) ==
    IF a \in DOMAIN reg THEN [reg EXCEPT ![a] = reg[a] \ {n}] ELSE reg

\* The method loop starting one past the first enumerated method.
MatchingInSkipFirst(mod, n) ==
    LET M == {m \in Methods : MethMod[m] = mod /\ MethName[m] = n}
    IN IF M = {} THEN M ELSE M \ {CHOOSE m \in M : TRUE}

\* The scope-name comparison left out.
ModuleMatchesAny(mod, a) == TRUE

\* methodsToInstrument[assemblyName].insert(methodName): operator[] creates
\* the entry when it is missing.
AddEntry(reg, a, n) ==
    [x \in DOMAIN reg \cup {a} |->
        IF x = a THEN (IF a \in DOMAIN reg THEN reg[a] ELSE {}) \cup {n}
                 ELSE reg[x]]

\* find; erase(methodName); erase the entry when its set became empty.
RemoveEntry(reg, a, n) ==
    IF a \in DOMAIN reg
    THEN IF reg[a] \ {n} = {}
         THEN [x \in DOMAIN reg \ {a} |-> reg[x]]
         ELSE [reg EXCEPT ![a] = reg[a] \ {n}]
    ELSE reg

\* ShouldInstrumentMethod: find(assemblyName), then find("Type.Method").
ShouldInstrument(reg, a, n) == a \in DOMAIN reg /\ n \in reg[a]

\* The methods of module mod that RequestReJITForModule asks to recompile:
\* every methodDef whose typeName + L"." + methodName equals the target.
MatchingIn(mod, n) == {m \in Methods : MethMod[m] = mod /\ MethName[m] = n}

\* RequestReJITForModule skips a module unless its scope name equals the
\* assembly name it was given.
ModuleMatches(mod, a) == ModScope[mod] = a

\* The methods a target denotes: those of the target assembly with that name.
Matching(t) == {m \in Methods : ModAsm[MethMod[m]] = t[1] /\ MethName[m] = t[2]}

-----------------------------------------------------------------------------
Init ==
    /\ methodsToInstrument = [x \in {} |-> {}]
    /\ profilerInfo = "null"
    /\ infoReleased = FALSE
    /\ isInitialized = FALSE
    /\ isShuttingDown = FALSE
    /\ instance = TRUE
    /\ hostPhase = "load"
    /\ loaded = {}
    /\ jitted = {}
    /\ rejitPending = {}
    /\ crashed = FALSE
    /\ cpc = [c \in Callers |-> "idle"]
    /\ ctarget = [c \in Callers |-> CHOOSE t \in Targets : TRUE]
    /\ cinfo = [c \in Callers |-> "null"]
    /\ ctodo = [c \in Callers |-> {}]
    /\ ccalls = [c \in Callers |-> 0]
    /\ cbpc = [m \in Methods |-> "idle"]
    /\ rejitIssued = {}
    /\ sawReg = [m \in Methods |-> FALSE]
    /\ extractFailed = [m \in Methods |-> FALSE]
    /\ requested = {}
    /\ activated = {}
    /\ removed = {}
    /\ staleUse = FALSE
    /\ lateRegistration = FALSE
    /\ skipped = {}

-----------------------------------------------------------------------------
(* Host lifecycle. *)

\* Initialize: QueryInterface(IID_ICorProfilerInfo4), then SetEventMask.
\* When either fails the host gives up on the profiler and releases it:
\* the destructor clears the singleton and releases profilerInfo.
Initialize ==
    /\ ~crashed
    /\ hostPhase = "load"
    /\ ~isInitialized
    /\ \/ /\ profilerInfo' = "live"
          /\ isInitialized' = TRUE
          /\ hostPhase' = "running"
          /\ UNCHANGED instance
       \/ /\ profilerInfo' = "null"
          /\ instance' = FALSE
          /\ hostPhase' = "failed"
          /\ UNCHANGED isInitialized
    /\ UNCHANGED <<methodsToInstrument, infoReleased, isShuttingDown, loaded, jitted, rejitPending,
                   crashed, callerVars, cbpc, histVars>>

\* Shutdown: isShuttingDown = true; profilerInfo->Release(); profilerInfo =
\* nullptr; isInitialized = false.  Managed threads and callbacks already in
\* flight keep running.
Shutdown ==
    /\ ~crashed
    /\ hostPhase = "running"
    /\ hostPhase' = "shutdown"
    /\ isShuttingDown' = TRUE
    /\ infoReleased' = (profilerInfo = "live")
    /\ profilerInfo' = "null"
    /\ isInitialized' = FALSE
    /\ UNCHANGED <<methodsToInstrument, instance, loaded, jitted, rejitPending,
                   crashed, callerVars, cbpc, histVars>>

\* The host loads a module (ModuleLoadFinished is a no-op in the profiler).
ModuleLoad(mod) ==
    /\ ~crashed
    /\ hostPhase = "running"
    /\ mod \notin loaded
    /\ loaded' = loaded \cup {mod}
    /\ UNCHANGED <<profVars, hostPhase, jitted, rejitPending, crashed,
                   callerVars, cbpc, histVars>>

-----------------------------------------------------------------------------
(* The exports, on managed caller threads. *)

CallerIdle(c) == /\ ~crashed
                 /\ hostPhase \in {"running", "failed", "shutdown"}
                 /\ cpc[c] = "idle"
                 /\ ccalls[c] < MaxCalls

\* Export RequestReJIT: GetInstance(); AddMethodToInstrument under the lock.
RequestReJITBegin(c, a, n) ==
    /\ CallerIdle(c)
    /\ ccalls' = [ccalls EXCEPT ![c] = @ + 1]
    /\ \/ /\ instance
          /\ methodsToInstrument' = AddEntry(methodsToInstrument, a, n)
          /\ cpc' = [cpc EXCEPT ![c] = "getinfo"]
          /\ ctarget' = [ctarget EXCEPT ![c] = <<a, n>>]
          /\ requested' = requested \cup {<<a, n>>}
          /\ lateRegistration' = (lateRegistration \/ isShuttingDown)
       \/ /\ ~instance
          /\ UNCHANGED <<methodsToInstrument, cpc, ctarget, requested,
                         lateRegistration>>
    /\ UNCHANGED <<profilerInfo, infoReleased, isInitialized, isShuttingDown,
                   instance, hostVars, cinfo, ctodo, cbpc, rejitIssued, sawReg,
                   extractFailed, activated, removed, staleUse, skipped>>

\* info = GetProfilerInfo(); if (!info) return E_FAIL.
RequestReJITGetInfo(c) ==
    /\ ~crashed
    /\ cpc[c] = "getinfo"
    /\ cinfo' = [cinfo EXCEPT ![c] = profilerInfo]
    /\ cpc' = [cpc EXCEPT ![c] = IF profilerInfo = "null" THEN "idle" ELSE "enum"]
    /\ UNCHANGED <<profVars, hostVars, ctarget, ctodo, ccalls, cbpc, histVars>>

\* info->EnumModules through the saved pointer (a failure returns hr), then
\* the Next loop.  A failed Next ends the loop like an exhausted enumerator,
\* so the snapshot keeps only the batches fetched before it (which modules
\* those are depends on the host's enumeration order) and the scan goes on
\* over them: the modules left out are passed over without an error.
RequestReJITEnumModules(c) ==
    /\ ~crashed
    /\ cpc[c] = "enum"
    /\ staleUse' = (staleUse \/ infoReleased)
    /\ \/ \E snap \in SUBSET loaded :
             /\ ctodo' = [ctodo EXCEPT ![c] = snap]
             /\ cpc' = [cpc EXCEPT ![c] = "scan"]
             /\ skipped' = skipped \cup
                   ({ctarget[c]} \X {m \in Methods : MethMod[m] \in loaded \ snap})
       \/ /\ cpc' = [cpc EXCEPT ![c] = "idle"]
          /\ UNCHANGED <<ctodo, skipped>>
    /\ UNCHANGED <<profVars, hostVars, ctarget, cinfo, ccalls, cbpc,
                   rejitIssued, sawReg, extractFailed, requested, activated,
                   removed, lateRegistration>>

\* for (ModuleID moduleId : modules): the loop moves on to the next module.
ModuleDone(c, mod) == ctodo' = [ctodo EXCEPT ![c] = @ \ {mod}]

\* One iteration of the module loop: RequestReJITForModule(mod, a, n).  It
\* dereferences the member profilerInfo (GetModuleMetaData), compares the
\* scope name, enumerates types and methods and calls
\* profilerInfo->RequestReJIT for each match.  A failure of GetModuleMetaData,
\* GetScopeProps or RequestReJIT makes RequestReJIT return hr at once.  A
\* failed GetTypeDefProps or GetMethodProps skips its type or method
\* (continue), and a failed EnumTypeDefs or EnumMethods ends its loop: the
\* module is then done with only some of the matches requested (S), and
\* the others passed over.
RequestReJITForModule(c, mod) ==
    /\ ~crashed
    /\ cpc[c] = "scan"
    /\ mod \in ctodo[c]
    /\ LET a == ctarget[c][1]
           n == ctarget[c][2]
           M == MatchingIn(mod, n)
       IN
       \/ /\ profilerInfo = "null"
          /\ crashed' = TRUE
          /\ UNCHANGED <<cpc, ctodo, rejitPending, rejitIssued, skipped>>
       \/ /\ profilerInfo = "live"
          /\ \/ /\ ~ModuleMatches(mod, a)
                /\ ModuleDone(c, mod)
                /\ UNCHANGED <<cpc, rejitPending, rejitIssued, skipped>>
             \/ /\ ModuleMatches(mod, a)
                /\ \E S \in SUBSET M :
                      /\ rejitPending' = rejitPending \cup S
                      /\ rejitIssued' = rejitIssued \cup S
                      /\ skipped' = skipped \cup ({ctarget[c]} \X (M \ S))
                /\ ModuleDone(c, mod)
                /\ UNCHANGED cpc
             \/ \* a lookup or a RequestReJIT fails, after the requests for
                \* some of the matches (in enumeration order) were issued
                /\ \E S \in SUBSET M :
                      /\ S = {} \/ (ModuleMatches(mod, a) /\ S # M)
                      /\ rejitPending' = rejitPending \cup S
                      /\ rejitIssued' = rejitIssued \cup S
                /\ cpc' = [cpc EXCEPT ![c] = "idle"]
                /\ UNCHANGED <<ctodo, skipped>>
          /\ UNCHANGED crashed
    /\ UNCHANGED <<profVars, hostPhase, loaded, jitted, ctarget, cinfo, ccalls,
                   cbpc, sawReg, extractFailed, requested, activated, removed,
                   staleUse, lateRegistration>>

\* Every module of the snapshot was scanned: return S_OK.
RequestReJITEnd(c) ==
    /\ ~crashed
    /\ cpc[c] = "scan"
    /\ ctodo[c] = {}
    /\ cpc' = [cpc EXCEPT ![c] = "idle"]
    /\ activated' = activated \cup {ctarget[c]}
    /\ UNCHANGED <<profVars, hostVars, ctarget, cinfo, ctodo, ccalls, cbpc,
                   rejitIssued, sawReg, extractFailed, requested, removed,
                   staleUse, lateRegistration, skipped>>

\* Export RemoveMethodToInstrument: GetInstance(); the locked erase.
RemoveMethodToInstrument(c, a, n) ==
    /\ CallerIdle(c)
    /\ ccalls' = [ccalls EXCEPT ![c] = @ + 1]
    /\ \/ /\ instance
          /\ methodsToInstrument' = RemoveEntry(methodsToInstrument, a, n)
          /\ removed' = removed \cup {<<a, n>>}
       \/ /\ ~instance
          /\ UNCHANGED <<methodsToInstrument, removed>>
    /\ UNCHANGED <<profilerInfo, infoReleased, isInitialized, isShuttingDown,
                   instance, hostVars, cpc, ctarget, cinfo, ctodo, cbpc,
                   rejitIssued, sawReg, extractFailed, requested, activated,
                   staleUse, lateRegistration, skipped>>

-----------------------------------------------------------------------------
(* Compile-time callbacks, on the host's JIT threads. *)

\* MethodInfo::FromFunctionInfo then InstrumentMethod's ShouldInstrumentMethod
\* (under the lock).  Any failed metadata lookup leaves the assembly, class
\* or method name empty, so the method is not found in the registry.
CompileCheck(m) ==
    \/ /\ extractFailed' = [extractFailed EXCEPT ![m] = TRUE]
       /\ UNCHANGED <<cbpc, sawReg>>
    \/ /\ LET eligible == ShouldInstrument(methodsToInstrument,
                                           ModAsm[MethMod[m]], MethName[m])
          IN /\ cbpc' = [cbpc EXCEPT ![m] = IF eligible THEN "rewrite" ELSE "idle"]
             /\ sawReg' = [sawReg EXCEPT ![m] = @ \/ eligible]
       /\ UNCHANGED extractFailed

\* JITCompilationStarted: the first compilation of a method of a loaded module.
JITCompilationStarted(m) ==
    /\ ~crashed
    /\ hostPhase = "running"
    /\ MethMod[m] \in loaded
    /\ m \notin jitted
    /\ cbpc[m] = "idle"
    /\ jitted' = jitted \cup {m}
    /\ CompileCheck(m)
    /\ UNCHANGED <<profVars, hostPhase, loaded, rejitPending, crashed,
                   callerVars, rejitIssued, requested, activated, removed,
                   staleUse, lateRegistration, skipped>>

\* ReJITCompilationStarted: the host services a pending ReJIT request.
ReJITCompilationStarted(m) ==
    /\ ~crashed
    /\ hostPhase = "running"
    /\ m \in rejitPending
    /\ cbpc[m] = "idle"
    /\ rejitPending' = rejitPending \ {m}
    /\ CompileCheck(m)
    /\ UNCHANGED <<profVars, hostPhase, loaded, jitted, crashed,
                   callerVars, rejitIssued, requested, activated, removed,
                   staleUse, lateRegistration, skipped>>

\* The rest of InstrumentMethod: profilerInfo->QueryInterface(IID_
\* ICorProfilerInfo7) through the member pointer, then ILRewriter::Rewrite.
\* Every failure (QueryInterface, GetModuleMetaData, an exception of the
\* prolog emission, SetILFunctionBody) returns an error and leaves the body.
\* When SetILFunctionBody succeeds, Rewrite copies the buffer to
\* finalBuffer, which is nullptr: the process dies.
InstrumentMethodRewrite(m) ==
    /\ ~crashed
    /\ cbpc[m] = "rewrite"
    /\ cbpc' = [cbpc EXCEPT ![m] = "idle"]
    /\ \/ /\ profilerInfo = "null"
          /\ crashed' = TRUE
       \/ /\ profilerInfo = "live"
          /\ UNCHANGED crashed
       \/ /\ profilerInfo = "live"
          /\ m \in Rewritable
          /\ crashed' = TRUE
    /\ UNCHANGED <<profVars, hostPhase, loaded, jitted, rejitPending,
                   callerVars, histVars>>

-----------------------------------------------------------------------------
Next ==
    \/ Initialize
    \/ Shutdown
    \/ \E mod \in Modules : ModuleLoad(mod)
    \/ \E c \in Callers :
          \/ \E a \in Assemblies, n \in QNames :
                \/ RequestReJITBegin(c, a, n)
                \/ RemoveMethodToInstrument(c, a, n)
          \/ RequestReJITGetInfo(c)
          \/ RequestReJITEnumModules(c)
          \/ \E mod \in Modules : RequestReJITForModule(c, mod)
          \/ RequestReJITEnd(c)
    \/ \E m \in Methods :
          \/ JITCompilationStarted(m)
          \/ ReJITCompilationStarted(m)
          \/ InstrumentMethodRewrite(m)

Spec == Init /\ [][Next]_vars

-----------------------------------------------------------------------------
(* Invariants. *)

\* Every variable has the type the code gives it.
TypeOK ==
    /\ DOMAIN methodsToInstrument \subseteq Assemblies
    /\ \A a \in DOMAIN methodsToInstrument : methodsToInstrument[a] \subseteq QNames
    /\ profilerInfo \in {"live", "null"}
    /\ infoReleased \in BOOLEAN
    /\ isInitialized \in BOOLEAN
    /\ isShuttingDown \in BOOLEAN
    /\ instance \in BOOLEAN
    /\ hostPhase \in {"load", "running", "failed", "shutdown"}
    /\ loaded \subseteq Modules
    /\ jitted \subseteq Methods
    /\ rejitPending \subseteq Methods
    /\ crashed \in BOOLEAN
    /\ cpc \in [Callers -> {"idle", "getinfo", "enum", "scan"}]
    /\ ctarget \in [Callers -> Targets]
    /\ cinfo \in [Callers -> {"live", "null"}]
    /\ ctodo \in [Callers -> SUBSET Modules]
    /\ ccalls \in [Callers -> 0..MaxCalls]
    /\ cbpc \in [Methods -> {"idle", "rewrite"}]
    /\ rejitIssued \subseteq Methods
    /\ sawReg \in [Methods -> BOOLEAN]
    /\ extractFailed \in [Methods -> BOOLEAN]
    /\ requested \subseteq Targets
    /\ activated \subseteq Targets
    /\ removed \subseteq Targets
    /\ staleUse \in BOOLEAN
    /\ lateRegistration \in BOOLEAN
    /\ skipped \subseteq Targets \X Methods

\* The data-model invariant of the registry: RemoveMethodToInstrument erases
\* an assembly's entry together with its last method, and AddMethodToInstrument
\* never leaves an empty set behind.
NoEmptyEntry ==
    \A a \in DOMAIN methodsToInstrument : methodsToInstrument[a] # {}

\* Retroactive activation misses nothing in the modules mods: once
\* RequestReJIT(a, n) has returned S_OK, and nobody removed the target,
\* every method of assembly a named n in one of mods that has been
\* JIT-compiled had a compile-time check that found it registered, or was
\* handed to the host for ReJIT, or went down one of the code's fail-silent
\* paths: its descriptor could not be read, or a lookup or enumerator
\* failure swallowed by a RequestReJIT of the target passed over it.
CoveredIn(mods) ==
    \A t \in activated \ removed :
        \A m \in Matching(t) :
            MethMod[m] \in mods /\ m \in jitted =>
                \/ m \in rejitIssued \/ sawReg[m] \/ extractFailed[m]
                \/ <<t, m>> \in skipped

\* Covered for every loaded module, as spec section 4.6 describes the scan:
\* every loaded container whose identity matches the target assembly.
Covered == CoveredIn(Modules)

\* The modules RequestReJITForModule can recognise: those whose metadata
\* scope name is their assembly's name.
OwnScopeModules == {mod \in Modules : ModScope[mod] = ModAsm[mod]}

\* Covered for the modules the scope-name comparison recognises, whatever
\* the other loaded modules are called.  It rests on RequestReJIT adding the
\* target before it snapshots the loaded modules, and on the scan of every
\* module of that snapshot, racing with the JIT threads and with the other
\* callers' registrations and removals.
CoveredOwnScope == CoveredIn(OwnScopeModules)

\* RequestReJIT asks for recompilation only of methods of the requested
\* assembly with the requested name: zero requests for modules of another
\* assembly.
RejitTargeted ==
    \A m \in rejitIssued : \E t \in requested : m \in Matching(t)

\* A target is registered when ShouldInstrumentMethod would find it.
Registered(t) == ShouldInstrument(methodsToInstrument, t[1], t[2])

\* The registry changes only through the two exports, one target at a time:
\* a target becomes registered only in a step that begins a RequestReJIT
\* of it, and stops being registered only in a RemoveMethodToInstrument of
\* it, which leaves every other registered target (the other names of the
\* same assembly included) in place, whatever the callers interleave.
RegistryChangesOnlyByExports ==
    [][\A t \in Targets :
         /\ ~Registered(t) /\ Registered(t)' => t \in requested'
         /\ Registered(t) /\ ~Registered(t)' =>
               /\ t \in removed'
               /\ \A u \in Targets \ {t} : Registered(u) => Registered(u)']_vars

\* No operation dies on a null pointer: every failure is reported per call.
NoCrash == ~crashed

\* No thread calls into profilerInfo after Shutdown released it.
NoStaleInfoUse == ~staleUse

=============================================================================
