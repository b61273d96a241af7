CONSTANTS
    A1 = A1  A2 = A2  N1 = N1  N2 = N2  M1 = M1  M2 = M2
    F1 = F1  F2 = F2  F3 = F3  C1 = C1  C2 = C2  FileM1 = FileM1  FileM2 = FileM2
    Assemblies <- MCAssemblies
    QNames <- MCQNames
    ScopeNames <- ScopeNamesMixed
    Modules <- MCModules
    Methods <- MCMethods
    Callers <- MCCallers
    ModAsm <- MCModAsm
    ModScope <- ScopeMixed
    MethMod <- MCMethMod
    MethName <- MCMethName
    Rewritable <- MCRewritable
    MaxCalls = 1
SYMMETRY CallerSymmetry
SPECIFICATION Spec
INVARIANTS TypeOK NoEmptyEntry CoveredOwnScope RejitTargeted
PROPERTY RegistryChangesOnlyByExports
CHECK_DEADLOCK FALSE
