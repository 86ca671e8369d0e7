\* Every call gets an instance of its own.
CONSTANTS
    j1 = j1  j2 = j2  j3 = j3  s1 = s1  s2 = s2
    Jobs = {j1, j2, j3}
    Sessions = {s1, s2}
    SessionOf <- OneOfEach
    Elements = {"a", "b"}
    Targets <- MCTargets
    Tree0 <- MCTree
    Unsettled <- MCUnsettled
    Commands <- MCCommands
    ProgramOf <- MCProgramOf
    InstanceName <- MCInstanceName
    Programs = {"py"}
    Menu <- MCMenu
    MaxStatements <- MCMax
SPECIFICATION Spec
INVARIANT FreshInstance
