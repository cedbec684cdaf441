CONSTANTS
    p1 = p1
    p2 = p2
    p3 = p3
    Pids = {p1, p2, p3}
    ExitCodes = {}
    Traps = {}
    ReusePids = FALSE
    Stoppable = TRUE
    MaxJobs = 2
    GrowBy = 1
    MaxPipe = 2
    JobControl = {TRUE}
    SysFailures = FALSE
    Commands = {"run", "here", "wait", "jobs", "fg", "bg"}
SPECIFICATION Spec
SYMMETRY PidSymmetry
INVARIANT TypeOK
INVARIANT JobTableConsistent
INVARIANT JoblessExact
PROPERTY WaitAllWaits
