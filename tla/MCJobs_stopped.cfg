CONSTANTS
    p1 = p1
    p2 = p2
    p3 = p3
    Pids = {p1, p2, p3}
    ExitCodes = {0}
    Traps = {}
    ReusePids = FALSE
    Stoppable = TRUE
    MaxJobs = 2
    GrowBy = 1
    MaxPipe = 2
    JobControl = {TRUE}
    SysFailures = FALSE
    Commands = {"run", "wait", "jobs"}
SPECIFICATION Spec
SYMMETRY PidSymmetry
INVARIANT StoppedJobsTold
