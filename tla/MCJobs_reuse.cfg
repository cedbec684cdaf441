CONSTANTS
    p1 = p1
    p2 = p2
    p3 = p3
    Pids = {p1, p2}
    ExitCodes = {0}
    Traps = {15}
    ReusePids = TRUE
    Stoppable = FALSE
    MaxJobs = 2
    GrowBy = 1
    MaxPipe = 2
    JobControl = {TRUE, FALSE}
    SysFailures = FALSE
    Commands = {"run", "wait", "waitpid", "jobs", "set"}
SPECIFICATION Spec
SYMMETRY PidSymmetry
INVARIANT NoStatusLost
PROPERTY StatusIsLastProcess
PROPERTY UnaskedKept
