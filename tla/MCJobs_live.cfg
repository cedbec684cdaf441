CONSTANTS
    p1 = p1
    p2 = p2
    p3 = p3
    Pids = {p1, p2}
    ExitCodes = {0}
    Traps = {15}
    ReusePids = FALSE
    Stoppable = TRUE
    MaxJobs = 2
    GrowBy = 1
    MaxPipe = 2
    JobControl = {FALSE}
    SysFailures = TRUE
    Commands = {"run", "wait", "waitpid", "waitjob", "jobs", "showjob", "here"}
SPECIFICATION FairSpec
INVARIANT NoLostWakeup
PROPERTY CommandEnds
