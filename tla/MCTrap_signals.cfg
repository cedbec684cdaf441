CONSTANTS
    Sigs = {2, 15}
    Statuses = {1}
    Interactive = {TRUE, FALSE}
    IgnoredAtEntry = {15}
    ListLength = 2
    MaxDepth = 2
    MaxSubshell = 1
    Commands = {"failing", "error", "trap", "program", "subshell", "background", "exit", "set"}
SPECIFICATION Spec
CHECK_DEADLOCK FALSE
INVARIANT InterruptsBalanced
INVARIANT DispositionsMatch
INVARIANT ExecRunsNoTrap
INVARIANT ExitTrapOwn
PROPERTY IgnoredForGood
INVARIANT NoTrapLost
