CONSTANTS
    Sigs = {2, 15}
    Statuses = {1}
    Interactive = {FALSE}
    IgnoredAtEntry = {}
    ListLength = 1
    MaxDepth = 4
    MaxSubshell = 1
    Commands = {"builtin", "trap", "call", "return", "error", "program"}
SPECIFICATION FairSpec
CHECK_DEADLOCK FALSE
INVARIANT IntNotForgotten
INVARIANT TrapsKeepStatus
PROPERTY SignalsServed
