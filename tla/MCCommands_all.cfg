CONSTANTS
    UserFds = {1, 2}
    LowFds = {1, 2, 3}
    SaveFds = {10, 11, 12, 13, 14, 15, 16, 17}
    Closed = Closed
    File = File
    Terminal = Terminal
    Names = {"n"}
    FuncIds = {1, 2}
    Options <- OptString
    Worlds <- AllWorlds
    MaxBlocks = 2
SPECIFICATION Spec
CHECK_DEADLOCK FALSE
INVARIANT DescriptorsRight
INVARIANT NoCopyLeft
INVARIANT LookupRight
INVARIANT FunctionsOwned
INVARIANT ParamsOwned
INVARIANT SkipsRight
INVARIANT InputsRight
INVARIANT OptionsRight
