CONSTANTS
    core = core
    cc = cc
    path = path
    top = top
    a = a
    b = b
    c = c
    d = d
    Modules = {core, cc, path}
    Project = Project
    Graphs <- AllGraphs
    Dirs = {top, a, b, c, d}
    Root = top
    Dot = Dot
    Projects <- AllProjects
    Vars = {v}
    Unset = Unset
    Empty = Empty
    ModuleCommands <- ModCmds
    DirCommands <- AllCmds
    MakeSets = {TRUE, FALSE}
    Skips = {{}, {b}}
SPECIFICATION Spec
INVARIANT BuildContextAgrees
INVARIANT MadeInOrder
INVARIANT TargetsFiled
INVARIANT ModulesInOrder
INVARIANT ModulesComplete
PROPERTY InheritedRestored
