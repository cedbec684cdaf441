CONSTANTS
    x = x
    y = y
    a = a
    Names = {x}
    Values = {a}
    Empty = Empty
    Unset = Unset
    MaxDepth = 1
    MaxTexts = 10
    ArgLists <- Twice
SPECIFICATION Spec
PROPERTY CallerRestored
