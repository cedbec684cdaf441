CONSTANTS
    x = x
    y = y
    a = a
    Names = {x, y}
    Values = {a}
    Empty = Empty
    Unset = Unset
    MaxDepth = 2
    MaxTexts = 10
    ArgLists <- Distinct
SPECIFICATION Spec
INVARIANT TextsOwned
INVARIANT NothingLeft
PROPERTY ShadowIsScope
PROPERTY LocalIsScope
