SPECIFICATION Spec
CONSTANTS
    Keys <- FewKeys
    Values = {v1, v2}
    Nil = nil
    MinShift = 2
    GuintRange = 16
INVARIANTS TypeOK SizeFits ForeachIsLookup
PROPERTIES MapSpecHolds
