CONSTANTS
    Changes = {c1, c2, c3}
    Gutter = Gutter
    NoIdx = NoIdx
    MaxUndos = 4
SPECIFICATION Spec
INVARIANTS
    TypeOK
    IndexInRange
PROPERTIES
    RefinesStacks
CHECK_DEADLOCK FALSE
