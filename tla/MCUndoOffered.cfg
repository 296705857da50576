CONSTANTS
    Changes = {c1, c2}
    Gutter = Gutter
    NoIdx = NoIdx
    MaxUndos = 3
SPECIFICATION Spec
INVARIANTS
    OfferedUndoWorks
