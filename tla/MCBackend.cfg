CONSTANTS
    u1 = u1
    u2 = u2
    a1 = a1
    a2 = a2
    f1 = f1
    m1 = m1
    m2 = m2
    Uuids = {u1, u2}
    Types = {"audio", "fade"}
    UnknownType = "unknown"
    Params <- MCParams
    TypeOf <- MCTypeOf
    Metas = {m1, m2}
    DefaultParams <- MCDefaultParams
    DefaultMeta = m1
    NoAction = NoAction
    Requests <- MCRequests
    Paths = {}
    Unreadable = Unreadable
    Gutter = Gutter
    NoIdx = NoIdx
    MaxUndos = 3
SPECIFICATION MCSpec
INVARIANTS
    TypeOK
    OrderIsActions
    TimelineExact
    ShownIsCurrent
    FilesSound
