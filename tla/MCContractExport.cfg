\* Two calls of the command, a death of the process, routes and documentation meanwhile.
SPECIFICATION ExportSpec
CONSTANTS
    Calls = {c1, c2}
    Contracts <- MCContracts
    Own <- MCOwn
    Registries = {r1, r2}
    NoRegistry = NoRegistry
    Paths = {p1, p2, p3}
    Data <- MCData
    Bytes <- MCBytes
    Failed = Failed
    Missing = Missing
    Committed <- MCCommitted
    Torn = Torn
    NotCaptured = NotCaptured
    MaxVersion = 1
    MaxContracts = 2
    MaxDeaths = 1
    r1 = r1
    r2 = r2
    p1 = p1
    p2 = p2
    p3 = p3
    Old = Old
INVARIANTS
    ExportTypeOK
    NothingIsWrittenEarly
    ExportWritesEveryFile
    FilesAreOfOneTable
    CheckIsExact
SYMMETRY MCSymmetry
CHECK_DEADLOCK FALSE
