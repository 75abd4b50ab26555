\* Parameters, security and encodings of one operation, over circular components.
SPECIFICATION FairOperationSpec
CONSTANTS
    a = a
    b = b
    s = s
    t = t
    root = root
    u = u
    v = v
    A = A
    w = w
    B = B
    Names <- MCNames
    Concretes <- MCConcretes
    External = External
    Missing = Missing
    Nodes <- MCNodes
    Properties = {"name"}
    Root = root
    None = None
    Elsewhere = Elsewhere
    Nowhere = Nowhere
    Texts = {"p", "q", "H", "h"}
    Lower <- MCLower
    Scopes = {"x"}
    SchemeNames = {s, t}
    Inputs <- MCInputs
INVARIANTS
    OperationTypeOK
    ResolutionIsExact
    WalkIsSound
    UndeclaredIsReported
    ParametersFitThePath
    AcceptanceIsExact
PROPERTIES
    EveryOperationEnds
CHECK_DEADLOCK FALSE
