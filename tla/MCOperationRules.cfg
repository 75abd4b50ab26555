\* A webhook that refers to a path parameter, with an encoding over a shared schema.
SPECIFICATION OperationSpec
CONSTANTS
    a = a
    b = b
    s = s
    t = t
    root = root
    u = u
    v = v
    A = A
    w = w
    B = B
    Names <- MCNames
    Concretes <- MCConcretes
    External = External
    Missing = Missing
    Nodes <- MCNodes
    Properties = {"name"}
    Root = root
    None = None
    Elsewhere = Elsewhere
    Nowhere = Nowhere
    Texts = {"p", "q", "H", "h"}
    Lower <- MCLower
    Scopes = {"x"}
    SchemeNames = {s, t}
    Inputs <- MCRuleInputs
INVARIANTS
    AcceptedKeepsTheRules
CHECK_DEADLOCK FALSE
