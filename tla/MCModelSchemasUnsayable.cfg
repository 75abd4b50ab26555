\* A map of integers to names, and a struct that embeds a pointer to itself.
SPECIFICATION ModelSchemasSpec
CONSTANTS
    Types = {A, B, C, S}
    NilType = NilType
    Names = {"A", "B", "C"}
    Properties = {"p", "q", "r", "x"}
    Items = "items"
    Values = "values"
    Inputs <- MCUnsaidInputs
    MaxDepth = 12
    A = A
    B = B
    C = C
    S = S
INVARIANTS
    UnsayableIsRefused
CHECK_DEADLOCK FALSE
