\* Every small type graph, derived as one model or two.
SPECIFICATION ModelSchemasSpec
CONSTANTS
    Types = {A, B, C, S}
    NilType = NilType
    Names = {"A", "B", "C"}
    Properties = {"p", "q", "r", "x"}
    Items = "items"
    Values = "values"
    Inputs <- MCInputs
    MaxDepth = 12
    A = A
    B = B
    C = C
    S = S
INVARIANTS
    ModelSchemasTypeOK
    DerivationIsExact
    SchemasFitTheirTypes
    StructsDoNotNest
CHECK_DEADLOCK FALSE
