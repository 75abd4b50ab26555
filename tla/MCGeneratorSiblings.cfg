\* Both rows of a Match documented: the order of the map decides whether the generation fails.
SPECIFICATION GeneratorSpec
CONSTANTS
    Statuses = {"default", "200"}
    HttpMethods = {"GET", "POST", "PUT", "PATCH", "CONNECT"}
    Texts <- MCTexts
    Blank = ""
    Generations = {g1, g2}
    Rows <- MCRows
    Inputs <- MCSiblingInputs
    Unbound = Unbound
    Supported = {"GET", "POST", "PUT", "PATCH"}
    Unrepresentable = {"/y/"}
    Qualified <- MCQualified
    OperationIsValid <- MCOperationIsValid
INVARIANTS
    GenerationsAgree
CHECK_DEADLOCK FALSE
