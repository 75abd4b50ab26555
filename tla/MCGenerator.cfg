\* Whatever order the drafts are bound in, a generation that succeeds writes the one document.
SPECIFICATION GeneratorSpec
CONSTANTS
    Statuses = {"default", "200"}
    HttpMethods = {"GET", "POST", "PUT", "PATCH", "CONNECT"}
    Texts <- MCTexts
    Blank = ""
    Generations = {g1, g2}
    Rows <- MCRows
    Inputs <- MCInputs
    Unbound = Unbound
    Supported = {"GET", "POST", "PUT", "PATCH"}
    Unrepresentable = {"/y/"}
    Qualified <- MCQualified
    OperationIsValid <- MCOperationIsValid
INVARIANTS
    GeneratorTypeOK
    DocumentIsDetermined
    OperationsAreUnique
    HiddenRoutesStayOut
    GenerationsAgreeApart
    AutomaticIDsAreQualified
SYMMETRY MCSymmetry
CHECK_DEADLOCK FALSE
