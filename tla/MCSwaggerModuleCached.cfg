\* A caching module: the registry, the route list and captures of two routers race two requests.
SPECIFICATION ModuleSpec
CONSTANTS
    Statuses = {"200"}
    HttpMethods = {"GET"}
    Texts = {"", "ok"}
    Blank = ""
    Clients = {c1}
    Routes = {r1}
    NilRoute = NilRoute
    Undocumented = Undocumented
    Keys = {}
    WebhookKeys = {}
    Contents = {}
    Invalid = Invalid
    Absent = Absent
    BuilderCalls <- MCNone
    ComponentCalls <- MCNone
    WebhookCalls <- MCNone
    ModelCalls <- MCNone
    MaxCalls = 2
    Requests = {q1, q2}
    Kinds = {"bytes"}
    Routers = {m1, m2}
    NoRouter = NoRouter
    Endpoints = 2
    CacheSpec = TRUE
    Document <- MCDocument
    Free = Free
    MaxRequests = 1
    MaxCaptures = 2
INVARIANTS
    ModuleTypeOK
    CacheIsSound
    NoKeyIsBuiltTwice
    DiagnosticIsLatest
PROPERTIES
    AnswersAreCurrent
SYMMETRY MCSymmetry
CHECK_DEADLOCK FALSE
