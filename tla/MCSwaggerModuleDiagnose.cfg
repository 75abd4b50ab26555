\* Two generations without the cache leave their outcomes out of order.
SPECIFICATION ModuleSpec
CONSTANTS
    Statuses = {"200"}
    HttpMethods = {"GET"}
    Texts = {"", "ok"}
    Blank = ""
    Clients = {c1}
    Routes = {r1, r2}
    NilRoute = NilRoute
    Undocumented = Undocumented
    Keys = {}
    WebhookKeys = {}
    Contents = {}
    Invalid = Invalid
    Absent = Absent
    BuilderCalls <- MCNone
    ComponentCalls <- MCNone
    WebhookCalls <- MCNone
    ModelCalls <- MCNone
    MaxCalls = 0
    Requests = {q1, q2}
    Kinds = {"document"}
    Routers = {m1}
    NoRouter = NoRouter
    Endpoints = 0
    CacheSpec = FALSE
    Document <- MCDocument
    Free = Free
    MaxRequests = 1
    MaxCaptures = 1
INVARIANTS
    DiagnosticIsLatest
CHECK_DEADLOCK FALSE
