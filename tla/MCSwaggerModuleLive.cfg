\* Requests that share the lock and the cache, and requests that build without them.
SPECIFICATION FairModuleSpec
CONSTANTS
    Statuses = {"200"}
    HttpMethods = {"GET"}
    Texts = {"", "ok"}
    Blank = ""
    Clients = {c1}
    Routes = {r1}
    NilRoute = NilRoute
    Undocumented = Undocumented
    Keys = {}
    WebhookKeys = {}
    Contents = {}
    Invalid = Invalid
    Absent = Absent
    BuilderCalls <- MCNone
    ComponentCalls <- MCNone
    WebhookCalls <- MCNone
    ModelCalls <- MCNone
    MaxCalls = 2
    Requests = {q1, q2}
    Kinds = {"bytes", "document"}
    Routers = {m1}
    NoRouter = NoRouter
    Endpoints = 0
    CacheSpec = TRUE
    Document <- MCDocument
    Free = Free
    MaxRequests = 1
    MaxCaptures = 1
PROPERTIES
    AnswersAreCurrent
    EveryRequestIsAnswered
CHECK_DEADLOCK FALSE
