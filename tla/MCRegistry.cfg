\* Two clients document a route through every builder method and register components,
\* webhook batches and models that disagree.
SPECIFICATION RegistrySpec
CONSTANTS
    Statuses = {"200"}
    HttpMethods = {"GET", "PUT"}
    Texts = {"", "x", "y"}
    Blank = ""
    Clients = {c1, c2}
    Routes = {r1}
    NilRoute = NilRoute
    Undocumented = Undocumented
    Keys = {1, 2}
    WebhookKeys = {"w1", "w2"}
    a = a
    b = b
    Contents = {a, b}
    Invalid = Invalid
    Absent = Absent
    BuilderCalls <- MCBuilderCalls
    ComponentCalls <- MCComponentCalls
    WebhookCalls <- MCWebhookCalls
    ModelCalls <- MCModelCalls
    MaxCalls = 3
INVARIANTS
    RegistryTypeOK
    RejectedChangesNeverPublished
    OutcomesAreBinding
    SomeRegistrationSucceeds
PROPERTIES
    RevisionTracksContent
    WebhookBatchesAreWhole
CHECK_DEADLOCK FALSE
