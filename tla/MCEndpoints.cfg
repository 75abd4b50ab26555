\* The module is made, mounted and joined by one route of the application.
SPECIFICATION EndpointsSpec
CONSTANTS
    Segments <- MCSegments
    Configs <- MCConfigs
    Unset = Unset
    Irregular <- MCIrregular
    ApplicationRoutes <- MCApplicationRoutes
    Routers = {named, plain}
    Naming = {named}
    named = named
    plain = plain
    NoModule = NoModule
    NoRouter = NoRouter
    MaxRoutes = 1
INVARIANTS
    EndpointsNeverClash
    PagesAreServed
    EndpointsStayUndocumented
    ApplicationIsDocumented
CHECK_DEADLOCK FALSE
