CONSTANTS
    Personas = {a, b}
    NoPersona = NoPersona
    Failed = Failed
    ProxyAccepts = {a}
    AuthRequired = FALSE
    TokenMatches = FALSE
    CliPersona = a
    Tasks = {t1}
    NoTask = NoTask
    Waiting = Waiting
    LocallyValid = {a, b}
    ProxyEnabled = TRUE
    Requests = {"set", "clear"}
    Faults <- AllFaults
    MaxFaults = 2
SPECIFICATION FairPageSpec
INVARIANTS
    PageTypeOK
    OnlyAcceptedShown
    PageMatchesNetwork
PROPERTIES
    ClearReachesPages
