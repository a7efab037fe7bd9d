CONSTANTS
    Personas = {a}
    NoPersona = NoPersona
    Failed = Failed
    ProxyAccepts = {a}
    AuthRequired = FALSE
    TokenMatches = FALSE
    CliPersona = NoPersona
    Tasks = {t1, t2}
    NoTask = NoTask
    Waiting = Waiting
    LocallyValid = {a}
    ProxyEnabled = TRUE
    Requests = {"set", "clear"}
    Faults = {}
    MaxFaults = 0
SPECIFICATION FairSpec
INVARIANTS
    TypeOK
    OneActivation
PROPERTIES
    ImplementsSingleFlight
    EveryHandlerReturns
    ClearTakesEffect
