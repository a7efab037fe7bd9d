CONSTANTS
    Personas = {a, b}
    NoPersona = NoPersona
    Failed = Failed
    ProxyAccepts = {a}
    AuthRequired = TRUE
    TokenMatches = TRUE
    CliPersona = a
    Tasks = {t1}
    NoTask = NoTask
    Waiting = Waiting
    LocallyValid = {a, b}
    ProxyEnabled = TRUE
    Requests = {"set", "clear"}
    Faults <- AllFaults
    MaxFaults = 4
SPECIFICATION FairSpec
INVARIANTS
    OnlyAccepted
    ReadyMeansShown
PROPERTIES
    NetworkFirst
    SelfHeals
    ClearTakesEffect
    ProxyForgets
