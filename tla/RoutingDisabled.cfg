CONSTANTS
    Personas = {a}
    NoPersona = NoPersona
    Failed = Failed
    ProxyAccepts = {a}
    AuthRequired = TRUE
    TokenMatches = TRUE
    CliPersona = a
    Tasks = {t1, t2}
    NoTask = NoTask
    Waiting = Waiting
    LocallyValid = {a}
    ProxyEnabled = FALSE
    Requests = {"set", "clear"}
    Faults <- AllFaults
    MaxFaults = 1
SYMMETRY TaskSymmetry
SPECIFICATION Spec
INVARIANT NothingWhenDisabled
