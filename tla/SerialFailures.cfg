CONSTANTS
    Personas = {a, b}
    NoPersona = NoPersona
    Failed = Failed
    ProxyAccepts = {a}
    AuthRequired = TRUE
    TokenMatches = TRUE
    CliPersona = a
    Tasks = {t1}
    NoTask = NoTask
    Waiting = Waiting
    LocallyValid = {a}
    ProxyEnabled = TRUE
    Requests = {"set", "clear"}
    Faults <- FaultsInWorker
    MaxFaults = 4
SPECIFICATION Spec
INVARIANTS
    NotReadyMeansOff
    BadgeNeverDenies
