CONSTANTS
    a = a
    b = b
    Personas = {a, b}
    NoPersona = NoPersona
    Failed = Failed
    ProxyAccepts = {a, b}
    AuthRequired = FALSE
    TokenMatches = FALSE
    CliPersona = NoPersona
    Conns = {c1, c2}
    MaxConnections = 1
    BadHeader <- LanguageBroken
    MaxRequests = 4
SPECIFICATION FairDataSpec
INVARIANTS
    DataTypeOK
    CountersAgree
PROPERTIES
    ImplementsPool
    HoldsBriefly
