CONSTANTS
    Personas <- Considered
    NoPersona = NoPersona
    NoOffset = NoOffset
    RealOffset = RealOffset
SPECIFICATION RulesSpec
INVARIANTS
    StrictIsEnough
    OneMachine
    OnePlace
    DefaultsPass
