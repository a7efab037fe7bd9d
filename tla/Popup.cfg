CONSTANTS
    good = good
    bad = bad
    Personas = {good, bad}
    NoPersona = NoPersona
    First = good
    Verdict <- Judged
    Tokens = {t}
    NoToken = NoToken
    NoState = NoState
    MaxInputs = 2
    MaxFaults = 1
SPECIFICATION FairPopupSpec
INVARIANTS
    PopupTypeOK
    TokenKept
    ViewIsCurrent
    VerdictFits
PROPERTIES
    ButtonsComeBack
