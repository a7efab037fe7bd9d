CONSTANTS
    Personas = {a, b}
    Valid = {a, b}
    NoPersona = NoPersona
    CliPersona = a
    Length <- Lengths
    Posts = {p1, p2}
    Installed = {a}
    Keep = 2
    Limit = 2
    Sizes = {1, 2}
    Gone = Gone
    MaxLines = 4
    MaxMishaps = 2
SYMMETRY PostSymmetry
CHECK_DEADLOCK FALSE
SPECIFICATION FilesSpec
INVARIANTS
    FilesTypeOK
    FileIsLast
    FilesBounded
    NewestFirst
    OnlyOldestDropped
