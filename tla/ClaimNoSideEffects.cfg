CONSTANTS
    near = near
    far = far
    Personas = {near, far}
    Targets <- AllTargets
    Position <- ScriptOrder
    Required <- Unguarded
    Native = Native
    PageOwn = PageOwn
    None = None
    MaxTampers = 2
    Seed <- Seeds
    Width = 2
    MaxAudioReads = 1
SPECIFICATION NoiseSpec
INVARIANT NoSideEffects
