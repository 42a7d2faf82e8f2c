SPECIFICATION Spec
CONSTANTS
    Addresses = {a1, a2, a3, a4}
    NullAt = null
    SystemAt = system
    Nil = nil
    MaxSlots = 5
    Holders = {3}
    MayDestroyReserved = FALSE
INVARIANTS
    RegistryOK
    LookupsEnd
    NoSurvivorIsSkipped
    LiveReferencesResolve
PROPERTY
    LoadRestores
