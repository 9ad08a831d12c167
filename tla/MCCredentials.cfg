CONSTANTS
    NULL = NULL
    Profile = {p1, p2}
    Transport = {"ssh", "snmp"}
    Vendor = {"mikrotik", "mimosa"}
    Lookup = {l1}
    Inputs <- MCInputs
    Priorities <- MCPriorities
    Keys = {k1}
SYMMETRY Symmetry
SPECIFICATION Spec
INVARIANTS
    BindingsResolve
    RefusedForAReason
    DeletedIsNotDialled
    KeyIdNamesTheKey
