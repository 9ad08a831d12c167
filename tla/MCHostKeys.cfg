CONSTANTS
    None = None
    Conn = {c1, c2, c3}
    Key = {k1, k2}
SYMMETRY Symmetry
SPECIFICATION KeysSpec
INVARIANTS
    OneKeyUnlessRaced
PROPERTIES
    PinsAreReplacedByRacesOnly
