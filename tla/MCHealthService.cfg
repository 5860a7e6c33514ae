SPECIFICATION Spec
CONSTANTS
    Checks = {c1, c2}
    StaleAfter = 2
    MaxBlock = 2
INVARIANTS
    TypeOK
    StaleIsGenuine
SYMMETRY CheckSymmetry
