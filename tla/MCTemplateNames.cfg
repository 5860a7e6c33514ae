SPECIFICATION Spec
CONSTANTS
    Workers = {w1}
    Ids = {i1, i2}
    Names = {n1, n2}
    Default = k1
    Collection = k2
    Doubtful = k3
    Contents = {k1, k2, k3}
    Consistent = {k1, k2}
    Seed = i1
    SeedName = n1
    None = None
    MaxVersion = 1
INVARIANTS
    NamesUnique
SYMMETRY MCSymmetry
