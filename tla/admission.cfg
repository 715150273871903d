SPECIFICATION Spec
CONSTANTS
    n1 = n1  n2 = n2  i1 = i1  i2 = i2  a1 = a1  a2 = a2
    NoSlot = NoSlot
    Names = {n1, n2}
    Slots = {i1, i2}
    Admitters = {a1, a2}
    Capacity = 1
    Small = {n2}
    Consumers <- Changes
    MaxReloads = 2
SYMMETRY Symmetry
INVARIANTS CurrentOpen NothingStranded PermitsReturned AllOrNothing
