SPECIFICATION Spec
CONSTANTS
    a = a
    b = b
    Names <- MCNames
    MaxINodes = 5
    MaxLookups = 1
    Threshold = 1
    LinkModulus = 16
    Renames <- AllMoves
SYMMETRY Symmetry
INVARIANTS DeletedHaveNoName
