SPECIFICATION Spec
CONSTANTS
    a = a
    b = b
    Names <- MCNames
    MaxINodes = 5
    MaxLookups = 2
    Threshold = 1
    LinkModulus = 16
    Renames <- NoMoves
SYMMETRY Symmetry
INVARIANTS TypeOK LinkCountsExact QueueExact DeletedHaveNoName Tree
