CONSTANTS
    s1 = s1  s2 = s2  p1 = p1  p2 = p2  i1 = i1  i2 = i2  w1 = w1  w2 = w2
    None = None
    Sources <- TwoSources
    Prints <- MCPrints
    Ids <- MCIds
    Writers <- TwoWriters
    MaxFaults = 1
SPECIFICATION Spec
SYMMETRY MCSymmetry
CONSTRAINT MCBound
INVARIANTS RowsHavePoints ReturnedIsIndexed OneVersion StoresAgree
