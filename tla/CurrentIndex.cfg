CONSTANTS
    short = short  long = long  f1 = f1  f2 = f2
    Files = {f1}
    Versions <- MCVersions
    Ranges <- MCRanges
    ChunksOf <- MCChunksOf
    Embeddings = {"e1"}
    Absent = Absent
    Torn = Torn
    MaxEdits = 1
    MaxCuts = 1
    Target = 4
    Overlap = 2
SPECIFICATION Spec
CHECK_DEADLOCK FALSE
INVARIANT CurrentIndexIsExact
