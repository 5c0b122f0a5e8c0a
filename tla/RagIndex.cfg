CONSTANTS
    short = short  long = long  f1 = f1  f2 = f2
    Files = {f1, f2}
    Versions <- MCVersions
    Ranges <- MCRanges
    ChunksOf <- MCChunksOf
    Embeddings = {"e1", "e2"}
    Absent = Absent
    Torn = Torn
    MaxEdits = 2
    MaxCuts = 2
    Target = 4
    Overlap = 2
SPECIFICATION FairSpec
CHECK_DEADLOCK FALSE
INVARIANTS TypeOK IndexMatchesManifest OneEmbedding
PROPERTIES ForceRepairs FilesProtocol
