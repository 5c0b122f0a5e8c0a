CONSTANTS
    Callers = {c1, c2, c3}
    DAILY_LIMIT = 4
    MaxTurnTokens = 3
    MaxDay = 2
    Fragments <- MCFragments
    MaxFragments = 3
    Counts = {0, 1, 2}
    Unpriced = Unpriced
    MaxReplies = 2
    MaxCharacters = 9
    Target = 4
    Overlap = 2
    Lines <- MCLines
    MaxDocument = 6
    Chunk = {1, 2, 3}
    CorpusOrder <- MCCorpusOrder
    RrfK = 60
    Widen = 1
    RerankPool = 2
    MaxK = 2
    Limits = {0, 1, 2, 3}
    Scores = {0, 1, 2, 3}
    Grades = {0, 1}
    MaxLines = 3
    DefaultLines = 2
    MaxBytes = 3
    Widths = {0, 1, 4}
    Names = {"a", "b", ".d"}
    Dotted = {".d"}
    ToTheEnd = ToTheEnd
    KbPaths <- MCKbPaths
    MaxFiles = 2
    MaxLength = 7
    Paths = {"p", "q", "r"}
    Missing = Missing
    NoScore = NoScore
    RerankCandidates = 2
    Cases <- MCCases
    JointCases <- MCJointCases
    MaxCases = 3
SPECIFICATION PartsSpec
INVARIANTS
    TypeOK OvershootBounded AssemblyLaw UsageLaw ChunkLaw RankingLaw ReadingLaw EvalLaw
PROPERTIES ImplementsMeter
CHECK_DEADLOCK FALSE
