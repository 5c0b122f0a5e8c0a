CONSTANTS
    Threads = {w1, w2}
    Absent = Absent
    NoConn = NoConn
    Live = Live
    MaxBuilds = 1
SPECIFICATION CacheSpec
SYMMETRY MCSymmetry
INVARIANTS CalmSearchIsExact NeverOlder OneCached
