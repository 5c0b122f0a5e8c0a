CONSTANTS
    A = A  B = B  c1 = c1  c2 = c2  c3 = c3
    Turns = {A, B}
    Calls = {c1, c2, c3}
    CallsOf <- MCCallsOf
    Searches = {c1}
    Threads = {w1, w2}
    Slots = 1
    Nobody = Nobody
    Absent = Absent
    NoConn = NoConn
    Live = Live
    MaxBuilds = 1
SPECIFICATION Spec
CHECK_DEADLOCK FALSE
INVARIANTS TypeOK TurnBounded
PROPERTIES CallsAnswered FilesProtocol
