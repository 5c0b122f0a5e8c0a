SPECIFICATION ServerSpec
CONSTANTS
    Turns = {t1, t2}
    Conversations = {c1, c2, c3, c4}
    Modes = {"anthropic", "gemini"}
    ProviderOf <- MCProviderOf
    NoConv = NoConv
    MAX_TOOL_HOPS = 1
    MaxCalls = 1
    Sids = {s1, s2}
    NoSid = NoSid
    SESSION_TTL = 1
    MAX_ACTIVE_SESSIONS = 1
    MAX_TURNS_PER_SESSION = 1
    DAILY_LIMIT = 1
    MaxDay = 1
INVARIANTS
    ServerTypeOK
    BilledAsReported
    SessionsIsolated
    CapOvershootBounded
    SwitchStartsClean
PROPERTIES
    ImplementsBudget
SYMMETRY Symmetry
