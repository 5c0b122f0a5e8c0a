SPECIFICATION Spec
CONSTANTS
    Turns = {t1, t2}
    Conversations = {c1}
    Modes = {"anthropic", "openai_compat"}
    ProviderOf <- MCProviderOf
    NoConv = NoConv
    MAX_TOOL_HOPS = 2
    MaxCalls = 2
INVARIANTS TypeOK CallsAnsweredOrExplained OrphansOnlyWhenShared OneReplyPerHop BilledAsReported LastWordMatchesLog
PROPERTIES HistoryOnlyGrows
SYMMETRY Symmetry
CHECK_DEADLOCK FALSE
