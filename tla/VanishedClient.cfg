SPECIFICATION Spec
CONSTANTS
    Turns = {t1, t2}
    Conversations = {c1}
    Modes = {"anthropic"}
    ProviderOf <- MCProviderOf
    NoConv = NoConv
    MAX_TOOL_HOPS = 2
    MaxCalls = 1
INVARIANTS
    VanishedClientLeavesCallsAnswered
CHECK_DEADLOCK FALSE
