SPECIFICATION Spec
CONSTANTS
    Turns = {t1, t2}
    Conversations = {c1}
    Modes = {"openai_compat"}
    ProviderOf <- MCProviderOf
    NoConv = NoConv
    MAX_TOOL_HOPS = 2
    MaxCalls = 1
PROPERTIES
    TurnsSettle
CHECK_DEADLOCK FALSE
