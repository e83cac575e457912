SPECIFICATION Spec
CONSTANTS
    Consumers = {c1}
    Committers = {}
    LegacyTokens = {0}
    MaxTokens = 4
    MaxStarts = 4
INVARIANT NoRevivalOnRestart
CHECK_DEADLOCK FALSE
