SPECIFICATION BothSpec
CONSTANTS
    Texts = {"a", "b", "c"}
    Hash <- MCHash
    Slots = 2
    Cacheable = {"a", "b", "c"}
    Short = {"a", "b"}
    MaxDepth = 2
    MaxTokens = 7
    Failing = FALSE
PROPERTY ReadsHeldInput
CHECK_DEADLOCK FALSE
