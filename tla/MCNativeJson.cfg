SPECIFICATION BothSpec
CONSTANTS
    Texts = {"a", "b", "c"}
    Hash <- MCHash
    Slots = 2
    Cacheable = {"a", "b", "c"}
    Short = {"a", "b"}
    MaxDepth = 2
    MaxTokens = 9
    Failing = TRUE
INVARIANTS RefsBalanced DepthIsNesting AcceptedMeansJson RejectedIsNotJson EnginesAgree
CHECK_DEADLOCK FALSE
