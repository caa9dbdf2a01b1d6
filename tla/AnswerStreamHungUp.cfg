SPECIFICATION Spec
CONSTANTS
    QueueSize = 2
    MaxItems = 2
    Failures = {"llm_unavailable"}
INVARIANT EveryStartedStreamIsCounted
CHECK_DEADLOCK FALSE
