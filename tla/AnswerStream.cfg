SPECIFICATION Spec
CONSTANTS
    QueueSize = 2
    MaxItems = 5
    Failures = {"llm_unavailable", "internal_error"}
INVARIANTS
    TypeOK
    ClosedIsCountedAsItEnded
PROPERTIES
    KeepsThePromise
    EveryAnswerCloses
CHECK_DEADLOCK FALSE
