SPECIFICATION SipSpec
CONSTANT N = 3
INVARIANTS MissingExplained FreshScript
PROPERTY ImplementsParallelTask
CHECK_DEADLOCK FALSE
