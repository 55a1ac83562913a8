SPECIFICATION FairSpec
CONSTANT N = 4
INVARIANTS NoSendOnClosed ResultComplete NoGoroutineLeft
PROPERTIES AnsweredLeadsToReturn ImplementsGather
