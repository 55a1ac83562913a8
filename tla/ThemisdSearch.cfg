\* The four nodes of the code.
SPECIFICATION FairSpec
CONSTANT Nodes = {jjh1445, jjh250, jjh1449, jjh9}
INVARIANT LogReturnedNeverCloses
PROPERTIES AnswerLeadsToReturn NoAnswerNeverReturns
CHECK_DEADLOCK FALSE
