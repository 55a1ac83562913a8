SPECIFICATION FairSpec
CONSTANT Nodes = {jjh1445, jjh250, jjh1449, jjh9}
PROPERTY ExitSignalDelivered
CHECK_DEADLOCK FALSE
