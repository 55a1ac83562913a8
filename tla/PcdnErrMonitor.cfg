SPECIFICATION FairSpec
CONSTANTS
    Dirs = {1, 2}
    N = 2
    KeepDays = 1
    MaxDay = 2
INVARIANT DumpsStayApart
PROPERTIES RecentKept OldDumpsGo
CHECK_DEADLOCK FALSE
