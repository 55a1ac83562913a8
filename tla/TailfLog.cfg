\* Two files written in turn already cause as many hand-overs as there are
\* lines; the second one is the first that does not wait.
SPECIFICATION FairSpec
CONSTANTS
    Files = {f1, f2}
    MaxLines = 2
    MaxTailers = 4
INVARIANTS LateLines OnlyNewestGoesOn
PROPERTIES HandOverNotStuck FollowsNewest
CHECK_DEADLOCK FALSE
