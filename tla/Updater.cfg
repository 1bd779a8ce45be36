SPECIFICATION FairSpec
CONSTANTS
    Job = {"web", "cli"}
    CLI = {"cli"}
    Version = {1, 2, 3}
    Pre = {3}
    Requests <- MCRequests
    Parts = 2
    Feeds <- MCFeeds
    FeedRev = 3
    MaxReleases = 1
    MaxCrashes = 1
INVARIANTS TypeOK BinaryWhole
PROPERTIES NoStaleDowngrade UpdateTakesEffect
CHECK_DEADLOCK FALSE
