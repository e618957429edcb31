\* Two broadcasts, or one submitted twice, to two devices in batches of one.
SPECIFICATION FairSpec
CONSTANTS
    Req = {1, 2}
    Forms <- onceTwice
    Devices = {1, 2}
    BatchSize = 1
    maxAttemptErrors = 2
    MaxMoves = 1
    MaxFaults = 2
    MaxCrashes = 1
INVARIANTS DoneReachedAll RepeatsOnlyAfterLoss
PROPERTIES BroadcastsEnd
