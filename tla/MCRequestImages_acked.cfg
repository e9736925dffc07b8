SPECIFICATION Spec
CONSTANTS
    Attempts = {a1, a2}
    Submissions = {s1, s2}
    c0 = c0
    c1 = c1
    c2 = c2
    Contents = {c0, c1, c2}
    NoContent = none
    Nobody = nobody
    Keys = {1, 2}
    ImageCount <- Counts
    ImagesEnabled = TRUE
    Grace = 3
    MaxAttempt = 1
    MaxScan = 1
    DbPageSize = 1
    ListHorizon = 2
    DeleteBatchSize = 1
    LostAck = {c0, c1, c2}
INVARIANT
    CommittedImagesKept
CHECK_DEADLOCK FALSE
