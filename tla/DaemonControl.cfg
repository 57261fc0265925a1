SPECIFICATION FairSpec
CONSTANTS
    Pid = {p1, p2}
    Stopper = {s1, s2}
    Sid <- MCSid
    Listen <- MCListen
    Sanitized <- MCSanitized
    None = None
    Empty = Empty
    Garbled = "garbled"
    Foreground = TRUE
    MaxStarts = 2
INVARIANTS
    TypeOK
    CleanupIsOwn
    StopFileIsFresh
    StopSparesOthers
PROPERTIES
    PidFileKept
    StopTakesEffect
CONSTRAINT FirstPid
