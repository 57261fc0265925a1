SPECIFICATION FairSpec
CONSTANTS
    sync_interval_secs = 2
    jitter_secs = 1
    Word = 10
    Peers = {0, 1}
    None = None
    MaxTime = 8
INVARIANTS
    TypeOK
    StoppedForCause
PROPERTIES
    StoppedIsFinal
    PollKeepsInterval
    ShutdownCompletes
    TriggerIsServed
