SPECIFICATION Spec
CONSTANTS
    Sid = "sid"
    SidToken = "token"
    Signer <- MCSigner
    Nonce = {1, 2}
    Body = {"a"}
    timestamp_skew_secs = 1
    nonce_ttl_secs = 2
    MaxBackStep = 0
    Horizon = 4
    MaxRuns = 2
INVARIANTS
    ReplayIsRecent
    TypeOK
    NoReplayWithinRun
    AcceptedAsSigned
    CacheOnlyAccepted
