SPECIFICATION FairSpec
CONSTANTS
    Daemon = {"d1", "d2"}
    OneShot = {}
    Host <- PairHost
    ParticipantId <- PairId
    Sid <- PairSid
    SidToken <- PairToken
    Bootstrap <- PairBootstrap
    DryRun = {}
    Address <- PairAddress
    PublicKey <- PairKey
    NoKey = NoKey
    LossyNetwork = FALSE
    MaxStarts <- PairStartsOnce
PROPERTY EventualConsistency
CHECK_DEADLOCK FALSE
