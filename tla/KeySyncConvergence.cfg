SPECIFICATION FairSpec
CONSTANTS
    Daemon = {"d1", "d2"}
    OneShot = {}
    Host <- PairHost
    ParticipantId <- PairId
    Sid <- PairSid
    SidToken <- PairToken
    Bootstrap <- NoBootstrap
    DryRun = {}
    Address <- MovingAddress
    PublicKey <- PairKey
    NoKey = NoKey
    LossyNetwork = FALSE
    MaxStarts <- MovingStarts
PROPERTIES
    OutageKeepsKeys
    CycleEnds
    DiscoveryConverges
    FirstRunKeepsKeys
CHECK_DEADLOCK FALSE
