SPECIFICATION Spec
CONSTANTS
    Daemon = {"d1", "x"}
    OneShot = {"s1"}
    Host <- MixedHost
    ParticipantId <- MixedId
    Sid <- MixedSid
    SidToken <- MixedToken
    Bootstrap <- MixedBootstrap
    DryRun = {"x"}
    Address <- MixedAddress
    PublicKey <- MixedKey
    NoKey = NoKey
    LossyNetwork = TRUE
    MaxStarts <- MixedStarts
INVARIANTS
    TypeOK
    NoLostTrigger
    GroupIsolation
CHECK_DEADLOCK FALSE
