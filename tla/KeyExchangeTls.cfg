SPECIFICATION Spec
CONSTANTS
    None = None
    CutText = CutText
    NoPort = NoPort
    kClient = kClient
    kServer = kServer
    Numeral <- MCNumeral
    Address <- MCAddress
    PeerText <- MCPeerText
    Sources <- MCSources
    PublicKey <- MCPublicKey
    Pem <- MCPem
    Resolves <- MCResolves
INVARIANT TlsExchangeSucceeds
CHECK_DEADLOCK FALSE
