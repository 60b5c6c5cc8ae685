SPECIFICATION FairSpec

CONSTANTS
    MaxAddresses = 3
    Ips = 2
    AutoReconnect = TRUE
    DelayOption = 1
    DelayGrowing = 2
    DelayMax = 3
    SaslFail = "disconnect"
    Ssl = TRUE
    ConnectStatus <- SomeStatus
    LoginResult <- SomeLogin
    ProxyChanges = TRUE
    AddressChanges = TRUE
    SyncFails = TRUE
    Upgrades = TRUE
    MaxCommands = 3

CHECK_DEADLOCK FALSE
INVARIANTS OneConnection NeverStuck RetryPerAddress
PROPERTIES DelayGrows WantedIsConnected
