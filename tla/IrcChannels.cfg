SPECIFICATION Spec
CONSTANTS
    Channel = {c}
    Nick = {m, n, o}
    Autojoin = {c}
    AutorejoinModes <- AllModes
    MaxUser = 2
    MaxOthers = 1
    MaxDrops = 1
CHECK_DEADLOCK FALSE
INVARIANTS ChannelsAreTheServers UserIsObeyed
PROPERTIES ComesBack
