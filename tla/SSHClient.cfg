SPECIFICATION FairSpec
CONSTANTS
    MaxSent = 2
    MaxTyped = 2
INVARIANTS ReadyOnce GateBacked KeysReachRemote EndedWhole
PROPERTIES DisconnectCloses RemoteEndSeen
CHECK_DEADLOCK FALSE
