CONSTANTS
    None = None
    Terminators = {"seven"}
    MaxLines = 1
    MaxSent = 12
    MaxOutput = 1
    MaxCommands = 1
SPECIFICATION Spec
INVARIANT NoLeak
CHECK_DEADLOCK FALSE
