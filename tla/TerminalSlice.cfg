CONSTANTS
    None = None
    Terminators = {"seven"}
    MaxLines = 1
    MaxSent = 16
    MaxOutput = 3
    MaxCommands = 2
SPECIFICATION Spec
INVARIANT StartIsInChunk
CHECK_DEADLOCK FALSE
