\* Either string terminator, two commands, every way of cutting the stream.
CONSTANTS
    None = None
    Terminators = {"seven", "eight"}
    MaxLines = 1
    MaxSent = 17
    MaxOutput = 4
    MaxCommands = 2
SPECIFICATION Spec
INVARIANTS CutsIrrelevant RoutedToOwnBlock PromptsShown GlobalAltExplained
           CaptureExact
CHECK_DEADLOCK FALSE
