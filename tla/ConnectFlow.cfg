\* Two attempts, one replaced by the next; with the delete dialog one, for which
\* it can be confirmed before, during and after the connect.
CONSTANTS
    h1 = h1
    h2 = h2
    None = None
    Hosts <- MCHosts
    Lan <- MCLan
    MaxTries = 2
    DialogTries = 1
    MaxScreens = 2
    Dialogs = {TRUE, FALSE}
SPECIFICATION LocalSpec
CHECK_DEADLOCK FALSE
INVARIANTS
    SessionFinished
    TopScreenIsCurrent
    SpinnerBacked
    SessionMatchesCurrent
    AttemptShown
PROPERTIES
    NoUnaskedClose
    LastAskIsKept
    SpinnerAwaits
    TimedOutReleased
