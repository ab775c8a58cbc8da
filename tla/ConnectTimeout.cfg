CONSTANTS
    h1 = h1
    h2 = h2
    None = None
    Hosts <- MCHosts
    Lan <- MCLan
    MaxTries = 2
    DialogTries = 1
    MaxScreens = 2
    Dialogs = {FALSE}
SPECIFICATION LocalSpec
CHECK_DEADLOCK FALSE
PROPERTIES
    TimeoutRecovers
