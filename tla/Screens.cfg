\* Ctrl taps enough for two latches armed while older timers are on their way;
\* two blocks of up to two rows in views shorter and taller than them; two
\* probes, so that a second tap overlaps the first.
CONSTANTS
    MaxTaps = 5
    HeaderHeight = 1
    Gap = 1
    Tolerance = 1
    Viewports = {3, 6}
    MaxBlocks = 2
    MaxRows = 2
    MaxVelocity = 2
    None = None
    MaxProbes = 2
SPECIFICATION Spec
INVARIANTS LatchMirrored ResponderAllowed NearBottom AnchorKept PagesFollowAnswers
PROPERTIES TimerEndsOwnLatch LatchEnds MomentumEnds AskEnds
