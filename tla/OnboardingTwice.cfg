CONSTANTS
    None = None
    MaxProbes = 2
SPECIFICATION OnboardingSpec
INVARIANTS CompletedOnce
