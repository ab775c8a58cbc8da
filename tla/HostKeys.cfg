CONSTANTS
    Handshakes = {h1, h2, h3}
    Sheet = Sheet
    Keys = {k1, k2}
    None = None
SPECIFICATION Spec
INVARIANTS PinNotForgotten TrustedOnce
