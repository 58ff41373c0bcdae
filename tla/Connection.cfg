CONSTANTS
    Streams = {s1, s2}
    Limit = 2
    Window = 2
    MaxTime = 6
    MaxResets = 5
    PeekSize = 5
    MaxRoom = 3
    MaxWire = 6
SPECIFICATION ConnSpec
CHECK_DEADLOCK FALSE
INVARIANTS KillJustified UndetectedBound AllOrNothing
PROPERTIES TripDrains
