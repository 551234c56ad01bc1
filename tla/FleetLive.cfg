SPECIFICATION FairSpec
CONSTANTS
    None = None
    Corrupt = Corrupt
    r1 = r1
    r2 = r2
    Robots = {r1}
    Nav2 = {r1}
    StartRetries = 1
    MaxSeq = 1
    MaxPresses = 1
    MaxFaults = 1
    MaxEvents = 2
    DiesInEstop = TRUE
    Boots <- Either
CHECK_DEADLOCK FALSE
PROPERTIES
    
    
    LostIsHeld
