SPECIFICATION Spec
CONSTANTS
    CrosswalkStop = 1
    CrosswalkRelatch = 3
    SearchAfter = 1
    SearchOnSingle = FALSE
    SearchConfirm = 1
    SearchMax = 2
    JunctionStop = 1
    ExitConfirm = 1
    JunctionRelatch = 3
    RedLineStop = 1
    LastPos = 8
    Line = 3
    ManeuverLength = 2
    RedAt <- MCRedAt
    CrosswalkAt <- MCCrosswalkAt
    WhiteAt <- MCWhiteAt
    MarkerAt <- MCMarkerAt
    NearMarkerAt <- MCNearMarkerAt
    Plans <- MCPlans
    StopLineGap = 1
    RedLineGap = 1
    LaneLostCoast = 1
    MaxWire = 1
    Allowed = {"obstacle", "silence", "partial", "blind", "flicker", "stop"}
INVARIANTS
    ManeuverTracksGround
    CountedOnce

    
