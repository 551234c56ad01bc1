SPECIFICATION MissionSpec
CONSTANTS
    CrosswalkStop = 1
    CrosswalkRelatch = 3
    SearchAfter = 1
    SearchOnSingle = FALSE
    SearchConfirm = 1
    SearchMax = 2
    JunctionStop = 1
    ExitConfirm = 1
    JunctionRelatch = 3
    RedLineStop = 1
    LastPos = 8
    Line = 3
    ManeuverLength = 2
    RedAt = {3, 5}
    CrosswalkAt = {0}
    WhiteAt = {6, 7}
    MarkerAt = {8}
    NearMarkerAt = {7, 8}
    Plans <- MCOnePlan
    StopLineGap = 1
    RedLineGap = 1
    LaneLostCoast = 1
    MaxWire = 1
    Allowed = {"obstacle", "stop", "estop"}
    pinky1 = pinky1
    pinky2 = pinky2
    NoRobot = NoRobot
    Robots <- MCRobots
    DomainId <- MCDomainId
    FarAway = 1
    TieWindow = 1
    TieDistance = 0
    LinesByOrder <- MCLinesByOrder
    MaxScenarios = 1
    Held = {}
    Overhead = FALSE
PROPERTIES
    
    ScenarioEnds
