SPECIFICATION Spec
CONSTANTS
    pinky1 = pinky1
    pinky2 = pinky2
    NoRobot = NoRobot
    Robots <- MCRobots
    DomainId <- MCDomainId
    FarAway = 1
    TieWindow = 1
    TieDistance = 0
    LinesByOrder <- MCLinesByOrder
    MaxScenarios = 2
    Held = {}
    Overhead = TRUE
INVARIANTS
    OneInJunction
    LinesDiffer
