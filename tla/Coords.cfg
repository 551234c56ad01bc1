SPECIFICATION CoordinatesSpec
CONSTANTS
    None = None
    Nowhere = Nowhere
    p1 = p1
    p2 = p2
    here = here
    there = there
    Robots = {p1, p2}
    RobotOrder <- Alone
    Me = p1
    Places = {here, there}
    Origin = here
    MaxAge = 5
    PostTimeout = 1
    Cameras = {"GOAL_C", "GOAL_B"}
    Goal = "GOAL_C"
    EnterFrames = 1
    ExitFrames = 1
    MaxEvents = 3
    MaxEventAge = 1
    MaxRetries = 2
    Backoff <- Waits
    MaxZoneQueue = 1
    MaxRestarts = 1
    Confirm = 2
    FixTimeout = 1
    TfCache = 1
    PoseTimeout = 1
    MaxOutage = 1
    GoalTimeout = 1
    ConfirmTime = 1
    Moving = {"worker", "pose", "zone"}
    MaxNodes = 2
    MaxMiddle = 1
    MaxEdits = 3
    Profiles = {"map4", "map5"}
    Default = "map5"
    Parameter = "map5"
    MaxOrders = 1
    MaxChanges = 2
    NetRestarts = 1
    NetMoving = {"editor", "files", "maps"}
CHECK_DEADLOCK FALSE
INVARIANTS
    
    ArrivalWitnessed
    EventTakenOnce
    CleanIsSaved
    EdgesStand

    
