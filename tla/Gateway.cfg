SPECIFICATION GatewaySpec
CONSTANTS
    Local = Local
    None = None
    laptopA = laptopA
    laptopB = laptopB
    Remote <- TwoLaptops
    MaxQueue = 1
    Rows = 11
    Cols = 11
    MinCells = 16
    left = left
    right = right
    dull = dull
    floor = floor
    Spots <- Places
    Layouts <- Pinned
    Plain = {dull}
    Maskings <- Excluded
    Boxes <- Censored
    Crowds <- Standing
    Scenes <- Pictures
    Under <- CellsUnder
    pinky1 = pinky1
    alone = alone
    both = both
    before = before
    after = after
    Robots = {pinky1}
    Contents = {alone, both}
    Courses = {before, after}
    Titles = {"s1", "mine", "late"}
    Absent = Absent
    Order <- MCOrder
    RobotsIn <- MCRobotsIn
    Possible <- MCPossible
    Preset <- MCPreset
    MaxPresses = 3
    MaxBoots = 1
SYMMETRY Laptops
CHECK_DEADLOCK FALSE
INVARIANTS
    
    RunIsKept
    
    FreeIsSeen
    WallsAreExact
    ListIsFile
    RunningHasRun
