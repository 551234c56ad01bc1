SPECIFICATION FairSpec
CONSTANTS
  p1 = p1
  p2 = p2
  BL = BL
  BR = BR
  TR = TR
  TL = TL
  J = J
  BL_J = BL_J
  J_TR = J_TR
  J_BR = J_BR
  J_TL = J_TL
  NoRobot = NoRobot
  NoRoute = NoRoute
  NoEdge = NoEdge
  Nodes <- AllNodes
  Edges <- AllEdges
  Routes <- AllRoutes
  Robots <- AllRobots
  RoutesOf <- RelayMissions
  DomainId <- Domains
  MaxEdges = 2
  ShortRoad = 2
  LongRoad = 2
  ReserveAhead = 1
  ReleaseBehind = 2
  NodeStopMargin = 1
  MaxStep = 4
  ConfirmUpdates = 1
  RegressTol = 1
  PoseError = 0
  WrongPoses = {}
  MaxWrong = 0
  Overshoot = 1
  Allowed = {}
INVARIANTS
  EdgeExclusion
  TablesAgree
  PermissionHeld
  JunctionExclusion
  NoParkedBlock
PROPERTIES
  
  Interlocked
