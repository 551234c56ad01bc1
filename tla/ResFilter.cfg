SPECIFICATION Spec
CONSTANTS
  p1 = p1
  p2 = p2
  BL = BL
  BR = BR
  TR = TR
  TL = TL
  J = J
  BL_J = BL_J
  J_TR = J_TR
  J_BR = J_BR
  J_TL = J_TL
  NoRobot = NoRobot
  NoRoute = NoRoute
  NoEdge = NoEdge
  Nodes <- AllNodes
  Edges <- AllEdges
  Routes <- AllRoutes
  Robots <- OneRobot
  RoutesOf <- OneMission
  DomainId <- OneDomain
  MaxEdges = 2
  ShortRoad = 2
  LongRoad = 3
  ReserveAhead = 1
  ReleaseBehind = 1
  NodeStopMargin = 1
  MaxStep = 1
  ConfirmUpdates = 3
  RegressTol = 1
  PoseError = 1
  WrongPoses = {5}
  MaxWrong = 1
  Overshoot = 1
  Allowed = {"reassign", "interrupt", "stale", "pause"}
INVARIANTS
  ProgressConfirmed
  ArrivedAtGoal
