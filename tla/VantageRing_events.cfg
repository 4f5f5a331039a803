SPECIFICATION Spec
CONSTANTS
  t1 = t1
  a1 = a1
  a2 = a2
  a3 = a3
  Near = Home
  Home = Home
  NoTarget = NoTarget
  Robot = {1, 2}
  Target = {t1}
  Angle = {a1}
  Waypoint = {Home}
  Trunk <- MCTrunk
  Dist <- MCDist
  Step <- MCDirect
  VantageDisc <- MCVantageDisc
  ExploreDisc <- MCExploreDisc
  ApproachPoints <- MCApproachPoints
  Possible <- MCSpot
  Sure = {}
  WideId = {}
  MinVantages = 1
  DwellSync = TRUE
  DwellMaxWait = TRUE
  ReturnMaxWait = TRUE
  GiveUp = TRUE
  Depth = 1
  Events = {"explore", "blocked", "fail", "loss", "gap", "budget", "restart"}
  Budget = 1
SYMMETRY AngleSymmetry
INVARIANTS GoalIsActive NearestKeepsAngle CreditSound CompleteHonest
PROPERTIES ImplementsTeamCapture NeverSetsOutToYield
CHECK_DEADLOCK FALSE
