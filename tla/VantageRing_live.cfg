SPECIFICATION FairSpec
CONSTANTS
  t1 = t1
  a1 = a1
  a2 = a2
  a3 = a3
  Near = Near
  Home = Home
  NoTarget = NoTarget
  Robot = {1, 2}
  Target = {t1}
  Angle = {a1, a2}
  Waypoint = {Home, Near}
  Trunk <- MCTrunk
  Dist <- MCDist
  Step <- MCDirect
  VantageDisc <- MCVantageDisc
  ExploreDisc <- MCExploreDisc
  ApproachPoints <- MCApproachPoints
  Possible <- MCSpot
  Sure <- MCSpot
  WideId = {}
  MinVantages = 1
  DwellSync = TRUE
  DwellMaxWait = FALSE
  ReturnMaxWait = FALSE
  GiveUp = TRUE
  Depth = 1
  Events = {}
  Budget = 0
PROPERTIES DwellEnds TargetCloses
CHECK_DEADLOCK FALSE
