SPECIFICATION FairSpec
CONSTANTS
  Robot = {1, 2}
  Length = 4
  HoldDist = 2
  RawResumeDist = 3
  KeepDist = 2
  MoveDist = 0
  PoseStale = 1
  HoldStale = 2
  PeerStatic = 2
  MaxHold = 3
  NavBudget = 4
  Trips = 1
  MaxTrips <- MCTrips
  Cell <- Lane
  Dist <- MCDist
  Step <- MCStep
  Start <- MCStart
  Anchor <- MCStart
  Goals <- MCGoals
PROPERTY DriveEnds
CHECK_DEADLOCK FALSE
