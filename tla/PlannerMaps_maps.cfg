SPECIFICATION MCSpec
CONSTANTS
  Width = 3
  Height = 3
  Straight = 5
  Diagonal = 7
  Cap = 12
  Infinity = Infinity
  Near <- MCNear
  Maps <- MCMaps
  Updates <- MCUpdates
  Starts <- MCStarts
  Poses <- MCPoses
  Address = {p, q}
  Budget = 3
  c1 = c1
  Column = {c1}
  Res = 2
  Off = 1
  RoiMin <- MCRoiMin
  RoiMax = 9
  HystMin = 1
  HystMax = 4
  Below = 4
  Above = 2
  StackMax = 1
  Clearance = 1
  Message <- MCMessage
  Relief <- MCRelief
  NoMap = NoMap
  NoHeight = NoHeight
SYMMETRY Addresses
INVARIANTS FloodExact PathsAreShortest CachedFloodHolds GroundAsMapped SightInsideBand
CHECK_DEADLOCK FALSE
