SPECIFICATION FairSpec
CONSTANTS
  drifting = drifting
  left = left
  right = right
  s1 = s1
  s2 = s2
  NoTrack = NoTrack
  Tree = {drifting, left, right}
  Forests <- MCForests
  Centre <- MCCentre
  Estimates <- MCEstimates
  Dist <- MCDist
  MatchRadius = 3
  CellOf <- MCCellOf
  CellId = {0, 1}
  Sector = {1, 2}
  Verdict <- MCVerdict
  Enough = 3
  UseBearing = TRUE
  ConfirmTicks = 2
  SettleTicks = 1
  TrackTimeout = 1
  Slot = {s1, s2}
INVARIANTS TypeOK EmitOnce EachItsOwnTrack
PROPERTIES ConfirmedInARow EventuallyNominated
