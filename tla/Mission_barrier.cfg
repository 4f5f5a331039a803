SPECIFICATION FairSpec
CONSTANTS
  g1 = g1
  g2 = g2
  t1 = t1
  t2 = t2
  a1 = a1
  NoGoal = NoGoal
  NoTarget = NoTarget
  Robot = {1, 2}
  Goal = {g1, g2}
  Target = {t1, t2}
  Angle = {a1}
  Trunk <- MCTrunk
  MinVantages = 1
  Missions <- MCPair
  Stamps = {2}
  Lag = 1
  TopicDepth = 2
PROPERTY BarrierReleasesAll
CHECK_DEADLOCK FALSE
