SPECIFICATION FairSpec
CONSTANTS
  k1 = k1
  k2 = k2
  k3 = k3
  v1 = v1
  Null = Null
  Keys <- MCKeys
  Values <- MCValues
  Hash <- MCHash
  InitSize = 2
  MaxCollisions = 0
  ShrinkDivisor = 2
  MaxItems = 6
INVARIANTS TypeOK ChainsSound CollisionsCounted ItemsCounted
PROPERTIES StepsAsDictionary ResizeEnds
CHECK_DEADLOCK FALSE
