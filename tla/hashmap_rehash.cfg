SPECIFICATION AddOnlySpec
CONSTANTS
  k1 = k1
  k2 = k2
  k3 = k3
  v1 = v1
  Null = Null
  Keys <- MCKeys
  Values <- MCValues
  Hash <- MCHash
  InitSize = 2
  MaxCollisions = 0
  ShrinkDivisor = 4
  MaxItems = 9
INVARIANT RehashesAllChildren
CHECK_DEADLOCK FALSE
