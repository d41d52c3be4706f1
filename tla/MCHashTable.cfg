SPECIFICATION FairSpec
CONSTANTS
  k1 = k1  k2 = k2  k3 = k3
  v1 = v1  v2 = v2
  Null = Null
  NULL = Null
  Keys <- MCKeys
  Values <- MCValues
  HashValues <- MCHashValues
  INITIAL_CAPACITY = 2
  SizeLimit = 16
INVARIANTS TypeOK ProbingTerminates LengthCounts MaskIsHome
PROPERTIES MapSpec SetTerminates
