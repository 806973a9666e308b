CONSTANTS
  DBs = {0, 1}  Names = {"a", "b", "d"}
  LongMax = 12  MaxString = 3  EmbLimit = 2  FloatMax = 99  WordBits = 8  Rounds = 4
  SetMaxIntset = 2  UintMod = 4  HashMaxZiplist = 2  ZsetMaxZiplist = 2
  PatternKey <- MCPatternKey
  Clients = {c1, c2, c3}  c1 = c1  c2 = c2  c3 = c3
  Actors <- MCActors  Transactors = {c1}
  Requests <- MCRequests  Features <- MCFeatures
  Policy = "allkeys-lru"  MaxMemory = 4
  MaxTime = 2  MaxElems = 3  MaxNumber = 3 MaxQueue = 2  MaxLink = 1
SPECIFICATION Spec
INVARIANTS ReplicaEqual ReplicaVolatile NoEmptyAggregate WatchSound NoStarvedClient
PROPERTY FifoService
