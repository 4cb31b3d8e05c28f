SPECIFICATION MCFairSpec
CONSTANTS
  Nil = Nil
  tv = tv
  vth = vth
  fl = fl
  other = other
  silo = silo
  none = none
  filled = filled
  ThingVisors = {tv}
  VThings <- MCVThings
  Flavours = {fl, other}
  VSilos = {silo}
  VThingPrefix <- MCPrefix
  Texts <- MCTexts
  Details <- MCDetails
  NoDetails = none
  Requests <- AllRequests
  Times <- MCTimes
  MaxEvents = 5
  MaxCrashes = 2
  FlavourOf <- MCFlavourOf
  SiloName <- NamedAsOther
CHECK_DEADLOCK FALSE
INVARIANTS
  TypeOK
  GraphShowsLedger
  IntervalGraph
PROPERTIES
  Follows
  CatchesUp
