SPECIFICATION MCSpec
CONSTANTS
  Nil = Nil
  tv = tv
  vth = vth
  fl = fl
  other = other
  silo = silo
  none = none
  filled = filled
  ThingVisors = {tv}
  VThings <- MCVThings
  Flavours = {fl, other}
  VSilos = {silo}
  VThingPrefix <- MCPrefix
  Texts <- MCTexts
  Details <- MCDetails
  NoDetails = none
  Requests <- AllRequests
  Times <- MCTimes
  MaxEvents = 3
  MaxCrashes = 0
  FlavourOf <- MCFlavourOf
  SiloName <- NamedAsNothing
CHECK_DEADLOCK FALSE
INVARIANTS
  FlavourNodesAreFlavours
