SPECIFICATION HalfSpec
CONSTANTS
  Nil = Nil
  tv = tv
  vth = vth
  fl = fl
  silo = silo
  Slots = {s1, s2}
  ThingVisors = {tv}
  VThings <- MCVThings
  Flavours = {fl}
  VSilos = {silo}
  VThingPrefix <- MCPrefix
  Texts <- MCTexts
  Details <- MCDetails
  NoDetails = empty
  empty = empty
  filled = filled
  Requests <- AllRequests
  MaxHeight = 6
INVARIANTS
  TypeOK
  VersionsIdentifyValues
  ValidMeansCurrent
PROPERTIES
  Serialisable
  StoppingOnlyFromRunning
  VThingNeedsRunning
  BornPending
