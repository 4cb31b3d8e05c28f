SPECIFICATION SharingSpec
CHECK_DEADLOCK FALSE
CONSTANTS
  Nil = Nil
  tv = tv
  vth = vth
  vSilo = silo
  add1 = add1
  add2 = add2
  del = del
  force = force
  att1 = att1
  att2 = att2
  det = det
  set1 = set1
  set2 = set2
  unset = unset
  none = none
  noDep = noDep
  NoDetails = none
  NoDeployment = noDep
  ThingVisors = {tv}
  VThings <- MCVThings
  Flavours = {}
  VSilos = {silo}
  VThingPrefix <- MCPrefix
  Texts = {"", "quotes", "p"}
  Details <- MCDetails
  Requests = {add1, add2, del, force, att1, att2, det, set1, set2, unset}
  Kind <- MCKind
  Params <- MCParams
  Target <- MCTarget
  Handlers <- MCHandlers
  MaxAttempts = 2
  MaxFaults = 2
  Sessions <- MCSessions
INVARIANTS
  SharingTypeOK
  EndpointAgrees
  ConnectedMeansOffered
  ConnectedUnlessWithdrawn
