SPECIFICATION Spec
CONSTANTS
  Nil = Nil
  tv = tv
  vth = vth
  add1 = add1
  add2 = add2
  upd = upd
  upd2 = upd2
  del = del
  force = force
  none = none
  noDep = noDep
  NoDetails = none
  NoDeployment = noDep
  ThingVisors = {tv}
  VThings <- MCVThings
  Flavours = {}
  VSilos = {}
  VThingPrefix <- MCPrefix
  Texts <- MCTexts
  Details <- MCDetails
  Requests = {add1, add2, upd, upd2, del, force}
  Kind <- MCKind
  Params <- MCParams
  Handlers <- MCHandlers
  MaxAttempts = 2
  MaxFaults = 0
  Sessions <- ServiceSession
CHECK_DEADLOCK FALSE
INVARIANTS
  ServiceIsDeleted
