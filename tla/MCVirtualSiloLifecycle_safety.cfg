SPECIFICATION Spec
CONSTANTS
  Nil = Nil
  tv = tv
  vth = vth
  vSilo = silo
  flavour = fl
  add = add
  add2 = add2
  remove = remove
  create1 = create1
  create2 = create2
  destroy = destroy
  force = force
  attach1 = attach1
  attach2 = attach2
  detach = detach
  none = none
  noDep = noDep
  Yaml = yaml
  NoYaml = noYaml
  NoDetails = none
  NoDeployment = noDep
  ThingVisors = {tv}
  VThings <- MCVThings
  Flavours = {fl}
  VSilos = {silo}
  VThingPrefix <- MCPrefix
  Texts <- MCTexts
  Details <- MCDetails
  Requests = {add, add2, remove, create1, create2, destroy, force, attach1, attach2, detach}
  Kind <- MCKind
  Target <- MCTarget
  Handlers <- MCHandlers
  MaxAttempts = 2
  MaxFaults = 2
  Sessions <- SafetySessions
SYMMETRY Symmetry
CHECK_DEADLOCK FALSE
INVARIANTS
  TypeOK
  SiloIsGone
  RunningSiloIsServed
  SiloCanBeDestroyed
  PendingSiloIsExplained
  ConnectedAsAttached
  FlavourGetsReady
