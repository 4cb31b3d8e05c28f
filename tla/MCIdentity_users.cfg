\* One user and the administrator; every kind of fault.
SPECIFICATION Spec
CHECK_DEADLOCK FALSE
CONSTANTS
  user = user
  reg1 = reg1
  reg2 = reg2
  unreg1 = unreg1
  unreg2 = unreg2
  login1 = login1
  login2 = login2
  logout = logout
  tenant = tenant
  admin1 = admin1
  admin2 = admin2
  Admin = admin
  Boot = boot
  None = none
  Users = {user}
  Requests = {reg1, reg2, unreg1, unreg2, login1, login2, logout, tenant, admin1, admin2}
  Kind <- MCKind
  Of <- MCOf
  Sessions <- MCSessions
  MaxFaults = 2
SYMMETRY Symmetry
INVARIANTS
  TypeOK
  DocumentIsRegistered
  RegistrationIsStored
  WalletIsCurrent
