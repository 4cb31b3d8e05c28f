SPECIFICATION Spec
CONSTANTS
  Pieces = {"admin", "a", "b", "c"}
  Admin <- MCAdmin
  VThings = {v1}
  Sessions <- MCSessions
PROPERTIES
  OthersUntouched
  ImplementsRegistry
