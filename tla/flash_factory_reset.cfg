SPECIFICATION Spec
CONSTANTS
  Values = {v0, v1}
  DefaultValue = v0
  Writable = {"IN"}
INVARIANT FactoryResetHolds
