CONSTANTS
  Words = 2
  Bits = 2
  Budget = 7
SPECIFICATION Spec
INVARIANTS
  AtMostOnce
  NoFalseReject
PROPERTIES
  NonceNeverReused
  ImplementsAntiReplay
