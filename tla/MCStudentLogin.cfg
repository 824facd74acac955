CONSTANTS
  b1 = b1
  b2 = b2
  d1 = d1
  d2 = d2
  k1 = k1
  k2 = k2
  Nil = Nil
  Browser <- MCBrowser
  Device <- MCDevice
  Call <- MCCall
  MaxTrouble = 2
SPECIFICATION Spec
SYMMETRY Symmetry
INVARIANTS
  TypeOK
  OneSessionPerRequest
  SingleDevice
  NoSharedSession
PROPERTIES
  RemovedIsGone
