CONSTANTS
  x1 = x1
  x2 = x2
  k1 = k1
  k2 = k2
  m1 = m1
  m2 = m2
  s1 = s1
  p = p
  q = q
  None = None
  Deleted = Deleted
  OutOfPackage = FALSE
  IntoPackage = FALSE
  SessionIds <- MCSessionIds
  Classes <- MCClasses
  SoldOnce <- MCSoldOnce
  Price <- MCPrice
  BlockPrice <- MCBlockPrice
  Package <- MCPackage
  Students <- MCStudents
  Enrolled <- MCEnrolled
  MaxTrouble = 1
  MaxModeChanges = 0
  Overrides = {0}
  Moves <- MCMoves
  Calls <- MCCalls
  Managers <- MCManagers
SYMMETRY Symmetry
SPECIFICATION Spec
INVARIANT PackageChargedOnce
CHECK_DEADLOCK FALSE
