CONSTANTS
  r1 = r1
  r2 = r2
  a1 = a1
  a2 = a2
  s1 = s1
  s2 = s2
  None = None
  Requests <- MCRequests
  StudentIds <- MCStudentIds
  AmountOf <- MCAmountOf
  Approvals <- MCApprovals
  Lifetime = 1
  MaxTime = 2
SYMMETRY Symmetry
SPECIFICATION Spec
INVARIANTS
  TypeOK
  LinkedIffCredited
  BalanceIsLedger
PROPERTIES
  NoCreditAfterExpiry
  LedgerSpec
CHECK_DEADLOCK FALSE
