CONSTANTS
  lesson = lesson
  assistant = assistant
  k1 = k1
  k2 = k2
  None = None
  Role <- MCRole
  Amounts = {0, 3}
  Rates = {0, 60}
  Call <- MCCall
  MaxChanges = 2
SPECIFICATION Spec
SYMMETRY Symmetry
INVARIANTS
  TypeOK
  PayableConsistent
  PaidOnce
PROPERTIES
  FrozenAtClose
  PaidStaysPaid
  AutoClosesOnce
