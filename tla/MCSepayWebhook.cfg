CONSTANTS
  w1 = w1
  w2 = w2
  None = None
  Chosen = {"order", "other", "less", "elsewhere", "qr", "qrRef", "qrWrong", "qrZero", "both", "out"}
  Workers <- MCWorkers
  Transfers <- MCTransfers
  RefOf <- MCRefOf
  AmountOf <- MCAmountOf
  AccountOf <- MCAccountOf
  MemoCode <- MCMemoCode
  MemoStudent <- MCMemoStudent
  Inbound <- MCInbound
  OrderCodes = {"o1", "o2"}
  OrderRequests <- MCOrderRequests
  Accounts = {"A", "B"}
  StaticAccount = "A"
  StudentIds = {"s1", "s2"}
  MaxTransfers = 2
  MaxFaults = 1
SYMMETRY Symmetry
SPECIFICATION Spec
INVARIANTS
  TypeOK
  CreditedOnce
  LedgerMatchesOrders
  BalanceIsLedger
  OneReceiptPerOrder
PROPERTIES
  HonestDuplicate
  LedgerSpec
CHECK_DEADLOCK FALSE
