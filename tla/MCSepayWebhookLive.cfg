CONSTANTS
  w1 = w1
  w2 = w2
  None = None
  Chosen = {"both", "qr"}
  Workers <- MCWorkers
  Transfers <- MCTransfers
  RefOf <- MCRefOf
  AmountOf <- MCAmountOf
  AccountOf <- MCAccountOf
  MemoCode <- MCMemoCode
  MemoStudent <- MCMemoStudent
  Inbound <- MCInbound
  OrderCodes = {"o1"}
  OrderRequests <- MCOrderRequests
  Accounts = {"A", "B"}
  StaticAccount = "A"
  StudentIds = {"s1", "s2"}
  MaxTransfers = 2
  MaxFaults = 1
SPECIFICATION FairSpec
PROPERTIES
  EveryTransferAnswered
  StaticPaymentCredited
CHECK_DEADLOCK FALSE
