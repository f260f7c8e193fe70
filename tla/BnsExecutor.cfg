SPECIFICATION AnsweredSpec
CONSTANTS
  Jobs = {"j1", "j2", "j3"}
  Values = {"v1", "v2"}
  Keys = {k1}
  Op <- AddReplaceRemove
  Runtimes = {"browser", "wallet", "local"}
  Options <- SomeClients
  MaxOutside = 1
  MaxEvicted = 1
INVARIANT NonceOrder
PROPERTIES ImplementsLedger CallsReturn
CHECK_DEADLOCK FALSE
