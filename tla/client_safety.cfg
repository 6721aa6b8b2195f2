SPECIFICATION Spec
CONSTANTS
  A = A
  B = B
  S = S
  pa = pa
  pb = pb
  pc1 = pc1
  d1 = d1
  d2 = d2
  c1 = c1
  c2 = c2
  NULL = NULL
  Accounts <- Some
  SystemKey = S
  Purses <- SomePurses
  MainPurse <- Mains
  Deploys = {d1, d2}
  DeployOf <- Moving
  GenesisBalance <- AtGenesis
  MaxHeight = 2
  MaxBlockSize = 2
  Calls = {c1}
  Requests <- Everything
INVARIANTS
  TypeOK
  ControlInv
  SnapshotInv
  BalanceAtReportedBlock
  BlockListsItsDeploys
  TransactionIsWhole
  OneTransferIsExplained
PROPERTIES
  LooksOnce
CHECK_DEADLOCK FALSE
