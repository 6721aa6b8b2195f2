SPECIFICATION Spec
CONSTANTS
  A = A
  B = B
  S = S
  pa = pa
  pb = pb
  pc1 = pc1
  d1 = d1
  d2 = d2
  c1 = c1
  c2 = c2
  NULL = NULL
  Accounts <- Some
  SystemKey = S
  Purses <- SomePurses
  MainPurse <- Mains
  Deploys = {d1, d2}
  DeployOf <- Two
  GenesisBalance <- AtGenesis
  MaxHeight = 1
  MaxBlockSize = 1
  Calls = {c1}
  Requests <- Current
INVARIANTS
  CurrentBlockIsOneBlock
CHECK_DEADLOCK FALSE
