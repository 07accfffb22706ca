CONSTANTS
  Block <- SearchBlock
  Parent <- ShortTree
  Height <- SearchLevels
  Tx = {"t", "u"}
  TxsOf <- SearchTxsOf
  Contract = {"contract"}
  DeployedBy <- MCDeployedBy
  Account = {"p", "q"}
  AccountTables <- SearchTables
  MaxSearches = 2
SPECIFICATION QueriesSpec
INVARIANTS PagesMissNothing BalanceIsLedger ContractFound TransfersExplainBalance QueriesInv
CHECK_DEADLOCK FALSE
