SPECIFICATION Spec
CONSTANTS
  MaxOps = 10
  MaxStack = 8
  MaxElement = 520
  MaxNum = 8
  MaxKeys = 3
  LockTimeThreshold = 5
  Spends <- MCSpends
  Tx <- MCTx
INVARIANT SpendsAreAuthorized
PROPERTY BranchesFollowStructure
PROPERTY MultisigIsMatching
CHECK_DEADLOCK FALSE
