SPECIFICATION BuildSpec
CONSTANTS
  MaxOps = 201
  MaxStack = 1000
  MaxElement = 520
  MaxNum = 1000
  MaxKeys = 20
  LockTimeThreshold = 5
  Utxos <- MCUtxos
  Payments <- MCPayments
  ChangeScript <- MCChangeScript
  Fees = {0, 2}
  Rates = {2}
  LockTimes = {3}
  SignerKeys = {"k1", "k2"}
  BaseRate = 1
  Kb = 4
  ExtraSize = 1
  InputSize = 2
  OutputSize = 1
  ChangeSize = 1
  Margin = 2
  Dust = 2
  None = None
  MaxInputs = 2
  MaxOutputs = 2
  MaxCalls = 6
INVARIANT SerializedIsSound
INVARIANT ChangeIsCurrent
INVARIANT PaymentsKept
INVARIANT SignedIsValid
CHECK_DEADLOCK FALSE
