SPECIFICATION StagedSpec
CONSTANTS
  NoTxn = NoTxn
  Txn <- TapTxn
  Account <- TapAccount
  Currency <- TapCurrency
  Key <- TapKey
  Fresh <- TapFresh
  Protected <- TapProtected
  Program <- TapProgram
  Opening <- TapOpening
  KeepsRest <- TapKeepsRest
  MaxRuns <- TapRuns
INVARIANT MovementsCommitTogether
CHECK_DEADLOCK FALSE
