SPECIFICATION FairStagedSpec
CONSTANTS
  NoTxn = NoTxn
  Txn <- TapTxn
  Account <- TapAccount
  Currency <- TapCurrency
  Key <- TapKey
  Fresh <- TapFresh
  Protected <- TapProtected
  Program <- TapProgram
  Opening <- TapOpening
  KeepsRest <- TapKeepsRest
  MaxRuns <- TapRuns
INVARIANTS
  TypeOK
  ProtectedNeverNegative
  DuplicateMeansDone
  WholeOrNothing
  BooksBalance
PROPERTIES
  ImplementsLedger
  EveryTransactionEnds
CHECK_DEADLOCK FALSE
