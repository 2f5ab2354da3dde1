\* One worker that polls and executes the verbs, two calls that create the payment.
SPECIFICATION FairSpec
CONSTANTS
  w1 = w1
  c1 = c1
  c2 = c2
  Observer <- OneObserver
  Creator <- TwoCreators
  HoldsDieLate = FALSE
  MaxFailures = 2
CHECK_DEADLOCK FALSE
INVARIANTS
  LedgerNeverBehind
  WalletAgrees
PROPERTIES
  KeepsPromise
  InvoicedResolves
  VerbCarriedOut
