\* Everything that a hub, a carrier or a recipient asks for may race; reroutes do not.
CONSTANTS
  User = {"s", "oA", "oB", "v"}
  Hub = {"A", "B", "C", "D"}
  Owner <- Owners
  Sender = "s"
  Origin = "A"
  Dest = "B"
  Recipient = "v"
  AutoAccept = {"A", "B"}
  Nobody = "nobody"
  NoHub = "nohub"
  Racing <- Steps
  MaxPending = 2
  MaxLegs = 2
  MaxSecret = 2
  MaxEvents = 11
  MaxTold = 3
SPECIFICATION PagesSpec
INVARIANTS
  SelfPaymentImpossible
  ChainAgreesWithRows
  RecipientHoldsLiveSecrets
  CollectedByRecipient
  PagesMatchApi
  ReviewsAreEarned
CHECK_DEADLOCK FALSE
