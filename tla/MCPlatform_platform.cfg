\* Each service by itself, two callers at once, a few failures.
CONSTANTS
  Outages = 1
  Hub <- Hubs
  IdOrder <- HubOrder
  Owner <- Owners
  Metric <- Metrics
  Fine <- Units
  Distance <- Ways
  TripFrom <- FromOrigin
  TripTo <- ToTripEnd
  Direct <- Straight
  MaxDeviation = 10
  MinRate = 500000
  MinProgress = 5
  Ceiling <- Shelves
  AutoAccept <- Automatic
  Fees = {1225}
  ParcelKind <- Kinds
  Offer = 230000
  Stop = {"s", "t", "u"}
  Parcel <- Numbers
  StopOrder <- StopIds
  MetresBetween <- PlacesApart
  MaxWaypoints = 4
  MaxLegs = 2
  Source = {"kraken", "bitstamp", "coinbase"}
  Wrong = "kraken"
  Quotable = {1, 6}
  Plausible = {1, 2, 3, 4, 5}
  Market = {3}
  MinSources = 2
  Ttl = 1
  MaxAge = 1
  Caller = {"x", "y"}
  LastTick = 3
  Pair = {"p", "q"}
  Versions = 2
  Resolver = {"x", "y"}
  MaxRestarts = 1
  Metres <- RouterMaps
  Call = {"x", "y"}
  Spoken = {"nip04"}
  Unpaid = "pending"
  Cancelled = "failed"
  MaxCalls = 3
  Link = {"l1", "l2"}
  Verification = {"x", "y"}
  Connection = {"x", "y"}
  MaxLinks = 2
  MaxErasures = 1
SPECIFICATION Spec
INVARIANTS
  AdvertisedIsKept
  RouteIsShortest
  FrozenForLife
  AnswersAreTrue
  AtomicSignIn
PROPERTY
  MailSettlesOnce
  OrphansSwept
CHECK_DEADLOCK FALSE
