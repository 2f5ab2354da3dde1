------------------------------- MODULE MCPlatform -------------------------------
(***************************************************************************)
(* Instances of the services around the shipment: the board, the route of  *)
(* a carrier, the EUR rate, the road distances, the wallet transport, the  *)
(* e-mail outbox, the photos and the accounts.  They share no state, so a  *)
(* behaviour follows one of them, its focus: their product would add only  *)
(* interleavings that commute.                                             *)
(***************************************************************************)
EXTENDS Trusted, Board, Itinerary

CONSTANT Outages

VARIABLES
  focus,
  outbox, hours, armed, erased, warner, batch, crashes,
  purgeAfter, closed, blob, upload, cleaner, outages

Abs(x) == IF x < 0 THEN -x ELSE x

----------------------------------------------------------------------------
(* The board: four hubs on a road with ways off it, on the road metric, in *)
(* whole metres, and on the haversine metric, here in half metres.         *)

Hubs == {"a", "b", "c", "d"}
Metrics == {"road", "haversine"}
At == [a |-> 0, c |-> 75, d |-> 131, b |-> 200]
Off == [a |-> 0, c |-> 4, d |-> 2, b |-> 0]

HubOrder == [a |-> 1, b |-> 2, c |-> 3, d |-> 4]
Owners == [h \in Hubs |-> IF h = "c" THEN "sender" ELSE h \o "_owner"]
Units == [m \in Metrics |-> IF m = "road" THEN 1 ELSE 2]
Ways ==
  [m \in Metrics |->
     [p \in Hubs \X Hubs |->
        IF p[1] = p[2] THEN 0 ELSE Abs(At[p[1]] - At[p[2]]) + Off[p[1]] + Off[p[2]]]]
FromOrigin == [m \in Metrics |-> [h \in Hubs |-> Abs(At[h] - 20) + Off[h]]]
ToTripEnd == [m \in Metrics |-> [h \in Hubs |-> Abs(At[h] - 180) + Off[h]]]
Straight == [m \in Metrics |-> 160]
Shelves ==
  [h \in Hubs |-> [weight |-> IF h = "d" THEN 1 ELSE 2, days |-> IF h = "c" THEN 1 ELSE 2,
                   undeclared |-> h # "c"]]
Automatic == [h \in Hubs |-> h = "d"]
Kinds == {[weight |-> 1, days |-> 1, undeclared |-> TRUE],
          [weight |-> 2, days |-> 2, undeclared |-> FALSE]}

\* While another service is followed, one parcel lies on the board.
OneParcel ==
  parcel.metric = "road" /\ parcel.total = 200 /\ parcel.at = "a" /\ parcel.dest = "b"
    /\ parcel.kind.weight = 1

----------------------------------------------------------------------------
(* The route: three stops, two legs and a preview, four waypoints.         *)

Places == [O |-> 0, s |-> 20, t |-> 60, u |-> 75, D |-> 90]

Numbers == 1 .. 3
StopIds == [s |-> 1, t |-> 2, u |-> 3]
PlacesApart ==
  [p \in (DOMAIN Places) \X (DOMAIN Places) |->
     Abs(Places[p[1]] - Places[p[2]]) + (IF "t" \in {p[1], p[2]} /\ p[1] # p[2] THEN 7 ELSE 0)]

----------------------------------------------------------------------------
(* The router's two maps: the second one corrects one distance and knows a *)
(* road the first one did not.  Mails and photos.                          *)

RouterMaps == <<[p |-> 10, q |-> -1], [p |-> 11, q |-> 20]>>

Mail == INSTANCE Mail WITH
  MaxAttempts <- 2, Limit <- 2, FirstHours <- 24, MaxCrashes <- Outages

Photos == INSTANCE Photos WITH Album <- {"s1", "s2"}, MaxOutages <- 2 * Outages

\* What the services assume of their constants.
ASSUME ServicesConfigured ==
  /\ BoardConfigured /\ HubsApart
  /\ ItineraryConfigured
  /\ QuorumIsConfigured /\ MarketIsARange /\ AgesAreOrdered
  /\ MetresAreWhole
  /\ WordsAreKnown
  /\ Mail!LimitsArePositive

----------------------------------------------------------------------------
vars == <<focus, hub, parcel, cold, leg, legs, preview,
          tick, cached, inFlight, callers, frozen, restarted,
          roadDistances, version, enabled, asking, metric, handed, deploys,
          invoice, pastExpiry, requests, replies, calls, connection, answers,
          outbox, hours, armed, erased, warner, batch, crashes,
          purgeAfter, closed, blob, upload, cleaner, outages,
          links, accounts, sessions, opened, verifying, wallets, connecting>>
Services == {"board", "route", "rates", "roads", "nwc", "mail", "photos", "accounts"}

Follow(service) ==
  /\ focus = service
  /\ UNCHANGED focus
  /\ service # "board" => UNCHANGED boardVars
  /\ service # "route" => UNCHANGED <<legs, preview>>
  /\ service # "rates" => UNCHANGED <<tick, cached, inFlight, callers, frozen, restarted>>
  /\ service # "roads" => UNCHANGED <<roadDistances, version, enabled, asking, metric, handed, deploys>>
  /\ service # "nwc" => UNCHANGED <<invoice, pastExpiry, requests, replies, calls, connection, answers>>
  /\ service # "mail" => UNCHANGED <<outbox, hours, armed, erased, warner, batch, crashes>>
  /\ service # "photos" => UNCHANGED <<purgeAfter, closed, blob, upload, cleaner, outages>>
  /\ service # "accounts" =>
       UNCHANGED <<links, accounts, sessions, opened, verifying, wallets, connecting>>

Init ==
  /\ focus \in Services
  /\ BoardInit /\ (focus # "board" => OneParcel)
  /\ ItineraryInit /\ RatesInit
  /\ RoadsInit /\ (focus # "roads" => enabled)
  /\ NwcInit /\ Mail!MailInit /\ Photos!PhotosInit /\ AccountsInit

Next ==
  \/ Follow("board") /\ BoardNext
  \/ Follow("route") /\ ItineraryNext
  \/ Follow("rates") /\ RatesNext
  \/ Follow("roads") /\ RoadsNext
  \/ Follow("nwc") /\ NwcNext
  \/ Follow("mail") /\ Mail!MailNext
  \/ Follow("photos") /\ Photos!PhotosNext
  \/ Follow("accounts") /\ AccountsNext

\* The intervals of the worker, the requests under way and time go on.
Fairness ==
  /\ WF_vars(Follow("mail") /\ Mail!Dispatcher)
  /\ WF_vars(Follow("photos") /\ Photos!PurgeWorker)
  /\ WF_vars(Follow("photos") /\ Photos!Erasing)
  /\ WF_vars(Follow("photos") /\ Photos!DaysPass)
  /\ \A s \in {"s1", "s2"} : WF_vars(Follow("photos") /\ Photos!Uploading(s))

Spec == Init /\ [][Next]_vars /\ Fairness

----------------------------------------------------------------------------
(* The properties that are not stated in Trusted, explained in the modules *)
(* of the services.                                                        *)

\* Every queued mail is sent or given up, and queued once (outbox.ts,
\* storage-warnings.ts).
MailSettlesOnce == Mail!MailSettlesOnce

\* A blob no row refers to is swept or referred to again (photo-purge.ts).
OrphansSwept == Photos!OrphansSwept
=============================================================================
