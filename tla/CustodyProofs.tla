----------------------------- MODULE CustodyProofs -----------------------------
(***************************************************************************)
(* Theorems of Custody and of Pages, for any users, hubs                   *)
(* and owners, any overlap of requests (Racing) and any number of them,    *)
(* legs, secrets and events.                                               *)
(*                                                                         *)
(* A role is checked by a route against rows that may change before the    *)
(* commit, so SelfPaymentImpossible is not inductive: what carries it is   *)
(* RequestsApart, which says of a request that is still pending where the  *)
(* parcel cannot have moved to since it was checked.                       *)
(***************************************************************************)
EXTENDS Pages, TLAPS

Status == {"DRAFT", "AWAITING_DROPOFF", "AT_HUB", "LEG_BOOKED", "IN_TRANSIT",
           "AWAITING_PICKUP", "CLAIMED", "DELIVERED", "CANCELLED", "FORFEITED", "LOST"}
LegRow == [status : {"requested", "pending_funding", "booked", "picked_up"},
           carrier : User, from : Hub, to : Hub]
ClaimRow == [status : {"pending_funding", "funded", "completed"}, claimant : User]

TypeOK ==
  /\ state \in Status
  /\ here \in Hub \cup {NoHub}
  /\ leg \in LegRow \cup {NoLeg}
  /\ claim \in ClaimRow \cup {NoClaim}
  /\ otp \in Nat /\ token \in Nat
  /\ \A r \in pending : r.by \in User

\* Where the parcel rests and which row is open is told by the status.
RowsOfState ==
  /\ here \in Hub <=> state \in AtHub \cup {"AWAITING_DROPOFF"}
  /\ leg = NoLeg => state \notin {"LEG_BOOKED", "IN_TRANSIT"}
  /\ leg.status \in {"requested", "pending_funding"} => state = "AT_HUB"
  /\ leg.status = "booked" => state = "LEG_BOOKED"
  /\ leg.status = "picked_up" => state = "IN_TRANSIT"
  /\ leg # NoLeg /\ state # "IN_TRANSIT" => leg.from = here
  /\ claim = NoClaim => state # "CLAIMED"
  /\ claim.status = "pending_funding" => state = "AT_HUB"
  /\ claim.status = "funded" => state = "CLAIMED"
  /\ claim.status = "completed" => state = "DELIVERED"
  /\ claim # NoClaim => leg = NoLeg

\* The parties of the rows are not the sender, nor each other's hub.
RowsApart ==
  /\ here \in Hub => Owner[here] # Sender
  /\ leg # NoLeg =>
       /\ leg.carrier \notin {Sender, Owner[leg.from], Owner[leg.to]}
       /\ Owner[leg.from] # Sender /\ Owner[leg.to] # Sender
  /\ claim # NoClaim => claim.claimant # Sender

\* A leg request that was checked and is not committed yet still keeps its roles
\* apart from where the parcel is, or would be returned to.
RequestsApart ==
  \A r \in pending : r.type = "leg_request" =>
    /\ r.to \in Hub /\ r.by \notin {Sender, Owner[r.to]} /\ Owner[r.to] # Sender
    /\ state \notin {"DRAFT", "AWAITING_DROPOFF"}
    /\ here \in Hub => r.by # Owner[here]
    /\ state = "IN_TRANSIT" => r.by # Owner[leg.from]

RolesInv == TypeOK /\ RowsOfState /\ RowsApart /\ RequestsApart

----------------------------------------------------------------------------
(* The routes and the start.                                               *)

\* A route changes nothing but the requests that are pending, and a leg request
\* it lets through has its roles apart.
SentOnly ==
  /\ UNCHANGED <<parcel, secrets, leg, claim, chain, collected>>
  /\ \A r \in pending' \ pending :
       /\ r.by \in User
       /\ r.type = "leg_request" =>
            /\ r.to \in Hub /\ r.by \notin {Sender, Owner[here], Owner[r.to]}
            /\ Owner[r.to] # Sender /\ here \in Hub /\ state \in AtHub

LEMMA RouteOnlySends == ASSUME RolesInv, Route PROVE SentOnly
<1> USE SenderOwnsNoEnd DEF RolesInv, TypeOK, RowsOfState, Send, Event, AtHub, NoLeg
<1>1. ASSUME NEW u \in User,
             \/ OriginAccept(u) \/ OriginCheckin(u)
             \/ AcceptDeposit(u) \/ RejectDeposit(u) \/ WithdrawDeposit(u)
             \/ PickupCheckout(u) \/ LegCheckin(u) \/ LegReturn(u) \/ RecipientClaim(u)
      PROVE  SentOnly
  BY <1>1 DEF OriginAccept, OriginCheckin, AcceptDeposit, RejectDeposit, WithdrawDeposit,
     PickupCheckout, LegCheckin, LegReturn, RecipientClaim, Checkin, Return, SentOnly
<1>2. ASSUME NEW u \in User, NEW h \in Hub, RequestLeg(u, h)
      PROVE  SentOnly
  BY <1>2 DEF RequestLeg, DisjointRoles, SentOnly
<1>3. ASSUME NEW u \in User, NEW w \in User, RecipientPickup(u, w) \/ ClaimedPickup(u, w)
      PROVE  SentOnly
  BY <1>3 DEF RecipientPickup, ClaimedPickup, SentOnly
<1>4. ASSUME NEW u \in User, NEW stage, HandoffReject(u, stage)
      PROVE  SentOnly
  BY <1>4 DEF HandoffReject, MayReject, Rejection, currentHubOf, SentOnly
<1>5. ASSUME NEW h, NEW w, RerouteTo(h, w)
      PROVE  SentOnly
  BY <1>5 DEF RerouteTo, Change, SentOnly
<1>6. CASE CancelShipment
  BY <1>6 DEF CancelShipment, SentOnly
<1>7. QED
  BY <1>1, <1>2, <1>3, <1>4, <1>5, <1>6 DEF Route

\* A shipment just created has its roles apart, and nothing else to keep.
LEMMA InitHolds ==
  ASSUME Init
  PROVE  RolesInv /\ ChainAgreesWithRows /\ RecipientHoldsLiveSecrets
<1> USE SenderOwnsNoEnd DEF Init, NoLeg, NoClaim, AtHub
<1>1. \A r \in pending : r.type = "origin_hub_accept" /\ r.by \in User
  BY DEF Event
<1>2. RolesInv
  BY <1>1 DEF RolesInv, TypeOK, RowsOfState, RowsApart, RequestsApart, Status
<1>3. ChainAgreesWithRows /\ RecipientHoldsLiveSecrets
  BY DEF ChainAgreesWithRows, RecipientHoldsLiveSecrets
<1>4. QED
  BY <1>2, <1>3

----------------------------------------------------------------------------
(* Roles.                                                                  *)

\* Every commit keeps the parties apart, and so does whatever happens between the
\* check of a leg request and its commit.
LEMMA RolesStayApart ==
  ASSUME RolesInv, [Next]_vars
  PROVE  RolesInv'
<1>1. CASE Route
  BY <1>1, RouteOnlySends DEF SentOnly, RolesInv, TypeOK, RowsOfState, RowsApart,
     RequestsApart, parcel, secrets, AtHub
<1>2. ASSUME NEW r \in pending, origin_hub_accept(r) PROVE RolesInv'
  BY <1>2, SenderOwnsNoEnd DEF RolesInv, TypeOK, RowsOfState, RowsApart,
     RequestsApart, Status, LegRow, ClaimRow, origin_hub_accept, Take, Legal, parcel, secrets,
     AtHub, NoLeg, NoClaim
<1>3. ASSUME NEW r \in pending, origin_checkin(r) PROVE RolesInv'
  BY <1>3, SenderOwnsNoEnd DEF RolesInv, TypeOK, RowsOfState, RowsApart,
     RequestsApart, Status, LegRow, ClaimRow, origin_checkin, Take, Legal, rotateClaimToken,
     parcel, secrets, AtHub, NoLeg, NoClaim
<1>4. ASSUME NEW r \in pending, leg_request(r) PROVE RolesInv'
  BY <1>4, SenderOwnsNoEnd DEF RolesInv, TypeOK, RowsOfState, RowsApart,
     RequestsApart, Status, LegRow, ClaimRow, leg_request, Legal, OnTheBoard, parcel, secrets,
     AtHub, NoLeg, NoClaim
<1>5. ASSUME NEW r \in pending, deposit_accept(r) PROVE RolesInv'
  BY <1>5, SenderOwnsNoEnd DEF RolesInv, TypeOK, RowsOfState, RowsApart,
     RequestsApart, Status, LegRow, ClaimRow, deposit_accept, Take, Legal, Requested, parcel,
     secrets, AtHub, NoLeg, NoClaim
<1>6. ASSUME NEW r \in pending, deposit_refused(r) PROVE RolesInv'
  BY <1>6, SenderOwnsNoEnd DEF RolesInv, TypeOK, RowsOfState, RowsApart,
     RequestsApart, Status, LegRow, ClaimRow, deposit_refused, Take, Legal, Requested, parcel,
     secrets, AtHub, NoLeg, NoClaim
<1>7. ASSUME NEW r \in pending, pickup_checkout(r) PROVE RolesInv'
  BY <1>7, SenderOwnsNoEnd DEF RolesInv, TypeOK, RowsOfState, RowsApart,
     RequestsApart, Status, LegRow, ClaimRow, pickup_checkout, Take, Legal, parcel, secrets,
     AtHub, NoLeg, NoClaim
<1>8. ASSUME NEW r \in pending, leg_checkin(r) PROVE RolesInv'
  BY <1>8, SenderOwnsNoEnd DEF RolesInv, TypeOK, RowsOfState, RowsApart,
     RequestsApart, Status, LegRow, ClaimRow, leg_checkin, Take, Legal, rotateOtp, parcel,
     secrets, AtHub, NoLeg, NoClaim
<1>9. ASSUME NEW r \in pending, leg_return(r) PROVE RolesInv'
  BY <1>9, SenderOwnsNoEnd DEF RolesInv, TypeOK, RowsOfState, RowsApart,
     RequestsApart, Status, LegRow, ClaimRow, leg_return, Take, Legal, parcel, secrets, AtHub,
     NoLeg, NoClaim
<1>10. ASSUME NEW r \in pending, recipient_pickup(r) PROVE RolesInv'
  BY <1>10, SenderOwnsNoEnd DEF RolesInv, TypeOK, RowsOfState, RowsApart,
     RequestsApart, Status, LegRow, ClaimRow, recipient_pickup, Take, Legal, parcel, secrets,
     AtHub, NoLeg, NoClaim
<1>11. ASSUME NEW r \in pending, recipient_claim(r) PROVE RolesInv'
  BY <1>11, SenderOwnsNoEnd DEF RolesInv, TypeOK, RowsOfState, RowsApart,
     RequestsApart, Status, LegRow, ClaimRow, recipient_claim, Take, Legal, OnTheBoard, parcel,
     secrets, AtHub, NoLeg, NoClaim
<1>12. ASSUME NEW r \in pending, recipient_claimed_pickup(r) PROVE RolesInv'
  BY <1>12, SenderOwnsNoEnd DEF RolesInv, TypeOK, RowsOfState, RowsApart,
     RequestsApart, Status, LegRow, ClaimRow, recipient_claimed_pickup, Take, Legal, parcel,
     secrets, AtHub, NoLeg, NoClaim
<1>13. ASSUME NEW r \in pending, handoff_reject(r) PROVE RolesInv'
  BY <1>13, SenderOwnsNoEnd DEF RolesInv, TypeOK, RowsOfState, RowsApart,
     RequestsApart, Status, LegRow, ClaimRow, handoff_reject, Take, Legal, parcel, secrets,
     AtHub, NoLeg, NoClaim
<1>14. ASSUME NEW r \in pending, reroute(r) PROVE RolesInv'
  BY <1>14, SenderOwnsNoEnd DEF RolesInv, TypeOK, RowsOfState, RowsApart,
     RequestsApart, Status, LegRow, ClaimRow, reroute, Take, Legal, ReissuedCode,
     ReissuedToken, rotateOtp, rotateClaimToken, parcel, secrets, AtHub, NoLeg, NoClaim
<1>15. ASSUME NEW r \in pending, cancel(r) PROVE RolesInv'
  BY <1>15, SenderOwnsNoEnd DEF RolesInv, TypeOK, RowsOfState, RowsApart,
     RequestsApart, Status, LegRow, ClaimRow, cancel, Take, Legal, OnTheBoard, parcel, secrets,
     AtHub, NoLeg, NoClaim
<1>16. ASSUME NEW r \in pending, Refused(r) PROVE RolesInv'
  BY <1>16, SenderOwnsNoEnd DEF RolesInv, TypeOK, RowsOfState, RowsApart,
     RequestsApart, Status, LegRow, ClaimRow, Refused, parcel, secrets, AtHub, NoLeg,
     NoClaim
<1>17. CASE leg_funded
  BY <1>17, SenderOwnsNoEnd DEF RolesInv, TypeOK, RowsOfState, RowsApart,
     RequestsApart, Status, LegRow, ClaimRow, leg_funded, parcel, secrets, AtHub, NoLeg,
     NoClaim
<1>18. CASE claim_funded
  BY <1>18, SenderOwnsNoEnd DEF RolesInv, TypeOK, RowsOfState, RowsApart,
     RequestsApart, Status, LegRow, ClaimRow, claim_funded, parcel, secrets, AtHub,
     NoLeg, NoClaim
<1>19. CASE Expired
  BY <1>19, SenderOwnsNoEnd DEF RolesInv, TypeOK, RowsOfState, RowsApart,
     RequestsApart, Status, LegRow, ClaimRow, Expired, Requested, parcel, secrets,
     AtHub, NoLeg, NoClaim
<1>20. CASE storage_expiry
  BY <1>20, SenderOwnsNoEnd DEF RolesInv, TypeOK, RowsOfState, RowsApart,
     RequestsApart, Status, LegRow, ClaimRow, storage_expiry, parcel, secrets, AtHub,
     NoLeg, NoClaim
<1>21. CASE transit_timeout
  BY <1>21, SenderOwnsNoEnd DEF RolesInv, TypeOK, RowsOfState, RowsApart,
     RequestsApart, Status, LegRow, ClaimRow, transit_timeout, parcel, secrets, AtHub,
     NoLeg, NoClaim
<1>22. CASE UNCHANGED vars
  BY <1>22 DEF RolesInv, TypeOK, RowsOfState, RowsApart, RequestsApart, Status,
     LegRow, ClaimRow, vars, parcel, secrets, AtHub
<1>23. QED
  BY <1>1, <1>2, <1>3, <1>4, <1>5, <1>6, <1>7, <1>8, <1>9, <1>10, <1>11, <1>12, <1>13,
     <1>14, <1>15, <1>16, <1>17, <1>18, <1>19, <1>20, <1>21, <1>22 DEF Next, Transaction

\* SelfPaymentImpossible: no commit finds payer and payee the same, wherever the
\* parcel was rerouted or returned to since the route kept the parties apart.
THEOREM PartiesDiffer == Spec => []SelfPaymentImpossible
<1>1. Init => RolesInv
  BY InitHolds
<1>2. RolesInv /\ [Next]_vars => RolesInv'
  BY RolesStayApart
<1>3. RolesInv => SelfPaymentImpossible
  BY DEF RolesInv, RowsApart, SelfPaymentImpossible, Payments
<1>4. QED
  BY <1>1, <1>2, <1>3, PTL DEF Spec

----------------------------------------------------------------------------
(* The chain.                                                              *)

\* An event appended under the lock of the shipment extends the one line.
LEMMA AppendsInLine ==
  ASSUME NEW tail, NEW u, ~chain.forked, AppendEvent(tail, u)
  PROVE  ~chain'.forked /\ chain'.custodian = u
  BY DEF AppendEvent, verifyCustodyChain, ChainTail

\* Every commit appends the custodian that its rows say.
LEMMA ChainFollowsRows ==
  ASSUME RolesInv, ChainAgreesWithRows, [Next]_vars
  PROVE  ChainAgreesWithRows'
<1>1. CASE Route
  BY <1>1, RouteOnlySends DEF SentOnly, ChainAgreesWithRows, parcel, secrets, AtHub
<1>2. ASSUME NEW r \in pending, origin_hub_accept(r) PROVE ChainAgreesWithRows'
  BY <1>2, AppendsInLine, SenderOwnsNoEnd DEF ChainAgreesWithRows, RolesInv, TypeOK,
     RowsOfState, LegRow, ClaimRow, Status, origin_hub_accept, Take, Legal, parcel, secrets,
     AtHub, NoLeg, NoClaim
<1>3. ASSUME NEW r \in pending, origin_checkin(r) PROVE ChainAgreesWithRows'
  BY <1>3, AppendsInLine, SenderOwnsNoEnd DEF ChainAgreesWithRows, RolesInv, TypeOK,
     RowsOfState, LegRow, ClaimRow, Status, origin_checkin, Take, Legal, rotateClaimToken,
     parcel, secrets, AtHub, NoLeg, NoClaim
<1>4. ASSUME NEW r \in pending, leg_request(r) PROVE ChainAgreesWithRows'
  BY <1>4, AppendsInLine, SenderOwnsNoEnd DEF ChainAgreesWithRows, RolesInv, TypeOK,
     RowsOfState, LegRow, ClaimRow, Status, leg_request, Legal, OnTheBoard, parcel, secrets,
     AtHub, NoLeg, NoClaim
<1>5. ASSUME NEW r \in pending, deposit_accept(r) PROVE ChainAgreesWithRows'
  BY <1>5, AppendsInLine, SenderOwnsNoEnd DEF ChainAgreesWithRows, RolesInv, TypeOK,
     RowsOfState, LegRow, ClaimRow, Status, deposit_accept, Take, Legal, Requested, parcel,
     secrets, AtHub, NoLeg, NoClaim
<1>6. ASSUME NEW r \in pending, deposit_refused(r) PROVE ChainAgreesWithRows'
  BY <1>6, AppendsInLine, SenderOwnsNoEnd DEF ChainAgreesWithRows, RolesInv, TypeOK,
     RowsOfState, LegRow, ClaimRow, Status, deposit_refused, Take, Legal, Requested, parcel,
     secrets, AtHub, NoLeg, NoClaim
<1>7. ASSUME NEW r \in pending, pickup_checkout(r) PROVE ChainAgreesWithRows'
  BY <1>7, AppendsInLine, SenderOwnsNoEnd DEF ChainAgreesWithRows, RolesInv, TypeOK,
     RowsOfState, LegRow, ClaimRow, Status, pickup_checkout, Take, Legal, parcel, secrets,
     AtHub, NoLeg, NoClaim
<1>8. ASSUME NEW r \in pending, leg_checkin(r) PROVE ChainAgreesWithRows'
  BY <1>8, AppendsInLine, SenderOwnsNoEnd DEF ChainAgreesWithRows, RolesInv, TypeOK,
     RowsOfState, LegRow, ClaimRow, Status, leg_checkin, Take, Legal, rotateOtp, parcel,
     secrets, AtHub, NoLeg, NoClaim
<1>9. ASSUME NEW r \in pending, leg_return(r) PROVE ChainAgreesWithRows'
  BY <1>9, AppendsInLine, SenderOwnsNoEnd DEF ChainAgreesWithRows, RolesInv, TypeOK,
     RowsOfState, LegRow, ClaimRow, Status, leg_return, Take, Legal, parcel, secrets, AtHub,
     NoLeg, NoClaim
<1>10. ASSUME NEW r \in pending, recipient_pickup(r) PROVE ChainAgreesWithRows'
  BY <1>10, AppendsInLine, SenderOwnsNoEnd DEF ChainAgreesWithRows, RolesInv, TypeOK,
     RowsOfState, LegRow, ClaimRow, Status, recipient_pickup, Take, Legal, parcel, secrets,
     AtHub, NoLeg, NoClaim
<1>11. ASSUME NEW r \in pending, recipient_claim(r) PROVE ChainAgreesWithRows'
  BY <1>11, AppendsInLine, SenderOwnsNoEnd DEF ChainAgreesWithRows, RolesInv, TypeOK,
     RowsOfState, LegRow, ClaimRow, Status, recipient_claim, Take, Legal, OnTheBoard, parcel,
     secrets, AtHub, NoLeg, NoClaim
<1>12. ASSUME NEW r \in pending, recipient_claimed_pickup(r) PROVE ChainAgreesWithRows'
  BY <1>12, AppendsInLine, SenderOwnsNoEnd DEF ChainAgreesWithRows, RolesInv, TypeOK,
     RowsOfState, LegRow, ClaimRow, Status, recipient_claimed_pickup, Take, Legal, parcel,
     secrets, AtHub, NoLeg, NoClaim
<1>13. ASSUME NEW r \in pending, handoff_reject(r) PROVE ChainAgreesWithRows'
  BY <1>13, AppendsInLine, SenderOwnsNoEnd DEF ChainAgreesWithRows, RolesInv, TypeOK,
     RowsOfState, LegRow, ClaimRow, Status, handoff_reject, Take, Legal, parcel, secrets,
     AtHub, NoLeg, NoClaim
<1>14. ASSUME NEW r \in pending, reroute(r) PROVE ChainAgreesWithRows'
  BY <1>14, AppendsInLine, SenderOwnsNoEnd DEF ChainAgreesWithRows, RolesInv, TypeOK,
     RowsOfState, LegRow, ClaimRow, Status, reroute, Take, Legal, ReissuedCode, ReissuedToken,
     rotateOtp, rotateClaimToken, parcel, secrets, AtHub, NoLeg, NoClaim
<1>15. ASSUME NEW r \in pending, cancel(r) PROVE ChainAgreesWithRows'
  BY <1>15, AppendsInLine, SenderOwnsNoEnd DEF ChainAgreesWithRows, RolesInv, TypeOK,
     RowsOfState, LegRow, ClaimRow, Status, cancel, Take, Legal, OnTheBoard, parcel, secrets,
     AtHub, NoLeg, NoClaim
<1>16. ASSUME NEW r \in pending, Refused(r) PROVE ChainAgreesWithRows'
  BY <1>16, AppendsInLine, SenderOwnsNoEnd DEF ChainAgreesWithRows, RolesInv, TypeOK,
     RowsOfState, LegRow, ClaimRow, Status, Refused, parcel, secrets, AtHub, NoLeg,
     NoClaim
<1>17. CASE leg_funded
  BY <1>17, AppendsInLine, SenderOwnsNoEnd DEF ChainAgreesWithRows, RolesInv, TypeOK,
     RowsOfState, LegRow, ClaimRow, Status, leg_funded, parcel, secrets, AtHub, NoLeg,
     NoClaim
<1>18. CASE claim_funded
  BY <1>18, AppendsInLine, SenderOwnsNoEnd DEF ChainAgreesWithRows, RolesInv, TypeOK,
     RowsOfState, LegRow, ClaimRow, Status, claim_funded, parcel, secrets, AtHub, NoLeg,
     NoClaim
<1>19. CASE Expired
  BY <1>19, AppendsInLine, SenderOwnsNoEnd DEF ChainAgreesWithRows, RolesInv, TypeOK,
     RowsOfState, LegRow, ClaimRow, Status, Expired, Requested, parcel, secrets, AtHub,
     NoLeg, NoClaim
<1>20. CASE storage_expiry
  BY <1>20, AppendsInLine, SenderOwnsNoEnd DEF ChainAgreesWithRows, RolesInv, TypeOK,
     RowsOfState, LegRow, ClaimRow, Status, storage_expiry, parcel, secrets, AtHub,
     NoLeg, NoClaim
<1>21. CASE transit_timeout
  BY <1>21, AppendsInLine, SenderOwnsNoEnd DEF ChainAgreesWithRows, RolesInv, TypeOK,
     RowsOfState, LegRow, ClaimRow, Status, transit_timeout, parcel, secrets, AtHub,
     NoLeg, NoClaim
<1>22. CASE UNCHANGED vars
  BY <1>22 DEF ChainAgreesWithRows, RolesInv, TypeOK, RowsOfState, LegRow, ClaimRow,
     Status, vars, parcel, secrets, AtHub
<1>23. QED
  BY <1>1, <1>2, <1>3, <1>4, <1>5, <1>6, <1>7, <1>8, <1>9, <1>10, <1>11, <1>12, <1>13,
     <1>14, <1>15, <1>16, <1>17, <1>18, <1>19, <1>20, <1>21, <1>22 DEF Next, Transaction

\* ChainAgreesWithRows: the custody chain never forks, and its last custodian is
\* who the rows say has the parcel.
THEOREM CustodyIsWitnessed == Spec => []ChainAgreesWithRows
<1>1. Init => RolesInv /\ ChainAgreesWithRows
  BY InitHolds
<1>2. RolesInv /\ ChainAgreesWithRows /\ [Next]_vars => RolesInv' /\ ChainAgreesWithRows'
  BY RolesStayApart, ChainFollowsRows
<1>3. QED
  BY <1>1, <1>2, PTL DEF Spec

----------------------------------------------------------------------------
(* The secrets.                                                            *)

\* A commit that changes the recipient, or where they collect, mails what opens
\* the parcel from then on.
LEMMA SecretsFollowRecipient ==
  ASSUME RolesInv, RecipientHoldsLiveSecrets, [Next]_vars
  PROVE  RecipientHoldsLiveSecrets'
<1>1. CASE Route
  BY <1>1, RouteOnlySends DEF SentOnly, RecipientHoldsLiveSecrets, Holds, parcel,
     secrets, AtHub
<1>2. ASSUME NEW r \in pending, origin_hub_accept(r) PROVE RecipientHoldsLiveSecrets'
  BY <1>2, SenderOwnsNoEnd DEF RecipientHoldsLiveSecrets, Holds, Arrived, Tracking,
     Invites, RolesInv, TypeOK, RowsOfState, LegRow, ClaimRow, Status,
     origin_hub_accept, Take, Legal, parcel, secrets, AtHub, NoLeg, NoClaim
<1>3. ASSUME NEW r \in pending, origin_checkin(r) PROVE RecipientHoldsLiveSecrets'
  BY <1>3, SenderOwnsNoEnd DEF RecipientHoldsLiveSecrets, Holds, Arrived, Tracking,
     Invites, RolesInv, TypeOK, RowsOfState, LegRow, ClaimRow, Status, origin_checkin,
     Take, Legal, rotateClaimToken, parcel, secrets, AtHub, NoLeg, NoClaim
<1>4. ASSUME NEW r \in pending, leg_request(r) PROVE RecipientHoldsLiveSecrets'
  BY <1>4, SenderOwnsNoEnd DEF RecipientHoldsLiveSecrets, Holds, Arrived, Tracking,
     Invites, RolesInv, TypeOK, RowsOfState, LegRow, ClaimRow, Status, leg_request,
     OnTheBoard, parcel, secrets, AtHub, NoLeg, NoClaim
<1>5. ASSUME NEW r \in pending, deposit_accept(r) PROVE RecipientHoldsLiveSecrets'
  BY <1>5, SenderOwnsNoEnd DEF RecipientHoldsLiveSecrets, Holds, Arrived, Tracking,
     Invites, RolesInv, TypeOK, RowsOfState, LegRow, ClaimRow, Status, deposit_accept,
     Take, Legal, Requested, parcel, secrets, AtHub, NoLeg, NoClaim
<1>6. ASSUME NEW r \in pending, deposit_refused(r) PROVE RecipientHoldsLiveSecrets'
  BY <1>6, SenderOwnsNoEnd DEF RecipientHoldsLiveSecrets, Holds, Arrived, Tracking,
     Invites, RolesInv, TypeOK, RowsOfState, LegRow, ClaimRow, Status, deposit_refused,
     Take, Legal, Requested, parcel, secrets, AtHub, NoLeg, NoClaim
<1>7. ASSUME NEW r \in pending, pickup_checkout(r) PROVE RecipientHoldsLiveSecrets'
  BY <1>7, SenderOwnsNoEnd DEF RecipientHoldsLiveSecrets, Holds, Arrived, Tracking,
     Invites, RolesInv, TypeOK, RowsOfState, LegRow, ClaimRow, Status, pickup_checkout,
     Take, Legal, parcel, secrets, AtHub, NoLeg, NoClaim
<1>8. ASSUME NEW r \in pending, leg_checkin(r) PROVE RecipientHoldsLiveSecrets'
  BY <1>8, SenderOwnsNoEnd DEF RecipientHoldsLiveSecrets, Holds, Arrived, Tracking,
     Invites, RolesInv, TypeOK, RowsOfState, LegRow, ClaimRow, Status, leg_checkin,
     Take, Legal, rotateOtp, parcel, secrets, AtHub, NoLeg, NoClaim
<1>9. ASSUME NEW r \in pending, leg_return(r) PROVE RecipientHoldsLiveSecrets'
  BY <1>9, SenderOwnsNoEnd DEF RecipientHoldsLiveSecrets, Holds, Arrived, Tracking,
     Invites, RolesInv, TypeOK, RowsOfState, LegRow, ClaimRow, Status, leg_return, Take, Legal,
     parcel, secrets, AtHub, NoLeg, NoClaim
<1>10. ASSUME NEW r \in pending, recipient_pickup(r) PROVE RecipientHoldsLiveSecrets'
  BY <1>10, SenderOwnsNoEnd DEF RecipientHoldsLiveSecrets, Holds, Arrived, Tracking,
     Invites, RolesInv, TypeOK, RowsOfState, LegRow, ClaimRow, Status, recipient_pickup,
     Take, Legal, parcel, secrets, AtHub, NoLeg, NoClaim
<1>11. ASSUME NEW r \in pending, recipient_claim(r) PROVE RecipientHoldsLiveSecrets'
  BY <1>11, SenderOwnsNoEnd DEF RecipientHoldsLiveSecrets, Holds, Arrived, Tracking,
     Invites, RolesInv, TypeOK, RowsOfState, LegRow, ClaimRow, Status, recipient_claim,
     Take, Legal, OnTheBoard, parcel, secrets, AtHub, NoLeg, NoClaim
<1>12. ASSUME NEW r \in pending, recipient_claimed_pickup(r) PROVE RecipientHoldsLiveSecrets'
  BY <1>12, SenderOwnsNoEnd DEF RecipientHoldsLiveSecrets, Holds, Arrived, Tracking,
     Invites, RolesInv, TypeOK, RowsOfState, LegRow, ClaimRow, Status,
     recipient_claimed_pickup, Take, Legal, parcel, secrets, AtHub, NoLeg, NoClaim
<1>13. ASSUME NEW r \in pending, handoff_reject(r) PROVE RecipientHoldsLiveSecrets'
  BY <1>13, SenderOwnsNoEnd DEF RecipientHoldsLiveSecrets, Holds, Arrived, Tracking,
     Invites, RolesInv, TypeOK, RowsOfState, LegRow, ClaimRow, Status, handoff_reject,
     Take, Legal, parcel, secrets, AtHub, NoLeg, NoClaim
<1>14. ASSUME NEW r \in pending, reroute(r) PROVE RecipientHoldsLiveSecrets'
  BY <1>14, SenderOwnsNoEnd DEF RecipientHoldsLiveSecrets, Holds, Arrived, Tracking,
     Invites, RolesInv, TypeOK, RowsOfState, LegRow, ClaimRow, Status, reroute, Take, Legal,
     ReissuedCode, ReissuedToken, rotateOtp, rotateClaimToken, parcel, secrets, AtHub,
     NoLeg, NoClaim
<1>15. ASSUME NEW r \in pending, cancel(r) PROVE RecipientHoldsLiveSecrets'
  BY <1>15, SenderOwnsNoEnd DEF RecipientHoldsLiveSecrets, Holds, Arrived, Tracking,
     Invites, RolesInv, TypeOK, RowsOfState, LegRow, ClaimRow, Status, cancel, Take, Legal,
     OnTheBoard, parcel, secrets, AtHub, NoLeg, NoClaim
<1>16. ASSUME NEW r \in pending, Refused(r) PROVE RecipientHoldsLiveSecrets'
  BY <1>16, SenderOwnsNoEnd DEF RecipientHoldsLiveSecrets, Holds, Arrived, Tracking,
     Invites, RolesInv, TypeOK, RowsOfState, LegRow, ClaimRow, Status, Refused, parcel,
     secrets, AtHub, NoLeg, NoClaim
<1>17. CASE leg_funded
  BY <1>17, SenderOwnsNoEnd DEF RecipientHoldsLiveSecrets, Holds, Arrived, Tracking,
     Invites, RolesInv, TypeOK, RowsOfState, LegRow, ClaimRow, Status, leg_funded,
     parcel, secrets, AtHub, NoLeg, NoClaim
<1>18. CASE claim_funded
  BY <1>18, SenderOwnsNoEnd DEF RecipientHoldsLiveSecrets, Holds, Arrived, Tracking,
     Invites, RolesInv, TypeOK, RowsOfState, LegRow, ClaimRow, Status, claim_funded,
     parcel, secrets, AtHub, NoLeg, NoClaim
<1>19. CASE Expired
  BY <1>19, SenderOwnsNoEnd DEF RecipientHoldsLiveSecrets, Holds, Arrived, Tracking,
     Invites, RolesInv, TypeOK, RowsOfState, LegRow, ClaimRow, Status, Expired,
     Requested, parcel, secrets, AtHub, NoLeg, NoClaim
<1>20. CASE storage_expiry
  BY <1>20, SenderOwnsNoEnd DEF RecipientHoldsLiveSecrets, Holds, Arrived, Tracking,
     Invites, RolesInv, TypeOK, RowsOfState, LegRow, ClaimRow, Status, storage_expiry,
     parcel, secrets, AtHub, NoLeg, NoClaim
<1>21. CASE transit_timeout
  BY <1>21, SenderOwnsNoEnd DEF RecipientHoldsLiveSecrets, Holds, Arrived, Tracking,
     Invites, RolesInv, TypeOK, RowsOfState, LegRow, ClaimRow, Status, transit_timeout,
     parcel, secrets, AtHub, NoLeg, NoClaim
<1>22. CASE UNCHANGED vars
  BY <1>22 DEF RecipientHoldsLiveSecrets, Holds, Arrived, Tracking, Invites, RolesInv,
     TypeOK, RowsOfState, LegRow, ClaimRow, Status, vars, parcel, secrets, AtHub
<1>23. QED
  BY <1>1, <1>2, <1>3, <1>4, <1>5, <1>6, <1>7, <1>8, <1>9, <1>10, <1>11, <1>12, <1>13,
     <1>14, <1>15, <1>16, <1>17, <1>18, <1>19, <1>20, <1>21, <1>22 DEF Next, Transaction

\* RecipientHoldsLiveSecrets: whoever is the recipient now has been sent the code
\* and the token that open the parcel now, whatever reroutes came before.
THEOREM RecipientIsInvited == Spec => []RecipientHoldsLiveSecrets
<1>1. Init => RolesInv /\ RecipientHoldsLiveSecrets
  BY InitHolds
<1>2. RolesInv /\ RecipientHoldsLiveSecrets /\ [Next]_vars =>
      RolesInv' /\ RecipientHoldsLiveSecrets'
  BY RolesStayApart, SecretsFollowRecipient
<1>3. QED
  BY <1>1, <1>2, PTL DEF Spec

----------------------------------------------------------------------------
(* Who collects.                                                           *)

\* No mail carries a secret that is not minted yet, and the live ones were only
\* ever mailed to the recipient of the moment.
LiveSecretsAreTheirs ==
  \A m \in mail :
    /\ m.secret \in Nat
    /\ m.template = "parcel_arrived" =>
         m.secret <= otp /\ (m.secret = otp => m.to = recipient)
    /\ m.template = "parcel_tracking" =>
         m.secret <= token /\ (m.secret = token => m.to = recipient)

\* Whoever showed a live secret is still the recipient when their request commits,
\* because a reroute is alone while it is under way.
ShownByRecipient ==
  /\ \A r \in pending :
       /\ r.type \in {"recipient_pickup", "recipient_claim", "recipient_claimed_pickup"} =>
            r.by = recipient
       /\ r.type = "reroute" => pending = {r}
  /\ claim # NoClaim => claim.claimant = recipient

\* What was collected stays so.
Collected == collected # Nobody => state = "DELIVERED" /\ collected = recipient

CollectInv == LiveSecretsAreTheirs /\ ShownByRecipient /\ Collected

\* Nothing was mailed, asked for or collected.
LEMMA CollectInit == Init => CollectInv
  BY DEF Init, CollectInv, LiveSecretsAreTheirs, ShownByRecipient, Collected, Event

\* A request that shows a secret shows a live one, and none is let in beside a
\* reroute.
LEMMA ShownWhenSent ==
  ASSUME "reroute" \notin Racing, CollectInv, Route
  PROVE  ShownByRecipient'
<1> USE DEF CollectInv, LiveSecretsAreTheirs, ShownByRecipient, Send, Event, Holds, parcel,
      secrets
<1>1. ASSUME NEW u \in User,
             \/ OriginAccept(u) \/ OriginCheckin(u)
             \/ AcceptDeposit(u) \/ RejectDeposit(u) \/ WithdrawDeposit(u)
             \/ PickupCheckout(u) \/ LegCheckin(u) \/ LegReturn(u)
      PROVE  ShownByRecipient'
  BY <1>1 DEF OriginAccept, OriginCheckin, AcceptDeposit, RejectDeposit, WithdrawDeposit,
     PickupCheckout, LegCheckin, LegReturn, Checkin, Return
<1>2. ASSUME NEW u \in User, RecipientClaim(u) PROVE ShownByRecipient'
  BY <1>2 DEF RecipientClaim, MayClaim
<1>3. ASSUME NEW u \in User, NEW h \in Hub, RequestLeg(u, h) PROVE ShownByRecipient'
  BY <1>3 DEF RequestLeg
<1>4. ASSUME NEW u \in User, NEW w \in User, RecipientPickup(u, w) PROVE ShownByRecipient'
  BY <1>4 DEF RecipientPickup, MayHandOver
<1>5. ASSUME NEW u \in User, NEW w \in User, ClaimedPickup(u, w) PROVE ShownByRecipient'
  BY <1>5 DEF ClaimedPickup, MayHandOverClaimed
<1>6. ASSUME NEW u \in User, NEW stage, HandoffReject(u, stage) PROVE ShownByRecipient'
  BY <1>6 DEF HandoffReject, Rejection
<1>7. ASSUME NEW h, NEW w, RerouteTo(h, w) PROVE ShownByRecipient'
  BY <1>7 DEF RerouteTo, Change
<1>8. CASE CancelShipment
  BY <1>8 DEF CancelShipment
<1>9. QED
  BY <1>1, <1>2, <1>3, <1>4, <1>5, <1>6, <1>7, <1>8 DEF Route

\* A commit mails a new secret to the new recipient only, and lets nobody else
\* collect.
LEMMA CollectStep ==
  ASSUME "reroute" \notin Racing, RolesInv, CollectInv, [Next]_vars
  PROVE  CollectInv'
<1> USE DEF CollectInv, LiveSecretsAreTheirs, ShownByRecipient, Collected, RolesInv, TypeOK,
      RowsOfState, ClaimRow, Take, Legal, Arrived, Tracking, parcel, secrets, AtHub, NoLeg, NoClaim
<1>1. CASE Route
  BY <1>1, ShownWhenSent, RouteOnlySends DEF SentOnly
<1>2. ASSUME NEW r \in pending, origin_hub_accept(r) PROVE CollectInv'
  BY <1>2 DEF origin_hub_accept
<1>3. ASSUME NEW r \in pending, origin_checkin(r) PROVE CollectInv'
  BY <1>3 DEF origin_checkin, rotateClaimToken
<1>4. ASSUME NEW r \in pending, leg_request(r) PROVE CollectInv'
  BY <1>4 DEF leg_request, Legal, OnTheBoard
<1>5. ASSUME NEW r \in pending, deposit_accept(r) PROVE CollectInv'
  BY <1>5 DEF deposit_accept, Requested
<1>6. ASSUME NEW r \in pending, deposit_refused(r) PROVE CollectInv'
  BY <1>6 DEF deposit_refused, Requested
<1>7. ASSUME NEW r \in pending, pickup_checkout(r) PROVE CollectInv'
  BY <1>7 DEF pickup_checkout
<1>8. ASSUME NEW r \in pending, leg_checkin(r) PROVE CollectInv'
  BY <1>8 DEF leg_checkin, rotateOtp
<1>9. ASSUME NEW r \in pending, leg_return(r) PROVE CollectInv'
  BY <1>9 DEF leg_return
<1>10. ASSUME NEW r \in pending, recipient_pickup(r) PROVE CollectInv'
  BY <1>10 DEF recipient_pickup
<1>11. ASSUME NEW r \in pending, recipient_claim(r) PROVE CollectInv'
  BY <1>11 DEF recipient_claim, OnTheBoard
<1>12. ASSUME NEW r \in pending, recipient_claimed_pickup(r) PROVE CollectInv'
  BY <1>12 DEF recipient_claimed_pickup
<1>13. ASSUME NEW r \in pending, handoff_reject(r) PROVE CollectInv'
  BY <1>13 DEF handoff_reject
<1>14. ASSUME NEW r \in pending, reroute(r) PROVE CollectInv'
  BY <1>14 DEF reroute, ReissuedCode, ReissuedToken, rotateOtp, rotateClaimToken, Invites
<1>15. ASSUME NEW r \in pending, cancel(r) PROVE CollectInv'
  BY <1>15 DEF cancel, OnTheBoard
<1>16. ASSUME NEW r \in pending, Refused(r) PROVE CollectInv'
  BY <1>16 DEF Refused
<1>17. CASE leg_funded
  BY <1>17 DEF leg_funded
<1>18. CASE claim_funded
  BY <1>18 DEF claim_funded
<1>19. CASE Expired
  BY <1>19 DEF Expired, Requested
<1>20. CASE storage_expiry
  BY <1>20 DEF storage_expiry
<1>21. CASE transit_timeout
  BY <1>21 DEF transit_timeout
<1>22. CASE UNCHANGED vars
  BY <1>22 DEF vars
<1>23. QED
  BY <1>1, <1>2, <1>3, <1>4, <1>5, <1>6, <1>7, <1>8, <1>9, <1>10, <1>11, <1>12, <1>13,
     <1>14, <1>15, <1>16, <1>17, <1>18, <1>19, <1>20, <1>21, <1>22 DEF Next, Transaction

\* CollectedByRecipient: who collects is the recipient of the moment, and the
\* claimant who is paid for it, if no request overlaps with a reroute: whatever
\* mails were sent before the code and the token were reissued.
THEOREM OnlyRecipientCollects ==
  ASSUME "reroute" \notin Racing
  PROVE  Spec => []CollectedByRecipient
<1>1. Init => RolesInv /\ CollectInv
  BY InitHolds, CollectInit
<1>2. RolesInv /\ CollectInv /\ [Next]_vars => (RolesInv /\ CollectInv)'
  BY RolesStayApart, CollectStep
<1>3. CollectInv => CollectedByRecipient
  BY DEF CollectInv, ShownByRecipient, Collected, CollectedByRecipient
<1>4. QED
  BY <1>1, <1>2, <1>3, PTL DEF Spec

----------------------------------------------------------------------------
(* Reviews.  The detail of a shipment that is over is told by closed rows  *)
(* and the custody chain; the invariant says that at every moment the legs, *)
(* the stays and the chain name exactly those who had a part so far.       *)

FundedLegs == {l \in Legs : l.status \in FundedLegStatuses}
Known == {Origin} \cup UNION {{l.from, l.to} : l \in Legs}
ClaimHistory == [status : {"pending_funding", "funded", "completed", "expired"}, claimant : User]
ToldOfClaims == [type : {"claim_requested", "funded", "expired"}, claim : Nat,
                 reason : {"none", "claim_funding"}, by : User \cup {Nobody}]

\* The claim row that is live is the last one, and the chain names no later one.
ClaimsTracked ==
  /\ claims \in Seq(ClaimHistory) /\ told \in Seq(ToldOfClaims)
  /\ claim # NoClaim => claims # <<>> /\ claims[Len(claims)] = claim
  /\ \A k \in DOMAIN told : told[k].claim \in DOMAIN claims

\* A funding is in the chain before its row can say so, and stays there after.
FundingTold(i) == \E k \in DOMAIN told : told[k].type = "funded" /\ told[k].claim = i
FundingsTold ==
  \A i \in DOMAIN claims : claims[i].status \in {"funded", "completed"} => FundingTold(i)

\* The parcel is, and was, at hubs that some leg names, or at its origin.
HubsKnown == hosted \subseteq Known /\ (here \in Hub => here \in Known)

\* Who had a part in the shipment, by the part.
HubParts == {<<Owner[h], "hub">> : h \in hosted}
LegParts == {<<l.carrier, "carrier">> : l \in FundedLegs}
ClaimParts == {<<claims[i].claimant, "carrier">> : i \in {j \in DOMAIN claims : FundingTold(j)}}

PartsShown == engaged = {<<Sender, "sender">>} \cup HubParts \cup LegParts \cup ClaimParts

ReviewInv == ClaimsTracked /\ FundingsTold /\ HubsKnown /\ PartsShown

\* How a leg, a claim and the parcel may move in one step.
LegMoves ==
  \/ leg' = leg
  \/ leg = NoLeg /\ leg' \in LegRow /\ leg'.status = "requested"
  \/ /\ leg # NoLeg /\ leg' \in LegRow
     /\ leg'.carrier = leg.carrier /\ leg'.from = leg.from /\ leg'.to = leg.to
     /\ leg.status \in {"booked", "picked_up"} => leg'.status \in {"booked", "picked_up"}
     /\ leg'.status \in {"booked", "picked_up"} =>
          leg.status \in {"booked", "picked_up"} \/ state' = "LEG_BOOKED"
  \/ leg # NoLeg /\ leg' = NoLeg /\ (state' = "LOST" => leg.status = "picked_up")
ClaimMoves ==
  \/ claim' = claim
  \/ /\ claim = NoClaim /\ claim' \in ClaimRow /\ claim'.status = "pending_funding"
     /\ state = "AT_HUB" /\ state' = "AT_HUB"
  \/ /\ claim.status = "pending_funding" /\ claim' = [claim EXCEPT !.status = "funded"]
     /\ state' = "CLAIMED"
  \/ /\ claim.status = "funded" /\ claim' = [claim EXCEPT !.status = "completed"]
     /\ state' = "DELIVERED"
  \/ /\ claim # NoClaim /\ claim' = NoClaim
     /\ state' = "FORFEITED" \/ (state' = "AT_HUB" /\ claim.status = "pending_funding")
HereMoves ==
  here' \in Hub => here' \in {here, Origin} \/ (leg # NoLeg /\ here' \in {leg.from, leg.to})
Ends == state = "FORFEITED" => state' = "FORFEITED"
RowsMove == LegMoves /\ ClaimMoves /\ HereMoves /\ Ends

\* Each transaction moves the rows one step along their lifecycle.
LEMMA RowsMoveOn ==
  ASSUME RolesInv, [Next]_vars
  PROVE  RowsMove
<1> USE SenderOwnsNoEnd DEF RolesInv, TypeOK, RowsOfState, LegRow, ClaimRow, Take, Legal, parcel,
      secrets, AtHub, NoLeg, NoClaim, RowsMove, LegMoves, ClaimMoves, HereMoves,
      Ends
<1>1. CASE Route
  BY <1>1, RouteOnlySends DEF SentOnly
<1>2. ASSUME NEW r \in pending, origin_hub_accept(r) PROVE RowsMove
  BY <1>2 DEF origin_hub_accept
<1>3. ASSUME NEW r \in pending, origin_checkin(r) PROVE RowsMove
  BY <1>3 DEF origin_checkin
<1>4. ASSUME NEW r \in pending, leg_request(r) PROVE RowsMove
  BY <1>4 DEF leg_request, Legal, OnTheBoard, RequestsApart
<1>5. ASSUME NEW r \in pending, deposit_accept(r) PROVE RowsMove
  BY <1>5 DEF deposit_accept, Requested
<1>6. ASSUME NEW r \in pending, deposit_refused(r) PROVE RowsMove
  BY <1>6 DEF deposit_refused, Requested
<1>7. ASSUME NEW r \in pending, pickup_checkout(r) PROVE RowsMove
  BY <1>7 DEF pickup_checkout
<1>8. ASSUME NEW r \in pending, leg_checkin(r) PROVE RowsMove
  BY <1>8 DEF leg_checkin
<1>9. ASSUME NEW r \in pending, leg_return(r) PROVE RowsMove
  BY <1>9 DEF leg_return
<1>10. ASSUME NEW r \in pending, recipient_pickup(r) PROVE RowsMove
  BY <1>10 DEF recipient_pickup
<1>11. ASSUME NEW r \in pending, recipient_claim(r) PROVE RowsMove
  BY <1>11 DEF recipient_claim, OnTheBoard
<1>12. ASSUME NEW r \in pending, recipient_claimed_pickup(r) PROVE RowsMove
  BY <1>12 DEF recipient_claimed_pickup
<1>13. ASSUME NEW r \in pending, handoff_reject(r) PROVE RowsMove
  BY <1>13 DEF handoff_reject
<1>14. ASSUME NEW r \in pending, reroute(r) PROVE RowsMove
  BY <1>14 DEF reroute
<1>15. ASSUME NEW r \in pending, cancel(r) PROVE RowsMove
  BY <1>15 DEF cancel, OnTheBoard
<1>16. ASSUME NEW r \in pending, Refused(r) PROVE RowsMove
  BY <1>16 DEF Refused
<1>17. CASE leg_funded
  BY <1>17 DEF leg_funded
<1>18. CASE claim_funded
  BY <1>18 DEF claim_funded
<1>19. CASE Expired
  BY <1>19 DEF Expired, Requested
<1>20. CASE storage_expiry
  BY <1>20 DEF storage_expiry
<1>21. CASE transit_timeout
  BY <1>21 DEF transit_timeout
<1>22. CASE UNCHANGED vars
  BY <1>22 DEF vars
<1>23. QED
  BY <1>1, <1>2, <1>3, <1>4, <1>5, <1>6, <1>7, <1>8, <1>9, <1>10, <1>11, <1>12, <1>13,
     <1>14, <1>15, <1>16, <1>17, <1>18, <1>19, <1>20, <1>21, <1>22 DEF Next, Transaction

\* The legs that were funded go on naming their carriers when their rows are closed,
\* whatever the ending, and only a booking adds one (applyRowChanges).
LEMMA LegPartsGrow ==
  ASSUME RolesInv, RolesInv', LegMoves, LegRows
  PROVE  /\ LegParts' = LegParts \cup
              (IF state' = "LEG_BOOKED" THEN {<<leg'.carrier, "carrier">>} ELSE {})
         /\ Known \subseteq Known'
<1> DEFINE Carriers(legs) ==
      {<<l.carrier, "carrier">> : l \in {k \in legs : k.status \in FundedLegStatuses}}
    EndHubs(legs) == {Origin} \cup UNION {{l.from, l.to} : l \in legs}
<1>1. /\ LegParts = Carriers(Legs) /\ LegParts' = Carriers(Legs')
      /\ Known = EndHubs(Legs) /\ Known' = EndHubs(Legs')
  BY DEF LegParts, FundedLegs, Known
<1>2. state' = "LEG_BOOKED" => leg' # NoLeg /\ leg'.status = "booked"
  BY DEF RolesInv, TypeOK, RowsOfState, LegRow
<1>3. CASE leg' = leg
  <2>1. Legs' = Legs
    BY <1>3 DEF LegRows, Legs
  <2>2. state' = "LEG_BOOKED" => <<leg'.carrier, "carrier">> \in Carriers(Legs)
    <3> SUFFICES ASSUME state' = "LEG_BOOKED"
                 PROVE  <<leg'.carrier, "carrier">> \in Carriers(Legs)
      OBVIOUS
    <3>1. leg \in Legs /\ leg.status \in FundedLegStatuses /\ leg'.carrier = leg.carrier
      BY <1>2, <1>3 DEF Legs, FundedLegStatuses
    <3> QED  BY <3>1
  <2> HIDE DEF Carriers, EndHubs
  <2> QED  BY <1>1, <2>1, <2>2
<1>4. CASE leg = NoLeg /\ leg' \in LegRow /\ leg'.status = "requested"
  <2>1. leg' # NoLeg /\ Legs' = Legs \cup {leg'}
    BY <1>4 DEF LegRows, Legs, NoLeg, LegRow
  <2>2. leg'.status \notin FundedLegStatuses /\ state' # "LEG_BOOKED"
    BY <1>2, <1>4 DEF FundedLegStatuses
  <2>3. Carriers(Legs') = Carriers(Legs)
    BY <2>1, <2>2
  <2>4. EndHubs(Legs) \subseteq EndHubs(Legs')
    BY <2>1
  <2> HIDE DEF Carriers, EndHubs
  <2> QED  BY <1>1, <2>2, <2>3, <2>4
<1>5. ASSUME leg # NoLeg, NEW row, Legs' = past \cup {row},
             row.carrier = leg.carrier, row.from = leg.from, row.to = leg.to,
             leg.status \in FundedLegStatuses => row.status \in FundedLegStatuses,
             row.status \in FundedLegStatuses =>
               leg.status \in FundedLegStatuses \/ (state' = "LEG_BOOKED" /\ row = leg'),
             state' = "LEG_BOOKED" => row = leg'
      PROVE  /\ LegParts' = LegParts \cup
                  (IF state' = "LEG_BOOKED" THEN {<<leg'.carrier, "carrier">>} ELSE {})
             /\ Known \subseteq Known'
  <2>1. Legs = past \cup {leg}
    BY <1>5 DEF Legs
  <2>2. state' = "LEG_BOOKED" => row.status \in FundedLegStatuses
    BY <1>2, <1>5 DEF FundedLegStatuses
  <2>3. EndHubs(Legs) \subseteq EndHubs(Legs')
    BY <1>5, <2>1
  <2>4. Carriers(Legs') = Carriers(Legs) \cup
          (IF state' = "LEG_BOOKED" THEN {<<leg'.carrier, "carrier">>} ELSE {})
    <3>1. CASE leg.status \in FundedLegStatuses
      <4>1. Carriers(Legs') = Carriers(past) \cup {<<leg.carrier, "carrier">>}
        BY <1>5, <3>1
      <4>2. Carriers(Legs) = Carriers(past) \cup {<<leg.carrier, "carrier">>}
        BY <2>1, <3>1
      <4>3. state' = "LEG_BOOKED" => leg'.carrier = leg.carrier
        BY <1>5
      <4> HIDE DEF Carriers
      <4> QED  BY <4>1, <4>2, <4>3
    <3>2. CASE leg.status \notin FundedLegStatuses /\ state' = "LEG_BOOKED"
      <4>1. Carriers(Legs') = Carriers(past) \cup {<<row.carrier, "carrier">>}
        BY <1>5, <2>2, <3>2
      <4>2. Carriers(Legs) = Carriers(past)
        BY <2>1, <3>2
      <4>3. row = leg'
        BY <1>5, <3>2
      <4> HIDE DEF Carriers
      <4> QED  BY <3>2, <4>1, <4>2, <4>3
    <3>3. CASE leg.status \notin FundedLegStatuses /\ state' # "LEG_BOOKED"
      <4>1. row.status \notin FundedLegStatuses
        BY <1>5, <3>3
      <4>2. Carriers(Legs') = Carriers(past)
        BY <1>5, <4>1
      <4>3. Carriers(Legs) = Carriers(past)
        BY <2>1, <3>3
      <4> HIDE DEF Carriers
      <4> QED  BY <3>3, <4>2, <4>3
    <3> QED  BY <3>1, <3>2, <3>3
  <2> HIDE DEF Carriers, EndHubs
  <2> QED  BY <1>1, <2>3, <2>4
<1>6. CASE /\ leg # NoLeg /\ leg' \in LegRow
           /\ leg'.carrier = leg.carrier /\ leg'.from = leg.from /\ leg'.to = leg.to
           /\ leg.status \in {"booked", "picked_up"} => leg'.status \in {"booked", "picked_up"}
           /\ leg'.status \in {"booked", "picked_up"} =>
                leg.status \in {"booked", "picked_up"} \/ state' = "LEG_BOOKED"
  <2> PICK row : row = leg'
    OBVIOUS
  <2>1. leg' # NoLeg /\ Legs' = past \cup {row}
    BY <1>6 DEF LegRows, Legs, NoLeg, LegRow
  <2>2. leg \in LegRow
    BY <1>6 DEF RolesInv, TypeOK
  <2>3. /\ leg.status \in FundedLegStatuses <=> leg.status \in {"booked", "picked_up"}
        /\ row.status \in FundedLegStatuses <=> leg'.status \in {"booked", "picked_up"}
    BY <1>6, <2>2 DEF LegRow, FundedLegStatuses
  <2> QED  BY <1>5, <1>6, <2>1, <2>3
<1>7. CASE leg # NoLeg /\ leg' = NoLeg /\ (state' = "LOST" => leg.status = "picked_up")
  <2> PICK row : row = [leg EXCEPT !.status = ClosedAs]
    OBVIOUS
  <2>1. Legs' = past \cup {row}
    BY <1>7 DEF LegRows, Legs
  <2>2. leg \in LegRow
    BY <1>7 DEF RolesInv, TypeOK
  <2>3. /\ row.carrier = leg.carrier /\ row.from = leg.from /\ row.to = leg.to
        /\ row.status = ClosedAs
    BY <2>2 DEF LegRow
  <2>4. row.status \in FundedLegStatuses <=> leg.status \in FundedLegStatuses
    <3>1. CASE leg.status \in {"requested", "pending_funding"}
      <4>1. ClosedAs = "expired"
        BY <1>7, <3>1 DEF ClosedAs
      <4> QED  BY <2>3, <3>1, <4>1 DEF FundedLegStatuses
    <3>2. CASE leg.status \in {"booked", "picked_up"}
      <4>1. ClosedAs \in {"failed", "completed", "returned"}
        BY <3>2 DEF ClosedAs
      <4> QED  BY <2>3, <3>2, <4>1 DEF FundedLegStatuses
    <3> QED  BY <2>2, <3>1, <3>2 DEF LegRow
  <2>5. state' # "LEG_BOOKED"
    BY <1>2, <1>7
  <2> QED  BY <1>5, <1>7, <2>1, <2>3, <2>4, <2>5
<1> QED  BY <1>3, <1>4, <1>6, <1>7 DEF LegMoves

\* A stay that takes the parcel in adds the hub whose owner the chain then names.
LEMMA HubPartsGrow ==
  ASSUME RolesInv', ChainAgreesWithRows', HubsKnown, HereMoves, StayRows,
         Known \subseteq Known'
  PROVE  /\ HubParts' = HubParts \cup
              (IF state' \in AtHub THEN {<<chain'.custodian, "hub">>} ELSE {})
         /\ HubsKnown'
<1>1. here' \in Hub => here' \in Known'
  <2>1. leg # NoLeg => {leg.from, leg.to} \subseteq Known
    BY DEF Known, Legs
  <2>2. Origin \in Known
    BY DEF Known
  <2> QED  BY <2>1, <2>2 DEF HereMoves, HubsKnown
<1>2. CASE state' \in AtHub
  <2>1. hosted' = hosted \cup {here'} /\ here' \in Hub /\ chain'.custodian = Owner[here']
    BY <1>2 DEF StayRows, RolesInv, RowsOfState, ChainAgreesWithRows
  <2>2. HubParts' = HubParts \cup {<<chain'.custodian, "hub">>}
    BY <2>1 DEF HubParts
  <2> QED  BY <1>1, <1>2, <2>1, <2>2 DEF HubsKnown
<1>3. CASE state' \notin AtHub
  <2>1. hosted' = hosted
    BY <1>3 DEF StayRows
  <2> QED  BY <1>1, <1>3, <2>1 DEF HubsKnown, HubParts
<1> QED  BY <1>2, <1>3

\* What the chain tells of claims only grows, and a claim of which it tells the
\* funding is a claim there was.
LEMMA TellsMore ==
  ASSUME ClaimsTracked, NEW event \in ToldOfClaims, told' = Append(told, event)
  PROVE  /\ told' \in Seq(ToldOfClaims)
         /\ \A k \in DOMAIN told' :
              \/ k \in DOMAIN told /\ told'[k] = told[k]
              \/ k = Len(told) + 1 /\ told'[k] = event
         /\ \A k \in DOMAIN told : k \in DOMAIN told' /\ told'[k] = told[k]
         /\ Len(told) + 1 \in DOMAIN told' /\ told'[Len(told) + 1] = event
<1>1. told \in Seq(ToldOfClaims)
  BY DEF ClaimsTracked
<1> QED  BY <1>1

\* A claim that begins is one more row; the chain tells nothing of its funding yet.
LEMMA ClaimBegins ==
  ASSUME ReviewInv, ClaimRows, claim = NoClaim, claim' \in ClaimRow,
         claim'.status = "pending_funding"
  PROVE  ClaimsTracked' /\ FundingsTold' /\ ClaimParts' = ClaimParts
<1> PICK row \in ClaimRow : row = claim'
  OBVIOUS
<1>1. claim' # NoClaim /\ claim' # claim
  BY DEF NoClaim, ClaimRow
<1>2. claims' = Append(claims, row) /\ ClaimEvent("claim_requested", "none")
  <2>1. (CASE claim' = NoClaim -> "expired" [] OTHER -> claim'.status) = "pending_funding"
    BY <1>1
  <2> QED  BY <1>1, <2>1 DEF ClaimRows
<1>3. claims \in Seq(ClaimHistory) /\ row \in ClaimHistory
  BY DEF ReviewInv, ClaimsTracked, ClaimRow, ClaimHistory
<1>4. /\ claims' \in Seq(ClaimHistory) /\ Len(claims') = Len(claims) + 1
      /\ claims'[Len(claims')] = row /\ claims' # <<>>
      /\ Len(claims') \in DOMAIN claims' /\ Len(claims') \notin DOMAIN claims
      /\ \A i \in DOMAIN claims' : i # Len(claims') => i \in DOMAIN claims
      /\ \A i \in DOMAIN claims : i \in DOMAIN claims' /\ claims'[i] = claims[i]
  BY <1>2, <1>3
<1> PICK event : event = [type |-> "claim_requested", claim |-> Len(claims'),
                          reason |-> "none", by |-> claim'.claimant]
  OBVIOUS
<1>5. told' = Append(told, event) /\ event \in ToldOfClaims
  BY <1>2, <1>4 DEF ClaimEvent, ToldOfClaims, ClaimRow
<1>6. event.type = "claim_requested" /\ event.claim = Len(claims')
  OBVIOUS
<1>7. /\ told' \in Seq(ToldOfClaims)
      /\ \A k \in DOMAIN told' :
           \/ k \in DOMAIN told /\ told'[k] = told[k]
           \/ k = Len(told) + 1 /\ told'[k] = event
      /\ \A k \in DOMAIN told : k \in DOMAIN told' /\ told'[k] = told[k]
  BY <1>5, TellsMore DEF ReviewInv
<1>8. \A k \in DOMAIN told : told[k].claim \in DOMAIN claims
  BY DEF ReviewInv, ClaimsTracked
<1>9. \A i : FundingTold(i)' <=> FundingTold(i)
  BY <1>6, <1>7 DEF FundingTold
<1>10. ClaimsTracked'
  BY <1>4, <1>6, <1>7, <1>8 DEF ClaimsTracked
<1>11. FundingsTold'
  <2> SUFFICES ASSUME NEW i \in DOMAIN claims', claims'[i].status \in {"funded", "completed"}
               PROVE  FundingTold(i)'
    BY DEF FundingsTold
  <2>1. i # Len(claims')
    BY <1>4
  <2> QED  BY <2>1, <1>4, <1>9 DEF ReviewInv, FundingsTold
<1>12. ClaimParts' = ClaimParts
  <2>1. \A i : FundingTold(i) => i \in DOMAIN claims
    BY <1>8 DEF FundingTold
  <2> QED  BY <2>1, <1>4, <1>9 DEF ClaimParts
<1> QED  BY <1>10, <1>11, <1>12

\* The live claim changes its status; its claimant is who it was.
LEMMA ClaimRestated ==
  ASSUME ReviewInv, claim # NoClaim, NEW status \in {"funded", "completed", "expired"},
         claims' = [claims EXCEPT ![Len(claims)].status = status]
  PROVE  /\ claims' \in Seq(ClaimHistory) /\ DOMAIN claims' = DOMAIN claims
         /\ Len(claims') = Len(claims) /\ claims # <<>> /\ claims' # <<>>
         /\ Len(claims) \in DOMAIN claims
         /\ \A i \in DOMAIN claims : claims'[i].claimant = claims[i].claimant
         /\ \A i \in DOMAIN claims : i # Len(claims) => claims'[i] = claims[i]
         /\ claims[Len(claims)] = claim
         /\ claims'[Len(claims)] = [claim EXCEPT !.status = status]
         /\ claims'[Len(claims)].status = status
<1>1. claims \in Seq(ClaimHistory) /\ claims # <<>> /\ claims[Len(claims)] = claim
  BY DEF ReviewInv, ClaimsTracked
<1>2. Len(claims) \in DOMAIN claims /\ claim \in ClaimHistory
  BY <1>1
<1> PICK row : row = [claim EXCEPT !.status = status]
  OBVIOUS
<1>3. row \in ClaimHistory /\ row.status = status /\ row.claimant = claim.claimant
  BY <1>2 DEF ClaimHistory
<1>4. claims' = [claims EXCEPT ![Len(claims)] = row]
  BY <1>1
<1>5. /\ claims' \in Seq(ClaimHistory) /\ Len(claims') = Len(claims)
      /\ DOMAIN claims' = DOMAIN claims
  BY <1>1, <1>2, <1>3, <1>4
<1>6. /\ claims'[Len(claims)] = row
      /\ \A i \in DOMAIN claims : i # Len(claims) => claims'[i] = claims[i]
  BY <1>1, <1>2, <1>4
<1>7. claims' # <<>>
  BY <1>2, <1>5
<1>8. \A i \in DOMAIN claims : claims'[i].claimant = claims[i].claimant
  BY <1>1, <1>3, <1>6
<1> QED  BY <1>1, <1>2, <1>3, <1>5, <1>6, <1>7, <1>8

\* What the chain tells of fundings stays, and of the live claim it may tell one.
LEMMA ClaimFunded ==
  ASSUME ReviewInv, ClaimRows, claim # NoClaim, claim.status = "pending_funding",
         claim' = [claim EXCEPT !.status = "funded"], claim \in ClaimRow
  PROVE  /\ ClaimsTracked' /\ FundingsTold'
         /\ ClaimParts' = ClaimParts \cup {<<claim'.claimant, "carrier">>}
<1>1. claim' # NoClaim /\ claim' # claim /\ claim'.status = "funded"
      /\ claim'.claimant = claim.claimant
  BY DEF NoClaim, ClaimRow
<1>2. claims' = [claims EXCEPT ![Len(claims)].status = "funded"] /\ ClaimEvent("funded", "none")
  <2>1. (CASE claim' = NoClaim -> "expired" [] OTHER -> claim'.status) = "funded"
    BY <1>1
  <2> QED  BY <1>1, <2>1 DEF ClaimRows
<1>3. /\ claims' \in Seq(ClaimHistory) /\ DOMAIN claims' = DOMAIN claims
      /\ Len(claims') = Len(claims) /\ claims # <<>> /\ claims' # <<>>
      /\ Len(claims) \in DOMAIN claims
      /\ \A i \in DOMAIN claims : claims'[i].claimant = claims[i].claimant
      /\ \A i \in DOMAIN claims : i # Len(claims) => claims'[i] = claims[i]
      /\ claims[Len(claims)] = claim
      /\ claims'[Len(claims)] = claim'
  BY <1>2, ClaimRestated
<1> PICK event : event = [type |-> "funded", claim |-> Len(claims'), reason |-> "none",
                          by |-> Nobody]
  OBVIOUS
<1>4. told' = Append(told, event) /\ event \in ToldOfClaims
  BY <1>2, <1>3 DEF ClaimEvent, ToldOfClaims
<1>5. event.type = "funded" /\ event.claim = Len(claims)
  BY <1>3
<1>6. /\ told' \in Seq(ToldOfClaims)
      /\ \A k \in DOMAIN told' :
           \/ k \in DOMAIN told /\ told'[k] = told[k]
           \/ k = Len(told) + 1 /\ told'[k] = event
      /\ \A k \in DOMAIN told : k \in DOMAIN told' /\ told'[k] = told[k]
      /\ Len(told) + 1 \in DOMAIN told' /\ told'[Len(told) + 1] = event
  BY <1>4, TellsMore DEF ReviewInv
<1>7. \A k \in DOMAIN told : told[k].claim \in DOMAIN claims
  BY DEF ReviewInv, ClaimsTracked
<1>8. \A i : FundingTold(i)' <=> FundingTold(i) \/ i = Len(claims)
  BY <1>5, <1>6 DEF FundingTold
<1>9. ClaimsTracked'
  BY <1>3, <1>5, <1>6, <1>7 DEF ClaimsTracked
<1>10. FundingsTold'
  BY <1>3, <1>8 DEF ReviewInv, FundingsTold
<1>11. ClaimParts' = ClaimParts \cup {<<claim'.claimant, "carrier">>}
  <2>1. ClaimParts' = {<<claims[i].claimant, "carrier">> :
                         i \in {j \in DOMAIN claims : FundingTold(j) \/ j = Len(claims)}}
    BY <1>3, <1>8 DEF ClaimParts
  <2> QED  BY <2>1, <1>1, <1>3 DEF ClaimParts
<1> QED  BY <1>9, <1>10, <1>11

\* A claim that completes was told to be funded; one that ends otherwise only says
\* so, and may be told of as expired.
LEMMA ClaimEnds ==
  ASSUME ReviewInv, ClaimRows, claim # NoClaim, claim \in ClaimRow,
         \/ claim.status = "funded" /\ claim' = [claim EXCEPT !.status = "completed"]
         \/ claim' = NoClaim
  PROVE  ClaimsTracked' /\ FundingsTold' /\ ClaimParts' = ClaimParts
<1> PICK status : status = IF claim' = NoClaim THEN "expired" ELSE "completed"
  OBVIOUS
<1>1. /\ claim' # claim /\ status \in {"completed", "expired"}
      /\ claim' # NoClaim => claim.status = "funded" /\ claim'.status = "completed"
                             /\ claim' = [claim EXCEPT !.status = status]
  BY DEF NoClaim, ClaimRow
<1>2. /\ claims' = [claims EXCEPT ![Len(claims)].status = status]
      /\ ClaimEvent("expired", "claim_funding") \/ told' = told
  <2>1. (CASE claim' = NoClaim -> "expired" [] OTHER -> claim'.status) = status
    BY <1>1
  <2> QED  BY <1>1, <2>1 DEF ClaimRows
<1>3. /\ claims' \in Seq(ClaimHistory) /\ DOMAIN claims' = DOMAIN claims
      /\ Len(claims') = Len(claims) /\ claims # <<>> /\ claims' # <<>>
      /\ Len(claims) \in DOMAIN claims
      /\ \A i \in DOMAIN claims : claims'[i].claimant = claims[i].claimant
      /\ \A i \in DOMAIN claims : i # Len(claims) => claims'[i] = claims[i]
      /\ claims[Len(claims)] = claim
      /\ claims'[Len(claims)] = [claim EXCEPT !.status = status]
      /\ claims'[Len(claims)].status = status
  BY <1>1, <1>2, ClaimRestated
<1> PICK event : event = [type |-> "expired", claim |-> Len(claims'),
                          reason |-> "claim_funding", by |-> Nobody]
  OBVIOUS
<1>4. (told' = told \/ told' = Append(told, event)) /\ event \in ToldOfClaims
  BY <1>2, <1>3 DEF ClaimEvent, ToldOfClaims
<1>5. event.type = "expired" /\ event.claim = Len(claims)
  BY <1>3
<1>6. /\ told' \in Seq(ToldOfClaims)
      /\ \A k \in DOMAIN told' :
           \/ k \in DOMAIN told /\ told'[k] = told[k]
           \/ k = Len(told) + 1 /\ told'[k] = event
      /\ \A k \in DOMAIN told : k \in DOMAIN told' /\ told'[k] = told[k]
  <2>1. CASE told' = told
    BY <2>1 DEF ReviewInv, ClaimsTracked
  <2>2. CASE told' = Append(told, event) /\ event \in ToldOfClaims
    BY <2>2, TellsMore DEF ReviewInv
  <2> QED  BY <1>4, <2>1, <2>2
<1>7. \A k \in DOMAIN told : told[k].claim \in DOMAIN claims
  BY DEF ReviewInv, ClaimsTracked
<1>8. \A i : FundingTold(i)' <=> FundingTold(i)
  BY <1>5, <1>6 DEF FundingTold
<1>9. ClaimsTracked'
  <2>1. claim' # NoClaim => claims'[Len(claims')] = claim'
    BY <1>1, <1>3
  <2> QED  BY <2>1, <1>3, <1>5, <1>6, <1>7 DEF ClaimsTracked
<1>10. FundingsTold'
  <2> SUFFICES ASSUME NEW i \in DOMAIN claims', claims'[i].status \in {"funded", "completed"}
               PROVE  FundingTold(i)'
    BY DEF FundingsTold
  <2>1. claims[i].status \in {"funded", "completed"}
    <3>1. CASE i = Len(claims)
      BY <3>1, <1>1, <1>3
    <3>2. CASE i # Len(claims)
      BY <3>2, <1>3
    <3> QED  BY <3>1, <3>2
  <2> QED  BY <2>1, <1>3, <1>8 DEF ReviewInv, FundingsTold
<1>11. ClaimParts' = ClaimParts
  BY <1>3, <1>8 DEF ClaimParts
<1> QED  BY <1>9, <1>10, <1>11

\* The claims that were funded go on being told of, whatever became of them.
LEMMA ClaimPartsGrow ==
  ASSUME RolesInv, RolesInv', ReviewInv, ClaimMoves, ClaimRows
  PROVE  /\ ClaimsTracked' /\ FundingsTold'
         /\ ClaimParts' = ClaimParts \cup
              (IF state' = "CLAIMED" THEN {<<claim'.claimant, "carrier">>} ELSE {})
<1>1. state' = "CLAIMED" => claim' # NoClaim /\ claim'.status = "funded"
  BY DEF RolesInv, TypeOK, RowsOfState, ClaimRow
<1>2. CASE claim' = claim
  <2>1. claims' = claims /\ told' = told
    BY <1>2 DEF ClaimRows
  <2>2. ClaimsTracked' /\ FundingsTold' /\ ClaimParts' = ClaimParts
    BY <1>2, <2>1 DEF ReviewInv, ClaimsTracked, FundingsTold, FundingTold, ClaimParts
  <2>3. state' = "CLAIMED" => <<claim'.claimant, "carrier">> \in ClaimParts
    <3> SUFFICES ASSUME state' = "CLAIMED"
                 PROVE  <<claim'.claimant, "carrier">> \in ClaimParts
      OBVIOUS
    <3>1. claims \in Seq(ClaimHistory) /\ claims # <<>> /\ claims[Len(claims)] = claim
      BY <1>1, <1>2 DEF ReviewInv, ClaimsTracked
    <3>2. Len(claims) \in DOMAIN claims /\ FundingTold(Len(claims))
      BY <1>1, <1>2, <3>1 DEF ReviewInv, FundingsTold
    <3> QED  BY <1>2, <3>1, <3>2 DEF ClaimParts
  <2> QED  BY <2>2, <2>3
<1>3. CASE claim = NoClaim /\ claim' \in ClaimRow /\ claim'.status = "pending_funding"
  BY <1>1, <1>3, ClaimBegins
<1>4. CASE claim.status = "pending_funding" /\ claim' = [claim EXCEPT !.status = "funded"]
           /\ state' = "CLAIMED"
  <2>1. claim # NoClaim /\ claim \in ClaimRow
    BY <1>4 DEF NoClaim, RolesInv, TypeOK
  <2> QED  BY <1>4, <2>1, ClaimFunded
<1>5. CASE \/ claim.status = "funded" /\ claim' = [claim EXCEPT !.status = "completed"]
              /\ state' = "DELIVERED"
           \/ claim # NoClaim /\ claim' = NoClaim
  <2>1. claim # NoClaim /\ claim \in ClaimRow
    BY <1>5 DEF NoClaim, RolesInv, TypeOK
  <2>2. state' # "CLAIMED"
    BY <1>1, <1>5
  <2> QED  BY <1>5, <2>1, <2>2, ClaimEnds
<1> QED  BY <1>2, <1>3, <1>4, <1>5 DEF ClaimMoves

\* Every transaction and every route keeps the detail complete.
LEMMA PartsStayShown ==
  ASSUME RolesInv, ChainAgreesWithRows, ReviewInv, [PagesNext]_<<vars, rows>>
  PROVE  ReviewInv'
<1>1. CASE PagesNext
  <2>1. RolesInv' /\ ChainAgreesWithRows' /\ RowsMove
    BY <1>1, RolesStayApart, ChainFollowsRows, RowsMoveOn DEF PagesNext
  <2>2. /\ LegParts' = LegParts \cup
             (IF state' = "LEG_BOOKED" THEN {<<leg'.carrier, "carrier">>} ELSE {})
        /\ Known \subseteq Known'
    BY <1>1, <2>1, LegPartsGrow DEF PagesNext, RowsMove
  <2>3. /\ HubParts' = HubParts \cup
             (IF state' \in AtHub THEN {<<chain'.custodian, "hub">>} ELSE {})
        /\ HubsKnown'
    BY <1>1, <2>1, <2>2, HubPartsGrow DEF PagesNext, RowsMove, ReviewInv
  <2>4. /\ ClaimsTracked' /\ FundingsTold'
        /\ ClaimParts' = ClaimParts \cup
             (IF state' = "CLAIMED" THEN {<<claim'.claimant, "carrier">>} ELSE {})
    BY <1>1, <2>1, ClaimPartsGrow DEF PagesNext, RowsMove
  <2>5. engaged' = engaged \cup
          (IF state' \in AtHub THEN {<<chain'.custodian, "hub">>} ELSE {}) \cup
          (IF state' = "LEG_BOOKED" THEN {<<leg'.carrier, "carrier">>} ELSE {}) \cup
          (IF state' = "CLAIMED" THEN {<<claim'.claimant, "carrier">>} ELSE {})
    BY <1>1 DEF PagesNext, Engaged
  <2>6. PartsShown'
    BY <2>2, <2>3, <2>4, <2>5 DEF ReviewInv, PartsShown
  <2> QED  BY <2>3, <2>4, <2>6 DEF ReviewInv
<1>2. CASE UNCHANGED <<vars, rows>>
  BY <1>2 DEF vars, rows, ReviewInv, ClaimsTracked, FundingsTold, FundingTold, HubsKnown, Known,
     PartsShown, HubParts, LegParts, ClaimParts, FundedLegs, Legs
<1> QED  BY <1>1, <1>2

\* ReviewsAreEarned follows: what the page and the API compute from rows and chain
\* are these parts, and who is one of them is a participant.
LEMMA PartsAreParticipants ==
  ASSUME ReviewInv
  PROVE  ReviewsAreEarned
<1>1. \A i \in DOMAIN claims : ClaimCounts(i) <=> FundingTold(i)
  <2>1. \A i : (\E e \in ToSet(told) : e.type = "funded" /\ e.claim = i) <=> FundingTold(i)
    BY DEF ToSet, FundingTold
  <2> QED  BY <2>1 DEF ClaimCounts, ReviewInv, FundingsTold
<1>2. effectiveParticipants = engaged
  <2>1. {<<claims[i].claimant, "carrier">> : i \in {j \in DOMAIN claims : ClaimCounts(j)}}
          = ClaimParts
    BY <1>1 DEF ClaimParts
  <2> QED  BY <2>1 DEF effectiveParticipants, ReviewInv, PartsShown, HubParts, LegParts, FundedLegs
<1>3. ASSUME NEW u, viewerCanReview(u)
      PROVE  isParticipant(u)
  <2>1. PICK p \in effectiveParticipants : p[1] = u
    BY <1>3 DEF viewerCanReview
  <2>2. CASE p = <<Sender, "sender">>
    BY <2>1, <2>2 DEF isParticipant
  <2>3. ASSUME NEW l \in Legs, p = <<l.carrier, "carrier">>
        PROVE  isParticipant(u)
    BY <2>1, <2>3 DEF isParticipant
  <2>4. ASSUME NEW h \in hosted, p = <<Owner[h], "hub">>
        PROVE  isParticipant(u)
    <3>1. h \in hubById
      BY <2>4 DEF ReviewInv, HubsKnown, Known, hubById
    <3> QED  BY <2>1, <2>4, <3>1 DEF isParticipant
  <2>5. ASSUME NEW i \in DOMAIN claims, p = <<claims[i].claimant, "carrier">>
        PROVE  isParticipant(u)
    BY <2>1, <2>5 DEF isParticipant
  <2> QED  BY <2>2, <2>3, <2>4, <2>5 DEF effectiveParticipants
<1>4. \A u, v \in User : ReviewOffered(u, v) <=> ReviewAccepted(u, v, "hub")
  BY <1>3 DEF ReviewOffered, ReviewAccepted
<1>5. \A u, v \in User : ReviewOffered(u, v) = ReviewAccepted(u, v, "hub")
  BY <1>4 DEF ReviewOffered, ReviewAccepted
<1> QED  BY <1>2, <1>5 DEF ReviewsAreEarned

\* A shipment just created has no history to tell.
LEMMA ReviewInit ==
  ASSUME PagesInit
  PROVE  ReviewInv
<1>1. ClaimsTracked /\ FundingsTold
  BY DEF PagesInit, Init, ClaimsTracked, FundingsTold
<1>2. HubsKnown
  BY SenderOwnsNoEnd DEF PagesInit, Init, HubsKnown
<1>3. HubParts = {} /\ ClaimParts = {}
  BY DEF PagesInit, HubParts, ClaimParts
<1>4. Legs = {}
  BY DEF PagesInit, Init, Legs
<1>5. LegParts = {}
  BY <1>4 DEF LegParts, FundedLegs
<1>6. PartsShown
  BY <1>3, <1>5 DEF PagesInit, PartsShown
<1> QED  BY <1>1, <1>2, <1>6 DEF ReviewInv

\* Those who may review a shipment that is over, and be reviewed, are those who
\* held the parcel or had put up a hold to carry it, whichever way it ended and
\* whatever rows closed or expired on the way; and the form is where the API takes
\* a review (ADR-017, ADR-027; reviews.ts, ReviewsSection.tsx).
THEOREM ReviewersTookPart == PagesSpec => []ReviewsAreEarned
<1>1. PagesInit => RolesInv /\ ChainAgreesWithRows /\ ReviewInv
  BY InitHolds, ReviewInit DEF PagesInit
<1>2. RolesInv /\ ChainAgreesWithRows /\ ReviewInv /\ [PagesNext]_<<vars, rows>> =>
        RolesInv' /\ ChainAgreesWithRows' /\ ReviewInv'
  <2>1. [PagesNext]_<<vars, rows>> => [Next]_vars
    BY DEF PagesNext
  <2> QED  BY <2>1, RolesStayApart, ChainFollowsRows, PartsStayShown
<1>3. ReviewInv => ReviewsAreEarned
  BY PartsAreParticipants
<1> QED  BY <1>1, <1>2, <1>3, PTL DEF PagesSpec

----------------------------------------------------------------------------
(* The pages.  They tell the live leg from the closed ones by its status,  *)
(* the fate of a claim from the chain, and whoever shows a live secret     *)
(* from the recipient: what carries PagesMatchApi is that closed rows      *)
(* never look live, and that the chain closes each claim it tells of       *)
(* before it tells of the next.                                            *)

PastIsClosed == \A l \in past : l.status \in {"expired", "failed", "completed", "returned"}

\* A request for a claim is followed by its end, but the last one may be live; it
\* stays without an end only when the storage expires under it.
ClaimStory ==
  /\ \A k \in DOMAIN told : told[k].type = "claim_requested" /\ k < Len(told) =>
       \/ told[k + 1].type = "funded" /\ told[k + 1].claim = told[k].claim
       \/ told[k + 1].type = "expired" /\ told[k + 1].reason = "claim_funding"
  /\ told # <<>> /\ told[Len(told)].type = "claim_requested" =>
       \/ state = "FORFEITED"
       \/ claim.status = "pending_funding" /\ claim.claimant = told[Len(told)].by
  /\ claim.status = "pending_funding" =>
       /\ told # <<>> /\ told[Len(told)].type = "claim_requested"
       /\ told[Len(told)].by = claim.claimant /\ told[Len(told)].claim = Len(claims)

\* A parcel is always for somebody there is.
RecipientKnown ==
  /\ recipient \in User
  /\ \A r \in pending : r.type = "reroute" => r.recipient \in User \cup {Nobody}

PagesInv == PastIsClosed /\ ClaimStory /\ RecipientKnown

\* A row is closed with a status that no live row has.
LEMMA ClosedRowsLookClosed ==
  ASSUME PastIsClosed, LegRows, leg # NoLeg => leg \in LegRow
  PROVE  PastIsClosed'
<1> PICK row : row = [leg EXCEPT !.status = ClosedAs]
  OBVIOUS
<1>1. CASE leg # NoLeg /\ leg' = NoLeg
  <2>1. past' = past \cup {row}
    BY <1>1 DEF LegRows
  <2>2. row.status = ClosedAs
    BY <1>1 DEF LegRow
  <2>3. ClosedAs \in {"expired", "failed", "completed", "returned"}
    BY DEF ClosedAs
  <2> QED  BY <2>1, <2>2, <2>3 DEF PastIsClosed
<1>2. CASE ~(leg # NoLeg /\ leg' = NoLeg)
  BY <1>2 DEF LegRows, PastIsClosed
<1> QED  BY <1>1, <1>2

\* An event appended to the story of the claims.
LEMMA StoryGoesOn ==
  ASSUME ClaimsTracked, ClaimStory, NEW event \in ToldOfClaims, told' = Append(told, event),
         told # <<>> /\ told[Len(told)].type = "claim_requested" =>
           \/ event.type = "funded" /\ event.claim = told[Len(told)].claim
           \/ event.type = "expired" /\ event.reason = "claim_funding"
  PROVE  /\ \A k \in DOMAIN told' : told'[k].type = "claim_requested" /\ k < Len(told') =>
              \/ told'[k + 1].type = "funded" /\ told'[k + 1].claim = told'[k].claim
              \/ told'[k + 1].type = "expired" /\ told'[k + 1].reason = "claim_funding"
         /\ told' # <<>> /\ told'[Len(told')] = event
<1>1. told \in Seq(ToldOfClaims)
  BY DEF ClaimsTracked
<1>2. /\ Len(told') = Len(told) + 1 /\ told' # <<>> /\ told'[Len(told')] = event
      /\ DOMAIN told' = 1 .. Len(told) + 1 /\ DOMAIN told = 1 .. Len(told)
      /\ \A k \in 1 .. Len(told) : told'[k] = told[k]
      /\ Len(told) \in Nat
  BY <1>1
<1>3. ASSUME NEW k \in DOMAIN told', told'[k].type = "claim_requested", k < Len(told')
      PROVE  \/ told'[k + 1].type = "funded" /\ told'[k + 1].claim = told'[k].claim
             \/ told'[k + 1].type = "expired" /\ told'[k + 1].reason = "claim_funding"
  <2>1. k \in 1 .. Len(told) /\ told'[k] = told[k] /\ k \in DOMAIN told
    BY <1>2, <1>3
  <2>2. CASE k = Len(told)
    <3>1. told # <<>> /\ told'[k + 1] = event
      BY <1>1, <1>2, <2>1, <2>2
    <3> QED  BY <1>3, <2>1, <2>2, <3>1
  <2>3. CASE k < Len(told)
    <3>1. told'[k + 1] = told[k + 1]
      BY <1>2, <2>1, <2>3
    <3> QED  BY <1>3, <2>1, <2>3, <3>1 DEF ClaimStory
  <2> QED  BY <1>2, <2>1, <2>2, <2>3
<1> QED  BY <1>2, <1>3

\* The chain tells the story of each claim to its end.
LEMMA StoryHolds ==
  ASSUME RolesInv, RolesInv', ClaimsTracked, ClaimsTracked', ClaimStory, ClaimMoves, Ends,
         ClaimRows
  PROVE  ClaimStory'
<1> DEFINE last == told[Len(told)]
<1>1. told \in Seq(ToldOfClaims) /\ told' \in Seq(ToldOfClaims)
  BY DEF ClaimsTracked
<1>2. CASE claim' = claim
  <2>1. claims' = claims /\ told' = told
    BY <1>2 DEF ClaimRows
  <2> QED  BY <1>2, <2>1 DEF ClaimStory, Ends
<1>3. CASE /\ claim = NoClaim /\ claim' \in ClaimRow /\ claim'.status = "pending_funding"
           /\ state = "AT_HUB" /\ state' = "AT_HUB"
  <2>1. claim' # NoClaim /\ claim' # claim
    BY <1>3 DEF NoClaim, ClaimRow
  <2>2. ClaimEvent("claim_requested", "none") /\ Len(claims') \in Nat
    <3>1. (CASE claim' = NoClaim -> "expired" [] OTHER -> claim'.status) = "pending_funding"
      BY <1>3, <2>1
    <3> QED  BY <2>1, <3>1 DEF ClaimRows, ClaimsTracked
  <2> PICK event : event = [type |-> "claim_requested", claim |-> Len(claims'),
                            reason |-> "none", by |-> claim'.claimant]
    OBVIOUS
  <2>3. told' = Append(told, event) /\ event \in ToldOfClaims
    BY <1>3, <2>2 DEF ClaimEvent, ToldOfClaims, ClaimRow
  <2>4. ~(told # <<>> /\ last.type = "claim_requested")
    BY <1>3 DEF ClaimStory, NoClaim
  <2>5. /\ \A k \in DOMAIN told' : told'[k].type = "claim_requested" /\ k < Len(told') =>
             \/ told'[k + 1].type = "funded" /\ told'[k + 1].claim = told'[k].claim
             \/ told'[k + 1].type = "expired" /\ told'[k + 1].reason = "claim_funding"
        /\ told' # <<>> /\ told'[Len(told')] = event
    BY <2>3, <2>4, StoryGoesOn
  <2>6. event.type = "claim_requested" /\ event.by = claim'.claimant /\ event.claim = Len(claims')
    OBVIOUS
  <2> QED  BY <1>3, <2>5, <2>6 DEF ClaimStory
<1>4. CASE claim # NoClaim /\ claim' # NoClaim /\ claim.status = "pending_funding"
           /\ claim' = [claim EXCEPT !.status = "funded"]
  <2>1. claim' # claim /\ claim'.status = "funded"
    BY <1>4 DEF RolesInv, TypeOK, ClaimRow
  <2>2. ClaimEvent("funded", "none") /\ Len(claims') = Len(claims) /\ Len(claims') \in Nat
    <3>1. (CASE claim' = NoClaim -> "expired" [] OTHER -> claim'.status) = "funded"
      BY <1>4, <2>1
    <3>2. claims' = [claims EXCEPT ![Len(claims)].status = "funded"] /\ ClaimEvent("funded", "none")
      BY <1>4, <2>1, <3>1 DEF ClaimRows
    <3>3. claims \in Seq(ClaimHistory) /\ claims' \in Seq(ClaimHistory)
      BY DEF ClaimsTracked
    <3>4. DOMAIN claims' = DOMAIN claims
      BY <3>2
    <3> QED  BY <3>2, <3>3, <3>4
  <2> PICK event : event = [type |-> "funded", claim |-> Len(claims'), reason |-> "none",
                            by |-> Nobody]
    OBVIOUS
  <2>3. told' = Append(told, event) /\ event \in ToldOfClaims
    BY <2>2 DEF ClaimEvent, ToldOfClaims
  <2>4. event.type = "funded" /\ event.claim = last.claim
    BY <1>4, <2>2 DEF ClaimStory
  <2>5. /\ \A k \in DOMAIN told' : told'[k].type = "claim_requested" /\ k < Len(told') =>
             \/ told'[k + 1].type = "funded" /\ told'[k + 1].claim = told'[k].claim
             \/ told'[k + 1].type = "expired" /\ told'[k + 1].reason = "claim_funding"
        /\ told' # <<>> /\ told'[Len(told')] = event
    BY <2>3, <2>4, StoryGoesOn
  <2> QED  BY <2>1, <2>4, <2>5 DEF ClaimStory
<1>5. CASE claim.status = "funded" /\ claim' = [claim EXCEPT !.status = "completed"]
           /\ state' = "DELIVERED"
  <2>1. claim # NoClaim /\ claim' # claim /\ claim' # NoClaim /\ claim'.status = "completed"
    BY <1>5 DEF RolesInv, TypeOK, ClaimRow, NoClaim
  <2>2. told' = told
    <3>1. (CASE claim' = NoClaim -> "expired" [] OTHER -> claim'.status) = "completed"
      BY <2>1
    <3> QED  BY <2>1, <3>1 DEF ClaimRows
  <2>3. state = "CLAIMED"
    BY <1>5 DEF RolesInv, RowsOfState
  <2>4. ~(told # <<>> /\ last.type = "claim_requested")
    BY <1>5, <2>3 DEF ClaimStory
  <2> QED  BY <2>1, <2>2, <2>4 DEF ClaimStory
<1>6. CASE claim # NoClaim /\ claim' = NoClaim /\ state' = "FORFEITED"
  <2>1. claim'.status = "none" /\ claim' # claim
    BY <1>6 DEF NoClaim
  <2>2. told' = told
    <3>1. (CASE claim' = NoClaim -> "expired" [] OTHER -> claim'.status) = "expired"
      BY <1>6
    <3> QED  BY <1>6, <2>1, <3>1 DEF ClaimRows
  <2> QED  BY <1>6, <2>1, <2>2 DEF ClaimStory
<1>7. CASE claim # NoClaim /\ claim' = NoClaim /\ state' = "AT_HUB"
           /\ claim.status = "pending_funding"
  <2>1. claim'.status = "none" /\ claim' # claim
    BY <1>7 DEF NoClaim
  <2>2. ClaimEvent("expired", "claim_funding") /\ Len(claims') \in Nat
    <3>1. (CASE claim' = NoClaim -> "expired" [] OTHER -> claim'.status) = "expired"
      BY <1>7
    <3> QED  BY <1>7, <2>1, <3>1 DEF ClaimRows, ClaimsTracked
  <2> PICK event : event = [type |-> "expired", claim |-> Len(claims'),
                            reason |-> "claim_funding", by |-> Nobody]
    OBVIOUS
  <2>3. told' = Append(told, event) /\ event \in ToldOfClaims
    BY <2>2 DEF ClaimEvent, ToldOfClaims
  <2>4. event.type = "expired" /\ event.reason = "claim_funding"
    OBVIOUS
  <2>5. /\ \A k \in DOMAIN told' : told'[k].type = "claim_requested" /\ k < Len(told') =>
             \/ told'[k + 1].type = "funded" /\ told'[k + 1].claim = told'[k].claim
             \/ told'[k + 1].type = "expired" /\ told'[k + 1].reason = "claim_funding"
        /\ told' # <<>> /\ told'[Len(told')] = event
    BY <2>3, <2>4, StoryGoesOn
  <2> QED  BY <2>1, <2>4, <2>5 DEF ClaimStory
<1>8. claim.status = "pending_funding" /\ claim' = [claim EXCEPT !.status = "funded"] =>
        claim # NoClaim /\ claim' # NoClaim
  BY DEF RolesInv, TypeOK, ClaimRow, NoClaim
<1> QED  BY <1>2, <1>3, <1>4, <1>5, <1>6, <1>7, <1>8 DEF ClaimMoves

\* A reroute names somebody there is, and nothing else changes the recipient.
LEMMA RecipientStaysKnown ==
  ASSUME RecipientKnown, [Next]_vars
  PROVE  RecipientKnown'
<1> USE DEF RecipientKnown, Take, parcel, secrets
<1>1. CASE Route
  <2> USE DEF Send, Event
  <2>1. ASSUME NEW u \in User,
               \/ OriginAccept(u) \/ OriginCheckin(u)
               \/ AcceptDeposit(u) \/ RejectDeposit(u) \/ WithdrawDeposit(u)
               \/ PickupCheckout(u) \/ LegCheckin(u) \/ LegReturn(u) \/ RecipientClaim(u)
        PROVE  RecipientKnown'
    BY <2>1 DEF OriginAccept, OriginCheckin, AcceptDeposit, RejectDeposit, WithdrawDeposit,
       PickupCheckout, LegCheckin, LegReturn, RecipientClaim, Checkin, Return
  <2>2. ASSUME NEW u \in User, NEW h \in Hub, RequestLeg(u, h)
        PROVE  RecipientKnown'
    BY <2>2 DEF RequestLeg
  <2>3. ASSUME NEW u \in User, NEW w \in User, RecipientPickup(u, w) \/ ClaimedPickup(u, w)
        PROVE  RecipientKnown'
    BY <2>3 DEF RecipientPickup, ClaimedPickup
  <2>4. ASSUME NEW u \in User, NEW stage, HandoffReject(u, stage)
        PROVE  RecipientKnown'
    BY <2>4 DEF HandoffReject, Rejection
  <2>5. ASSUME NEW h, NEW w \in User \cup {Nobody}, RerouteTo(h, w)
        PROVE  RecipientKnown'
    BY <2>5 DEF RerouteTo, Change
  <2>6. CASE CancelShipment
    BY <2>6 DEF CancelShipment
  <2> QED  BY <1>1, <2>1, <2>2, <2>3, <2>4, <2>5, <2>6 DEF Route
<1>2. ASSUME NEW r \in pending,
             \/ origin_hub_accept(r) \/ origin_checkin(r) \/ deposit_accept(r)
             \/ deposit_refused(r) \/ pickup_checkout(r) \/ leg_checkin(r) \/ leg_return(r)
      PROVE  RecipientKnown'
  BY <1>2 DEF origin_hub_accept, origin_checkin, deposit_accept, deposit_refused,
     pickup_checkout, leg_checkin, leg_return
<1>3. ASSUME NEW r \in pending, leg_request(r) PROVE RecipientKnown'
  BY <1>3 DEF leg_request
<1>4. ASSUME NEW r \in pending,
             \/ recipient_pickup(r) \/ recipient_claim(r) \/ recipient_claimed_pickup(r)
             \/ handoff_reject(r) \/ cancel(r) \/ Refused(r)
      PROVE  RecipientKnown'
  BY <1>4 DEF recipient_pickup, recipient_claim, recipient_claimed_pickup, handoff_reject,
     cancel, Refused
<1>5. ASSUME NEW r \in pending, reroute(r) PROVE RecipientKnown'
  BY <1>5 DEF reroute
<1>6. CASE leg_funded \/ claim_funded \/ Expired \/ storage_expiry \/ transit_timeout
  BY <1>6 DEF leg_funded, claim_funded, Expired, storage_expiry, transit_timeout
<1>7. CASE UNCHANGED vars
  BY <1>7 DEF vars
<1> QED
  BY <1>1, <1>2, <1>3, <1>4, <1>5, <1>6, <1>7 DEF Next, Transaction

\* What the pages' detail is told by holds on.
LEMMA PagesStep ==
  ASSUME RolesInv, ChainAgreesWithRows, ReviewInv, PagesInv, [PagesNext]_<<vars, rows>>
  PROVE  PagesInv'
<1>1. CASE PagesNext
  <2>1. RolesInv' /\ RowsMove /\ ReviewInv' /\ RecipientKnown'
    BY <1>1, RolesStayApart, RowsMoveOn, PartsStayShown, RecipientStaysKnown
       DEF PagesNext, PagesInv
  <2>2. PastIsClosed'
    BY <1>1, ClosedRowsLookClosed DEF PagesNext, PagesInv, RolesInv, TypeOK
  <2>3. ClaimStory'
    BY <1>1, <2>1, StoryHolds DEF PagesNext, PagesInv, RowsMove, ReviewInv
  <2> QED  BY <2>1, <2>2, <2>3 DEF PagesInv
<1>2. CASE UNCHANGED <<vars, rows>>
  BY <1>2 DEF vars, rows, PagesInv, PastIsClosed, ClaimStory, RecipientKnown
<1> QED  BY <1>1, <1>2

----------------------------------------------------------------------------
(* What follows for each page.                                             *)

\* A hub's owner is told apart by the hub, and the live leg by its status.
LEMMA MyHubIsMine ==
  ASSUME NEW u \in User, NEW h \in Hub
  PROVE  MyHub(u) = h <=> Owner[h] = u
<1>1. CASE \E g \in Hub : Owner[g] = u
  <2>1. MyHub(u) \in Hub /\ Owner[MyHub(u)] = u
    BY <1>1 DEF MyHub
  <2> QED  BY <2>1, OneHubEach
<1>2. CASE ~ \E g \in Hub : Owner[g] = u
  <2>1. MyHub(u) = NoHub
    BY <1>2 DEF MyHub
  <2> QED  BY <1>2, <2>1, SenderOwnsNoEnd
<1> QED  BY <1>1, <1>2

\* The leg that a page finds by its status is the live one.
LEMMA LiveLegShown ==
  ASSUME RolesInv, PastIsClosed, NEW l
  PROVE  /\ l \in Legs /\ l.status = "picked_up" <=>
              l = leg /\ leg # NoLeg /\ leg.status = "picked_up"
         /\ l \in Legs /\ l.status = "booked" <=>
              l = leg /\ leg # NoLeg /\ leg.status = "booked"
         /\ l \in Legs /\ l.status = "pending_funding" <=>
              l = leg /\ leg # NoLeg /\ leg.status = "pending_funding"
  BY DEF Legs, PastIsClosed

\* The hubs of the rows are in the detail, so their owners are participants.
LEMMA OwnersParticipate ==
  ASSUME RolesInv, HubsKnown, NEW u \in User
  PROVE  /\ here \in Hub /\ Owner[here] = u => isParticipant(u)
         /\ Owner[Origin] = u => isParticipant(u)
         /\ leg # NoLeg /\ (Owner[leg.to] = u \/ Owner[leg.from] = u \/ leg.carrier = u) =>
              isParticipant(u)
<1>1. here \in Hub => here \in hubById
  BY DEF HubsKnown, Known, hubById
<1>2. Origin \in hubById
  BY DEF hubById
<1>3. leg # NoLeg => leg \in Legs /\ leg.from \in hubById /\ leg.to \in hubById
  BY DEF Legs, hubById
<1> QED  BY <1>1, <1>2, <1>3 DEF isParticipant

\* While the parcel waits, the chain tells a claim as pending just when it is.
LEMMA ClaimToldPending ==
  ASSUME RolesInv, ClaimsTracked, ClaimStory, state = "AT_HUB", NEW u
  PROVE  ClaimPending(u) <=> claim # NoClaim /\ claim.claimant = u
<1>1. told \in Seq(ToldOfClaims) /\ DOMAIN told = 1 .. Len(told) /\ Len(told) \in Nat
  BY DEF ClaimsTracked
<1>2. claim # NoClaim => claim.status = "pending_funding"
  BY DEF RolesInv, TypeOK, RowsOfState, ClaimRow
<1>3. ASSUME claim # NoClaim, claim.claimant = u
      PROVE  ClaimPending(u)
  <2>1. /\ told # <<>> /\ told[Len(told)].type = "claim_requested"
        /\ told[Len(told)].by = u
    BY <1>2, <1>3 DEF ClaimStory
  <2>2. Len(told) \in DOMAIN told /\ \A j \in DOMAIN told : ~(j > Len(told))
    BY <1>1, <2>1
  <2> QED  BY <2>1, <2>2 DEF ClaimPending
<1>4. ASSUME ClaimPending(u)
      PROVE  claim # NoClaim /\ claim.claimant = u
  <2> PICK k \in DOMAIN told :
        /\ told[k].type = "claim_requested" /\ told[k].by = u
        /\ \A j \in DOMAIN told : j > k =>
             /\ told[j].type = "claim_requested" => told[j].by # u
             /\ told[j].type = "funded" => told[j].claim # told[k].claim
             /\ told[j].type = "expired" => told[j].reason # "claim_funding"
    BY <1>4 DEF ClaimPending
  <2>1. k = Len(told)
    <3> SUFFICES ASSUME k < Len(told) PROVE FALSE
      BY <1>1
    <3>1. k + 1 \in DOMAIN told /\ k + 1 > k
      BY <1>1
    <3> QED  BY <3>1 DEF ClaimStory
  <2>2. told # <<>>
    BY <1>1
  <2>3. claim.status = "pending_funding" /\ claim.claimant = u
    BY <2>1, <2>2 DEF ClaimStory
  <2> QED  BY <2>3 DEF NoClaim
<1> QED  BY <1>3, <1>4

\* Each operation is offered to a hub or a carrier exactly where it is accepted.
LEMMA OffersMatch ==
  ASSUME RolesInv, RecipientHoldsLiveSecrets, HubsKnown, PagesInv, NEW u \in User
  PROVE  Offers(u) = {type \in Operations : ApiAccepts(u, type)}
<1> DEFINE part == isParticipant(u)
<1>0. /\ here \in Hub => (MyHub(u) = here <=> Owner[here] = u)
      /\ here \notin Hub => here = NoHub
      /\ leg # NoLeg => leg \in LegRow /\ (MyHub(u) = leg.to <=> Owner[leg.to] = u)
                        /\ (MyHub(u) = leg.from <=> Owner[leg.from] = u)
      /\ MyHub(u) = Origin <=> Owner[Origin] = u
  BY MyHubIsMine, SenderOwnsNoEnd DEF RolesInv, TypeOK, LegRow
<1>1. isCustodian(u) <=> here \in Hub /\ Owner[here] = u
  BY <1>0 DEF isCustodian
<1>2. u = currentHubOf <=> here \in Hub /\ Owner[here] = u
  BY SenderOwnsNoEnd DEF currentHubOf
<1>3. /\ here \in Hub /\ Owner[here] = u => part
      /\ Owner[Origin] = u => part
      /\ leg # NoLeg /\ (Owner[leg.to] = u \/ Owner[leg.from] = u \/ leg.carrier = u) => part
  BY OwnersParticipate
<1>4. /\ state = "IN_TRANSIT" => leg # NoLeg /\ leg.status = "picked_up"
      /\ state = "LEG_BOOKED" => leg # NoLeg /\ leg.status = "booked"
      /\ state = "LEG_BOOKED" => here \in Hub
      /\ Requested => leg # NoLeg /\ state = "AT_HUB"
      /\ ActiveLeg => leg # NoLeg
  BY DEF RolesInv, TypeOK, RowsOfState, LegRow, NoLeg, AtHub, Requested, ActiveLeg
<1>5. state \in {"AWAITING_DROPOFF", "AWAITING_PICKUP", "CLAIMED"} => here \in Hub
  BY DEF RolesInv, RowsOfState, AtHub
<1>6. /\ state = "AWAITING_PICKUP" => \E w \in User : Holds(w, "parcel_arrived", otp)
      /\ state = "CLAIMED" => \E w \in User : Holds(w, "parcel_tracking", token)
  BY DEF PagesInv, RecipientKnown, RecipientHoldsLiveSecrets, AtHub
<1>7. /\ \A l : l \in Carried <=> l = leg /\ leg # NoLeg /\ leg.status = "picked_up"
      /\ \A l : l \in bookedLeg(u) <=>
           l = leg /\ leg # NoLeg /\ leg.status = "booked" /\ leg.carrier = u
  BY LiveLegShown DEF Carried, bookedLeg, PagesInv
<1>8. "origin_hub_accept" \in Offers(u) <=> ApiAccepts(u, "origin_hub_accept")
  BY <1>0 DEF Offers, DashboardOffers, OpsOffers, AcceptPanel, ApiAccepts, MayAcceptParcel,
     Legal, Event
<1>9. "origin_checkin" \in Offers(u) <=> ApiAccepts(u, "origin_checkin")
  BY <1>1, <1>2, <1>3 DEF Offers, DashboardOffers, OpsOffers, CheckinPanel, ApiAccepts,
     MayCheckInOrigin, Legal, Event
<1>10. ASSUME NEW type \in {"deposit_accept", "deposit_reject"}
       PROVE  type \in Offers(u) <=> ApiAccepts(u, type)
  BY <1>0, <1>4 DEF Offers, DashboardOffers, OpsOffers, ApiAccepts, MayAnswer, Legal, Event
<1>11. "pickup_checkout" \in Offers(u) <=> ApiAccepts(u, "pickup_checkout")
  <2>1. CarrierPanel(u) <=> state = "LEG_BOOKED" /\ leg.carrier = u
    BY <1>4, <1>7 DEF CarrierPanel
  <2>2. CheckoutPanel(u) <=> state = "LEG_BOOKED" /\ here \in Hub /\ Owner[here] = u
    BY <1>1 DEF CheckoutPanel
  <2>3. ApiAccepts(u, "pickup_checkout") <=> state = "LEG_BOOKED" /\ u \in {leg.carrier, currentHubOf}
    BY DEF ApiAccepts, MayCheckOut, Legal, Event
  <2>4. "pickup_checkout" \in Offers(u) <=> part /\ (CheckoutPanel(u) \/ CarrierPanel(u))
    BY DEF Offers, DashboardOffers, OpsOffers
  <2> QED  BY <1>2, <1>3, <1>4, <2>1, <2>2, <2>3, <2>4
<1>12. "leg_checkin" \in Offers(u) <=> ApiAccepts(u, "leg_checkin")
  <2>1. ArrivalPanel(u) <=> state = "IN_TRANSIT" /\ Owner[leg.to] = u
    BY <1>0, <1>4, <1>7 DEF ArrivalPanel
  <2>2. ApiAccepts(u, "leg_checkin") <=> state = "IN_TRANSIT" /\ ActiveLeg /\ Owner[leg.to] = u
    BY DEF ApiAccepts, MayCheckIn, Legal, Checkin
  <2>3. state = "IN_TRANSIT" => ActiveLeg
    BY <1>4 DEF ActiveLeg
  <2>4. "leg_checkin" \in Offers(u) <=> part /\ ArrivalPanel(u)
    BY DEF Offers, DashboardOffers, OpsOffers
  <2> QED  BY <1>3, <1>4, <2>1, <2>2, <2>3, <2>4
<1>13. "leg_return" \in Offers(u) <=> ApiAccepts(u, "leg_return")
  <2>1. ReturnPanel(u) <=> state = "IN_TRANSIT" /\ Owner[leg.from] = u
    BY <1>0, <1>4, <1>7 DEF ReturnPanel
  <2>2. ApiAccepts(u, "leg_return") <=> state = "IN_TRANSIT" /\ ActiveLeg /\ Owner[leg.from] = u
    BY DEF ApiAccepts, MayReturn, Legal, Return
  <2>3. state = "IN_TRANSIT" => ActiveLeg
    BY <1>4 DEF ActiveLeg
  <2>4. "leg_return" \in Offers(u) <=> part /\ ReturnPanel(u)
    BY DEF Offers, DashboardOffers, OpsOffers
  <2> QED  BY <1>3, <1>4, <2>1, <2>2, <2>3, <2>4
<1>14. "recipient_pickup" \in Offers(u) <=> ApiAccepts(u, "recipient_pickup")
  <2>1. ApiAccepts(u, "recipient_pickup") <=>
          /\ state = "AWAITING_PICKUP" /\ here \in Hub /\ u = currentHubOf
          /\ \E w \in User : Holds(w, "parcel_arrived", otp)
    BY DEF ApiAccepts, MayHandOver, Legal, Event
  <2>2. "recipient_pickup" \in Offers(u) <=> part /\ PickupPanel(u)
    BY DEF Offers, DashboardOffers, OpsOffers
  <2> QED  BY <1>1, <1>2, <1>3, <1>6, <2>1, <2>2 DEF PickupPanel
<1>15. "recipient_claimed_pickup" \in Offers(u) <=> ApiAccepts(u, "recipient_claimed_pickup")
  <2>1. ApiAccepts(u, "recipient_claimed_pickup") <=>
          /\ state = "CLAIMED" /\ here \in Hub /\ u = currentHubOf
          /\ \E w \in User : Holds(w, "parcel_tracking", token)
    BY DEF ApiAccepts, MayHandOverClaimed, Legal, Event
  <2>2. "recipient_claimed_pickup" \in Offers(u) <=> part /\ ClaimedPanel(u)
    BY DEF Offers, DashboardOffers, OpsOffers
  <2> QED  BY <1>1, <1>2, <1>3, <1>6, <2>1, <2>2 DEF ClaimedPanel
<1>16. Offers(u) \subseteq Operations
  BY DEF Offers, DashboardOffers, OpsOffers, Operations
<1> HIDE DEF part
<1>17. \A type \in Operations : type \in Offers(u) <=> ApiAccepts(u, type)
  BY <1>8, <1>9, <1>10, <1>11, <1>12, <1>13, <1>14, <1>15 DEF Operations
<1> QED  BY <1>16, <1>17

\* A refusal at the counter is offered to whom the API takes it from.
LEMMA RejectsMatch ==
  ASSUME RolesInv, HubsKnown, PagesInv, NEW u \in User
  PROVE  ApiRejects(u) = (IF isParticipant(u) THEN rejectStage(u) ELSE {})
                         \cup (IF CarrierPanel(u) THEN {"pickup_checkout"} ELSE {})
<1> DEFINE part == isParticipant(u)
    shown == (IF part THEN rejectStage(u) ELSE {})
             \cup (IF CarrierPanel(u) THEN {"pickup_checkout"} ELSE {})
<1>1. /\ here \in Hub => (MyHub(u) = here <=> Owner[here] = u)
      /\ leg # NoLeg => leg \in LegRow /\ (MyHub(u) = leg.to <=> Owner[leg.to] = u)
  BY MyHubIsMine DEF RolesInv, TypeOK, LegRow
<1>2. /\ isCustodian(u) <=> here \in Hub /\ Owner[here] = u
      /\ u = currentHubOf <=> here \in Hub /\ Owner[here] = u
  BY <1>1, SenderOwnsNoEnd DEF isCustodian, currentHubOf
<1>3. /\ here \in Hub /\ Owner[here] = u => part
      /\ leg # NoLeg /\ Owner[leg.to] = u => part
  BY OwnersParticipate
<1>4. /\ state = "IN_TRANSIT" => leg # NoLeg /\ leg.status = "picked_up" /\ ActiveLeg
      /\ state = "LEG_BOOKED" => leg # NoLeg /\ leg.status = "booked" /\ ActiveLeg
  BY DEF RolesInv, TypeOK, RowsOfState, LegRow, NoLeg, ActiveLeg
<1>5. /\ \A l : l \in Carried <=> l = leg /\ leg # NoLeg /\ leg.status = "picked_up"
      /\ \A l : l \in bookedLeg(u) <=>
           l = leg /\ leg # NoLeg /\ leg.status = "booked" /\ leg.carrier = u
  BY LiveLegShown DEF Carried, bookedLeg, PagesInv
<1>6. "pickup_checkout" \in ApiRejects(u) <=> state = "LEG_BOOKED" /\ ActiveLeg /\ u = leg.carrier
  BY DEF ApiRejects, MayReject, Legal, Rejection
<1>7. "hub_checkin" \in ApiRejects(u) <=> state = "IN_TRANSIT" /\ ActiveLeg /\ u = Owner[leg.to]
  BY DEF ApiRejects, MayReject, Legal, Rejection
<1>8. "recipient_pickup" \in ApiRejects(u) <=>
        state \in {"AWAITING_PICKUP", "CLAIMED"} /\ u = currentHubOf
  BY DEF ApiRejects, MayReject, Legal, Rejection
<1>9. CarrierPanel(u) <=> state = "LEG_BOOKED" /\ leg.carrier = u
  BY <1>4, <1>5 DEF CarrierPanel
<1>10. rejectStage(u) =
         IF state = "IN_TRANSIT" /\ Owner[leg.to] = u THEN {"hub_checkin"}
         ELSE IF state \in {"AWAITING_PICKUP", "CLAIMED"} /\ isCustodian(u)
         THEN {"recipient_pickup"} ELSE {}
  <2>1. (\E l \in Carried : l.to = MyHub(u)) <=>
          leg # NoLeg /\ leg.status = "picked_up" /\ leg.to = MyHub(u)
    BY <1>5
  <2>2. state = "IN_TRANSIT" => ((\E l \in Carried : l.to = MyHub(u)) <=> Owner[leg.to] = u)
    BY <1>1, <1>4, <2>1
  <2> QED  BY <2>2 DEF rejectStage
<1> HIDE DEF part
<1>11. /\ "pickup_checkout" \in shown <=> CarrierPanel(u)
       /\ "hub_checkin" \in shown <=> part /\ state = "IN_TRANSIT" /\ Owner[leg.to] = u
       /\ "recipient_pickup" \in shown <=>
            part /\ state \in {"AWAITING_PICKUP", "CLAIMED"} /\ isCustodian(u)
       /\ shown \subseteq {"pickup_checkout", "hub_checkin", "recipient_pickup"}
  BY <1>10
<1>12. ApiRejects(u) \subseteq {"pickup_checkout", "hub_checkin", "recipient_pickup"}
  BY DEF ApiRejects
<1>13. \A stage \in {"pickup_checkout", "hub_checkin", "recipient_pickup"} :
         stage \in ApiRejects(u) <=> stage \in shown
  BY <1>2, <1>3, <1>4, <1>6, <1>7, <1>8, <1>9, <1>11
<1> HIDE DEF shown
<1>14. \A stage : stage \in ApiRejects(u) <=> stage \in shown
  <2>1. shown \subseteq {"pickup_checkout", "hub_checkin", "recipient_pickup"}
    BY <1>11
  <2> QED  BY <1>12, <1>13, <2>1
<1>15. ApiRejects(u) = shown
  BY <1>14
<1> QED  BY <1>15 DEF part, shown

\* The dashboard leads a hub to the parcels it has something to do with.
LEMMA StaysListed ==
  ASSUME RolesInv, PagesInv, NEW u \in User,
         OpsOffers(u) \ {"leg_return", "origin_hub_accept"} # {}
  PROVE  DashboardStay(u)
<1>1. CheckinPanel(u) \/ CheckoutPanel(u) \/ ArrivalPanel(u) \/ PickupPanel(u) \/ ClaimedPanel(u)
  BY DEF OpsOffers
<1>2. ASSUME isCustodian(u) PROVE DashboardStay(u)
  BY <1>2 DEF isCustodian, DashboardStay
<1>3. ASSUME ArrivalPanel(u) PROVE DashboardStay(u)
  <2> PICK l \in Carried : l.to = MyHub(u)
    BY <1>3 DEF ArrivalPanel
  <2>1. l = leg /\ leg.status = "picked_up"
    BY LiveLegShown DEF Carried, PagesInv
  <2> QED  BY <2>1 DEF DashboardStay, ActiveLeg
<1> QED
  BY <1>1, <1>2, <1>3 DEF CheckinPanel, CheckoutPanel, PickupPanel, ClaimedPanel

\* A claim that the API takes has a form on the page.
LEMMA ClaimFormShown ==
  ASSUME RolesInv, ClaimsTracked, ClaimStory, NEW u \in User,
         ApiAccepts(u, "recipient_claim")
  PROVE  ClaimForm(u)
<1>1. state = "AT_HUB" /\ claim = NoClaim
  BY DEF ApiAccepts, Legal, OnTheBoard, Event
<1>2. ~ClaimPending(u)
  BY <1>1, ClaimToldPending
<1> QED  BY <1>1, <1>2 DEF ClaimForm, StrangersPage, WaitingSection

\* Whoever can show the live token of a claimed parcel is told where to show it.
LEMMA TokenShown ==
  ASSUME RolesInv, ClaimsTracked, CollectInv, NEW u \in User,
         MayHandOverClaimed(currentHubOf, u), Legal(Event("recipient_claimed_pickup", u))
  PROVE  TokenPanel(u)
<1>1. state = "CLAIMED" /\ claim # NoClaim
  BY DEF Legal, Event, RolesInv, RowsOfState
<1>2. u = recipient
  BY DEF MayHandOverClaimed, Holds, CollectInv, LiveSecretsAreTheirs
<1>3. claim.claimant = u
  BY <1>1, <1>2 DEF CollectInv, ShownByRecipient
<1>4. claims \in Seq(ClaimHistory) /\ claims # <<>> /\ claims[Len(claims)] = claim
  BY <1>1 DEF ClaimsTracked
<1>5. Len(claims) \in DOMAIN claims
  BY <1>4
<1>6. isParticipant(u)
  BY <1>3, <1>4, <1>5 DEF isParticipant
<1> QED  BY <1>1, <1>6 DEF TokenPanel

\* The amounts shown as pending or held are those of the live leg.
LEMMA HoldsAreLive ==
  ASSUME RolesInv, PagesInv
  PROVE  holdLeg = IF state \in {"AT_HUB", "LEG_BOOKED"} /\ ActiveLeg THEN {leg} ELSE {}
<1>1. \A l : l \in holdLeg <=>
        l = leg /\ leg # NoLeg /\ leg.status \in {"pending_funding", "booked"}
  BY LiveLegShown DEF holdLeg, PagesInv
<1>2. leg # NoLeg /\ leg.status \in {"pending_funding", "booked"} <=>
        state \in {"AT_HUB", "LEG_BOOKED"} /\ ActiveLeg
  BY DEF RolesInv, TypeOK, RowsOfState, LegRow, NoLeg, ActiveLeg
<1> QED  BY <1>1, <1>2

\* PagesMatchApi follows, page by page.
LEMMA PagesFollow ==
  ASSUME RolesInv, RecipientHoldsLiveSecrets, CollectInv, ReviewInv, PagesInv
  PROVE  PagesMatchApi
<1> USE DEF ReviewInv
<1>1. ASSUME NEW u \in User
      PROVE  /\ Offers(u) = {type \in Operations : ApiAccepts(u, type)}
             /\ ApiRejects(u) = (IF isParticipant(u) THEN rejectStage(u) ELSE {})
                                \cup (IF CarrierPanel(u) THEN {"pickup_checkout"} ELSE {})
             /\ OpsOffers(u) \ {"leg_return", "origin_hub_accept"} # {} => DashboardStay(u)
             /\ ApiAccepts(u, "recipient_claim") => ClaimForm(u)
             /\ /\ MayHandOverClaimed(currentHubOf, u)
                /\ Legal(Event("recipient_claimed_pickup", u))
                => TokenPanel(u)
             /\ state = "AT_HUB" =>
                  (ClaimPending(u) <=> claim # NoClaim /\ claim.claimant = u)
  <2>1. Offers(u) = {type \in Operations : ApiAccepts(u, type)}
    BY OffersMatch
  <2>2. ApiRejects(u) = (IF isParticipant(u) THEN rejectStage(u) ELSE {})
                        \cup (IF CarrierPanel(u) THEN {"pickup_checkout"} ELSE {})
    BY RejectsMatch
  <2>3. OpsOffers(u) \ {"leg_return", "origin_hub_accept"} # {} => DashboardStay(u)
    BY StaysListed
  <2>4. ApiAccepts(u, "recipient_claim") => ClaimForm(u)
    BY ClaimFormShown DEF PagesInv
  <2>5. /\ MayHandOverClaimed(currentHubOf, u)
        /\ Legal(Event("recipient_claimed_pickup", u))
        => TokenPanel(u)
    BY TokenShown
  <2>6. state = "AT_HUB" => (ClaimPending(u) <=> claim # NoClaim /\ claim.claimant = u)
    BY ClaimToldPending DEF PagesInv
  <2> QED  BY <2>1, <2>2, <2>3, <2>4, <2>5, <2>6
<1>2. ApiAccepts(Sender, "cancel") => "cancel" \in SenderOffers
  <2>1. ApiAccepts(Sender, "cancel") => state \in {"DRAFT", "AWAITING_DROPOFF", "AT_HUB"}
    BY DEF ApiAccepts, Legal, Event, OnTheBoard
  <2> QED  BY <2>1 DEF SenderOffers, SENDER_ACTIONS
<1>3. ASSUME NEW h \in Hub \cup {NoHub}, NEW w \in User \cup {Nobody}, ApiReroutes(h, w)
      PROVE  "reroute" \in SenderOffers /\ (RerouteForm(h, w) \/ h = dest)
  <2>1. state \in {"AT_HUB", "AWAITING_PICKUP"} /\ (h # NoHub \/ w # Nobody)
    BY <1>3 DEF ApiReroutes, MayReroute, Legal, Change
  <2>2. "reroute" \in SenderOffers
    BY <2>1 DEF SenderOffers, SENDER_ACTIONS
  <2> QED  BY <2>1, <2>2 DEF RerouteForm
<1>4. holdLeg = IF state \in {"AT_HUB", "LEG_BOOKED"} /\ ActiveLeg THEN {leg} ELSE {}
  BY HoldsAreLive
<1> QED  BY <1>1, <1>2, <1>3, <1>4 DEF PagesMatchApi

\* PagesMatchApi: after any history of legs, returns, reroutes and claims, every page
\* offers what the API would take (shipment-status.ts, ReviewsSection.tsx: the client
\* offers, the API judges), if no request overlaps with a reroute.
THEOREM PagesOfferWhatIsLegal ==
  ASSUME "reroute" \notin Racing
  PROVE  PagesSpec => []PagesMatchApi
<1> DEFINE Inv == RolesInv /\ ChainAgreesWithRows /\ RecipientHoldsLiveSecrets /\ CollectInv
                  /\ ReviewInv /\ PagesInv
<1>1. PagesInit => Inv
  <2> SUFFICES ASSUME PagesInit PROVE Inv
    OBVIOUS
  <2>1. Init
    BY DEF PagesInit
  <2>2. PagesInv
    BY OneHubEach DEF PagesInit, Init, PagesInv, PastIsClosed, ClaimStory, RecipientKnown,
       NoClaim, Event
  <2> QED  BY <2>1, <2>2, InitHolds, CollectInit, ReviewInit
<1>2. Inv /\ [PagesNext]_<<vars, rows>> => Inv'
  <2> SUFFICES ASSUME Inv, [PagesNext]_<<vars, rows>> PROVE Inv'
    OBVIOUS
  <2>1. [Next]_vars
    BY DEF PagesNext
  <2>2. RolesInv' /\ ChainAgreesWithRows' /\ RecipientHoldsLiveSecrets'
    BY <2>1, RolesStayApart, ChainFollowsRows, SecretsFollowRecipient
  <2>3. CollectInv'
    BY <2>1, CollectStep
  <2>4. ReviewInv' /\ PagesInv'
    BY PartsStayShown, PagesStep
  <2> QED  BY <2>2, <2>3, <2>4
<1>3. Inv => PagesMatchApi
  BY PagesFollow
<1> HIDE DEF Inv
<1> QED  BY <1>1, <1>2, <1>3, PTL DEF PagesSpec
=============================================================================
