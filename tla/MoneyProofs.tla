----------------------------- MODULE MoneyProofs -----------------------------
(* The money of one shipment, for every number of hubs and rows: verbs are *)
(* only ever committed for what is over, whoever has the parcel is bonded, *)
(* money settles only for what happened, no hold is orphaned, and in the   *)
(* end every journal passes the audit.                                     *)
EXTENDS ShipmentProofs

\* Every payment has a state.
LEMMA BoardInvMoney == BoardInv => pay \in [Payment -> PayState]
  BY DEF BoardInv, TypeOK, MoneyTyped

-----------------------------------------------------------------------------
(* Which payments the sets of holds name *)

\* The holds of a leg are its payment, its bond and the bond of the hub it goes to.
LEMMA InLegHolds ==
  \A l \in LegId, a \in StayId :
    /\ \A s \in StayId : /\ HubBond(s) \in LegHolds(l, a) <=> s = a
                         /\ HubBonus(s) \notin LegHolds(l, a)
    /\ \A k \in LegId : /\ LegPayment(k) \in LegHolds(l, a) <=> k = l
                        /\ CarrierBond(k) \in LegHolds(l, a) <=> k = l
    /\ \A c \in ClaimId : /\ ClaimPayment(c) \notin LegHolds(l, a)
                          /\ ClaimBonus(c) \notin LegHolds(l, a)
  BY NamesDistinct DEF LegHolds

\* A deposit creates the holds of the leg, and the bonus when its leg has one.
LEMMA InAcceptedHolds ==
  \A l \in LegId, a \in StayId :
    /\ \A s \in StayId : /\ HubBond(s) \in AcceptedHolds(l, a) <=> s = a
                         /\ HubBonus(s) \in AcceptedHolds(l, a) <=> s = a /\ leg[l].bonus
    /\ \A k \in LegId : /\ LegPayment(k) \in AcceptedHolds(l, a) <=> k = l
                        /\ CarrierBond(k) \in AcceptedHolds(l, a) <=> k = l
    /\ \A c \in ClaimId : /\ ClaimPayment(c) \notin AcceptedHolds(l, a)
                          /\ ClaimBonus(c) \notin AcceptedHolds(l, a)
  BY InLegHolds, NamesDistinct DEF AcceptedHolds

\* The holds of a claim are its payment and its bonus.
LEMMA InClaimHolds ==
  \A c \in ClaimId :
    /\ \A s \in StayId : HubBond(s) \notin ClaimHolds(c) /\ HubBonus(s) \notin ClaimHolds(c)
    /\ \A k \in LegId : /\ LegPayment(k) \notin ClaimHolds(c)
                        /\ CarrierBond(k) \notin ClaimHolds(c)
    /\ \A d \in ClaimId : /\ ClaimPayment(d) \in ClaimHolds(c) <=> d = c
                          /\ ClaimBonus(d) \in ClaimHolds(c) <=> d = c /\ claim[c].bonus
  BY NamesDistinct DEF ClaimHolds

\* The bonus hold is the open bonus of a stay.
LEMMA InBonusHold ==
  /\ \A s \in StayId : /\ HubBonus(s) \in BonusHold <=> pay[HubBonus(s)] \in Open
                       /\ HubBond(s) \notin BonusHold
  /\ \A k \in LegId : LegPayment(k) \notin BonusHold /\ CarrierBond(k) \notin BonusHold
  /\ \A c \in ClaimId : ClaimPayment(c) \notin BonusHold /\ ClaimBonus(c) \notin BonusHold
<1>1. \A p : p \in BonusHold <=> \E s \in StayId : p = HubBonus(s) /\ pay[HubBonus(s)] \in Open
  BY DEF BonusHold, BonusStays
<1>2. QED
  BY <1>1, NamesDistinct

\* A forfeited parcel closes the holds of everything that was open with it.
Forfeits == ForfeitRefunds \cup ForfeitDissolves

\* A forfeit names what is open of a hub, a leg, a claim or a bonus.
LEMMA InForfeits ==
  ASSUME BoardInv, NEW s \in StayId, Forfeited(s)
  PROVE  /\ \A t \in StayId :
              /\ HubBond(t) \in Forfeits <=> stay[t].status = "reserved"
              /\ HubBonus(t) \in Forfeits <=>
                   /\ pay[HubBonus(t)] \in Open
                   /\ state = "AWAITING_PICKUP" \/ \E l \in LegId : IsActiveLeg(l)
         /\ \A l \in LegId :
              /\ LegPayment(l) \in Forfeits <=> IsActiveLeg(l)
              /\ CarrierBond(l) \in Forfeits <=> IsActiveLeg(l)
         /\ \A c \in ClaimId :
              /\ ClaimPayment(c) \in Forfeits <=> IsLiveClaim(c)
              /\ ClaimBonus(c) \in Forfeits <=> IsLiveClaim(c) /\ claim[c].bonus
<1>1. RowsMatchState
  BY DEF BoardInv
<1>2. \A p \in Payment : p \in ClaimedHolds <=> \E c \in ClaimId : IsLiveClaim(c) /\ p \in ClaimHolds(c)
  BY DEF ClaimedHolds, LiveClaims
<1>3. \A p \in Payment : p \in PendingHolds <=>
        \E l \in LegId : /\ IsActiveLeg(l)
                         /\ \/ p \in BonusHold
                            \/ \E a \in StayId : IsArrival(a) /\ p \in LegHolds(l, a)
  BY DEF PendingHolds, PendingLegs, Arrivals
<1>4. \A a \in StayId : IsArrival(a) => \E l \in LegId : IsActiveLeg(l)
  BY <1>1 DEF RowsMatchState, IsArrival, Forfeited
<1>5. \A l \in LegId : IsActiveLeg(l) => state = "AT_HUB" /\ \E a \in StayId : IsArrival(a)
  BY <1>1 DEF RowsMatchState, IsArrival, IsActiveLeg, Forfeited
<1>6. \A c \in ClaimId : IsLiveClaim(c) => state \in {"AT_HUB", "CLAIMED"}
  BY <1>1 DEF RowsMatchState, IsLiveClaim
<1>7. \A p \in Payment : p \in Forfeits <=>
        \/ state = "AT_HUB" /\ (p \in PendingHolds \/ p \in ClaimedHolds)
        \/ state = "CLAIMED" /\ p \in ClaimedHolds
        \/ state = "AWAITING_PICKUP" /\ p \in BonusHold
  BY DEF Forfeits, ForfeitRefunds, ForfeitDissolves, Forfeited
<1>8. \A p \in Payment : p \in Forfeits <=>
        \/ p \in PendingHolds \/ p \in ClaimedHolds
        \/ state = "AWAITING_PICKUP" /\ p \in BonusHold
  BY <1>2, <1>3, <1>5, <1>6, <1>7 DEF Forfeited
<1>9. QED
  BY <1>2, <1>3, <1>4, <1>5, <1>8, PaymentKinds, InClaimHolds, InLegHolds, InBonusHold
     DEF IsArrival

-----------------------------------------------------------------------------
(* Verbs are committed only for what is over *)

NoVerb(p) == <<p, "release">> \notin intents /\ <<p, "refund">> \notin intents

\* No payment exists for a row that was not written, or not yet accepted.
FreshRows ==
  /\ \A s \in StayId : stay[s].status = "none" =>
       pay[HubBond(s)] = "none" /\ pay[HubBonus(s)] = "none"
  /\ \A l \in LegId : leg[l].status \in {"none", "requested"} =>
       pay[LegPayment(l)] = "none" /\ pay[CarrierBond(l)] = "none"
  /\ \A c \in ClaimId : claim[c].status = "none" =>
       pay[ClaimPayment(c)] = "none" /\ pay[ClaimBonus(c)] = "none"

\* As long as a row is not closed, no verb is committed for its payments.
NoEarlyVerb ==
  /\ \A s \in StayId :
       /\ stay[s].status \in {"none", "reserved", "active"} => NoVerb(HubBond(s))
       /\ stay[s].status = "none" => NoVerb(HubBonus(s))
  /\ \A l \in LegId :
       leg[l].status \in {"none", "requested", "pending_funding", "booked", "picked_up"} =>
         NoVerb(LegPayment(l)) /\ NoVerb(CarrierBond(l))
  /\ \A c \in ClaimId :
       claim[c].status \in {"none", "pending_funding", "funded"} =>
         NoVerb(ClaimPayment(c)) /\ NoVerb(ClaimBonus(c))

VerbInv == FreshRows /\ NoEarlyVerb

\* Nothing is committed before the shipment exists.
LEMMA VerbInit == Init => VerbInv
  BY PaymentKinds DEF Init, VerbInv, FreshRows, NoEarlyVerb, NoVerb

\* A step commits verbs only for the payments of the rows it closes.
LEMMA VerbStep ==
  ASSUME BoardInv, VerbInv, [Next]_vars
  PROVE  VerbInv'
<1> USE DEF VerbInv
<1>1. ASSUME NEW d \in Hub, Created(d) PROVE VerbInv'
  <2>1. FreshRows'
    BY <1>1 DEF Created, FreshRows, RowsKept, money
  <2>2. NoEarlyVerb'
    BY <1>1 DEF Created, FreshRows, NoEarlyVerb, NoVerb, Open, RowsKept, money
  <2>3. QED
    BY <2>1, <2>2 DEF VerbInv
<1>2. ASSUME NEW d \in Hub, NEW s \in StayId, Rerouted(d, s) PROVE VerbInv'
  <2>1. FreshRows'
    BY <1>2 DEF Rerouted, FreshRows, RowsKept
  <2>2. NoEarlyVerb'
    BY <1>2, InBonusHold, NamesDistinct, PaymentKinds DEF Rerouted, FreshRows,
       NoEarlyVerb, NoVerb, Open, Commit, Entries, RowsKept
  <2>3. QED
    BY <2>1, <2>2 DEF VerbInv
<1>3. ASSUME NEW s \in StayId, Accepted(s) PROVE VerbInv'
  <2>1. FreshRows'
    BY <1>3, NamesDistinct, PaymentKinds DEF Accepted, FreshRows
  <2>2. NoEarlyVerb'
    BY <1>3, NamesDistinct, PaymentKinds DEF Accepted, FreshRows, NoEarlyVerb, NoVerb,
       Open, Commit, Entries
  <2>3. QED
    BY <2>1, <2>2 DEF VerbInv
<1>4. ASSUME NEW s \in StayId, CheckedIn(s) PROVE VerbInv'
  <2>1. FreshRows'
    BY <1>4 DEF CheckedIn, FreshRows, money
  <2>2. NoEarlyVerb'
    BY <1>4 DEF CheckedIn, FreshRows, NoEarlyVerb, NoVerb, Open, money
  <2>3. QED
    BY <2>1, <2>2 DEF VerbInv
<1>5. ASSUME NEW l \in LegId, NEW h \in Hub, NEW b \in BOOLEAN, NEW s \in StayId,
        Requested(l, h, b, s) PROVE VerbInv'
  <2>1. FreshRows'
    BY <1>5 DEF Requested, FreshRows, money
  <2>2. NoEarlyVerb'
    BY <1>5 DEF Requested, FreshRows, NoEarlyVerb, NoVerb, Open, money
  <2>3. QED
    BY <2>1, <2>2 DEF VerbInv
<1>6. ASSUME NEW l \in LegId, NEW a \in StayId, Deposited(l, a) PROVE VerbInv'
  <2>1. FreshRows'
    BY <1>6, InAcceptedHolds, NamesDistinct, PaymentKinds DEF Deposited, FreshRows
  <2>2. NoEarlyVerb'
    BY <1>6, InAcceptedHolds, InBonusHold, NamesDistinct, PaymentKinds DEF Deposited,
       FreshRows, NoEarlyVerb, NoVerb, Open
  <2>3. QED
    BY <2>1, <2>2 DEF VerbInv
<1>7. ASSUME NEW l \in LegId, RequestClosed(l) PROVE VerbInv'
  <2>1. FreshRows'
    BY <1>7 DEF RequestClosed, FreshRows, money
  <2>2. NoEarlyVerb'
    BY <1>7 DEF RequestClosed, FreshRows, NoEarlyVerb, NoVerb, Open, money
  <2>3. QED
    BY <2>1, <2>2 DEF VerbInv
<1>8. ASSUME NEW l \in LegId, NEW s \in StayId, NEW a \in StayId, Booked(l, s, a)
       PROVE VerbInv'
  <2>1. FreshRows'
    BY <1>8 DEF Booked, FreshRows
  <2>2. NoEarlyVerb'
    BY <1>8, InLegHolds, InBonusHold, NamesDistinct, PaymentKinds DEF Booked, FreshRows,
       NoEarlyVerb, NoVerb, Open, Commit, Entries
  <2>3. QED
    BY <2>1, <2>2 DEF VerbInv
<1>9. ASSUME NEW l \in LegId, NEW a \in StayId, LegUnfunded(l, a) PROVE VerbInv'
  <2>1. FreshRows'
    BY <1>9 DEF LegUnfunded, FreshRows
  <2>2. NoEarlyVerb'
    <3>1. \A p \in Payment : p \notin LegHolds(l, a) \cup BonusHold /\ NoVerb(p) => NoVerb(p)'
      BY <1>9 DEF LegUnfunded, NoVerb, Commit, Entries
    <3>2. \A t \in StayId :
            /\ stay'[t].status \in {"none", "reserved", "active"} => NoVerb(HubBond(t))'
            /\ stay'[t].status = "none" => NoVerb(HubBonus(t))'
      BY <1>9, <3>1, InLegHolds, InBonusHold, PaymentKinds DEF LegUnfunded, FreshRows,
         NoEarlyVerb, Open
    <3>3. \A k \in LegId :
            leg'[k].status \in {"none", "requested", "pending_funding", "booked", "picked_up"} =>
              NoVerb(LegPayment(k))' /\ NoVerb(CarrierBond(k))'
      BY <1>9, <3>1, InLegHolds, InBonusHold, PaymentKinds DEF LegUnfunded, NoEarlyVerb,
         IsActiveLeg
    <3>4. \A c \in ClaimId :
            claim'[c].status \in {"none", "pending_funding", "funded"} =>
              NoVerb(ClaimPayment(c))' /\ NoVerb(ClaimBonus(c))'
      BY <1>9, <3>1, InLegHolds, InBonusHold, PaymentKinds DEF LegUnfunded, NoEarlyVerb,
         IsLiveClaim
    <3>5. QED
      BY <3>2, <3>3, <3>4 DEF NoEarlyVerb
  <2>3. QED
    BY <2>1, <2>2 DEF VerbInv
<1>10. ASSUME NEW l \in LegId, NEW s \in StayId, PickedUp(l, s) PROVE VerbInv'
  <2>1. FreshRows'
    BY <1>10 DEF PickedUp, FreshRows
  <2>2. NoEarlyVerb'
    BY <1>10, NamesDistinct, PaymentKinds DEF PickedUp, FreshRows, NoEarlyVerb, NoVerb,
       Open, Commit, Entries
  <2>3. QED
    BY <2>1, <2>2 DEF VerbInv
<1>11. ASSUME NEW l \in LegId, NEW s \in StayId, NEW a \in StayId, NotPickedUp(l, s, a)
        PROVE VerbInv'
  <2>1. FreshRows'
    BY <1>11 DEF NotPickedUp, FreshRows
  <2>2. NoEarlyVerb'
    <3>1. \A p \in Payment :
            p \notin {CarrierBond(l), LegPayment(l), HubBond(a)} \cup BonusHold /\ NoVerb(p) =>
              NoVerb(p)'
      BY <1>11 DEF NotPickedUp, NoVerb, Commit, Entries
    <3>2. \A t \in StayId :
            /\ stay'[t].status \in {"none", "reserved", "active"} => NoVerb(HubBond(t))'
            /\ stay'[t].status = "none" => NoVerb(HubBonus(t))'
      BY <1>11, <3>1, InBonusHold, PaymentKinds, NamesDistinct DEF NotPickedUp, FreshRows,
         NoEarlyVerb, Open
    <3>3. \A k \in LegId :
            leg'[k].status \in {"none", "requested", "pending_funding", "booked", "picked_up"} =>
              NoVerb(LegPayment(k))' /\ NoVerb(CarrierBond(k))'
      BY <1>11, <3>1, InBonusHold, PaymentKinds, NamesDistinct DEF NotPickedUp, NoEarlyVerb,
         IsActiveLeg
    <3>4. \A c \in ClaimId :
            claim'[c].status \in {"none", "pending_funding", "funded"} =>
              NoVerb(ClaimPayment(c))' /\ NoVerb(ClaimBonus(c))'
      BY <1>11, <3>1, InBonusHold, PaymentKinds, NamesDistinct DEF NotPickedUp, NoEarlyVerb,
         IsLiveClaim
    <3>5. QED
      BY <3>2, <3>3, <3>4 DEF NoEarlyVerb
  <2>3. QED
    BY <2>1, <2>2 DEF VerbInv
<1>12. ASSUME NEW l \in LegId, NEW a \in StayId, Arrived(l, a) PROVE VerbInv'
  <2>1. FreshRows'
    BY <1>12 DEF Arrived, FreshRows
  <2>2. NoEarlyVerb'
    BY <1>12, NamesDistinct, PaymentKinds DEF Arrived, FreshRows, NoEarlyVerb, NoVerb,
       Open, Commit, Entries
  <2>3. QED
    BY <2>1, <2>2 DEF VerbInv
<1>13. ASSUME NEW r \in StayId, NEW l \in LegId, NEW a \in StayId, Returned(r, l, a)
       PROVE VerbInv'
  <2>1. FreshRows'
    BY <1>13, NamesDistinct, PaymentKinds DEF Returned, FreshRows
  <2>2. NoEarlyVerb'
    <3>1. \A p \in Payment : p \notin LegHolds(l, a) \cup BonusHold /\ NoVerb(p) => NoVerb(p)'
      BY <1>13 DEF Returned, NoVerb, Commit, Entries
    <3>2. \A t \in StayId :
            /\ stay'[t].status \in {"none", "reserved", "active"} => NoVerb(HubBond(t))'
            /\ stay'[t].status = "none" => NoVerb(HubBonus(t))'
      BY <1>13, <3>1, InLegHolds, InBonusHold, PaymentKinds DEF Returned, FreshRows,
         NoEarlyVerb, Open
    <3>3. \A k \in LegId :
            leg'[k].status \in {"none", "requested", "pending_funding", "booked", "picked_up"} =>
              NoVerb(LegPayment(k))' /\ NoVerb(CarrierBond(k))'
      BY <1>13, <3>1, InLegHolds, InBonusHold, PaymentKinds DEF Returned, NoEarlyVerb,
         IsActiveLeg
    <3>4. \A c \in ClaimId :
            claim'[c].status \in {"none", "pending_funding", "funded"} =>
              NoVerb(ClaimPayment(c))' /\ NoVerb(ClaimBonus(c))'
      BY <1>13, <3>1, InLegHolds, InBonusHold, PaymentKinds DEF Returned, NoEarlyVerb,
         IsLiveClaim
    <3>5. QED
      BY <3>2, <3>3, <3>4 DEF NoEarlyVerb
  <2>3. QED
    BY <2>1, <2>2 DEF VerbInv
<1>14. ASSUME NEW l \in LegId, NEW a \in StayId, GoneMissing(l, a) PROVE VerbInv'
  <2>1. FreshRows'
    BY <1>14 DEF GoneMissing, FreshRows
  <2>2. NoEarlyVerb'
    BY <1>14, InBonusHold, NamesDistinct, PaymentKinds DEF GoneMissing, FreshRows,
       NoEarlyVerb, NoVerb, Open, Commit, Entries
  <2>3. QED
    BY <2>1, <2>2 DEF VerbInv
<1>15. ASSUME NEW s \in StayId, Collected(s) PROVE VerbInv'
  <2>1. FreshRows'
    BY <1>15 DEF Collected, FreshRows
  <2>2. NoEarlyVerb'
    BY <1>15, InBonusHold, NamesDistinct, PaymentKinds DEF Collected, FreshRows,
       NoEarlyVerb, NoVerb, Open, Commit, Entries
  <2>3. QED
    BY <2>1, <2>2 DEF VerbInv
<1>16. ASSUME NEW c \in ClaimId, NEW b \in BOOLEAN, NEW s \in StayId, Claimed(c, b, s)
        PROVE VerbInv'
  <2>1. FreshRows'
    BY <1>16, NamesDistinct, PaymentKinds DEF Claimed, FreshRows
  <2>2. NoEarlyVerb'
    BY <1>16, NamesDistinct, PaymentKinds DEF Claimed, FreshRows, NoEarlyVerb, NoVerb,
       Open
  <2>3. QED
    BY <2>1, <2>2 DEF VerbInv
<1>17. ASSUME NEW c \in ClaimId, ClaimBooked(c) PROVE VerbInv'
  <2>1. FreshRows'
    BY <1>17 DEF ClaimBooked, FreshRows
  <2>2. NoEarlyVerb'
    BY <1>17, InClaimHolds, NamesDistinct, PaymentKinds DEF ClaimBooked, FreshRows,
       NoEarlyVerb, NoVerb, Open, Commit, Entries
  <2>3. QED
    BY <2>1, <2>2 DEF VerbInv
<1>18. ASSUME NEW c \in ClaimId, ClaimUnfunded(c) PROVE VerbInv'
  <2>1. FreshRows'
    BY <1>18 DEF ClaimUnfunded, FreshRows
  <2>2. NoEarlyVerb'
    BY <1>18, InClaimHolds, NamesDistinct, PaymentKinds DEF ClaimUnfunded, FreshRows,
       NoEarlyVerb, NoVerb, Open, Commit, Entries
  <2>3. QED
    BY <2>1, <2>2 DEF VerbInv
<1>19. ASSUME NEW c \in ClaimId, NEW s \in StayId, ClaimCollected(c, s) PROVE VerbInv'
  <2>1. FreshRows'
    BY <1>19 DEF ClaimCollected, FreshRows
  <2>2. NoEarlyVerb'
    BY <1>19, InClaimHolds, NamesDistinct, PaymentKinds DEF ClaimCollected, FreshRows,
       NoEarlyVerb, NoVerb, Open, Commit, Entries
  <2>3. QED
    BY <2>1, <2>2 DEF VerbInv
<1>20. ASSUME NEW s \in StayId, Forfeited(s) PROVE VerbInv'
  <2>1. FreshRows'
    BY <1>20 DEF Forfeited, FreshRows
  <2>2. NoEarlyVerb'
    <3>1. \A p \in Payment : p \notin Forfeits \cup {HubBond(s)} /\ NoVerb(p) => NoVerb(p)'
      BY <1>20 DEF Forfeited, NoVerb, Commit, Entries, Forfeits
    <3>2. \A t \in StayId :
            /\ stay'[t].status \in {"none", "reserved", "active"} => NoVerb(HubBond(t))'
            /\ stay'[t].status = "none" => NoVerb(HubBonus(t))'
      BY <1>20, <3>1, InForfeits, PaymentKinds, NamesDistinct DEF Forfeited, FreshRows,
         NoEarlyVerb, Open
    <3>3. \A k \in LegId :
            leg'[k].status \in {"none", "requested", "pending_funding", "booked", "picked_up"} =>
              NoVerb(LegPayment(k))' /\ NoVerb(CarrierBond(k))'
      BY <1>20, <3>1, InForfeits, PaymentKinds, NamesDistinct DEF Forfeited, NoEarlyVerb,
         IsActiveLeg
    <3>4. \A c \in ClaimId :
            claim'[c].status \in {"none", "pending_funding", "funded"} =>
              NoVerb(ClaimPayment(c))' /\ NoVerb(ClaimBonus(c))'
      BY <1>20, <3>1, InForfeits, PaymentKinds, NamesDistinct DEF Forfeited, NoEarlyVerb,
         IsLiveClaim
    <3>5. QED
      BY <3>2, <3>3, <3>4 DEF NoEarlyVerb
  <2>3. QED
    BY <2>1, <2>2 DEF VerbInv
<1>21. ASSUME Dropped PROVE VerbInv'
  <2>1. FreshRows'
    BY <1>21 DEF Dropped, FreshRows, RowsKept, money
  <2>2. NoEarlyVerb'
    BY <1>21 DEF Dropped, FreshRows, NoEarlyVerb, NoVerb, Open, RowsKept, money
  <2>3. QED
    BY <2>1, <2>2 DEF VerbInv
<1>22. ASSUME NEW s \in StayId, CalledOff(s) PROVE VerbInv'
  <2>1. FreshRows'
    BY <1>22 DEF CalledOff, FreshRows
  <2>2. NoEarlyVerb'
    BY <1>22, NamesDistinct, PaymentKinds DEF CalledOff, FreshRows, NoEarlyVerb, NoVerb,
       Open, Commit, Entries
  <2>3. QED
    BY <2>1, <2>2 DEF VerbInv
<1>23. ASSUME NEW p \in Payment, AtRest,
             PaymentHeld(p) \/ HoldLapses(p) \/ HoldDies(p) \/ ExecuteRelease(p) \/ ExecuteRefund(p)
      PROVE  VerbInv'
  <2>1. /\ \A q \in Payment : pay[q] = "none" => pay'[q] = "none"
        /\ \A q : NoVerb(q) => NoVerb(q)'
    <3>1. CASE PaymentHeld(p)
      BY <3>1, BoardInvMoney DEF PaymentHeld, NoVerb
    <3>2. CASE HoldLapses(p)
      BY <3>2, BoardInvMoney DEF HoldLapses, NoVerb
    <3>3. CASE HoldDies(p)
      BY <3>3, BoardInvMoney DEF HoldDies, NoVerb
    <3>4. CASE ExecuteRelease(p)
      BY <3>4, BoardInvMoney DEF ExecuteRelease, NoVerb
    <3>5. CASE ExecuteRefund(p)
      BY <3>5, BoardInvMoney DEF ExecuteRefund, NoVerb, Refundable, Open
    <3>6. QED
      BY <1>23, <3>1, <3>2, <3>3, <3>4, <3>5
  <2>2. FreshRows'
    BY <1>23, <2>1, PaymentKinds DEF AtRest, FreshRows
  <2>3. NoEarlyVerb'
    BY <1>23, <2>1 DEF AtRest, NoEarlyVerb, NoVerb
  <2>4. QED
    BY <2>2, <2>3
<1>24. CASE AtRest /\ UNCHANGED money
  BY <1>24 DEF AtRest, money, FreshRows, NoEarlyVerb, NoVerb
<1>25. QED
  BY StepEffects, <1>1, <1>2, <1>3, <1>4, <1>5, <1>6, <1>7, <1>8, <1>9, <1>10, <1>11,
     <1>12, <1>13, <1>14, <1>15, <1>16, <1>17, <1>18, <1>19, <1>20, <1>21, <1>22, <1>23,
     <1>24

-----------------------------------------------------------------------------
(* Whoever has the parcel is bonded *)

\* BondedCustodian, payment by payment.
Bonds ==
  /\ \A s \in StayId : IsCurrentStay(s) => pay[HubBond(s)] = "held"
  /\ \A l \in LegId, a \in StayId :
       leg[l].status \in {"booked", "picked_up"} /\ IsArrival(a) =>
         pay[LegPayment(l)] = "held" /\ pay[CarrierBond(l)] = "held" /\ pay[HubBond(a)] = "held"
  /\ \A c \in ClaimId : claim[c].status = "funded" =>
       pay[ClaimPayment(c)] = "held" /\ (claim[c].bonus => pay[ClaimBonus(c)] = "held")

\* Whoever has the parcel is bonded as long as those bonds are held.
LEMMA BondsSuffice == BondedCustodian <=> (HoldsMayDie \/ Bonds)
  BY HubsAndFlag DEF BondedCustodian, Bonds, LegHolds, ClaimHolds

\* A hold changes only by a verb, and no verb is committed for an open row's.
LEMMA BondStep ==
  ASSUME ~ HoldsMayDie, BoardInv, VerbInv, Bonds, [Next]_vars
  PROVE  Bonds'
<1>0. RowsMatchState /\ BoardExclusive
  BY DEF BoardInv
<1>1. ASSUME NEW d \in Hub, Created(d) PROVE Bonds'
  BY <1>1, <1>0 DEF Created, Bonds, IsCurrentStay, IsArrival, AtHubStates, RowsMatchState,
     BoardExclusive, TermsKept, IsActiveLeg, RowsKept, money
<1>2. ASSUME NEW d \in Hub, NEW s \in StayId, Rerouted(d, s) PROVE Bonds'
  BY <1>2, <1>0 DEF Rerouted, Bonds, IsCurrentStay, IsArrival, AtHubStates,
     RowsMatchState, BoardExclusive, TermsKept, IsActiveLeg, RowsKept
<1>3. ASSUME NEW s \in StayId, Accepted(s) PROVE Bonds'
  BY <1>3, <1>0, NamesDistinct, PaymentKinds DEF Accepted, Bonds, IsCurrentStay,
     IsArrival, AtHubStates, RowsMatchState, BoardExclusive, TermsKept, IsActiveLeg
<1>4. ASSUME NEW s \in StayId, CheckedIn(s) PROVE Bonds'
  BY <1>4, <1>0 DEF CheckedIn, Bonds, IsCurrentStay, IsArrival, AtHubStates,
     RowsMatchState, BoardExclusive, TermsKept, IsActiveLeg, money
<1>5. ASSUME NEW l \in LegId, NEW h \in Hub, NEW b \in BOOLEAN, NEW s \in StayId,
        Requested(l, h, b, s) PROVE Bonds'
  BY <1>5, <1>0 DEF Requested, Bonds, IsCurrentStay, IsArrival, AtHubStates,
     RowsMatchState, BoardExclusive, TermsKept, IsActiveLeg, money
<1>6. ASSUME NEW l \in LegId, NEW a \in StayId, Deposited(l, a) PROVE Bonds'
  BY <1>6, <1>0, InAcceptedHolds, NamesDistinct, PaymentKinds DEF Deposited, Bonds,
     IsCurrentStay, IsArrival, AtHubStates, RowsMatchState, BoardExclusive, TermsKept,
     IsActiveLeg
<1>7. ASSUME NEW l \in LegId, RequestClosed(l) PROVE Bonds'
  BY <1>7, <1>0 DEF RequestClosed, Bonds, IsCurrentStay, IsArrival, AtHubStates,
     RowsMatchState, BoardExclusive, TermsKept, IsActiveLeg, money
<1>8. ASSUME NEW l \in LegId, NEW s \in StayId, NEW a \in StayId, Booked(l, s, a)
       PROVE Bonds'
  <2>1. pay[LegPayment(l)] = "held" /\ pay[CarrierBond(l)] = "held" /\ pay[HubBond(a)] = "held"
    BY <1>8 DEF Booked, LegHolds
  <2>2. \A t \in StayId : stay[t].status = "reserved" => t = a
    BY <1>8, <1>0 DEF Booked, BoardExclusive
  <2>3. \A k \in LegId : leg[k].status \notin {"booked", "picked_up"}
    BY <1>8, <1>0 DEF Booked, RowsMatchState
  <2>4. QED
    BY <1>8, <2>1, <2>2, <2>3 DEF Booked, Bonds, IsCurrentStay, IsArrival, AtHubStates,
       TermsKept
<1>9. ASSUME NEW l \in LegId, NEW a \in StayId, LegUnfunded(l, a) PROVE Bonds'
  BY <1>9, <1>0 DEF LegUnfunded, Bonds, IsCurrentStay, IsArrival, AtHubStates,
     RowsMatchState, BoardExclusive, TermsKept, IsActiveLeg
<1>10. ASSUME NEW l \in LegId, NEW s \in StayId, PickedUp(l, s) PROVE Bonds'
  BY <1>10, <1>0 DEF PickedUp, Bonds, IsCurrentStay, IsArrival, AtHubStates,
     RowsMatchState, BoardExclusive, TermsKept, IsActiveLeg
<1>11. ASSUME NEW l \in LegId, NEW s \in StayId, NEW a \in StayId, NotPickedUp(l, s, a)
        PROVE Bonds'
  BY <1>11, <1>0 DEF NotPickedUp, Bonds, IsCurrentStay, IsArrival, AtHubStates,
     RowsMatchState, BoardExclusive, TermsKept, IsActiveLeg
<1>12. ASSUME NEW l \in LegId, NEW a \in StayId, Arrived(l, a) PROVE Bonds'
  BY <1>12, <1>0 DEF Arrived, Bonds, IsCurrentStay, IsArrival, AtHubStates,
     RowsMatchState, BoardExclusive, TermsKept, IsActiveLeg
<1>13. ASSUME NEW r \in StayId, NEW l \in LegId, NEW a \in StayId, Returned(r, l, a)
       PROVE Bonds'
  BY <1>13, <1>0, NamesDistinct, PaymentKinds DEF Returned, Bonds, IsCurrentStay,
     IsArrival, AtHubStates, RowsMatchState, BoardExclusive, TermsKept, IsActiveLeg
<1>14. ASSUME NEW l \in LegId, NEW a \in StayId, GoneMissing(l, a) PROVE Bonds'
  BY <1>14, <1>0 DEF GoneMissing, Bonds, IsCurrentStay, IsArrival, AtHubStates,
     RowsMatchState, BoardExclusive, TermsKept, IsActiveLeg
<1>15. ASSUME NEW s \in StayId, Collected(s) PROVE Bonds'
  BY <1>15, <1>0 DEF Collected, Bonds, IsCurrentStay, IsArrival, AtHubStates,
     RowsMatchState, BoardExclusive, TermsKept, IsActiveLeg
<1>16. ASSUME NEW c \in ClaimId, NEW b \in BOOLEAN, NEW s \in StayId, Claimed(c, b, s)
        PROVE Bonds'
  BY <1>16, <1>0, NamesDistinct, PaymentKinds DEF Claimed, Bonds, IsCurrentStay,
     IsArrival, AtHubStates, RowsMatchState, BoardExclusive, TermsKept, IsActiveLeg
<1>17. ASSUME NEW c \in ClaimId, ClaimBooked(c) PROVE Bonds'
  <2>1. pay[ClaimPayment(c)] = "held" /\ (claim[c].bonus => pay[ClaimBonus(c)] = "held")
    BY <1>17, InClaimHolds DEF ClaimBooked
  <2>2. QED
    BY <1>17, <1>0, <2>1
       DEF ClaimBooked, Bonds, IsCurrentStay, IsArrival, AtHubStates, RowsMatchState, TermsKept
<1>18. ASSUME NEW c \in ClaimId, ClaimUnfunded(c) PROVE Bonds'
  BY <1>18, <1>0 DEF ClaimUnfunded, Bonds, IsCurrentStay, IsArrival, AtHubStates,
     RowsMatchState, BoardExclusive, TermsKept, IsActiveLeg
<1>19. ASSUME NEW c \in ClaimId, NEW s \in StayId, ClaimCollected(c, s) PROVE Bonds'
  BY <1>19, <1>0 DEF ClaimCollected, Bonds, IsCurrentStay, IsArrival, AtHubStates,
     RowsMatchState, BoardExclusive, TermsKept, IsActiveLeg
<1>20. ASSUME NEW s \in StayId, Forfeited(s) PROVE Bonds'
  BY <1>20, <1>0 DEF Forfeited, Bonds, IsCurrentStay, IsArrival, AtHubStates,
     RowsMatchState, BoardExclusive, TermsKept, IsActiveLeg
<1>21. ASSUME Dropped PROVE Bonds'
  BY <1>21, <1>0 DEF Dropped, Bonds, IsCurrentStay, IsArrival, AtHubStates,
     RowsMatchState, BoardExclusive, TermsKept, IsActiveLeg, RowsKept, money
<1>22. ASSUME NEW s \in StayId, CalledOff(s) PROVE Bonds'
  BY <1>22, <1>0 DEF CalledOff, Bonds, IsCurrentStay, IsArrival, AtHubStates,
     RowsMatchState, BoardExclusive, TermsKept, IsActiveLeg
<1>23. ASSUME NEW p \in Payment, AtRest,
             PaymentHeld(p) \/ HoldLapses(p) \/ HoldDies(p) \/ ExecuteRelease(p) \/ ExecuteRefund(p)
      PROVE  Bonds'
  <2>1. \A q \in Payment : pay[q] = "held" /\ NoVerb(q) => pay'[q] = "held"
    <3>1. CASE PaymentHeld(p)
      BY <3>1, BoardInvMoney DEF PaymentHeld
    <3>2. CASE HoldLapses(p)
      BY <3>2, BoardInvMoney DEF HoldLapses
    <3>3. CASE HoldDies(p)
      BY <3>3 DEF HoldDies
    <3>4. CASE ExecuteRelease(p)
      BY <3>4, BoardInvMoney DEF ExecuteRelease, NoVerb
    <3>5. CASE ExecuteRefund(p)
      BY <3>5, BoardInvMoney DEF ExecuteRefund, NoVerb
    <3>6. QED
      BY <1>23, <3>1, <3>2, <3>3, <3>4, <3>5
  <2>2. QED
    BY <1>0, <1>23, <2>1, PaymentKinds
       DEF AtRest, Bonds, VerbInv, NoEarlyVerb, IsCurrentStay, IsArrival, AtHubStates
<1>24. CASE AtRest /\ UNCHANGED money
  BY <1>24 DEF AtRest, money, Bonds, IsCurrentStay, IsArrival
<1>25. QED
  BY StepEffects, <1>1, <1>2, <1>3, <1>4, <1>5, <1>6, <1>7, <1>8, <1>9, <1>10, <1>11,
     <1>12, <1>13, <1>14, <1>15, <1>16, <1>17, <1>18, <1>19, <1>20, <1>21, <1>22, <1>23,
     <1>24

\* Nobody has the parcel of a draft.
LEMMA BondInit == Init => Bonds
  BY DEF Init, Bonds, IsCurrentStay, IsArrival, AtHubStates

\* While no hold dies at a wallet, whoever has the parcel is bonded, and a
\* carrier moves only with its payment and the next hub's bond locked.
THEOREM CustodianAlwaysBonded == Spec => []BondedCustodian
<1>1. Init => BoardInv /\ VerbInv /\ BondedCustodian
  BY BoardInit, VerbInit, BondInit, BondsSuffice
<1>2. BoardInv /\ VerbInv /\ BondedCustodian /\ [Next]_vars
        => BoardInv' /\ VerbInv' /\ BondedCustodian'
  <2> SUFFICES ASSUME BoardInv, VerbInv, BondedCustodian, [Next]_vars
               PROVE  BoardInv' /\ VerbInv' /\ BondedCustodian'
    OBVIOUS
  <2>1. BoardInv' /\ VerbInv'
    BY BoardStep, VerbStep
  <2>2. CASE HoldsMayDie
    BY <2>1, <2>2 DEF BondedCustodian
  <2>3. CASE ~ HoldsMayDie
    <3>1. Bonds'
      BY <2>3, BondStep, BondsSuffice
    <3>2. QED
      BY <2>1, <3>1 DEF BondedCustodian, Bonds, LegHolds, ClaimHolds
  <2>4. QED
    BY <2>2, <2>3
<1>3. QED
  BY <1>1, <1>2, PTL DEF Spec

-----------------------------------------------------------------------------
(* Money settles only for what happened *)

\* The settled entry of a release is posted with the intent, not with the verb.
ReleaseSettles ==
  \A p \in Payment : <<p, "release">> \in intents => <<p, "settled">> \in journal

SettleInv == ReleaseSettles /\ SettlementMatchesOutcome

\* No verb is committed in a draft.
LEMMA SettleInit == Init => SettleInv
  BY DEF Init, SettleInv, ReleaseSettles, SettlementMatchesOutcome

\* Only a commit posts a settled entry, and it names the row it closes.
LEMMA SettleStep ==
  ASSUME BoardInv, SettleInv, [Next]_vars
  PROVE  SettleInv'
<1> USE DEF SettleInv
<1>1. ASSUME NEW d \in Hub, Created(d) PROVE SettleInv'
  <2>1. ReleaseSettles'
    BY <1>1 DEF Created, ReleaseSettles, RowsKept, money
  <2>2. SettlementMatchesOutcome'
    BY <1>1 DEF Created, SettlementMatchesOutcome, RowsKept, money
  <2>3. QED
    BY <2>1, <2>2 DEF SettleInv
<1>2. ASSUME NEW d \in Hub, NEW s \in StayId, Rerouted(d, s) PROVE SettleInv'
  <2>1. ReleaseSettles'
    BY <1>2, InBonusHold, NamesDistinct, PaymentKinds DEF Rerouted, ReleaseSettles,
       Commit, Entries, RowsKept
  <2>2. SettlementMatchesOutcome'
    BY <1>2, InBonusHold, NamesDistinct, PaymentKinds DEF Rerouted,
       SettlementMatchesOutcome, Commit, Entries, RowsKept
  <2>3. QED
    BY <2>1, <2>2 DEF SettleInv
<1>3. ASSUME NEW s \in StayId, Accepted(s) PROVE SettleInv'
  <2>1. ReleaseSettles'
    BY <1>3, NamesDistinct, PaymentKinds DEF Accepted, ReleaseSettles, Commit, Entries
  <2>2. SettlementMatchesOutcome'
    BY <1>3, NamesDistinct, PaymentKinds DEF Accepted, SettlementMatchesOutcome, Commit,
       Entries
  <2>3. QED
    BY <2>1, <2>2 DEF SettleInv
<1>4. ASSUME NEW s \in StayId, CheckedIn(s) PROVE SettleInv'
  <2>1. ReleaseSettles'
    BY <1>4 DEF CheckedIn, ReleaseSettles, money
  <2>2. SettlementMatchesOutcome'
    BY <1>4 DEF CheckedIn, SettlementMatchesOutcome, money
  <2>3. QED
    BY <2>1, <2>2 DEF SettleInv
<1>5. ASSUME NEW l \in LegId, NEW h \in Hub, NEW b \in BOOLEAN, NEW s \in StayId,
        Requested(l, h, b, s) PROVE SettleInv'
  <2>1. ReleaseSettles'
    BY <1>5 DEF Requested, ReleaseSettles, money
  <2>2. SettlementMatchesOutcome'
    BY <1>5 DEF Requested, SettlementMatchesOutcome, money
  <2>3. QED
    BY <2>1, <2>2 DEF SettleInv
<1>6. ASSUME NEW l \in LegId, NEW a \in StayId, Deposited(l, a) PROVE SettleInv'
  <2>1. ReleaseSettles'
    BY <1>6, InAcceptedHolds, InBonusHold, NamesDistinct, PaymentKinds DEF Deposited,
       ReleaseSettles
  <2>2. SettlementMatchesOutcome'
    BY <1>6, InAcceptedHolds, InBonusHold, NamesDistinct, PaymentKinds DEF Deposited,
       SettlementMatchesOutcome
  <2>3. QED
    BY <2>1, <2>2 DEF SettleInv
<1>7. ASSUME NEW l \in LegId, RequestClosed(l) PROVE SettleInv'
  <2>1. ReleaseSettles'
    BY <1>7 DEF RequestClosed, ReleaseSettles, money
  <2>2. SettlementMatchesOutcome'
    BY <1>7 DEF RequestClosed, SettlementMatchesOutcome, money
  <2>3. QED
    BY <2>1, <2>2 DEF SettleInv
<1>8. ASSUME NEW l \in LegId, NEW s \in StayId, NEW a \in StayId, Booked(l, s, a)
       PROVE SettleInv'
  <2>1. ReleaseSettles'
    BY <1>8, InLegHolds, InBonusHold, NamesDistinct, PaymentKinds DEF Booked,
       ReleaseSettles, Commit, Entries
  <2>2. SettlementMatchesOutcome'
    BY <1>8, InLegHolds, InBonusHold, NamesDistinct, PaymentKinds DEF Booked,
       SettlementMatchesOutcome, Commit, Entries
  <2>3. QED
    BY <2>1, <2>2 DEF SettleInv
<1>9. ASSUME NEW l \in LegId, NEW a \in StayId, LegUnfunded(l, a) PROVE SettleInv'
  <2>1. ReleaseSettles'
    BY <1>9, InLegHolds, InBonusHold, NamesDistinct, PaymentKinds DEF LegUnfunded,
       ReleaseSettles, Commit, Entries
  <2>2. SettlementMatchesOutcome'
    BY <1>9, InLegHolds, InBonusHold, NamesDistinct, PaymentKinds DEF LegUnfunded,
       SettlementMatchesOutcome, Commit, Entries
  <2>3. QED
    BY <2>1, <2>2 DEF SettleInv
<1>10. ASSUME NEW l \in LegId, NEW s \in StayId, PickedUp(l, s) PROVE SettleInv'
  <2>1. ReleaseSettles'
    BY <1>10, NamesDistinct, PaymentKinds DEF PickedUp, ReleaseSettles, Commit, Entries
  <2>2. SettlementMatchesOutcome'
    BY <1>10, NamesDistinct, PaymentKinds DEF PickedUp, SettlementMatchesOutcome, Commit,
       Entries
  <2>3. QED
    BY <2>1, <2>2 DEF SettleInv
<1>11. ASSUME NEW l \in LegId, NEW s \in StayId, NEW a \in StayId, NotPickedUp(l, s, a)
        PROVE SettleInv'
  <2>1. ReleaseSettles'
    BY <1>11, InBonusHold, NamesDistinct, PaymentKinds DEF NotPickedUp, ReleaseSettles,
       Commit, Entries
  <2>2. SettlementMatchesOutcome'
    BY <1>11, InBonusHold, NamesDistinct, PaymentKinds DEF NotPickedUp,
       SettlementMatchesOutcome, Commit, Entries
  <2>3. QED
    BY <2>1, <2>2 DEF SettleInv
<1>12. ASSUME NEW l \in LegId, NEW a \in StayId, Arrived(l, a) PROVE SettleInv'
  <2>1. ReleaseSettles'
    BY <1>12, NamesDistinct, PaymentKinds DEF Arrived, ReleaseSettles, Commit, Entries
  <2>2. SettlementMatchesOutcome'
    BY <1>12, NamesDistinct, PaymentKinds DEF Arrived, SettlementMatchesOutcome, Commit,
       Entries
  <2>3. QED
    BY <2>1, <2>2 DEF SettleInv
<1>13. ASSUME NEW r \in StayId, NEW l \in LegId, NEW a \in StayId, Returned(r, l, a)
       PROVE SettleInv'
  <2>1. ReleaseSettles'
    BY <1>13, InLegHolds, InBonusHold, NamesDistinct, PaymentKinds DEF Returned,
       ReleaseSettles, Commit, Entries
  <2>2. SettlementMatchesOutcome'
    BY <1>13, InLegHolds, InBonusHold, NamesDistinct, PaymentKinds DEF Returned,
       SettlementMatchesOutcome, Commit, Entries
  <2>3. QED
    BY <2>1, <2>2 DEF SettleInv
<1>14. ASSUME NEW l \in LegId, NEW a \in StayId, GoneMissing(l, a) PROVE SettleInv'
  <2>1. ReleaseSettles'
    BY <1>14, InBonusHold, NamesDistinct, PaymentKinds DEF GoneMissing, ReleaseSettles,
       Commit, Entries
  <2>2. SettlementMatchesOutcome'
    BY <1>14, InBonusHold, NamesDistinct, PaymentKinds DEF GoneMissing,
       SettlementMatchesOutcome, Commit, Entries
  <2>3. QED
    BY <2>1, <2>2 DEF SettleInv
<1>15. ASSUME NEW s \in StayId, Collected(s) PROVE SettleInv'
  <2>1. ReleaseSettles'
    BY <1>15, InBonusHold, NamesDistinct, PaymentKinds DEF Collected, ReleaseSettles,
       Commit, Entries
  <2>2. SettlementMatchesOutcome'
    BY <1>15, InBonusHold, NamesDistinct, PaymentKinds DEF Collected,
       SettlementMatchesOutcome, Commit, Entries
  <2>3. QED
    BY <2>1, <2>2 DEF SettleInv
<1>16. ASSUME NEW c \in ClaimId, NEW b \in BOOLEAN, NEW s \in StayId, Claimed(c, b, s)
        PROVE SettleInv'
  <2>1. ReleaseSettles'
    BY <1>16, NamesDistinct, PaymentKinds DEF Claimed, ReleaseSettles
  <2>2. SettlementMatchesOutcome'
    BY <1>16, NamesDistinct, PaymentKinds DEF Claimed, SettlementMatchesOutcome
  <2>3. QED
    BY <2>1, <2>2 DEF SettleInv
<1>17. ASSUME NEW c \in ClaimId, ClaimBooked(c) PROVE SettleInv'
  <2>1. ReleaseSettles'
    BY <1>17, InClaimHolds, NamesDistinct, PaymentKinds DEF ClaimBooked, ReleaseSettles,
       Commit, Entries
  <2>2. SettlementMatchesOutcome'
    BY <1>17, InClaimHolds, NamesDistinct, PaymentKinds DEF ClaimBooked,
       SettlementMatchesOutcome, Commit, Entries
  <2>3. QED
    BY <2>1, <2>2 DEF SettleInv
<1>18. ASSUME NEW c \in ClaimId, ClaimUnfunded(c) PROVE SettleInv'
  <2>1. ReleaseSettles'
    BY <1>18, InClaimHolds, NamesDistinct, PaymentKinds DEF ClaimUnfunded, ReleaseSettles,
       Commit, Entries
  <2>2. SettlementMatchesOutcome'
    BY <1>18, InClaimHolds, NamesDistinct, PaymentKinds DEF ClaimUnfunded,
       SettlementMatchesOutcome, Commit, Entries
  <2>3. QED
    BY <2>1, <2>2 DEF SettleInv
<1>19. ASSUME NEW c \in ClaimId, NEW s \in StayId, ClaimCollected(c, s) PROVE SettleInv'
  <2>1. ReleaseSettles'
    BY <1>19, InClaimHolds, NamesDistinct, PaymentKinds DEF ClaimCollected,
       ReleaseSettles, Commit, Entries
  <2>2. SettlementMatchesOutcome'
    <3>1. \A p \in Payment : <<p, "settled">> \in journal' <=>
            <<p, "settled">> \in journal \/ p \in ClaimHolds(c)
      BY <1>19 DEF ClaimCollected, Commit, Entries
    <3>2. \A d \in ClaimId :
            <<ClaimPayment(d), "settled">> \in journal' <=> claim'[d].status = "completed"
      BY <1>19, <3>1, InClaimHolds, PaymentKinds DEF ClaimCollected, SettlementMatchesOutcome
    <3>3. \A q \in Payment : q \notin ClaimHolds(c) =>
            (<<q, "settled">> \in journal' <=> <<q, "settled">> \in journal)
      BY <3>1
    <3>4. QED
      BY <1>19, <3>2, <3>3, InClaimHolds, PaymentKinds DEF ClaimCollected,
         SettlementMatchesOutcome
  <2>3. QED
    BY <2>1, <2>2 DEF SettleInv
<1>20. ASSUME NEW s \in StayId, Forfeited(s) PROVE SettleInv'
  <2>1. ReleaseSettles'
    BY <1>20, InForfeits, NamesDistinct, PaymentKinds DEF Forfeited, ReleaseSettles,
       Forfeits, Commit, Entries
  <2>2. SettlementMatchesOutcome'
    <3>1. \A p \in Payment : <<p, "settled">> \in journal' <=> <<p, "settled">> \in journal
      BY <1>20 DEF Forfeited, Commit, Entries
    <3>2. QED
      BY <1>20, <3>1, PaymentKinds
         DEF Forfeited, SettlementMatchesOutcome, IsActiveLeg, IsLiveClaim
  <2>3. QED
    BY <2>1, <2>2 DEF SettleInv
<1>21. ASSUME Dropped PROVE SettleInv'
  <2>1. ReleaseSettles'
    BY <1>21 DEF Dropped, ReleaseSettles, RowsKept, money
  <2>2. SettlementMatchesOutcome'
    BY <1>21 DEF Dropped, SettlementMatchesOutcome, RowsKept, money
  <2>3. QED
    BY <2>1, <2>2 DEF SettleInv
<1>22. ASSUME NEW s \in StayId, CalledOff(s) PROVE SettleInv'
  <2>1. ReleaseSettles'
    BY <1>22, NamesDistinct, PaymentKinds DEF CalledOff, ReleaseSettles, Commit, Entries
  <2>2. SettlementMatchesOutcome'
    BY <1>22, NamesDistinct, PaymentKinds DEF CalledOff, SettlementMatchesOutcome, Commit,
       Entries
  <2>3. QED
    BY <2>1, <2>2 DEF SettleInv
<1>23. ASSUME NEW p \in Payment, AtRest,
             PaymentHeld(p) \/ HoldLapses(p) \/ HoldDies(p) \/ ExecuteRelease(p) \/ ExecuteRefund(p)
      PROVE  SettleInv'
  <2>1. \A q \in Payment :
          /\ <<q, "release">> \in intents' => <<q, "release">> \in intents
          /\ <<q, "settled">> \in journal' <=> <<q, "settled">> \in journal
    <3>1. CASE PaymentHeld(p)
      BY <3>1 DEF PaymentHeld
    <3>2. CASE HoldLapses(p)
      BY <3>2 DEF HoldLapses
    <3>3. CASE HoldDies(p)
      BY <3>3 DEF HoldDies
    <3>4. CASE ExecuteRelease(p)
      BY <3>4 DEF ExecuteRelease, ReleaseSettles
    <3>5. CASE ExecuteRefund(p)
      BY <3>5 DEF ExecuteRefund, RefundEntries
    <3>6. QED
      BY <1>23, <3>1, <3>2, <3>3, <3>4, <3>5
  <2>2. ReleaseSettles'
    BY <2>1 DEF ReleaseSettles
  <2>3. SettlementMatchesOutcome'
    BY <1>23, <2>1, PaymentKinds DEF AtRest, SettlementMatchesOutcome
  <2>4. QED
    BY <2>2, <2>3
<1>24. CASE AtRest /\ UNCHANGED money
  BY <1>24 DEF AtRest, money, ReleaseSettles, SettlementMatchesOutcome
<1>25. QED
  BY StepEffects, <1>1, <1>2, <1>3, <1>4, <1>5, <1>6, <1>7, <1>8, <1>9, <1>10, <1>11,
     <1>12, <1>13, <1>14, <1>15, <1>16, <1>17, <1>18, <1>19, <1>20, <1>21, <1>22, <1>23,
     <1>24

\* A leg is paid iff it was completed, a bond is slashed iff the leg failed, and
\* the bonus and the claim reward nothing but a delivery, whatever the wallets do.
THEOREM SettledOnlyForOutcome == Spec => []SettlementMatchesOutcome
<1>1. BoardInv /\ SettleInv /\ [Next]_vars => BoardInv' /\ SettleInv'
  BY BoardStep, SettleStep
<1>2. SettleInv => SettlementMatchesOutcome
  BY DEF SettleInv
<1>3. QED
  BY BoardInit, SettleInit, <1>1, <1>2, PTL DEF Spec

-----------------------------------------------------------------------------
(* No hold is orphaned *)

\* A bonus hold in play belongs to a leg that goes to the destination.
BonusRow ==
  /\ \A l \in LegId :
       leg[l].bonus /\ (leg[l].status = "requested" \/ IsActiveLeg(l)) => leg[l].to = dest
  /\ \A a \in StayId : stay[a].status = "reserved" /\ pay[HubBonus(a)] \in Open =>
       ~ NoVerb(HubBonus(a)) \/ \E l \in LegId : IsActiveLeg(l) /\ leg[l].bonus

\* What an open hold of a stay, of a leg and of a claim secures.
StaysSecured ==
  \A s \in StayId :
    /\ pay[HubBond(s)] \in Open =>
         stay[s].status \in {"reserved", "active"} \/ ~ NoVerb(HubBond(s))
    /\ pay[HubBonus(s)] \in Open =>
         \/ stay[s].status = "reserved"
         \/ stay[s].status = "active" /\ state = "AWAITING_PICKUP"
         \/ ~ NoVerb(HubBonus(s))

LegsSecured ==
  \A l \in LegId :
    /\ pay[LegPayment(l)] \in Open => IsActiveLeg(l) \/ ~ NoVerb(LegPayment(l))
    /\ pay[CarrierBond(l)] \in Open => IsActiveLeg(l) \/ ~ NoVerb(CarrierBond(l))

ClaimsSecured ==
  \A c \in ClaimId :
    /\ pay[ClaimPayment(c)] \in Open => IsLiveClaim(c) \/ ~ NoVerb(ClaimPayment(c))
    /\ pay[ClaimBonus(c)] \in Open =>
         (IsLiveClaim(c) /\ claim[c].bonus) \/ ~ NoVerb(ClaimBonus(c))

HoldInv == BonusRow /\ StaysSecured /\ LegsSecured /\ ClaimsSecured

\* A draft has no hold.
LEMMA HoldInit == Init => HoldInv
  BY PaymentKinds DEF Init, HoldInv, BonusRow, StaysSecured, LegsSecured, ClaimsSecured,
     IsActiveLeg, Open

\* What the four parts say row by row is what the property says of all holds.
LEMMA HoldsSecured == HoldInv => OpenHoldsAccounted
<1> SUFFICES ASSUME HoldInv, NEW p \in Payment, pay[p] \in Open
             PROVE  p \in Securing \/ \E v \in Verb : <<p, v>> \in intents
  BY DEF OpenHoldsAccounted
<1>1. ~ NoVerb(p) => \E v \in Verb : <<p, v>> \in intents
  BY DEF NoVerb, Verb
<1>2. ASSUME NEW s \in StayId, p = HubBond(s) \/ p = HubBonus(s), NoVerb(p)
      PROVE  p \in Securing
  <2>1. CASE p = HubBond(s)
    BY <1>2, <2>1 DEF HoldInv, StaysSecured, Securing
  <2>2. CASE p = HubBonus(s)
    BY <1>2, <2>2 DEF HoldInv, StaysSecured, Securing, IsArrival
  <2>3. QED
    BY <1>2, <2>1, <2>2
<1>3. ASSUME NEW l \in LegId, p = LegPayment(l) \/ p = CarrierBond(l), NoVerb(p)
      PROVE  p \in Securing
  <2>1. l \in PendingLegs
    BY <1>3 DEF HoldInv, LegsSecured, PendingLegs
  <2>2. p \in UNION {{LegPayment(k), CarrierBond(k)} : k \in PendingLegs}
    BY <1>3, <2>1
  <2>3. QED
    BY <2>2 DEF Securing
<1>4. ASSUME NEW c \in ClaimId, p = ClaimPayment(c) \/ p = ClaimBonus(c), NoVerb(p)
      PROVE  p \in Securing
  <2>1. c \in LiveClaims /\ p \in ClaimHolds(c)
    BY <1>4 DEF HoldInv, ClaimsSecured, LiveClaims, ClaimHolds
  <2>2. p \in ClaimedHolds
    BY <2>1 DEF ClaimedHolds
  <2>3. ClaimedHolds \subseteq Securing
    BY DEF Securing
  <2>4. QED
    BY <2>2, <2>3
<1>5. CASE NoVerb(p)
  BY <1>2, <1>3, <1>4, <1>5, PaymentKinds
<1>6. QED
  BY <1>1, <1>5

\* A step that closes a row commits a verb for each of its open holds.
LEMMA HoldStep ==
  ASSUME BoardInv, VerbInv, HoldInv, [Next]_vars
  PROVE  HoldInv'
<1>0. /\ RowsMatchState /\ BoardExclusive /\ FreshRows
      /\ BonusRow /\ StaysSecured /\ LegsSecured /\ ClaimsSecured
  BY DEF BoardInv, VerbInv, HoldInv
<1>1. ASSUME NEW d \in Hub, Created(d) PROVE HoldInv'
  <2>1. \A p \in Payment : NoVerb(p)' <=> NoVerb(p)
    BY <1>1 DEF Created, NoVerb, money
  <2>2. BonusRow'
    BY <1>0, <1>1, <2>1, PaymentKinds DEF Created, BonusRow, IsActiveLeg, BoardExclusive,
       RowsMatchState, money, RowsKept, TermsKept
  <2>3. StaysSecured'
    BY <1>0, <1>1, <2>1, PaymentKinds DEF Created, StaysSecured, money, RowsKept,
       TermsKept
  <2>4. LegsSecured'
    BY <1>0, <1>1, <2>1, PaymentKinds DEF Created, LegsSecured, IsActiveLeg, money,
       RowsKept, TermsKept
  <2>5. ClaimsSecured'
    BY <1>0, <1>1, <2>1, PaymentKinds DEF Created, ClaimsSecured, IsLiveClaim, money,
       RowsKept, TermsKept
  <2>6. QED
    BY <2>2, <2>3, <2>4, <2>5 DEF HoldInv
<1>2. ASSUME NEW d \in Hub, NEW s \in StayId, Rerouted(d, s) PROVE HoldInv'
  <2>1. \A p \in Payment :
          NoVerb(p)' <=> NoVerb(p) /\ p \notin (IF state = "AWAITING_PICKUP" THEN BonusHold ELSE {})
    BY <1>2 DEF Rerouted, NoVerb, Commit, Entries
  <2>2. BonusRow'
    BY <1>0, <1>2, <2>1, PaymentKinds, InBonusHold DEF Rerouted, BonusRow, IsActiveLeg,
       BoardExclusive, RowsMatchState, RowsKept, TermsKept
  <2>3. StaysSecured'
    BY <1>0, <1>2, <2>1, PaymentKinds, InBonusHold DEF Rerouted, StaysSecured, RowsKept,
       TermsKept
  <2>4. LegsSecured'
    BY <1>0, <1>2, <2>1, PaymentKinds, InBonusHold DEF Rerouted, LegsSecured, IsActiveLeg,
       RowsKept, TermsKept
  <2>5. ClaimsSecured'
    BY <1>0, <1>2, <2>1, PaymentKinds, InBonusHold DEF Rerouted, ClaimsSecured,
       IsLiveClaim, RowsKept, TermsKept
  <2>6. QED
    BY <2>2, <2>3, <2>4, <2>5 DEF HoldInv
<1>3. ASSUME NEW s \in StayId, Accepted(s) PROVE HoldInv'
  <2>1. \A p \in Payment : NoVerb(p)' <=> NoVerb(p)
    BY <1>3 DEF Accepted, NoVerb, Commit, Entries
  <2>2. /\ \A t \in StayId : /\ pay'[HubBond(t)] = IF t = s THEN "held" ELSE pay[HubBond(t)]
                           /\ pay'[HubBonus(t)] = pay[HubBonus(t)]
        /\ \A k \in LegId : /\ pay'[LegPayment(k)] = pay[LegPayment(k)]
                          /\ pay'[CarrierBond(k)] = pay[CarrierBond(k)]
        /\ \A d \in ClaimId : /\ pay'[ClaimPayment(d)] = pay[ClaimPayment(d)]
                            /\ pay'[ClaimBonus(d)] = pay[ClaimBonus(d)]
    BY <1>3, NamesDistinct, PaymentKinds DEF Accepted
  <2>3. BonusRow'
    BY <1>0, <1>3, <2>1, <2>2, PaymentKinds DEF Accepted, BonusRow, IsActiveLeg,
       BoardExclusive, RowsMatchState, FreshRows, Open, TermsKept
  <2>4. StaysSecured'
    BY <1>0, <1>3, <2>1, <2>2, PaymentKinds DEF Accepted, StaysSecured, FreshRows, Open,
       TermsKept
  <2>5. LegsSecured'
    BY <1>0, <1>3, <2>1, <2>2, PaymentKinds DEF Accepted, LegsSecured, IsActiveLeg,
       FreshRows, Open, TermsKept
  <2>6. ClaimsSecured'
    BY <1>0, <1>3, <2>1, <2>2, PaymentKinds DEF Accepted, ClaimsSecured, IsLiveClaim,
       FreshRows, Open, TermsKept
  <2>7. QED
    BY <2>3, <2>4, <2>5, <2>6 DEF HoldInv
<1>4. ASSUME NEW s \in StayId, CheckedIn(s) PROVE HoldInv'
  <2>1. \A p \in Payment : NoVerb(p)' <=> NoVerb(p)
    BY <1>4 DEF CheckedIn, NoVerb, money
  <2>2. BonusRow'
    BY <1>0, <1>4, <2>1, PaymentKinds DEF CheckedIn, BonusRow, IsActiveLeg,
       BoardExclusive, RowsMatchState, money, TermsKept
  <2>3. StaysSecured'
    BY <1>0, <1>4, <2>1, PaymentKinds DEF CheckedIn, StaysSecured, IsActiveLeg,
       RowsMatchState, BonusRow, BoardExclusive, money, TermsKept
  <2>4. LegsSecured'
    BY <1>0, <1>4, <2>1, PaymentKinds DEF CheckedIn, LegsSecured, IsActiveLeg, money,
       TermsKept
  <2>5. ClaimsSecured'
    BY <1>0, <1>4, <2>1, PaymentKinds DEF CheckedIn, ClaimsSecured, IsLiveClaim, money,
       TermsKept
  <2>6. QED
    BY <2>2, <2>3, <2>4, <2>5 DEF HoldInv
<1>5. ASSUME NEW l \in LegId, NEW h \in Hub, NEW b \in BOOLEAN, NEW s \in StayId,
        Requested(l, h, b, s) PROVE HoldInv'
  <2>1. \A p \in Payment : NoVerb(p)' <=> NoVerb(p)
    BY <1>5 DEF Requested, NoVerb, money
  <2>2. BonusRow'
    BY <1>0, <1>5, <2>1, PaymentKinds DEF Requested, BonusRow, IsActiveLeg,
       BoardExclusive, RowsMatchState, money
  <2>3. StaysSecured'
    BY <1>0, <1>5, <2>1, PaymentKinds DEF Requested, StaysSecured, money
  <2>4. LegsSecured'
    BY <1>0, <1>5, <2>1, PaymentKinds DEF Requested, LegsSecured, IsActiveLeg, money
  <2>5. ClaimsSecured'
    BY <1>0, <1>5, <2>1, PaymentKinds DEF Requested, ClaimsSecured, IsLiveClaim, money
  <2>6. QED
    BY <2>2, <2>3, <2>4, <2>5 DEF HoldInv
<1>6. ASSUME NEW l \in LegId, NEW a \in StayId, Deposited(l, a) PROVE HoldInv'
  <2>1. \A p \in Payment : NoVerb(p)' <=> NoVerb(p)
    BY <1>6 DEF Deposited, NoVerb
  <2>2. /\ \A t \in StayId :
             /\ pay'[HubBond(t)] = IF t = a THEN "created" ELSE pay[HubBond(t)]
             /\ pay'[HubBonus(t)] = IF t = a /\ leg[l].bonus THEN "created"
                                    ELSE pay[HubBonus(t)]
        /\ \A k \in LegId :
             /\ pay'[LegPayment(k)] = IF k = l THEN "created" ELSE pay[LegPayment(k)]
             /\ pay'[CarrierBond(k)] = IF k = l THEN "created" ELSE pay[CarrierBond(k)]
        /\ \A d \in ClaimId : /\ pay'[ClaimPayment(d)] = pay[ClaimPayment(d)]
                            /\ pay'[ClaimBonus(d)] = pay[ClaimBonus(d)]
    BY <1>6, InAcceptedHolds, PaymentKinds DEF Deposited
  <2>3. BonusRow'
    BY <1>0, <1>6, <2>1, <2>2, PaymentKinds, InAcceptedHolds, InBonusHold DEF Deposited,
       BonusRow, IsActiveLeg, BoardExclusive, RowsMatchState, FreshRows, Open, TermsKept
  <2>4. StaysSecured'
    BY <1>0, <1>6, <2>1, <2>2, PaymentKinds, InAcceptedHolds, InBonusHold DEF Deposited,
       StaysSecured, FreshRows, Open, TermsKept
  <2>5. LegsSecured'
    BY <1>0, <1>6, <2>1, <2>2, PaymentKinds, InAcceptedHolds, InBonusHold DEF Deposited,
       LegsSecured, IsActiveLeg, FreshRows, Open, TermsKept
  <2>6. ClaimsSecured'
    BY <1>0, <1>6, <2>1, <2>2, PaymentKinds, InAcceptedHolds, InBonusHold DEF Deposited,
       ClaimsSecured, IsLiveClaim, FreshRows, Open, TermsKept
  <2>7. QED
    BY <2>3, <2>4, <2>5, <2>6 DEF HoldInv
<1>7. ASSUME NEW l \in LegId, RequestClosed(l) PROVE HoldInv'
  <2>1. \A p \in Payment : NoVerb(p)' <=> NoVerb(p)
    BY <1>7 DEF RequestClosed, NoVerb, money
  <2>2. BonusRow'
    BY <1>0, <1>7, <2>1, PaymentKinds DEF RequestClosed, BonusRow, IsActiveLeg,
       BoardExclusive, RowsMatchState, money, TermsKept
  <2>3. StaysSecured'
    BY <1>0, <1>7, <2>1, PaymentKinds DEF RequestClosed, StaysSecured, money, TermsKept
  <2>4. LegsSecured'
    BY <1>0, <1>7, <2>1, PaymentKinds DEF RequestClosed, LegsSecured, IsActiveLeg, money,
       TermsKept
  <2>5. ClaimsSecured'
    BY <1>0, <1>7, <2>1, PaymentKinds DEF RequestClosed, ClaimsSecured, IsLiveClaim,
       money, TermsKept
  <2>6. QED
    BY <2>2, <2>3, <2>4, <2>5 DEF HoldInv
<1>8. ASSUME NEW l \in LegId, NEW s \in StayId, NEW a \in StayId, Booked(l, s, a)
       PROVE HoldInv'
  <2>1. \A p \in Payment : NoVerb(p)' <=> NoVerb(p)
    BY <1>8 DEF Booked, NoVerb, Commit, Entries
  <2>2. BonusRow'
    BY <1>0, <1>8, <2>1, PaymentKinds, InLegHolds, InBonusHold DEF Booked, BonusRow,
       IsActiveLeg, BoardExclusive, RowsMatchState, TermsKept
  <2>3. StaysSecured'
    BY <1>0, <1>8, <2>1, PaymentKinds, InLegHolds, InBonusHold DEF Booked, StaysSecured,
       TermsKept
  <2>4. LegsSecured'
    BY <1>0, <1>8, <2>1, PaymentKinds, InLegHolds, InBonusHold DEF Booked, LegsSecured,
       IsActiveLeg, TermsKept
  <2>5. ClaimsSecured'
    BY <1>0, <1>8, <2>1, PaymentKinds, InLegHolds, InBonusHold DEF Booked, ClaimsSecured,
       IsLiveClaim, TermsKept
  <2>6. QED
    BY <2>2, <2>3, <2>4, <2>5 DEF HoldInv
<1>9. ASSUME NEW l \in LegId, NEW a \in StayId, LegUnfunded(l, a) PROVE HoldInv'
  <2>1. \A p \in Payment :
          NoVerb(p)' <=> NoVerb(p) /\ p \notin LegHolds(l, a) \cup BonusHold
    BY <1>9 DEF LegUnfunded, NoVerb, Commit, Entries
  <2>2. BonusRow'
    BY <1>0, <1>9, <2>1, PaymentKinds, InLegHolds, InBonusHold DEF LegUnfunded, BonusRow,
       IsActiveLeg, BoardExclusive, RowsMatchState, TermsKept
  <2>3. StaysSecured'
    BY <1>0, <1>9, <2>1, PaymentKinds, InLegHolds, InBonusHold DEF LegUnfunded,
       StaysSecured, TermsKept
  <2>4. LegsSecured'
    BY <1>0, <1>9, <2>1, PaymentKinds, InLegHolds, InBonusHold DEF LegUnfunded,
       LegsSecured, IsActiveLeg, TermsKept
  <2>5. ClaimsSecured'
    BY <1>0, <1>9, <2>1, PaymentKinds, InLegHolds, InBonusHold DEF LegUnfunded,
       ClaimsSecured, IsLiveClaim, TermsKept
  <2>6. QED
    BY <2>2, <2>3, <2>4, <2>5 DEF HoldInv
<1>10. ASSUME NEW l \in LegId, NEW s \in StayId, PickedUp(l, s) PROVE HoldInv'
  <2>1. \A p \in Payment :
          NoVerb(p)' <=> NoVerb(p) /\ p \notin {HubBond(s)}
    BY <1>10 DEF PickedUp, NoVerb, Commit, Entries
  <2>2. BonusRow'
    BY <1>0, <1>10, <2>1, PaymentKinds, NamesDistinct DEF PickedUp, BonusRow, IsActiveLeg,
       BoardExclusive, RowsMatchState, TermsKept
  <2>3. StaysSecured'
    BY <1>0, <1>10, <2>1, PaymentKinds, NamesDistinct DEF PickedUp, StaysSecured,
       TermsKept
  <2>4. LegsSecured'
    BY <1>0, <1>10, <2>1, PaymentKinds, NamesDistinct DEF PickedUp, LegsSecured,
       IsActiveLeg, TermsKept
  <2>5. ClaimsSecured'
    BY <1>0, <1>10, <2>1, PaymentKinds, NamesDistinct DEF PickedUp, ClaimsSecured,
       IsLiveClaim, TermsKept
  <2>6. QED
    BY <2>2, <2>3, <2>4, <2>5 DEF HoldInv
<1>11. ASSUME NEW l \in LegId, NEW s \in StayId, NEW a \in StayId, NotPickedUp(l, s, a)
        PROVE HoldInv'
  <2>1. \A p \in Payment :
          NoVerb(p)' <=> NoVerb(p) /\ p \notin {CarrierBond(l), LegPayment(l), HubBond(a)} \cup BonusHold
    BY <1>11 DEF NotPickedUp, NoVerb, Commit, Entries
  <2>2. BonusRow'
    BY <1>0, <1>11, <2>1, PaymentKinds, InBonusHold, NamesDistinct DEF NotPickedUp,
       BonusRow, IsActiveLeg, BoardExclusive, RowsMatchState, TermsKept
  <2>3. StaysSecured'
    BY <1>0, <1>11, <2>1, PaymentKinds, InBonusHold, NamesDistinct DEF NotPickedUp,
       StaysSecured, TermsKept
  <2>4. LegsSecured'
    BY <1>0, <1>11, <2>1, PaymentKinds, InBonusHold, NamesDistinct DEF NotPickedUp,
       LegsSecured, IsActiveLeg, TermsKept
  <2>5. ClaimsSecured'
    BY <1>0, <1>11, <2>1, PaymentKinds, InBonusHold, NamesDistinct DEF NotPickedUp,
       ClaimsSecured, IsLiveClaim, TermsKept
  <2>6. QED
    BY <2>2, <2>3, <2>4, <2>5 DEF HoldInv
<1>12. ASSUME NEW l \in LegId, NEW a \in StayId, Arrived(l, a) PROVE HoldInv'
  <2>1. \A p \in Payment :
          NoVerb(p)' <=> NoVerb(p) /\ p \notin {LegPayment(l), CarrierBond(l)}
    BY <1>12 DEF Arrived, NoVerb, Commit, Entries
  <2>2. BonusRow'
    BY <1>0, <1>12, <2>1, PaymentKinds, NamesDistinct DEF Arrived, BonusRow, IsActiveLeg,
       BoardExclusive, RowsMatchState, FreshRows, Open, TermsKept
  <2>3. StaysSecured'
    BY <1>0, <1>12, <2>1, PaymentKinds, NamesDistinct DEF Arrived, StaysSecured,
       IsActiveLeg, RowsMatchState, BonusRow, BoardExclusive, FreshRows, Open, TermsKept
  <2>4. LegsSecured'
    BY <1>0, <1>12, <2>1, PaymentKinds, NamesDistinct DEF Arrived, LegsSecured,
       IsActiveLeg, FreshRows, Open, TermsKept
  <2>5. ClaimsSecured'
    BY <1>0, <1>12, <2>1, PaymentKinds, NamesDistinct DEF Arrived, ClaimsSecured,
       IsLiveClaim, FreshRows, Open, TermsKept
  <2>6. QED
    BY <2>2, <2>3, <2>4, <2>5 DEF HoldInv
<1>13. ASSUME NEW r \in StayId, NEW l \in LegId, NEW a \in StayId, Returned(r, l, a)
       PROVE HoldInv'
  <2>1. \A p \in Payment :
          NoVerb(p)' <=> NoVerb(p) /\ p \notin LegHolds(l, a) \cup BonusHold
    BY <1>13 DEF Returned, NoVerb, Commit, Entries
  <2>2. /\ \A t \in StayId : /\ pay'[HubBond(t)] = IF t = r THEN "held" ELSE pay[HubBond(t)]
                           /\ pay'[HubBonus(t)] = pay[HubBonus(t)]
        /\ \A k \in LegId : /\ pay'[LegPayment(k)] = pay[LegPayment(k)]
                          /\ pay'[CarrierBond(k)] = pay[CarrierBond(k)]
        /\ \A d \in ClaimId : /\ pay'[ClaimPayment(d)] = pay[ClaimPayment(d)]
                            /\ pay'[ClaimBonus(d)] = pay[ClaimBonus(d)]
    BY <1>13, NamesDistinct, PaymentKinds DEF Returned
  <2>3. BonusRow'
    BY <1>0, <1>13, <2>1, <2>2, PaymentKinds, InLegHolds, InBonusHold DEF Returned,
       BonusRow, IsActiveLeg, BoardExclusive, RowsMatchState, FreshRows, Open, TermsKept
  <2>4. StaysSecured'
    BY <1>0, <1>13, <2>1, <2>2, PaymentKinds, InLegHolds, InBonusHold DEF Returned,
       StaysSecured, IsActiveLeg, RowsMatchState, BonusRow, BoardExclusive, FreshRows,
       Open, TermsKept
  <2>5. LegsSecured'
    BY <1>0, <1>13, <2>1, <2>2, PaymentKinds, InLegHolds, InBonusHold DEF Returned,
       LegsSecured, IsActiveLeg, FreshRows, Open, TermsKept
  <2>6. ClaimsSecured'
    BY <1>0, <1>13, <2>1, <2>2, PaymentKinds, InLegHolds, InBonusHold DEF Returned,
       ClaimsSecured, IsLiveClaim, FreshRows, Open, TermsKept
  <2>7. QED
    BY <2>3, <2>4, <2>5, <2>6 DEF HoldInv
<1>14. ASSUME NEW l \in LegId, NEW a \in StayId, GoneMissing(l, a) PROVE HoldInv'
  <2>1. \A p \in Payment :
          NoVerb(p)' <=> NoVerb(p) /\ p \notin {CarrierBond(l), LegPayment(l), HubBond(a)} \cup BonusHold
    BY <1>14 DEF GoneMissing, NoVerb, Commit, Entries
  <2>2. BonusRow'
    BY <1>0, <1>14, <2>1, PaymentKinds, InBonusHold, NamesDistinct DEF GoneMissing,
       BonusRow, IsActiveLeg, BoardExclusive, RowsMatchState, TermsKept
  <2>3. StaysSecured'
    BY <1>0, <1>14, <2>1, PaymentKinds, InBonusHold, NamesDistinct DEF GoneMissing,
       StaysSecured, TermsKept
  <2>4. LegsSecured'
    BY <1>0, <1>14, <2>1, PaymentKinds, InBonusHold, NamesDistinct DEF GoneMissing,
       LegsSecured, IsActiveLeg, TermsKept
  <2>5. ClaimsSecured'
    BY <1>0, <1>14, <2>1, PaymentKinds, InBonusHold, NamesDistinct DEF GoneMissing,
       ClaimsSecured, IsLiveClaim, TermsKept
  <2>6. QED
    BY <2>2, <2>3, <2>4, <2>5 DEF HoldInv
<1>15. ASSUME NEW s \in StayId, Collected(s) PROVE HoldInv'
  <2>1. \A p \in Payment :
          NoVerb(p)' <=> NoVerb(p) /\ p \notin {HubBond(s)} \cup BonusHold
    BY <1>15 DEF Collected, NoVerb, Commit, Entries
  <2>2. BonusRow'
    BY <1>0, <1>15, <2>1, PaymentKinds, InBonusHold, NamesDistinct DEF Collected,
       BonusRow, IsActiveLeg, BoardExclusive, RowsMatchState, TermsKept
  <2>3. StaysSecured'
    BY <1>0, <1>15, <2>1, PaymentKinds, InBonusHold, NamesDistinct DEF Collected,
       StaysSecured, TermsKept
  <2>4. LegsSecured'
    BY <1>0, <1>15, <2>1, PaymentKinds, InBonusHold, NamesDistinct DEF Collected,
       LegsSecured, IsActiveLeg, TermsKept
  <2>5. ClaimsSecured'
    BY <1>0, <1>15, <2>1, PaymentKinds, InBonusHold, NamesDistinct DEF Collected,
       ClaimsSecured, IsLiveClaim, TermsKept
  <2>6. QED
    BY <2>2, <2>3, <2>4, <2>5 DEF HoldInv
<1>16. ASSUME NEW c \in ClaimId, NEW b \in BOOLEAN, NEW s \in StayId, Claimed(c, b, s)
        PROVE HoldInv'
  <2>1. \A p \in Payment : NoVerb(p)' <=> NoVerb(p)
    BY <1>16 DEF Claimed, NoVerb
  <2>2. /\ \A t \in StayId : /\ pay'[HubBond(t)] = pay[HubBond(t)]
                           /\ pay'[HubBonus(t)] = pay[HubBonus(t)]
        /\ \A k \in LegId : /\ pay'[LegPayment(k)] = pay[LegPayment(k)]
                          /\ pay'[CarrierBond(k)] = pay[CarrierBond(k)]
        /\ \A d \in ClaimId :
             /\ pay'[ClaimPayment(d)] = IF d = c THEN "created" ELSE pay[ClaimPayment(d)]
             /\ pay'[ClaimBonus(d)] = IF d = c /\ b THEN "created" ELSE pay[ClaimBonus(d)]
    BY <1>16, NamesDistinct, PaymentKinds DEF Claimed
  <2>3. BonusRow'
    BY <1>0, <1>16, <2>1, <2>2, PaymentKinds DEF Claimed, BonusRow, IsActiveLeg,
       BoardExclusive, RowsMatchState, FreshRows, Open
  <2>4. StaysSecured'
    BY <1>0, <1>16, <2>1, <2>2, PaymentKinds DEF Claimed, StaysSecured, FreshRows, Open
  <2>5. LegsSecured'
    BY <1>0, <1>16, <2>1, <2>2, PaymentKinds DEF Claimed, LegsSecured, IsActiveLeg,
       FreshRows, Open
  <2>6. ClaimsSecured'
    BY <1>0, <1>16, <2>1, <2>2, PaymentKinds DEF Claimed, ClaimsSecured, IsLiveClaim,
       FreshRows, Open
  <2>7. QED
    BY <2>3, <2>4, <2>5, <2>6 DEF HoldInv
<1>17. ASSUME NEW c \in ClaimId, ClaimBooked(c) PROVE HoldInv'
  <2>1. \A p \in Payment : NoVerb(p)' <=> NoVerb(p)
    BY <1>17 DEF ClaimBooked, NoVerb, Commit, Entries
  <2>2. BonusRow'
    BY <1>0, <1>17, <2>1, PaymentKinds, InClaimHolds DEF ClaimBooked, BonusRow,
       IsActiveLeg, BoardExclusive, RowsMatchState, TermsKept
  <2>3. StaysSecured'
    BY <1>0, <1>17, <2>1, PaymentKinds, InClaimHolds DEF ClaimBooked, StaysSecured,
       TermsKept
  <2>4. LegsSecured'
    BY <1>0, <1>17, <2>1, PaymentKinds, InClaimHolds DEF ClaimBooked, LegsSecured,
       IsActiveLeg, TermsKept
  <2>5. ClaimsSecured'
    BY <1>0, <1>17, <2>1, PaymentKinds, InClaimHolds DEF ClaimBooked, ClaimsSecured,
       IsLiveClaim, TermsKept
  <2>6. QED
    BY <2>2, <2>3, <2>4, <2>5 DEF HoldInv
<1>18. ASSUME NEW c \in ClaimId, ClaimUnfunded(c) PROVE HoldInv'
  <2>1. \A p \in Payment :
          NoVerb(p)' <=> NoVerb(p) /\ p \notin ClaimHolds(c)
    BY <1>18 DEF ClaimUnfunded, NoVerb, Commit, Entries
  <2>2. BonusRow'
    BY <1>0, <1>18, <2>1, PaymentKinds, InClaimHolds DEF ClaimUnfunded, BonusRow,
       IsActiveLeg, BoardExclusive, RowsMatchState, TermsKept
  <2>3. StaysSecured'
    BY <1>0, <1>18, <2>1, PaymentKinds, InClaimHolds DEF ClaimUnfunded, StaysSecured,
       TermsKept
  <2>4. LegsSecured'
    BY <1>0, <1>18, <2>1, PaymentKinds, InClaimHolds DEF ClaimUnfunded, LegsSecured,
       IsActiveLeg, TermsKept
  <2>5. ClaimsSecured'
    BY <1>0, <1>18, <2>1, PaymentKinds, InClaimHolds DEF ClaimUnfunded, ClaimsSecured,
       IsLiveClaim, TermsKept
  <2>6. QED
    BY <2>2, <2>3, <2>4, <2>5 DEF HoldInv
<1>19. ASSUME NEW c \in ClaimId, NEW s \in StayId, ClaimCollected(c, s) PROVE HoldInv'
  <2>1. \A p \in Payment :
          NoVerb(p)' <=> NoVerb(p) /\ p \notin {HubBond(s)} \cup ClaimHolds(c)
    BY <1>19 DEF ClaimCollected, NoVerb, Commit, Entries
  <2>2. BonusRow'
    BY <1>0, <1>19, <2>1, PaymentKinds, InClaimHolds, NamesDistinct DEF ClaimCollected,
       BonusRow, IsActiveLeg, BoardExclusive, RowsMatchState, TermsKept
  <2>3. StaysSecured'
    BY <1>0, <1>19, <2>1, PaymentKinds, InClaimHolds, NamesDistinct DEF ClaimCollected,
       StaysSecured, TermsKept
  <2>4. LegsSecured'
    BY <1>0, <1>19, <2>1, PaymentKinds, InClaimHolds, NamesDistinct DEF ClaimCollected,
       LegsSecured, IsActiveLeg, TermsKept
  <2>5. ClaimsSecured'
    BY <1>0, <1>19, <2>1, PaymentKinds, InClaimHolds, NamesDistinct DEF ClaimCollected,
       ClaimsSecured, IsLiveClaim, TermsKept
  <2>6. QED
    BY <2>2, <2>3, <2>4, <2>5 DEF HoldInv
<1>20. ASSUME NEW s \in StayId, Forfeited(s) PROVE HoldInv'
  <2>1. \A p \in Payment :
          NoVerb(p)' <=> NoVerb(p) /\ p \notin {HubBond(s)} \cup Forfeits
    BY <1>20 DEF Forfeited, NoVerb, Forfeits, Commit, Entries
  <2>2. BonusRow'
    BY <1>0, <1>20, <2>1, PaymentKinds, InForfeits, NamesDistinct DEF Forfeited, BonusRow,
       IsActiveLeg, BoardExclusive, RowsMatchState, TermsKept
  <2>3. StaysSecured'
    BY <1>0, <1>20, <2>1, PaymentKinds, InForfeits, NamesDistinct DEF Forfeited,
       StaysSecured, IsActiveLeg, RowsMatchState, BonusRow, BoardExclusive, TermsKept
  <2>4. LegsSecured'
    BY <1>0, <1>20, <2>1, PaymentKinds, InForfeits, NamesDistinct DEF Forfeited,
       LegsSecured, IsActiveLeg, TermsKept
  <2>5. ClaimsSecured'
    BY <1>0, <1>20, <2>1, PaymentKinds, InForfeits, NamesDistinct DEF Forfeited,
       ClaimsSecured, IsLiveClaim, TermsKept
  <2>6. QED
    BY <2>2, <2>3, <2>4, <2>5 DEF HoldInv
<1>21. ASSUME Dropped PROVE HoldInv'
  <2>1. \A p \in Payment : NoVerb(p)' <=> NoVerb(p)
    BY <1>21 DEF Dropped, NoVerb, money
  <2>2. BonusRow'
    BY <1>0, <1>21, <2>1, PaymentKinds DEF Dropped, BonusRow, IsActiveLeg, BoardExclusive,
       RowsMatchState, money, RowsKept, TermsKept
  <2>3. StaysSecured'
    BY <1>0, <1>21, <2>1, PaymentKinds DEF Dropped, StaysSecured, money, RowsKept,
       TermsKept
  <2>4. LegsSecured'
    BY <1>0, <1>21, <2>1, PaymentKinds DEF Dropped, LegsSecured, IsActiveLeg, money,
       RowsKept, TermsKept
  <2>5. ClaimsSecured'
    BY <1>0, <1>21, <2>1, PaymentKinds DEF Dropped, ClaimsSecured, IsLiveClaim, money,
       RowsKept, TermsKept
  <2>6. QED
    BY <2>2, <2>3, <2>4, <2>5 DEF HoldInv
<1>22. ASSUME NEW s \in StayId, CalledOff(s) PROVE HoldInv'
  <2>1. \A p \in Payment :
          NoVerb(p)' <=> NoVerb(p) /\ p \notin {HubBond(s)}
    BY <1>22 DEF CalledOff, NoVerb, Commit, Entries
  <2>2. BonusRow'
    BY <1>0, <1>22, <2>1, PaymentKinds, NamesDistinct DEF CalledOff, BonusRow,
       IsActiveLeg, BoardExclusive, RowsMatchState, TermsKept
  <2>3. StaysSecured'
    BY <1>0, <1>22, <2>1, PaymentKinds, NamesDistinct DEF CalledOff, StaysSecured,
       IsActiveLeg, RowsMatchState, BonusRow, BoardExclusive, TermsKept
  <2>4. LegsSecured'
    BY <1>0, <1>22, <2>1, PaymentKinds, NamesDistinct DEF CalledOff, LegsSecured,
       IsActiveLeg, TermsKept
  <2>5. ClaimsSecured'
    BY <1>0, <1>22, <2>1, PaymentKinds, NamesDistinct DEF CalledOff, ClaimsSecured,
       IsLiveClaim, TermsKept
  <2>6. QED
    BY <2>2, <2>3, <2>4, <2>5 DEF HoldInv
<1>23. ASSUME NEW p \in Payment, AtRest,
             PaymentHeld(p) \/ HoldLapses(p) \/ HoldDies(p) \/ ExecuteRelease(p) \/ ExecuteRefund(p)
      PROVE  HoldInv'
  <2>1. \A q \in Payment : pay'[q] \in Open =>
          pay[q] \in Open /\ (~ NoVerb(q) => ~ NoVerb(q)')
    <3>1. CASE PaymentHeld(p)
      BY <3>1, BoardInvMoney DEF PaymentHeld, NoVerb, Open
    <3>2. CASE HoldLapses(p)
      BY <3>2, BoardInvMoney DEF HoldLapses, NoVerb, Open
    <3>3. CASE HoldDies(p)
      BY <3>3, BoardInvMoney DEF HoldDies, NoVerb, Open
    <3>4. CASE ExecuteRelease(p)
      BY <3>4, BoardInvMoney DEF ExecuteRelease, NoVerb, Open
    <3>5. CASE ExecuteRefund(p)
      BY <3>5, BoardInvMoney DEF ExecuteRefund, NoVerb, Open
    <3>6. QED
      BY <1>23, <3>1, <3>2, <3>3, <3>4, <3>5
  <2>2. BonusRow'
    BY <1>0, <1>23, <2>1, PaymentKinds DEF AtRest, BonusRow, IsActiveLeg
  <2>3. StaysSecured'
    BY <1>0, <1>23, <2>1, PaymentKinds DEF AtRest, StaysSecured
  <2>4. LegsSecured'
    BY <1>0, <1>23, <2>1, PaymentKinds DEF AtRest, LegsSecured, IsActiveLeg
  <2>5. ClaimsSecured'
    BY <1>0, <1>23, <2>1, PaymentKinds DEF AtRest, ClaimsSecured, IsLiveClaim
  <2>6. QED
    BY <2>2, <2>3, <2>4, <2>5 DEF HoldInv
<1>24. CASE AtRest /\ UNCHANGED money
  BY <1>0, <1>24 DEF AtRest, money, HoldInv, BonusRow, StaysSecured, LegsSecured,
     ClaimsSecured,
     IsActiveLeg, IsLiveClaim, NoVerb
<1>25. QED
  BY StepEffects, <1>1, <1>2, <1>3, <1>4, <1>5, <1>6, <1>7, <1>8, <1>9, <1>10, <1>11,
     <1>12, <1>13, <1>14, <1>15, <1>16, <1>17, <1>18, <1>19, <1>20, <1>21, <1>22, <1>23,
     <1>24

\* No hold is ever orphaned: an open one secures an open row or a verb for it is
\* on its way, whatever the wallets do and however long the backlog.
THEOREM HoldsAlwaysAccounted == Spec => []OpenHoldsAccounted
<1>1. Init => BoardInv /\ VerbInv /\ HoldInv
  BY BoardInit, VerbInit, HoldInit
<1>2. BoardInv /\ VerbInv /\ HoldInv /\ [Next]_vars => BoardInv' /\ VerbInv' /\ HoldInv'
  BY BoardStep, VerbStep, HoldStep
<1>3. QED
  BY <1>1, <1>2, HoldsSecured, PTL DEF Spec

-----------------------------------------------------------------------------
(* The bonus of the hub the parcel goes to *)

\* While a leg is under way or the recipient is awaited, no verb is committed
\* for a bonus that is still a hold.
BonusFree ==
  (\E l \in LegId : IsActiveLeg(l)) \/ state = "AWAITING_PICKUP" =>
    \A s \in StayId : pay[HubBonus(s)] \in Open => NoVerb(HubBonus(s))

\* Once the leg was booked, that hold is a commitment.
BonusesHeld ==
  state \in {"LEG_BOOKED", "IN_TRANSIT", "AWAITING_PICKUP"} =>
    \A s \in StayId : pay[HubBonus(s)] \in Open => pay[HubBonus(s)] = "held"

BonusInv == BonusFree /\ BonusesHeld

\* No bonus is created before a stay.
LEMMA BonusInit == Init => BonusInv
  BY DEF Init, BonusInv, BonusFree, BonusesHeld, IsActiveLeg

\* Every step keeps the bonuses of the rows held.
LEMMA BonusStep ==
  ASSUME BoardInv, VerbInv, BonusInv, [Next]_vars
  PROVE  BonusInv'
<1>0. /\ RowsMatchState /\ BoardExclusive /\ FreshRows /\ NoEarlyVerb
      /\ BonusFree /\ BonusesHeld
  BY DEF BoardInv, VerbInv, BonusInv
<1>1. ASSUME NEW d \in Hub, Created(d) PROVE BonusInv'
  <2>1. QED
    BY <1>0, <1>1 DEF Created, BonusInv, BonusFree, BonusesHeld, IsActiveLeg,
       RowsMatchState, BoardExclusive, money, RowsKept
<1>2. ASSUME NEW d \in Hub, NEW s \in StayId, Rerouted(d, s) PROVE BonusInv'
  <2>1. QED
    BY <1>0, <1>2 DEF Rerouted, BonusInv, BonusFree, BonusesHeld, IsActiveLeg,
       RowsMatchState, BoardExclusive, RowsKept
<1>3. ASSUME NEW s \in StayId, Accepted(s) PROVE BonusInv'
  <2>1. \A t \in StayId : pay'[HubBonus(t)] = pay[HubBonus(t)]
    BY <1>3, NamesDistinct, PaymentKinds DEF Accepted
  <2>2. QED
    BY <1>0, <1>3, <2>1 DEF Accepted, BonusInv, BonusFree, BonusesHeld, IsActiveLeg,
       RowsMatchState, BoardExclusive
<1>4. ASSUME NEW s \in StayId, CheckedIn(s) PROVE BonusInv'
  <2>1. QED
    BY <1>0, <1>4 DEF CheckedIn, BonusInv, BonusFree, BonusesHeld, IsActiveLeg,
       RowsMatchState, BoardExclusive, money
<1>5. ASSUME NEW l \in LegId, NEW h \in Hub, NEW b \in BOOLEAN, NEW s \in StayId,
        Requested(l, h, b, s) PROVE BonusInv'
  <2>1. QED
    BY <1>0, <1>5 DEF Requested, BonusInv, BonusFree, BonusesHeld, IsActiveLeg,
       RowsMatchState, BoardExclusive, money
<1>6. ASSUME NEW l \in LegId, NEW a \in StayId, Deposited(l, a) PROVE BonusInv'
  <2>1. \A t \in StayId : NoVerb(HubBonus(t)) => NoVerb(HubBonus(t))'
    BY <1>6 DEF Deposited, NoVerb
  <2>2. \A t \in StayId : pay'[HubBonus(t)] \in Open => t = a
    BY <1>6, InAcceptedHolds, InBonusHold, PaymentKinds DEF Deposited
  <2>3. QED
    BY <1>0, <1>6, <2>1, <2>2 DEF Deposited, BonusInv, BonusFree, BonusesHeld,
       IsActiveLeg, RowsMatchState, BoardExclusive, NoEarlyVerb
<1>7. ASSUME NEW l \in LegId, RequestClosed(l) PROVE BonusInv'
  <2>1. QED
    BY <1>0, <1>7 DEF RequestClosed, BonusInv, BonusFree, BonusesHeld, IsActiveLeg,
       RowsMatchState, BoardExclusive, money
<1>8. ASSUME NEW l \in LegId, NEW s \in StayId, NEW a \in StayId, Booked(l, s, a)
       PROVE BonusInv'
  <2>1. \A t \in StayId : NoVerb(HubBonus(t)) => NoVerb(HubBonus(t))'
    BY <1>8 DEF Booked, NoVerb, Commit, Entries
  <2>2. QED
    BY <1>0, <1>8, <2>1, InBonusHold DEF Booked, BonusInv, BonusFree, BonusesHeld,
       IsActiveLeg, RowsMatchState, BoardExclusive
<1>9. ASSUME NEW l \in LegId, NEW a \in StayId, LegUnfunded(l, a) PROVE BonusInv'
  <2>1. QED
    BY <1>0, <1>9 DEF LegUnfunded, BonusInv, BonusFree, BonusesHeld, IsActiveLeg,
       RowsMatchState, BoardExclusive
<1>10. ASSUME NEW l \in LegId, NEW s \in StayId, PickedUp(l, s) PROVE BonusInv'
  <2>1. \A t \in StayId : NoVerb(HubBonus(t)) => NoVerb(HubBonus(t))'
    BY <1>10, NamesDistinct DEF PickedUp, NoVerb, Commit, Entries
  <2>2. QED
    BY <1>0, <1>10, <2>1 DEF PickedUp, BonusInv, BonusFree, BonusesHeld, IsActiveLeg,
       RowsMatchState, BoardExclusive
<1>11. ASSUME NEW l \in LegId, NEW s \in StayId, NEW a \in StayId, NotPickedUp(l, s, a)
        PROVE BonusInv'
  <2>1. QED
    BY <1>0, <1>11 DEF NotPickedUp, BonusInv, BonusFree, BonusesHeld, IsActiveLeg,
       RowsMatchState, BoardExclusive
<1>12. ASSUME NEW l \in LegId, NEW a \in StayId, Arrived(l, a) PROVE BonusInv'
  <2>1. \A t \in StayId : NoVerb(HubBonus(t)) => NoVerb(HubBonus(t))'
    BY <1>12, NamesDistinct DEF Arrived, NoVerb, Commit, Entries
  <2>2. QED
    BY <1>0, <1>12, <2>1 DEF Arrived, BonusInv, BonusFree, BonusesHeld, IsActiveLeg,
       RowsMatchState, BoardExclusive
<1>13. ASSUME NEW r \in StayId, NEW l \in LegId, NEW a \in StayId, Returned(r, l, a)
       PROVE BonusInv'
  <2>1. \A t \in StayId : pay'[HubBonus(t)] = pay[HubBonus(t)]
    BY <1>13, NamesDistinct, PaymentKinds DEF Returned
  <2>2. QED
    BY <1>0, <1>13, <2>1 DEF Returned, BonusInv, BonusFree, BonusesHeld, IsActiveLeg,
       RowsMatchState, BoardExclusive
<1>14. ASSUME NEW l \in LegId, NEW a \in StayId, GoneMissing(l, a) PROVE BonusInv'
  <2>1. QED
    BY <1>0, <1>14 DEF GoneMissing, BonusInv, BonusFree, BonusesHeld, IsActiveLeg,
       RowsMatchState, BoardExclusive
<1>15. ASSUME NEW s \in StayId, Collected(s) PROVE BonusInv'
  <2>1. QED
    BY <1>0, <1>15 DEF Collected, BonusInv, BonusFree, BonusesHeld, IsActiveLeg,
       RowsMatchState, BoardExclusive
<1>16. ASSUME NEW c \in ClaimId, NEW b \in BOOLEAN, NEW s \in StayId, Claimed(c, b, s)
        PROVE BonusInv'
  <2>1. \A t \in StayId : pay'[HubBonus(t)] = pay[HubBonus(t)]
    BY <1>16, NamesDistinct, PaymentKinds DEF Claimed
  <2>2. QED
    BY <1>0, <1>16, <2>1 DEF Claimed, BonusInv, BonusFree, BonusesHeld, IsActiveLeg,
       RowsMatchState, BoardExclusive
<1>17. ASSUME NEW c \in ClaimId, ClaimBooked(c) PROVE BonusInv'
  <2>1. QED
    BY <1>0, <1>17 DEF ClaimBooked, BonusInv, BonusFree, BonusesHeld, IsActiveLeg,
       RowsMatchState, BoardExclusive, NoClaim, IsLiveClaim
<1>18. ASSUME NEW c \in ClaimId, ClaimUnfunded(c) PROVE BonusInv'
  <2>1. QED
    BY <1>0, <1>18 DEF ClaimUnfunded, BonusInv, BonusFree, BonusesHeld, IsActiveLeg,
       RowsMatchState, BoardExclusive, NoClaim, IsLiveClaim
<1>19. ASSUME NEW c \in ClaimId, NEW s \in StayId, ClaimCollected(c, s) PROVE BonusInv'
  <2>1. QED
    BY <1>0, <1>19 DEF ClaimCollected, BonusInv, BonusFree, BonusesHeld, IsActiveLeg,
       RowsMatchState, BoardExclusive
<1>20. ASSUME NEW s \in StayId, Forfeited(s) PROVE BonusInv'
  <2>1. QED
    BY <1>0, <1>20 DEF Forfeited, BonusInv, BonusFree, BonusesHeld, IsActiveLeg,
       RowsMatchState, BoardExclusive
<1>21. ASSUME Dropped PROVE BonusInv'
  <2>1. QED
    BY <1>0, <1>21 DEF Dropped, BonusInv, BonusFree, BonusesHeld, IsActiveLeg,
       RowsMatchState, BoardExclusive, money, RowsKept
<1>22. ASSUME NEW s \in StayId, CalledOff(s) PROVE BonusInv'
  <2>1. QED
    BY <1>0, <1>22 DEF CalledOff, BonusInv, BonusFree, BonusesHeld, IsActiveLeg,
       RowsMatchState, BoardExclusive
<1>23. ASSUME NEW p \in Payment, AtRest,
             PaymentHeld(p) \/ HoldLapses(p) \/ HoldDies(p) \/ ExecuteRelease(p) \/ ExecuteRefund(p)
      PROVE  BonusInv'
  <2>1. \A q \in Payment : pay'[q] \in Open =>
          /\ pay[q] \in Open /\ (pay[q] = "held" => pay'[q] = "held")
          /\ NoVerb(q) => NoVerb(q)'
    <3>1. CASE PaymentHeld(p)
      BY <3>1, BoardInvMoney DEF PaymentHeld, NoVerb, Open
    <3>2. CASE HoldLapses(p)
      BY <3>2, BoardInvMoney DEF HoldLapses, NoVerb, Open
    <3>3. CASE HoldDies(p)
      BY <3>3, BoardInvMoney DEF HoldDies, NoVerb, Open
    <3>4. CASE ExecuteRelease(p)
      BY <3>4, BoardInvMoney DEF ExecuteRelease, NoVerb, Open
    <3>5. CASE ExecuteRefund(p)
      BY <3>5, BoardInvMoney DEF ExecuteRefund, NoVerb, Open
    <3>6. QED
      BY <1>23, <3>1, <3>2, <3>3, <3>4, <3>5
  <2>2. QED
    BY <1>0, <1>23, <2>1, PaymentKinds DEF AtRest, BonusInv, BonusFree, BonusesHeld,
       IsActiveLeg
<1>24. CASE AtRest /\ UNCHANGED money
  BY <1>0, <1>24 DEF AtRest, money, BonusInv, BonusFree, BonusesHeld, IsActiveLeg, NoVerb
<1>25. QED
  BY StepEffects, <1>1, <1>2, <1>3, <1>4, <1>5, <1>6, <1>7, <1>8, <1>9, <1>10, <1>11,
     <1>12, <1>13, <1>14, <1>15, <1>16, <1>17, <1>18, <1>19, <1>20, <1>21, <1>22, <1>23,
     <1>24

-----------------------------------------------------------------------------
(* The journal and the payments add up *)

\* How a payment stands between its state, its entries and its verbs.  A
\* release is committed on a hold that is held, and its settled entry waits for
\* it; a refund may be committed on a hold in any state.
Standing(p) ==
  /\ pay[p] \in {"none", "created"} =>
       /\ <<p, "held">> \notin journal
       /\ <<p, "settled">> \notin journal
       /\ <<p, "refunded">> \notin journal
  /\ pay[p] = "held" =>
       /\ <<p, "held">> \in journal
       /\ <<p, "settled">> \in journal => <<p, "release">> \in intents
       /\ <<p, "refunded">> \in journal => <<p, "refund">> \in intents
  /\ pay[p] = "settled" =>
       /\ <<p, "held">> \in journal
       /\ <<p, "settled">> \in journal
       /\ <<p, "refunded">> \notin journal
  /\ pay[p] = "cancelled" =>
       /\ <<p, "settled">> \notin journal
       /\ <<p, "held">> \in journal <=> <<p, "refunded">> \in journal
  /\ <<p, "release">> \in intents =>
       /\ pay[p] = "held"
       /\ <<p, "settled">> \in journal
       /\ <<p, "refund">> \notin intents
       /\ <<p, "refunded">> \notin journal

Standings == \A p \in Payment : Standing(p)

\* Once nothing is outstanding, a payment that stands passes the audit.
LEMMA StandingAudited ==
  ASSUME BoardInv, Standings
  PROVE  \A p \in Payment : (\A v \in Verb : <<p, v>> \notin intents) => Audit(p)
<1> SUFFICES ASSUME NEW p \in Payment, \A v \in Verb : <<p, v>> \notin intents PROVE Audit(p)
  OBVIOUS
<1>1. Standing(p) /\ NoVerb(p) /\ pay[p] \in PayState
  BY BoardInvMoney DEF Standings, NoVerb, Verb
<1>2. QED
  BY <1>1 DEF Standing, NoVerb, Audit, PayState, Open, Entry

\* A commit leaves the payments standing when the verbs and the entries it
\* brings go to commitments for which nothing is outstanding.
LEMMA CommitStands ==
  ASSUME Standings, pay' = pay,
         NEW R \in SUBSET Payment, NEW F \in SUBSET Payment,
         NEW D \in SUBSET Payment, NEW H \in SUBSET Payment, Commit(R, F, D, H),
         \A p \in R \cup F : pay[p] = "held",
         \A p \in R \cup F \cup D : NoVerb(p),
         R \cap (F \cup D) = {},
         \A p \in H : pay[p] = "held"
  PROVE  Standings'
<1> SUFFICES ASSUME NEW p \in Payment PROVE Standing(p)'
  BY DEF Standings
<1>1. /\ <<p, "release">> \in intents' <=> <<p, "release">> \in intents \/ p \in R
      /\ <<p, "refund">> \in intents' <=> <<p, "refund">> \in intents \/ p \in F \/ p \in D
      /\ <<p, "settled">> \in journal' <=> <<p, "settled">> \in journal \/ p \in R
      /\ <<p, "refunded">> \in journal' <=> <<p, "refunded">> \in journal \/ p \in F
      /\ <<p, "held">> \in journal' <=> <<p, "held">> \in journal \/ p \in H
  BY DEF Commit, Entries
<1>2. Standing(p)
  BY DEF Standings
<1>3. CASE p \in R
  <2>1. pay[p] = "held" /\ NoVerb(p) /\ p \notin F /\ p \notin D
    BY <1>3
  <2>2. QED
    BY <1>1, <1>2, <1>3, <2>1 DEF Standing, NoVerb
<1>4. CASE p \in F
  <2>1. pay[p] = "held" /\ NoVerb(p) /\ p \notin R
    BY <1>4
  <2>2. QED
    BY <1>1, <1>2, <1>4, <2>1 DEF Standing, NoVerb
<1>5. CASE p \in D \ F
  <2>1. NoVerb(p) /\ p \notin R /\ p \notin F /\ (p \in H => pay[p] = "held")
    BY <1>5
  <2>2. /\ <<p, "release">> \notin intents /\ <<p, "release">> \notin intents'
        /\ <<p, "refund">> \in intents'
        /\ <<p, "settled">> \in journal' <=> <<p, "settled">> \in journal
        /\ <<p, "refunded">> \in journal' <=> <<p, "refunded">> \in journal
    BY <1>1, <1>5, <2>1 DEF NoVerb
  <2>3. <<p, "held">> \in journal' <=> <<p, "held">> \in journal
    BY <1>1, <1>2, <2>1 DEF Standing
  <2>4. QED
    BY <1>2, <2>1, <2>2, <2>3 DEF Standing, NoVerb
<1>6. CASE p \notin R \cup F \cup D
  BY <1>1, <1>2, <1>6 DEF Standing, NoVerb
<1>7. QED
  BY <1>3, <1>4, <1>5, <1>6

\* The holds of a leg that was booked, and the bonus that goes with it, are
\* commitments with nothing outstanding.
LEMMA BookedReady ==
  ASSUME BoardInv, VerbInv, Bonds, BonusInv, NEW l \in LegId,
         leg[l].status \in {"booked", "picked_up"}
  PROVE  /\ \A p \in {LegPayment(l), CarrierBond(l)} \cup BonusHold : pay[p] = "held" /\ NoVerb(p)
         /\ \A a \in StayId : stay[a].status = "reserved" =>
              pay[HubBond(a)] = "held" /\ NoVerb(HubBond(a))
<1>1. RowsMatchState /\ Bonds /\ NoEarlyVerb /\ BonusFree /\ BonusesHeld
  BY DEF BoardInv, VerbInv, BonusInv
<1>2. \E a \in StayId : stay[a].status = "reserved"
  BY <1>1 DEF RowsMatchState, IsActiveLeg
<1>3. \A p \in {LegPayment(l), CarrierBond(l)} : pay[p] = "held" /\ NoVerb(p)
  BY <1>1, <1>2 DEF Bonds, NoEarlyVerb, IsArrival
<1>4. \A p \in BonusHold : \E s \in StayId : p = HubBonus(s) /\ pay[HubBonus(s)] \in Open
  BY DEF BonusHold, BonusStays
<1>5. \A s \in StayId : pay[HubBonus(s)] \in Open =>
        pay[HubBonus(s)] = "held" /\ NoVerb(HubBonus(s))
  BY <1>1 DEF RowsMatchState, BonusFree, BonusesHeld, IsActiveLeg
<1>6. \A a \in StayId : stay[a].status = "reserved" =>
        pay[HubBond(a)] = "held" /\ NoVerb(HubBond(a))
  BY <1>1 DEF Bonds, NoEarlyVerb, IsArrival
<1>7. QED
  BY <1>3, <1>4, <1>5, <1>6

\* So are the bond of the hub that keeps the parcel and, at the counter of the
\* destination, its bonus.
LEMMA RestingReady ==
  ASSUME BoardInv, VerbInv, Bonds, BonusInv, NEW s \in StayId, IsCurrentStay(s)
  PROVE  /\ pay[HubBond(s)] = "held" /\ NoVerb(HubBond(s))
         /\ state = "AWAITING_PICKUP" => \A p \in BonusHold : pay[p] = "held" /\ NoVerb(p)
<1>1. pay[HubBond(s)] = "held" /\ NoVerb(HubBond(s))
  BY DEF Bonds, VerbInv, NoEarlyVerb, IsCurrentStay
<1>2. \A p \in BonusHold : \E t \in StayId : p = HubBonus(t) /\ pay[HubBonus(t)] \in Open
  BY DEF BonusHold, BonusStays
<1>3. QED
  BY <1>1, <1>2 DEF BonusInv, BonusFree, BonusesHeld

\* And the holds of a funded claim; those of a live one have no verb yet.
LEMMA ClaimReady ==
  ASSUME VerbInv, Bonds, NEW c \in ClaimId, IsLiveClaim(c)
  PROVE  /\ \A p \in ClaimHolds(c) : NoVerb(p)
         /\ claim[c].status = "funded" => \A p \in ClaimHolds(c) : pay[p] = "held"
<1>1. NoVerb(ClaimPayment(c)) /\ NoVerb(ClaimBonus(c))
  BY DEF VerbInv, NoEarlyVerb, IsLiveClaim
<1>2. claim[c].status = "funded" =>
        pay[ClaimPayment(c)] = "held" /\ (claim[c].bonus => pay[ClaimBonus(c)] = "held")
  BY DEF Bonds
<1>3. QED
  BY <1>1, <1>2 DEF ClaimHolds

\* Every event commits verbs for what is ready, and entries with them.
LEMMA StandStep ==
  ASSUME ~ HoldsMayDie, BoardInv, VerbInv, Bonds, BonusInv, Standings, [Next]_vars
  PROVE  Standings'
<1>0. /\ RowsMatchState /\ BoardExclusive /\ FreshRows /\ NoEarlyVerb
      /\ BonusHold \subseteq Payment
      /\ \A l \in LegId, a \in StayId : LegHolds(l, a) \subseteq Payment
      /\ \A c \in ClaimId : ClaimHolds(c) \subseteq Payment
  BY HoldsArePayments DEF BoardInv, VerbInv
<1>1. ASSUME NEW d \in Hub, Created(d) PROVE Standings'
  BY <1>1 DEF Created, Standings, Standing, money
<1>2. ASSUME NEW d \in Hub, NEW s \in StayId, Rerouted(d, s) PROVE Standings'
  <2>1. IsCurrentStay(s)
    BY <1>0, <1>2 DEF Rerouted, IsCurrentStay, AtHubStates
  <2>2. DEFINE F == IF state = "AWAITING_PICKUP" THEN BonusHold ELSE {}
  <2>3. /\ F \in SUBSET Payment /\ Commit({}, F, {}, {}) /\ pay' = pay
        /\ \A p \in F : pay[p] = "held" /\ NoVerb(p)
    BY <1>0, <1>2, <2>1, RestingReady DEF Rerouted
  <2> HIDE DEF F
  <2>4. QED
    BY <2>3, CommitStands
<1>3. ASSUME NEW s \in StayId, Accepted(s) PROVE Standings'
  <2>1. HubBond(s) \in Payment /\ pay[HubBond(s)] = "none" /\ NoVerb(HubBond(s))
    BY <1>0, <1>3, PaymentKinds DEF Accepted, FreshRows, NoEarlyVerb
  <2>2. Standing(HubBond(s))'
    BY <1>3, <2>1 DEF Accepted, Commit, Entries, Standings, Standing, NoVerb
  <2>3. \A p \in Payment : p # HubBond(s) => Standing(p)'
    BY <1>3 DEF Accepted, Commit, Entries, Standings, Standing
  <2>4. QED
    BY <2>2, <2>3 DEF Standings
<1>4. ASSUME NEW s \in StayId, CheckedIn(s) PROVE Standings'
  BY <1>4 DEF CheckedIn, Standings, Standing, money
<1>5. ASSUME NEW l \in LegId, NEW h \in Hub, NEW b \in BOOLEAN, NEW s \in StayId,
        Requested(l, h, b, s) PROVE Standings'
  BY <1>5 DEF Requested, Standings, Standing, money
<1>6. ASSUME NEW l \in LegId, NEW a \in StayId, Deposited(l, a) PROVE Standings'
  <2>1. \A p \in Payment : pay'[p] # pay[p] => pay[p] = "none" /\ pay'[p] = "created" /\ NoVerb(p)
    BY <1>0, <1>6, PaymentKinds, InAcceptedHolds DEF Deposited, FreshRows, NoEarlyVerb
  <2>2. QED
    BY <1>6, <2>1 DEF Deposited, Standings, Standing, NoVerb
<1>7. ASSUME NEW l \in LegId, RequestClosed(l) PROVE Standings'
  BY <1>7 DEF RequestClosed, Standings, Standing, money
<1>8. ASSUME NEW l \in LegId, NEW s \in StayId, NEW a \in StayId, Booked(l, s, a)
       PROVE Standings'
  <2>1. /\ LegHolds(l, a) \cup BonusHold \in SUBSET Payment
        /\ \A p \in LegHolds(l, a) \cup BonusHold : pay[p] = "held"
        /\ Commit({}, {}, {}, LegHolds(l, a) \cup BonusHold) /\ pay' = pay
    BY <1>0, <1>8 DEF Booked
  <2>2. QED
    BY <2>1, CommitStands
<1>9. ASSUME NEW l \in LegId, NEW a \in StayId, LegUnfunded(l, a) PROVE Standings'
  <2>1. \A p \in LegHolds(l, a) \cup BonusHold : NoVerb(p)
    <3>1. \A p \in LegHolds(l, a) : NoVerb(p)
      BY <1>0, <1>9 DEF LegUnfunded, LegHolds, NoEarlyVerb
    <3>2. IsActiveLeg(l)
      BY <1>9 DEF LegUnfunded, IsActiveLeg
    <3>3. \A p \in BonusHold : NoVerb(p)
      BY <3>2 DEF BonusInv, BonusFree, BonusHold, BonusStays
    <3>4. QED
      BY <3>1, <3>3
  <2>2. /\ LegHolds(l, a) \cup BonusHold \in SUBSET Payment /\ pay' = pay
        /\ Commit({}, {}, LegHolds(l, a) \cup BonusHold, {})
    BY <1>0, <1>9 DEF LegUnfunded
  <2>3. QED
    BY <2>1, <2>2, CommitStands
<1>10. ASSUME NEW l \in LegId, NEW s \in StayId, PickedUp(l, s) PROVE Standings'
  <2>1. IsCurrentStay(s) /\ HubBond(s) \in Payment
    BY <1>0, <1>10, PaymentKinds DEF PickedUp, IsCurrentStay, AtHubStates
  <2>2. pay[HubBond(s)] = "held" /\ NoVerb(HubBond(s))
    BY <2>1, RestingReady
  <2>3. Commit({}, {HubBond(s)}, {}, {}) /\ pay' = pay
    BY <1>10 DEF PickedUp
  <2>4. QED
    BY <2>1, <2>2, <2>3, CommitStands
<1>11. ASSUME NEW l \in LegId, NEW s \in StayId, NEW a \in StayId, NotPickedUp(l, s, a)
        PROVE Standings'
  <2>1. /\ {CarrierBond(l)} \in SUBSET Payment
        /\ {LegPayment(l), HubBond(a)} \cup BonusHold \in SUBSET Payment
        /\ CarrierBond(l) \notin {LegPayment(l), HubBond(a)} \cup BonusHold
    BY <1>0, PaymentKinds, NamesDistinct, InBonusHold
  <2>2. \A p \in {CarrierBond(l), LegPayment(l), HubBond(a)} \cup BonusHold :
          pay[p] = "held" /\ NoVerb(p)
    BY <1>11, BookedReady DEF NotPickedUp
  <2>3. Commit({CarrierBond(l)}, {LegPayment(l), HubBond(a)} \cup BonusHold, {}, {}) /\ pay' = pay
    BY <1>11 DEF NotPickedUp
  <2>4. QED
    BY <2>1, <2>2, <2>3, CommitStands
<1>12. ASSUME NEW l \in LegId, NEW a \in StayId, Arrived(l, a) PROVE Standings'
  <2>1. /\ {LegPayment(l)} \in SUBSET Payment /\ {CarrierBond(l)} \in SUBSET Payment
        /\ LegPayment(l) # CarrierBond(l)
    BY PaymentKinds, NamesDistinct
  <2>2. \A p \in {LegPayment(l), CarrierBond(l)} : pay[p] = "held" /\ NoVerb(p)
    BY <1>12, BookedReady DEF Arrived
  <2>3. Commit({LegPayment(l)}, {CarrierBond(l)}, {}, {}) /\ pay' = pay
    BY <1>12 DEF Arrived
  <2>4. QED
    BY <2>1, <2>2, <2>3, CommitStands
<1>13. ASSUME NEW r \in StayId, NEW l \in LegId, NEW a \in StayId, Returned(r, l, a)
       PROVE Standings'
  <2>1. /\ HubBond(r) \in Payment /\ pay[HubBond(r)] = "none" /\ NoVerb(HubBond(r))
        /\ HubBond(r) \notin LegHolds(l, a) \cup BonusHold
    BY <1>0, <1>13, PaymentKinds, InLegHolds, InBonusHold DEF Returned, FreshRows, NoEarlyVerb
  <2>2. Standing(HubBond(r))'
    BY <1>13, <2>1 DEF Returned, Commit, Entries, Standings, Standing, NoVerb
  <2>3. \A p \in LegHolds(l, a) \cup BonusHold : pay[p] = "held" /\ NoVerb(p)
    BY <1>13, BookedReady DEF Returned, LegHolds
  <2>4. ASSUME NEW p \in Payment, p # HubBond(r) PROVE Standing(p)'
    <3>1. /\ pay'[p] = pay[p] /\ Standing(p)
          /\ <<p, "release">> \in intents' <=> <<p, "release">> \in intents
          /\ <<p, "refund">> \in intents' <=>
               <<p, "refund">> \in intents \/ p \in LegHolds(l, a) \cup BonusHold
          /\ <<p, "held">> \in journal' <=> <<p, "held">> \in journal
          /\ <<p, "settled">> \in journal' <=> <<p, "settled">> \in journal
          /\ <<p, "refunded">> \in journal' <=>
               <<p, "refunded">> \in journal \/ p \in LegHolds(l, a) \cup BonusHold
      BY <1>13, <2>4 DEF Returned, Commit, Entries, Standings
    <3>2. CASE p \in LegHolds(l, a) \cup BonusHold
      <4>1. pay[p] = "held" /\ NoVerb(p)
        BY <2>3, <3>2
      <4>2. QED
        BY <3>1, <3>2, <4>1 DEF Standing, NoVerb
    <3>3. CASE p \notin LegHolds(l, a) \cup BonusHold
      BY <3>1, <3>3 DEF Standing
    <3>4. QED
      BY <3>2, <3>3
  <2>5. QED
    BY <2>2, <2>4 DEF Standings
<1>14. ASSUME NEW l \in LegId, NEW a \in StayId, GoneMissing(l, a) PROVE Standings'
  <2>1. /\ {CarrierBond(l)} \in SUBSET Payment
        /\ {LegPayment(l), HubBond(a)} \cup BonusHold \in SUBSET Payment
        /\ CarrierBond(l) \notin {LegPayment(l), HubBond(a)} \cup BonusHold
    BY <1>0, PaymentKinds, NamesDistinct, InBonusHold
  <2>2. \A p \in {CarrierBond(l), LegPayment(l), HubBond(a)} \cup BonusHold :
          pay[p] = "held" /\ NoVerb(p)
    BY <1>14, BookedReady DEF GoneMissing
  <2>3. Commit({CarrierBond(l)}, {LegPayment(l), HubBond(a)} \cup BonusHold, {}, {}) /\ pay' = pay
    BY <1>14 DEF GoneMissing
  <2>4. QED
    BY <2>1, <2>2, <2>3, CommitStands
<1>15. ASSUME NEW s \in StayId, Collected(s) PROVE Standings'
  <2>1. IsCurrentStay(s) /\ {HubBond(s)} \in SUBSET Payment /\ HubBond(s) \notin BonusHold
    BY <1>0, <1>15, PaymentKinds, InBonusHold DEF Collected, IsCurrentStay, AtHubStates
  <2>2. \A p \in BonusHold \cup {HubBond(s)} : pay[p] = "held" /\ NoVerb(p)
    BY <1>15, <2>1, RestingReady DEF Collected
  <2>3. Commit(BonusHold, {HubBond(s)}, {}, {}) /\ pay' = pay
    BY <1>15 DEF Collected
  <2>4. QED
    BY <1>0, <2>1, <2>2, <2>3, CommitStands
<1>16. ASSUME NEW c \in ClaimId, NEW b \in BOOLEAN, NEW s \in StayId, Claimed(c, b, s)
        PROVE Standings'
  <2>1. \A p \in Payment : pay'[p] # pay[p] => pay[p] = "none" /\ pay'[p] = "created" /\ NoVerb(p)
    BY <1>0, <1>16, PaymentKinds, NamesDistinct DEF Claimed, FreshRows, NoEarlyVerb
  <2>2. QED
    BY <1>16, <2>1 DEF Claimed, Standings, Standing, NoVerb
<1>17. ASSUME NEW c \in ClaimId, ClaimBooked(c) PROVE Standings'
  <2>1. /\ ClaimHolds(c) \in SUBSET Payment /\ \A p \in ClaimHolds(c) : pay[p] = "held"
        /\ Commit({}, {}, {}, ClaimHolds(c)) /\ pay' = pay
    BY <1>0, <1>17 DEF ClaimBooked
  <2>2. QED
    BY <2>1, CommitStands
<1>18. ASSUME NEW c \in ClaimId, ClaimUnfunded(c) PROVE Standings'
  <2>1. \A p \in ClaimHolds(c) : NoVerb(p)
    BY <1>18, ClaimReady DEF ClaimUnfunded, IsLiveClaim
  <2>2. Commit({}, {}, ClaimHolds(c), {}) /\ pay' = pay
    BY <1>18 DEF ClaimUnfunded
  <2>3. QED
    BY <1>0, <2>1, <2>2, CommitStands
<1>19. ASSUME NEW c \in ClaimId, NEW s \in StayId, ClaimCollected(c, s) PROVE Standings'
  <2>1. IsCurrentStay(s) /\ {HubBond(s)} \in SUBSET Payment /\ HubBond(s) \notin ClaimHolds(c)
    BY <1>0, <1>19, PaymentKinds, InClaimHolds DEF ClaimCollected, IsCurrentStay, AtHubStates
  <2>2. \A p \in ClaimHolds(c) \cup {HubBond(s)} : pay[p] = "held" /\ NoVerb(p)
    BY <1>19, <2>1, RestingReady, ClaimReady DEF ClaimCollected, IsLiveClaim
  <2>3. Commit(ClaimHolds(c), {HubBond(s)}, {}, {}) /\ pay' = pay
    BY <1>19 DEF ClaimCollected
  <2>4. QED
    BY <1>0, <2>1, <2>2, <2>3, CommitStands
<1>20. ASSUME NEW s \in StayId, Forfeited(s) PROVE Standings'
  <2>1. IsCurrentStay(s) /\ {HubBond(s)} \in SUBSET Payment
    BY <1>0, <1>20, PaymentKinds DEF Forfeited, IsCurrentStay, AtHubStates
  <2>2. /\ Forfeits \subseteq Payment
        /\ ForfeitRefunds \subseteq Forfeits /\ ForfeitDissolves \subseteq Forfeits
    BY <1>0 DEF Forfeits, ForfeitRefunds, ForfeitDissolves, PendingHolds, ClaimedHolds
  <2>3. \A p \in Forfeits : NoVerb(p)
    BY <1>0, <1>20, <2>2, InForfeits, PaymentKinds
       DEF NoEarlyVerb, BonusInv, BonusFree, IsActiveLeg, IsLiveClaim
  <2>4. \A p \in ForfeitRefunds : pay[p] = "held"
    <3>1. CASE state = "CLAIMED"
      <4>1. \A c \in ClaimId : IsLiveClaim(c) => claim[c].status = "funded"
        BY <1>0, <3>1 DEF RowsMatchState, IsLiveClaim
      <4>2. QED
        BY <3>1, <4>1, ClaimReady DEF ForfeitRefunds, ClaimedHolds, LiveClaims
    <3>2. CASE state = "AWAITING_PICKUP"
      BY <2>1, <3>2, RestingReady DEF ForfeitRefunds
    <3>3. CASE state \notin {"CLAIMED", "AWAITING_PICKUP"}
      BY <3>3 DEF ForfeitRefunds
    <3>4. QED
      BY <3>1, <3>2, <3>3
  <2>5. pay[HubBond(s)] = "held" /\ NoVerb(HubBond(s))
    BY <2>1, RestingReady
  <2>6. Commit({}, {HubBond(s)} \cup ForfeitRefunds, ForfeitDissolves, {}) /\ pay' = pay
    BY <1>20 DEF Forfeited
  <2>7. QED
    BY <2>1, <2>2, <2>3, <2>4, <2>5, <2>6, CommitStands
<1>21. ASSUME Dropped PROVE Standings'
  BY <1>21 DEF Dropped, Standings, Standing, money
<1>22. ASSUME NEW s \in StayId, CalledOff(s) PROVE Standings'
  <2>1. IsCurrentStay(s) /\ {HubBond(s)} \in SUBSET Payment
    BY <1>0, <1>22, PaymentKinds DEF CalledOff, IsCurrentStay, AtHubStates
  <2>2. pay[HubBond(s)] = "held" /\ NoVerb(HubBond(s))
    BY <2>1, RestingReady
  <2>3. Commit({}, {HubBond(s)}, {}, {}) /\ pay' = pay
    BY <1>22 DEF CalledOff
  <2>4. QED
    BY <2>1, <2>2, <2>3, CommitStands
<1>23. ASSUME NEW p \in Payment, AtRest,
             PaymentHeld(p) \/ HoldLapses(p) \/ HoldDies(p) \/ ExecuteRelease(p) \/ ExecuteRefund(p)
      PROVE  Standings'
  <2>1. pay \in [Payment -> PayState] /\ Standing(p)
    BY BoardInvMoney DEF Standings
  <2>2. Standing(p)'
    <3>1. CASE PaymentHeld(p)
      BY <2>1, <3>1 DEF PaymentHeld, Standing
    <3>2. CASE HoldLapses(p)
      BY <2>1, <3>2 DEF HoldLapses, Standing
    <3>3. CASE HoldDies(p)
      BY <3>3 DEF HoldDies
    <3>4. CASE ExecuteRelease(p)
      BY <2>1, <3>4 DEF ExecuteRelease, Standing
    <3>5. CASE ExecuteRefund(p)
      BY <2>1, <3>5 DEF ExecuteRefund, Refundable, RefundEntries, Standing, Open
    <3>6. QED
      BY <1>23, <3>1, <3>2, <3>3, <3>4, <3>5
  <2>3. ASSUME NEW q \in Payment, q # p PROVE Standing(q)'
    <3>1. /\ pay'[q] = pay[q] /\ Standing(q)
          /\ \A v \in Verb : <<q, v>> \in intents' <=> <<q, v>> \in intents
          /\ \A e \in Entry : <<q, e>> \in journal' <=> <<q, e>> \in journal
      <4>1. CASE PaymentHeld(p)
        BY <2>1, <2>3, <4>1 DEF PaymentHeld, Standings
      <4>2. CASE HoldLapses(p)
        BY <2>1, <2>3, <4>2 DEF HoldLapses, Standings
      <4>3. CASE HoldDies(p)
        BY <4>3 DEF HoldDies
      <4>4. CASE ExecuteRelease(p)
        BY <2>1, <2>3, <4>4 DEF ExecuteRelease, Standings
      <4>5. CASE ExecuteRefund(p)
        BY <2>1, <2>3, <4>5 DEF ExecuteRefund, RefundEntries, Standings
      <4>6. QED
        BY <1>23, <4>1, <4>2, <4>3, <4>4, <4>5
    <3>2. QED
      BY <3>1 DEF Standing, Verb, Entry
  <2>4. QED
    BY <2>2, <2>3 DEF Standings
<1>24. CASE AtRest /\ UNCHANGED money
  BY <1>24 DEF money, Standings, Standing
<1>25. QED
  BY StepEffects, <1>1, <1>2, <1>3, <1>4, <1>5, <1>6, <1>7, <1>8, <1>9, <1>10, <1>11,
     <1>12, <1>13, <1>14, <1>15, <1>16, <1>17, <1>18, <1>19, <1>20, <1>21, <1>22, <1>23,
     <1>24

\* An empty journal audits.
LEMMA StandInit == Init => Standings
  BY DEF Init, Standings, Standing

\* Once no verb is outstanding for a payment, its journal passes the nightly
\* audit: the machine's entries and the coordinator's add up.
THEOREM JournalAlwaysAudits == Spec => []JournalPassesAudit
<1> DEFINE Inv == BoardInv /\ VerbInv /\ (HoldsMayDie \/ (Bonds /\ BonusInv /\ Standings))
<1>1. Init => Inv
  BY BoardInit, VerbInit, BondInit, BonusInit, StandInit
<1>2. Inv /\ [Next]_vars => Inv'
  <2> SUFFICES ASSUME Inv, [Next]_vars PROVE Inv'
    OBVIOUS
  <2>1. BoardInv' /\ VerbInv'
    BY BoardStep, VerbStep
  <2>2. CASE HoldsMayDie
    BY <2>1, <2>2
  <2>3. CASE ~ HoldsMayDie
    <3>1. Bonds' /\ BonusInv' /\ Standings'
      BY <2>3, BondStep, BonusStep, StandStep
    <3>2. QED
      BY <2>1, <3>1
  <2>4. QED
    BY <2>2, <2>3
<1>3. Inv => JournalPassesAudit
  BY StandingAudited DEF JournalPassesAudit
<1>4. QED
  BY <1>1, <1>2, <1>3, PTL DEF Spec

-----------------------------------------------------------------------------
(* A payment never goes back *)

\* The states a payment may move to from each of its states.
Onward(from) ==
  CASE from = "none" -> Open
    [] from = "created" -> {"held", "cancelled"}
    [] from = "held" -> {"settled", "cancelled"}
    [] OTHER -> {}

\* What one step may do to each payment.
MovesForward == \A p \in Payment : pay'[p] = pay[p] \/ pay'[p] \in Onward(pay[p])

\* No event that only commits verbs, or no money at all, moves a payment.
LEMMA EventsLeavePayments ==
  /\ \A d \in Hub : Created(d) => pay' = pay
  /\ \A d \in Hub, s \in StayId : Rerouted(d, s) => pay' = pay
  /\ \A s \in StayId : CheckedIn(s) \/ Collected(s) \/ Forfeited(s) \/ CalledOff(s) => pay' = pay
  /\ \A l \in LegId, h \in Hub, b \in BOOLEAN, s \in StayId : Requested(l, h, b, s) => pay' = pay
  /\ \A l \in LegId : RequestClosed(l) => pay' = pay
  /\ \A l \in LegId, s, a \in StayId : Booked(l, s, a) \/ NotPickedUp(l, s, a) => pay' = pay
  /\ \A l \in LegId, a \in StayId :
       LegUnfunded(l, a) \/ PickedUp(l, a) \/ Arrived(l, a) \/ GoneMissing(l, a) => pay' = pay
  /\ \A c \in ClaimId : ClaimBooked(c) \/ ClaimUnfunded(c) => pay' = pay
  /\ \A c \in ClaimId, s \in StayId : ClaimCollected(c, s) => pay' = pay
  /\ Dropped => pay' = pay
  BY DEF money, Created, Rerouted, CheckedIn, Collected, Forfeited, CalledOff, Requested,
     RequestClosed, Booked, NotPickedUp, LegUnfunded, PickedUp, Arrived, GoneMissing,
     ClaimBooked, ClaimUnfunded, ClaimCollected, Dropped

\* A hold is created only under a name no payment had, and the wallets and the
\* verbs only ever move one onward.
LEMMA ForwardStep ==
  ASSUME BoardInv, VerbInv, [Next]_vars
  PROVE  MovesForward
<1>1. FreshRows
  BY DEF VerbInv
<1>2. ASSUME pay' = pay PROVE MovesForward
  BY <1>2 DEF MovesForward
<1>3. ASSUME NEW s \in StayId, Accepted(s) PROVE MovesForward
  BY <1>1, <1>3 DEF Accepted, FreshRows, MovesForward, Onward, Open
<1>4. ASSUME NEW l \in LegId, NEW a \in StayId, Deposited(l, a) PROVE MovesForward
  <2>1. \A p \in AcceptedHolds(l, a) : pay[p] = "none"
    BY <1>1, <1>4 DEF Deposited, FreshRows, AcceptedHolds, LegHolds
  <2>2. QED
    BY <1>4, <2>1 DEF Deposited, MovesForward, Onward, Open
<1>5. ASSUME NEW r \in StayId, NEW l \in LegId, NEW a \in StayId, Returned(r, l, a)
      PROVE  MovesForward
  BY <1>1, <1>5 DEF Returned, FreshRows, MovesForward, Onward, Open
<1>6. ASSUME NEW c \in ClaimId, NEW b \in BOOLEAN, NEW s \in StayId, Claimed(c, b, s)
      PROVE  MovesForward
  BY <1>1, <1>6 DEF Claimed, FreshRows, MovesForward, Onward, Open
<1>7. ASSUME NEW p \in Payment,
             PaymentHeld(p) \/ HoldLapses(p) \/ HoldDies(p) \/ ExecuteRelease(p) \/ ExecuteRefund(p)
      PROVE  MovesForward
  <2>1. pay \in [Payment -> PayState]
    BY BoardInvMoney
  <2>2. \E to : pay' = [pay EXCEPT ![p] = to] /\ (to = pay[p] \/ to \in Onward(pay[p]))
    <3>1. CASE PaymentHeld(p)
      BY <3>1 DEF PaymentHeld, Onward
    <3>2. CASE HoldLapses(p)
      BY <3>2 DEF HoldLapses, Onward
    <3>3. CASE HoldDies(p)
      BY <3>3 DEF HoldDies, Onward
    <3>4. CASE ExecuteRelease(p)
      BY <3>4 DEF ExecuteRelease, Onward
    <3>5. CASE ExecuteRefund(p)
      BY <3>5 DEF ExecuteRefund, Refundable, Onward, Open
    <3>6. QED
      BY <1>7, <3>1, <3>2, <3>3, <3>4, <3>5
  <2>3. QED
    BY <2>1, <2>2 DEF MovesForward
<1>8. CASE UNCHANGED money
  BY <1>2, <1>8 DEF money
<1>9. QED
  BY StepEffects, EventsLeavePayments, <1>2, <1>3, <1>4, <1>5, <1>6, <1>7, <1>8

\* A payment is created once, under a key no earlier payment had, and from then on
\* only moves onward: what was settled or cancelled stays so, nothing settles that
\* was not held, and no retried verb, late invoice or second request reopens it.
THEOREM PaymentsMoveForward == Spec => [][MovesForward]_vars
<1>1. BoardInv /\ VerbInv /\ [Next]_vars => BoardInv' /\ VerbInv' /\ MovesForward
  BY BoardStep, VerbStep, ForwardStep
<1>2. QED
  BY BoardInit, VerbInit, <1>1, PTL DEF Spec

=============================================================================
