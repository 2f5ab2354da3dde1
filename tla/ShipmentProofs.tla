--------------------------- MODULE ShipmentProofs ---------------------------
(* What holds of Shipment for every set of hubs and every number of rows.  *)
EXTENDS Shipment, TLAPS

\* The holds of a leg and of a claim are conditional payments.
LEMMA HoldsArePayments ==
  /\ \A s \in StayId : HubBond(s) \in Payment /\ HubBonus(s) \in Payment
  /\ BonusHold \subseteq Payment
  /\ \A l \in LegId, a \in StayId :
       LegHolds(l, a) \subseteq Payment /\ AcceptedHolds(l, a) \subseteq Payment
  /\ \A c \in ClaimId : ClaimHolds(c) \subseteq Payment
<1>1. \A s \in StayId : HubBond(s) \in Payment /\ HubBonus(s) \in Payment
  BY DEF HubBond, HubBonus, Payment
<1>2. \A l \in LegId : LegPayment(l) \in Payment /\ CarrierBond(l) \in Payment
  BY DEF LegPayment, CarrierBond, Payment
<1>3. \A c \in ClaimId : ClaimPayment(c) \in Payment /\ ClaimBonus(c) \in Payment
  BY DEF ClaimPayment, ClaimBonus, Payment
<1>4. BonusHold \subseteq Payment
  BY <1>1 DEF BonusHold, BonusStays
<1>5. ASSUME NEW l \in LegId, NEW a \in StayId
      PROVE  LegHolds(l, a) \subseteq Payment /\ AcceptedHolds(l, a) \subseteq Payment
  <2>1. LegHolds(l, a) \subseteq Payment
    BY <1>1, <1>2 DEF LegHolds
  <2>2. QED
    BY <1>1, <2>1 DEF AcceptedHolds
<1>6. ASSUME NEW c \in ClaimId
      PROVE  ClaimHolds(c) \subseteq Payment
  BY <1>3 DEF ClaimHolds
<1>7. QED
  BY <1>1, <1>4, <1>5, <1>6

\* Committing verbs on known payments keeps the money typed.
LEMMA CommitTyped ==
  ASSUME MoneyTyped, UNCHANGED pay,
         NEW R \in SUBSET Payment, NEW F \in SUBSET Payment,
         NEW D \in SUBSET Payment, NEW H \in SUBSET Payment, Commit(R, F, D, H)
  PROVE  MoneyTyped'
  BY DEF MoneyTyped, Commit, Entries, Verb, Entry

\* So does opening holds, with or without recognising a bond.
LEMMA CreateTyped ==
  ASSUME MoneyTyped, NEW P, NEW as \in PayState, CreateHolds(P, as), NoVerbs
  PROVE  MoneyTyped'
  BY DEF MoneyTyped, CreateHolds, NoVerbs

LEMMA BondTyped ==
  ASSUME MoneyTyped, NEW s \in StayId, NEW F \in SUBSET Payment,
         CreateHolds({HubBond(s)}, "held"), Commit({}, F, {}, {HubBond(s)})
  PROVE  MoneyTyped'
<1>1. HubBond(s) \in Payment
  BY HoldsArePayments
<1>2. pay' \in [Payment -> PayState]
  BY DEF MoneyTyped, CreateHolds, PayState, Open
<1>3. journal' \subseteq Payment \X Entry /\ intents' \subseteq Payment \X Verb
  BY <1>1 DEF MoneyTyped, Commit, Entries, Verb, Entry
<1>4. QED
  BY <1>2, <1>3 DEF MoneyTyped

\* Clocks only ever hold phases.
LEMMA ClocksTyped ==
  ASSUME TimeTyped, NEW F, Clocks(F)
  PROVE  due' \in [Row -> Phase]
  BY DEF TimeTyped, Clocks, Phase

LEMMA TypeInit == Init => TypeOK
  BY HubsAndFlag DEF Init, TypeOK, RowsTyped, TimeTyped, MoneyTyped, ShipmentState,
       StayStatus, LegStatus, ClaimStatus, Phase, PayState

\* Every event, sweep, wallet step and verb leaves the columns typed.
LEMMA TypeStep == TypeOK /\ [Next]_vars => TypeOK'
<1> SUFFICES ASSUME TypeOK, [Next]_vars PROVE TypeOK'
  OBVIOUS
<1>0. RowsTyped /\ TimeTyped /\ MoneyTyped
  BY DEF TypeOK
<1> USE <1>0
<1>1. ASSUME NEW d \in Hub, create(d) PROVE TypeOK'
  <2>1. RowsTyped'
    BY <1>1 DEF create, RowsTyped, rows, ShipmentState, AtHubStates, TerminalStates,
       StayStatus, LegStatus, ClaimStatus
  <2>2. TimeTyped'
    BY <1>1 DEF create, TimeTyped, Row
  <2>3. MoneyTyped'
    BY <1>1 DEF create, MoneyTyped, money
  <2>4. QED
    BY <2>1, <2>2, <2>3 DEF TypeOK
<1>2. ASSUME NEW d \in Hub, reroute(d) PROVE TypeOK'
  <2>1. PICK s \in StayId : reroute(d)!(s)
    BY <1>2 DEF reroute
  <2>2. RowsTyped'
    BY <2>1 DEF RowsTyped, rows, ShipmentState, AtHubStates, TerminalStates, StayStatus,
       LegStatus, ClaimStatus
  <2>3. TimeTyped'
    BY <2>1 DEF TimeTyped, Row
  <2>4. MoneyTyped'
    <3>1. (IF state = "AWAITING_PICKUP" THEN BonusHold ELSE {}) \in SUBSET Payment
      BY HoldsArePayments
    <3>2. QED
      BY <2>1, <3>1, CommitTyped
  <2>5. QED
    BY <2>2, <2>3, <2>4 DEF TypeOK
<1>3. ASSUME NEW s \in StayId, origin_hub_accept(s) PROVE TypeOK'
  <2>1. RowsTyped'
    BY <1>3, HubsAndFlag DEF origin_hub_accept, RowsTyped, ShipmentState, AtHubStates,
       TerminalStates, StayStatus, LegStatus, ClaimStatus
  <2>2. TimeTyped'
    BY <1>3 DEF origin_hub_accept, TimeTyped, Row
  <2>3. MoneyTyped'
    BY <1>3, BondTyped DEF origin_hub_accept
  <2>4. QED
    BY <2>1, <2>2, <2>3 DEF TypeOK
<1>4. ASSUME origin_checkin PROVE TypeOK'
  <2>1. PICK s \in StayId : origin_checkin!(s)
    BY <1>4 DEF origin_checkin
  <2>2. RowsTyped'
    BY <2>1 DEF RowsTyped, ShipmentState, AtHubStates, TerminalStates, StayStatus,
       LegStatus, ClaimStatus
  <2>3. TimeTyped'
    BY <2>1, ClocksTyped DEF TimeTyped, Timer
  <2>4. MoneyTyped'
    BY <2>1 DEF MoneyTyped, money
  <2>5. QED
    BY <2>2, <2>3, <2>4 DEF TypeOK
<1>5. ASSUME NEW l \in LegId, NEW h \in Hub, NEW b \in BOOLEAN, leg_request(l, h, b)
       PROVE TypeOK'
  <2>1. PICK s \in StayId : leg_request(l, h, b)!(s)
    BY <1>5 DEF leg_request
  <2>2. RowsTyped'
    BY <2>1 DEF RowsTyped, ShipmentState, AtHubStates, TerminalStates, StayStatus,
       LegStatus, ClaimStatus
  <2>3. TimeTyped'
    BY <2>1, ClocksTyped DEF TimeTyped, Timer
  <2>4. MoneyTyped'
    BY <2>1 DEF MoneyTyped, money
  <2>5. QED
    BY <2>2, <2>3, <2>4 DEF TypeOK
<1>6. ASSUME NEW l \in LegId, NEW a \in StayId, deposit_accept(l, a) PROVE TypeOK'
  <2>1. RowsTyped'
    <3>1. leg' \in [LegId -> [status : LegStatus, from : Hub, to : Hub, bonus : BOOLEAN]]
      BY <1>6 DEF deposit_accept, RowsTyped, LegStatus
    <3>2. stay' \in [StayId -> [status : StayStatus, hub : Hub]]
      BY <1>6 DEF deposit_accept, RowsTyped, StayStatus
    <3>3. QED
      BY <1>6, <3>1, <3>2 DEF deposit_accept, RowsTyped
  <2>2. TimeTyped'
    BY <1>6, ClocksTyped DEF deposit_accept, TimeTyped, Timer
  <2>3. MoneyTyped'
    BY <1>6, CreateTyped DEF deposit_accept, PayState, Open
  <2>4. QED
    BY <2>1, <2>2, <2>3 DEF TypeOK
<1>7. ASSUME NEW l \in LegId, CloseRequest(l) PROVE TypeOK'
  <2>1. RowsTyped'
    BY <1>7 DEF CloseRequest, RowsTyped, ShipmentState, AtHubStates, TerminalStates,
       StayStatus, LegStatus, ClaimStatus
  <2>2. TimeTyped'
    BY <1>7, ClocksTyped DEF CloseRequest, TimeTyped, Timer
  <2>3. MoneyTyped'
    BY <1>7 DEF CloseRequest, MoneyTyped, money
  <2>4. QED
    BY <2>1, <2>2, <2>3 DEF TypeOK
<1>8. ASSUME leg_funded PROVE TypeOK'
  <2>1. PICK l \in LegId, s, a \in StayId : leg_funded!(l, s, a)
    BY <1>8 DEF leg_funded
  <2>2. RowsTyped'
    BY <2>1 DEF RowsTyped, ShipmentState, AtHubStates, TerminalStates, StayStatus,
       LegStatus, ClaimStatus
  <2>3. TimeTyped'
    BY <2>1, ClocksTyped DEF TimeTyped, Timer, BookedTimers
  <2>4. MoneyTyped'
    <3>1. LegHolds(l, a) \cup BonusHold \in SUBSET Payment
      BY HoldsArePayments
    <3>2. QED
      BY <2>1, <3>1, CommitTyped
  <2>5. QED
    BY <2>2, <2>3, <2>4 DEF TypeOK
<1>9. ASSUME NEW l \in LegId, leg_funding_expired(l) PROVE TypeOK'
  <2>1. PICK a \in StayId : leg_funding_expired(l)!(a)
    BY <1>9 DEF leg_funding_expired
  <2>2. RowsTyped'
    BY <2>1 DEF RowsTyped, CloseLeg, ShipmentState, AtHubStates, TerminalStates,
       StayStatus, LegStatus, ClaimStatus
  <2>3. TimeTyped'
    BY <2>1, ClocksTyped DEF TimeTyped, Timer
  <2>4. MoneyTyped'
    <3>1. LegHolds(l, a) \cup BonusHold \in SUBSET Payment
      BY HoldsArePayments
    <3>2. QED
      BY <2>1, <3>1, CommitTyped DEF DissolveLeg
  <2>5. QED
    BY <2>2, <2>3, <2>4 DEF TypeOK
<1>10. ASSUME pickup_checkout PROVE TypeOK'
  <2>1. PICK l \in LegId, s \in StayId : pickup_checkout!(l, s)
    BY <1>10 DEF pickup_checkout
  <2>2. RowsTyped'
    <3>1. leg' \in [LegId -> [status : LegStatus, from : Hub, to : Hub, bonus : BOOLEAN]]
      BY <2>1 DEF RowsTyped, LegStatus
    <3>2. stay' \in [StayId -> [status : StayStatus, hub : Hub]]
      BY <2>1 DEF RowsTyped, StayStatus
    <3>3. QED
      BY <2>1, <3>1, <3>2 DEF RowsTyped, ShipmentState
  <2>3. TimeTyped'
    BY <2>1, ClocksTyped DEF TimeTyped, Timer
  <2>4. MoneyTyped'
    <3>1. {HubBond(s)} \in SUBSET Payment
      BY HoldsArePayments
    <3>2. QED
      BY <2>1, <3>1, CommitTyped
  <2>5. QED
    BY <2>2, <2>3, <2>4 DEF TypeOK
<1>11. ASSUME NEW l \in LegId, pickup_timeout(l) PROVE TypeOK'
  <2>1. PICK s, a \in StayId : pickup_timeout(l)!(s, a)
    BY <1>11 DEF pickup_timeout
  <2>2. RowsTyped'
    BY <2>1 DEF RowsTyped, CloseLeg, ShipmentState, AtHubStates, TerminalStates,
       StayStatus, LegStatus, ClaimStatus
  <2>3. TimeTyped'
    BY <2>1, ClocksTyped DEF TimeTyped, Timer, ResumedClock
  <2>4. MoneyTyped'
    <3>1. {CarrierBond(l)} \in SUBSET Payment /\ {LegPayment(l), HubBond(a)} \cup
       BonusHold \in SUBSET Payment
      BY HoldsArePayments DEF LegHolds
    <3>2. QED
      BY <2>1, <3>1, CommitTyped DEF FailLeg
  <2>5. QED
    BY <2>2, <2>3, <2>4 DEF TypeOK
<1>12. ASSUME leg_checkin PROVE TypeOK'
  <2>1. PICK l \in LegId, a \in StayId : leg_checkin!(l, a)
    BY <1>12 DEF leg_checkin
  <2>2. RowsTyped'
    BY <2>1 DEF RowsTyped, ShipmentState, AtHubStates, TerminalStates, StayStatus,
       LegStatus, ClaimStatus
  <2>3. TimeTyped'
    BY <2>1, ClocksTyped DEF TimeTyped, Timer
  <2>4. MoneyTyped'
    <3>1. {LegPayment(l)} \in SUBSET Payment /\ {CarrierBond(l)} \in SUBSET Payment
      BY HoldsArePayments DEF LegHolds
    <3>2. QED
      BY <2>1, <3>1, CommitTyped
  <2>5. QED
    BY <2>2, <2>3, <2>4 DEF TypeOK
<1>13. ASSUME NEW r \in StayId, leg_return(r) PROVE TypeOK'
  <2>1. PICK l \in LegId, a \in StayId : leg_return(r)!(l, a)
    BY <1>13 DEF leg_return
  <2>2. RowsTyped'
    <3>1. leg[l] \in [status : LegStatus, from : Hub, to : Hub, bonus : BOOLEAN]
      BY DEF RowsTyped
    <3>2. [status |-> "active", hub |-> leg[l].from] \in [status : StayStatus, hub : Hub]
      BY <3>1 DEF StayStatus
    <3>3. stay' \in [StayId -> [status : StayStatus, hub : Hub]]
      BY <2>1, <3>2 DEF RowsTyped, StayStatus
    <3>4. leg' \in [LegId -> [status : LegStatus, from : Hub, to : Hub, bonus : BOOLEAN]]
      BY <2>1 DEF RowsTyped, LegStatus
    <3>5. QED
      BY <2>1, <3>3, <3>4 DEF RowsTyped, ShipmentState, AtHubStates
  <2>3. TimeTyped'
    BY <2>1, ClocksTyped DEF TimeTyped, Timer
  <2>4. MoneyTyped'
    BY <2>1, BondTyped, HoldsArePayments DEF ReturnLeg
  <2>5. QED
    BY <2>2, <2>3, <2>4 DEF TypeOK
<1>14. ASSUME NEW l \in LegId, transit_timeout(l) PROVE TypeOK'
  <2>1. PICK a \in StayId : transit_timeout(l)!(a)
    BY <1>14 DEF transit_timeout
  <2>2. RowsTyped'
    BY <2>1 DEF RowsTyped, CloseLeg, ShipmentState, AtHubStates, TerminalStates,
       StayStatus, LegStatus, ClaimStatus
  <2>3. TimeTyped'
    BY <2>1, ClocksTyped DEF TimeTyped, Timer
  <2>4. MoneyTyped'
    <3>1. {CarrierBond(l)} \in SUBSET Payment /\ {LegPayment(l), HubBond(a)} \cup
       BonusHold \in SUBSET Payment
      BY HoldsArePayments DEF LegHolds
    <3>2. QED
      BY <2>1, <3>1, CommitTyped DEF FailLeg
  <2>5. QED
    BY <2>2, <2>3, <2>4 DEF TypeOK
<1>15. ASSUME recipient_pickup PROVE TypeOK'
  <2>1. PICK s \in StayId : recipient_pickup!(s)
    BY <1>15 DEF recipient_pickup
  <2>2. RowsTyped'
    BY <2>1 DEF RowsTyped, EndStay, ShipmentState, AtHubStates, TerminalStates,
       StayStatus, LegStatus, ClaimStatus
  <2>3. TimeTyped'
    BY <2>1, ClocksTyped DEF TimeTyped, Timer, EndStay
  <2>4. MoneyTyped'
    <3>1. BonusHold \in SUBSET Payment /\ {HubBond(s)} \in SUBSET Payment
      BY HoldsArePayments
    <3>2. QED
      BY <2>1, <3>1, CommitTyped
  <2>5. QED
    BY <2>2, <2>3, <2>4 DEF TypeOK
<1>16. ASSUME NEW c \in ClaimId, NEW b \in BOOLEAN, recipient_claim(c, b) PROVE TypeOK'
  <2>1. PICK s \in StayId : recipient_claim(c, b)!(s)
    BY <1>16 DEF recipient_claim
  <2>2. RowsTyped'
    BY <2>1 DEF RowsTyped, ShipmentState, AtHubStates, TerminalStates, StayStatus,
       LegStatus, ClaimStatus
  <2>3. TimeTyped'
    BY <2>1, ClocksTyped DEF TimeTyped, Timer
  <2>4. MoneyTyped'
    BY <2>1, CreateTyped DEF PayState, Open
  <2>5. QED
    BY <2>2, <2>3, <2>4 DEF TypeOK
<1>17. ASSUME claim_funded PROVE TypeOK'
  <2>1. PICK c \in ClaimId : claim_funded!(c)
    BY <1>17 DEF claim_funded
  <2>2. RowsTyped'
    BY <2>1 DEF RowsTyped, ShipmentState, AtHubStates, TerminalStates, StayStatus,
       LegStatus, ClaimStatus
  <2>3. TimeTyped'
    BY <2>1, ClocksTyped DEF TimeTyped, Timer
  <2>4. MoneyTyped'
    <3>1. ClaimHolds(c) \in SUBSET Payment
      BY HoldsArePayments
    <3>2. QED
      BY <2>1, <3>1, CommitTyped
  <2>5. QED
    BY <2>2, <2>3, <2>4 DEF TypeOK
<1>18. ASSUME NEW c \in ClaimId, claim_funding_expired(c) PROVE TypeOK'
  <2>1. RowsTyped'
    BY <1>18 DEF claim_funding_expired, RowsTyped, ShipmentState, AtHubStates,
       TerminalStates, StayStatus, LegStatus, ClaimStatus
  <2>2. TimeTyped'
    BY <1>18, ClocksTyped DEF claim_funding_expired, TimeTyped, Timer
  <2>3. MoneyTyped'
    <3>1. ClaimHolds(c) \in SUBSET Payment
      BY HoldsArePayments
    <3>2. QED
      BY <1>18, <3>1, CommitTyped DEF claim_funding_expired
  <2>4. QED
    BY <2>1, <2>2, <2>3 DEF TypeOK
<1>19. ASSUME recipient_claimed_pickup PROVE TypeOK'
  <2>1. PICK c \in ClaimId, s \in StayId : recipient_claimed_pickup!(c, s)
    BY <1>19 DEF recipient_claimed_pickup
  <2>2. RowsTyped'
    <3>1. stay' \in [StayId -> [status : StayStatus, hub : Hub]]
      BY <2>1 DEF RowsTyped, EndStay, StayStatus
    <3>2. claim' \in [ClaimId -> [status : ClaimStatus, stay : StayId \cup {NoStay},
                                 bonus : BOOLEAN]]
      BY <2>1 DEF RowsTyped, ClaimStatus
    <3>3. QED
      BY <2>1, <3>1, <3>2 DEF RowsTyped, ShipmentState, TerminalStates
  <2>3. TimeTyped'
    BY <2>1, ClocksTyped DEF TimeTyped, Timer, EndStay
  <2>4. MoneyTyped'
    <3>1. ClaimHolds(c) \in SUBSET Payment /\ {HubBond(s)} \in SUBSET Payment
      BY HoldsArePayments
    <3>2. QED
      BY <2>1, <3>1, CommitTyped
  <2>5. QED
    BY <2>2, <2>3, <2>4 DEF TypeOK
<1>20. ASSUME NEW s \in StayId, storage_expiry(s) PROVE TypeOK'
  <2>1. RowsTyped'
    <3>1. stay' \in [StayId -> [status : StayStatus, hub : Hub]]
      BY <1>20 DEF storage_expiry, RowsTyped, StayStatus
    <3>2. leg' \in [LegId -> [status : LegStatus, from : Hub, to : Hub, bonus : BOOLEAN]]
      BY <1>20 DEF storage_expiry, RowsTyped, LegStatus
    <3>3. claim' \in [ClaimId -> [status : ClaimStatus, stay : StayId \cup {NoStay},
                                 bonus : BOOLEAN]]
      BY <1>20 DEF storage_expiry, RowsTyped, ClaimStatus
    <3>4. QED
      BY <1>20, <3>1, <3>2, <3>3 DEF storage_expiry, RowsTyped, ShipmentState, TerminalStates
  <2>2. TimeTyped'
    BY <1>20, ClocksTyped DEF storage_expiry, TimeTyped, Timer
  <2>3. MoneyTyped'
    <3>1. PendingHolds \subseteq Payment
      BY DEF PendingHolds
    <3>2. ClaimedHolds \subseteq Payment
      BY DEF ClaimedHolds
    <3>3. ForfeitRefunds \in SUBSET Payment
      BY <3>2, HoldsArePayments DEF ForfeitRefunds
    <3>4. ForfeitDissolves \in SUBSET Payment
      BY <3>1, <3>2 DEF ForfeitDissolves
    <3>5. {HubBond(s)} \cup ForfeitRefunds \in SUBSET Payment
      BY <3>3, HoldsArePayments
    <3>6. QED
      BY <1>20, <3>4, <3>5, CommitTyped DEF storage_expiry
  <2>4. QED
    BY <2>1, <2>2, <2>3 DEF TypeOK
<1>21. ASSUME cancel_draft PROVE TypeOK'
  <2>1. RowsTyped'
    BY <1>21 DEF cancel_draft, RowsTyped, rows, ShipmentState, AtHubStates,
       TerminalStates, StayStatus, LegStatus, ClaimStatus
  <2>2. TimeTyped'
    BY <1>21 DEF cancel_draft, TimeTyped, Row
  <2>3. MoneyTyped'
    BY <1>21 DEF cancel_draft, MoneyTyped, money
  <2>4. QED
    BY <2>1, <2>2, <2>3 DEF TypeOK
<1>22. ASSUME cancel PROVE TypeOK'
  <2>1. PICK s \in StayId : cancel!(s)
    BY <1>22 DEF cancel
  <2>2. RowsTyped'
    BY <2>1 DEF RowsTyped, EndStay, ShipmentState, AtHubStates, TerminalStates,
       StayStatus, LegStatus, ClaimStatus
  <2>3. TimeTyped'
    BY <2>1, ClocksTyped DEF TimeTyped, Timer, EndStay
  <2>4. MoneyTyped'
    <3>1. {HubBond(s)} \in SUBSET Payment
      BY HoldsArePayments
    <3>2. QED
      BY <2>1, <3>1, CommitTyped
  <2>5. QED
    BY <2>2, <2>3, <2>4 DEF TypeOK
<1>23. ASSUME NEW p \in Payment,
             PaymentHeld(p) \/ HoldLapses(p) \/ HoldDies(p) \/ ExecuteRelease(p) \/ ExecuteRefund(p)
      PROVE  TypeOK'
  <2>1. PaymentUnchanged
    BY <1>23 DEF PaymentHeld, HoldLapses, HoldDies, ExecuteRelease, ExecuteRefund
  <2>2. RowsTyped' /\ TimeTyped'
    BY <2>1 DEF PaymentUnchanged, rows, RowsTyped, TimeTyped, TypeOK
  <2>3. MoneyTyped'
    BY <1>23 DEF MoneyTyped, PaymentHeld, HoldLapses, HoldDies, ExecuteRelease, ExecuteRefund,
       RefundEntries, Entry, PayState, Open
  <2>4. QED
    BY <2>2, <2>3 DEF TypeOK
<1>24. ASSUME NEW r \in Row, Elapse(r) PROVE TypeOK'
  <2>1. TimeTyped'
    BY <1>24 DEF TimeTyped, Elapse, Phase
  <2>2. RowsTyped' /\ MoneyTyped'
    BY <1>24 DEF RowsTyped, MoneyTyped, Elapse, rows, money
  <2>3. QED
    BY <2>1, <2>2 DEF TypeOK
<1>25. CASE UNCHANGED vars
  BY <1>25 DEF vars, rows, money, TypeOK, RowsTyped, TimeTyped, MoneyTyped
<1>26. QED
  BY <1>1, <1>2, <1>3, <1>4, <1>5, <1>6, <1>7, <1>8, <1>9, <1>10, <1>11, <1>12, <1>13,
     <1>14, <1>15, <1>16, <1>17, <1>18, <1>19, <1>20, <1>21, <1>22, <1>23, <1>24, <1>25
     DEF Next, User, Sweep, Pump, Wallets, Verbs, Clock, deposit_reject,
     deposit_request_cancel, deposit_request_expired

\* The columns hold what they may hold, for any number of hubs and rows.
THEOREM TypeCorrect == Spec => []TypeOK
  BY TypeInit, TypeStep, PTL DEF Spec

-----------------------------------------------------------------------------
(* The rows, the state and the timers fit together *)

BoardInv == TypeOK /\ BoardExclusive /\ RowsMatchState /\ TimersMatchWaits

LEMMA BoardInit == Init => BoardInv
<1> SUFFICES ASSUME Init PROVE BoardInv
  OBVIOUS
<1>1. TypeOK
  BY TypeInit
<1>2. BoardExclusive /\ RowsMatchState /\ TimersMatchWaits
  BY DEF Init, BoardExclusive, RowsMatchState, TimersMatchWaits, IsActiveLeg, IsLiveClaim,
     NoClaim, AtHubStates
<1>3. QED
  BY <1>1, <1>2 DEF BoardInv

LEMMA BoardStep == BoardInv /\ [Next]_vars => BoardInv'
<1> SUFFICES ASSUME BoardInv, [Next]_vars PROVE BoardInv'
  OBVIOUS
<1>0. TypeOK /\ TypeOK' /\ RowsTyped /\ BoardExclusive /\ RowsMatchState /\ TimersMatchWaits
  BY TypeStep DEF BoardInv, TypeOK
<1> USE <1>0
<1>1. ASSUME NEW d \in Hub, create(d) PROVE BoardInv'
  <2>1. /\ stay' = stay /\ leg' = leg /\ claim' = claim
        /\ state = "NONE" /\ state' = "DRAFT"
    BY <1>1 DEF create, RowsTyped, rows
  <2>2. BoardExclusive'
    BY <2>1 DEF BoardExclusive, RowsMatchState, IsActiveLeg, IsLiveClaim, NoClaim
  <2>3. RowsMatchState'
    BY <2>1 DEF BoardExclusive, RowsMatchState, IsActiveLeg, IsLiveClaim, NoClaim,
       AtHubStates
  <2>4. TimersMatchWaits'
    BY <1>1, <2>1 DEF create, TimersMatchWaits, BoardExclusive, RowsMatchState,
       IsActiveLeg, IsLiveClaim, AtHubStates, rows
  <2>5. QED
    BY <2>2, <2>3, <2>4 DEF BoardInv
<1>2. ASSUME NEW d \in Hub, reroute(d) PROVE BoardInv'
  <2>1. PICK s \in StayId : reroute(d)!(s)
    BY <1>2 DEF reroute
  <2>2. /\ stay' = stay /\ leg' = leg /\ claim' = claim
        /\ state \in {"AT_HUB", "AWAITING_PICKUP"} /\ state' = "AT_HUB"
    BY <2>1 DEF RowsTyped, rows
  <2>3. /\ stay[s].status = "active"
        /\ \A k \in LegId : leg[k].status \notin {"requested", "pending_funding", "booked", "picked_up"}
        /\ \A c \in ClaimId : claim[c].status \notin {"pending_funding", "funded"}
    BY <2>1 DEF IsCurrentStay, IsActiveLeg, IsLiveClaim, NoLeg, NoRequest, NoClaim
  <2>4. BoardExclusive'
    BY <2>2, <2>3 DEF BoardExclusive, RowsMatchState, IsActiveLeg, IsLiveClaim, NoClaim
  <2>5. RowsMatchState'
    BY <2>2, <2>3 DEF BoardExclusive, RowsMatchState, IsActiveLeg, IsLiveClaim, NoClaim,
       AtHubStates
  <2>6. TimersMatchWaits'
    BY <2>1, <2>2, <2>3 DEF TimersMatchWaits, BoardExclusive, RowsMatchState, IsActiveLeg,
       IsLiveClaim, AtHubStates
  <2>7. QED
    BY <2>4, <2>5, <2>6 DEF BoardInv
<1>3. ASSUME NEW s \in StayId, origin_hub_accept(s) PROVE BoardInv'
  <2>1. /\ \A t \in StayId : stay'[t].status = IF t = s THEN "reserved" ELSE stay[t].status
        /\ leg' = leg /\ claim' = claim
        /\ state = "DRAFT" /\ state' = "AWAITING_DROPOFF"
        /\ stay[s].status = "none"
    BY <1>3 DEF origin_hub_accept, RowsTyped
  <2>2. BoardExclusive'
    BY <2>1 DEF BoardExclusive, RowsMatchState, IsActiveLeg, IsLiveClaim, NoClaim
  <2>3. RowsMatchState'
    BY <2>1 DEF BoardExclusive, RowsMatchState, IsActiveLeg, IsLiveClaim, NoClaim,
       AtHubStates
  <2>4. TimersMatchWaits'
    BY <1>3, <2>1 DEF origin_hub_accept, TimersMatchWaits, BoardExclusive, RowsMatchState,
       IsActiveLeg, IsLiveClaim, AtHubStates
  <2>5. QED
    BY <2>2, <2>3, <2>4 DEF BoardInv
<1>4. ASSUME origin_checkin PROVE BoardInv'
  <2>1. PICK s \in StayId : origin_checkin!(s)
    BY <1>4 DEF origin_checkin
  <2>2. /\ \A t \in StayId : stay'[t].status = IF t = s THEN "active" ELSE stay[t].status
        /\ leg' = leg /\ claim' = claim
        /\ state = "AWAITING_DROPOFF" /\ state' = "AT_HUB"
    BY <2>1 DEF RowsTyped
  <2>3. stay[s].status = "reserved"
    BY <2>1 DEF IsCurrentStay, AtHubStates
  <2>4. \A t \in StayId : stay[t].status # "active"
    BY <2>2, <2>3 DEF RowsMatchState, AtHubStates
  <2>5. BoardExclusive'
    BY <2>2, <2>3, <2>4 DEF BoardExclusive, RowsMatchState, IsActiveLeg, IsLiveClaim,
       NoClaim
  <2>6. RowsMatchState'
    BY <2>2, <2>3, <2>4 DEF BoardExclusive, RowsMatchState, IsActiveLeg, IsLiveClaim,
       NoClaim, AtHubStates
  <2>7. TimersMatchWaits'
    BY <2>1, <2>2, <2>3, <2>4 DEF TimersMatchWaits, BoardExclusive, RowsMatchState,
       IsActiveLeg, IsLiveClaim, AtHubStates
  <2>8. QED
    BY <2>5, <2>6, <2>7 DEF BoardInv
<1>5. ASSUME NEW l \in LegId, NEW h \in Hub, NEW b \in BOOLEAN, leg_request(l, h, b) PROVE
       BoardInv'
  <2>1. PICK s \in StayId : leg_request(l, h, b)!(s)
    BY <1>5 DEF leg_request
  <2>2. /\ \A k \in LegId : leg'[k].status = IF k = l THEN "requested" ELSE leg[k].status
        /\ stay' = stay /\ claim' = claim
        /\ state = "AT_HUB" /\ state' = "AT_HUB"
        /\ leg[l].status = "none"
    BY <2>1 DEF RowsTyped
  <2>3. /\ stay[s].status = "active"
        /\ \A k \in LegId : leg[k].status \notin {"requested", "pending_funding", "booked", "picked_up"}
        /\ \A d \in ClaimId : claim[d].status \notin {"pending_funding", "funded"}
    BY <2>1 DEF IsCurrentStay, IsActiveLeg, IsLiveClaim, NoLeg, NoRequest, NoClaim
  <2>4. BoardExclusive'
    BY <2>2, <2>3 DEF BoardExclusive, RowsMatchState, IsActiveLeg, IsLiveClaim, NoClaim
  <2>5. RowsMatchState'
    BY <2>2, <2>3 DEF BoardExclusive, RowsMatchState, IsActiveLeg, IsLiveClaim, NoClaim,
       AtHubStates
  <2>6. TimersMatchWaits'
    BY <2>1, <2>2, <2>3 DEF TimersMatchWaits, BoardExclusive, RowsMatchState, IsActiveLeg,
       IsLiveClaim, AtHubStates
  <2>7. QED
    BY <2>4, <2>5, <2>6 DEF BoardInv
<1>6. ASSUME NEW l \in LegId, NEW a \in StayId, deposit_accept(l, a) PROVE BoardInv'
  <2>1. /\ \A t \in StayId : stay'[t].status = IF t = a THEN "reserved" ELSE stay[t].status
        /\ \A k \in LegId : leg'[k].status = IF k = l THEN "pending_funding" ELSE leg[k].status
        /\ claim' = claim
        /\ state = "AT_HUB" /\ state' = "AT_HUB"
        /\ stay[a].status = "none"
        /\ leg[l].status = "requested"
    BY <1>6 DEF deposit_accept, RowsTyped
  <2>2. \A k \in LegId : leg[k].status \notin {"pending_funding", "booked", "picked_up"}
    BY <1>6 DEF deposit_accept, IsActiveLeg, NoLeg
  <2>3. BoardExclusive'
    BY <2>1, <2>2 DEF BoardExclusive, RowsMatchState, IsActiveLeg, IsLiveClaim, NoClaim
  <2>4. RowsMatchState'
    BY <2>1, <2>2 DEF BoardExclusive, RowsMatchState, IsActiveLeg, IsLiveClaim, NoClaim,
       AtHubStates
  <2>5. TimersMatchWaits'
    BY <1>6, <2>1, <2>2 DEF deposit_accept, TimersMatchWaits, BoardExclusive,
       RowsMatchState, IsActiveLeg, IsLiveClaim, AtHubStates
  <2>6. QED
    BY <2>3, <2>4, <2>5 DEF BoardInv
<1>7. ASSUME NEW l \in LegId, CloseRequest(l) PROVE BoardInv'
  <2>1. /\ \A k \in LegId : leg'[k].status = IF k = l THEN "expired" ELSE leg[k].status
        /\ stay' = stay /\ claim' = claim
        /\ state = "AT_HUB" /\ state' = "AT_HUB"
        /\ leg[l].status = "requested"
    BY <1>7 DEF CloseRequest, RowsTyped
  <2>2. BoardExclusive'
    BY <2>1 DEF BoardExclusive, RowsMatchState, IsActiveLeg, IsLiveClaim, NoClaim
  <2>3. RowsMatchState'
    BY <2>1 DEF BoardExclusive, RowsMatchState, IsActiveLeg, IsLiveClaim, NoClaim,
       AtHubStates
  <2>4. TimersMatchWaits'
    BY <1>7, <2>1 DEF CloseRequest, TimersMatchWaits, BoardExclusive, RowsMatchState,
       IsActiveLeg, IsLiveClaim, AtHubStates
  <2>5. QED
    BY <2>2, <2>3, <2>4 DEF BoardInv
<1>8. ASSUME leg_funded PROVE BoardInv'
  <2>1. PICK l \in LegId, s, a \in StayId : leg_funded!(l, s, a)
    BY <1>8 DEF leg_funded
  <2>2. /\ \A k \in LegId : leg'[k].status = IF k = l THEN "booked" ELSE leg[k].status
        /\ stay' = stay /\ claim' = claim
        /\ state = "AT_HUB" /\ state' = "LEG_BOOKED"
        /\ leg[l].status = "pending_funding"
    BY <2>1 DEF RowsTyped
  <2>3. /\ stay[s].status = "active"
        /\ stay[a].status = "reserved"
    BY <2>1 DEF IsCurrentStay, IsArrival, AtHubStates
  <2>4. BoardExclusive'
    BY <2>2, <2>3 DEF BoardExclusive, RowsMatchState, IsActiveLeg, IsLiveClaim, NoClaim
  <2>5. RowsMatchState'
    BY <2>2, <2>3 DEF BoardExclusive, RowsMatchState, IsActiveLeg, IsLiveClaim, NoClaim,
       AtHubStates
  <2>6. TimersMatchWaits'
    BY <2>1, <2>2, <2>3 DEF TimersMatchWaits, BoardExclusive, RowsMatchState, IsActiveLeg,
       IsLiveClaim, AtHubStates, BookedTimers
  <2>7. QED
    BY <2>4, <2>5, <2>6 DEF BoardInv
<1>9. ASSUME NEW l \in LegId, leg_funding_expired(l) PROVE BoardInv'
  <2>1. PICK a \in StayId : leg_funding_expired(l)!(a)
    BY <1>9 DEF leg_funding_expired
  <2>2. /\ \A t \in StayId : stay'[t].status = IF t = a THEN "expired" ELSE stay[t].status
        /\ \A k \in LegId : leg'[k].status = IF k = l THEN "expired" ELSE leg[k].status
        /\ claim' = claim
        /\ state = "AT_HUB" /\ state' = "AT_HUB"
    BY <2>1 DEF RowsTyped, CloseLeg
  <2>3. /\ stay[a].status = "reserved"
        /\ leg[l].status = "pending_funding"
    BY <2>1 DEF IsArrival
  <2>4. BoardExclusive'
    BY <2>2, <2>3 DEF BoardExclusive, RowsMatchState, IsActiveLeg, IsLiveClaim, NoClaim
  <2>5. RowsMatchState'
    BY <2>2, <2>3 DEF BoardExclusive, RowsMatchState, IsActiveLeg, IsLiveClaim, NoClaim,
       AtHubStates
  <2>6. TimersMatchWaits'
    BY <2>1, <2>2, <2>3 DEF TimersMatchWaits, BoardExclusive, RowsMatchState, IsActiveLeg,
       IsLiveClaim, AtHubStates
  <2>7. QED
    BY <2>4, <2>5, <2>6 DEF BoardInv
<1>10. ASSUME pickup_checkout PROVE BoardInv'
  <2>1. PICK l \in LegId, s \in StayId : pickup_checkout!(l, s)
    BY <1>10 DEF pickup_checkout
  <2>2. /\ \A t \in StayId : stay'[t].status = IF t = s THEN "released" ELSE stay[t].status
        /\ \A k \in LegId : leg'[k].status = IF k = l THEN "picked_up" ELSE leg[k].status
        /\ claim' = claim
        /\ state = "LEG_BOOKED" /\ state' = "IN_TRANSIT"
    BY <2>1 DEF RowsTyped
  <2>3. /\ stay[s].status = "active"
        /\ leg[l].status = "booked"
    BY <2>1 DEF IsCurrentStay, AtHubStates
  <2>4. BoardExclusive'
    BY <2>2, <2>3 DEF BoardExclusive, RowsMatchState, IsActiveLeg, IsLiveClaim, NoClaim
  <2>5. RowsMatchState'
    BY <2>2, <2>3 DEF BoardExclusive, RowsMatchState, IsActiveLeg, IsLiveClaim, NoClaim,
       AtHubStates
  <2>6. TimersMatchWaits'
    BY <2>1, <2>2, <2>3 DEF TimersMatchWaits, BoardExclusive, RowsMatchState, IsActiveLeg,
       IsLiveClaim, AtHubStates
  <2>7. QED
    BY <2>4, <2>5, <2>6 DEF BoardInv
<1>11. ASSUME NEW l \in LegId, pickup_timeout(l) PROVE BoardInv'
  <2>1. PICK s, a \in StayId : pickup_timeout(l)!(s, a)
    BY <1>11 DEF pickup_timeout
  <2>2. /\ \A t \in StayId : stay'[t].status = IF t = a THEN "expired" ELSE stay[t].status
        /\ \A k \in LegId : leg'[k].status = IF k = l THEN "failed" ELSE leg[k].status
        /\ claim' = claim
        /\ state = "LEG_BOOKED" /\ state' = "AT_HUB"
    BY <2>1 DEF RowsTyped, CloseLeg
  <2>3. /\ stay[s].status = "active"
        /\ stay[a].status = "reserved"
        /\ leg[l].status = "booked"
    BY <2>1 DEF IsCurrentStay, IsArrival, AtHubStates
  <2>4. BoardExclusive'
    BY <2>2, <2>3 DEF BoardExclusive, RowsMatchState, IsActiveLeg, IsLiveClaim, NoClaim
  <2>5. RowsMatchState'
    BY <2>2, <2>3 DEF BoardExclusive, RowsMatchState, IsActiveLeg, IsLiveClaim, NoClaim,
       AtHubStates
  <2>6. TimersMatchWaits'
    BY <2>1, <2>2, <2>3 DEF TimersMatchWaits, BoardExclusive, RowsMatchState, IsActiveLeg,
       IsLiveClaim, AtHubStates
  <2>7. QED
    BY <2>4, <2>5, <2>6 DEF BoardInv
<1>12. ASSUME leg_checkin PROVE BoardInv'
  <2>1. PICK l \in LegId, a \in StayId : leg_checkin!(l, a)
    BY <1>12 DEF leg_checkin
  <2>2. /\ \A t \in StayId : stay'[t].status = IF t = a THEN "active" ELSE stay[t].status
        /\ \A k \in LegId : leg'[k].status = IF k = l THEN "completed" ELSE leg[k].status
        /\ claim' = claim
        /\ state = "IN_TRANSIT" /\ state' \in {"AWAITING_PICKUP", "AT_HUB"}
    BY <2>1 DEF RowsTyped
  <2>3. /\ stay[a].status = "reserved"
        /\ leg[l].status = "picked_up"
    BY <2>1 DEF IsArrival
  <2>4. \A t \in StayId : stay[t].status # "active"
    BY <2>2, <2>3 DEF RowsMatchState, AtHubStates
  <2>5. BoardExclusive'
    BY <2>2, <2>3, <2>4 DEF BoardExclusive, RowsMatchState, IsActiveLeg, IsLiveClaim,
       NoClaim
  <2>6. RowsMatchState'
    BY <2>2, <2>3, <2>4 DEF BoardExclusive, RowsMatchState, IsActiveLeg, IsLiveClaim,
       NoClaim, AtHubStates
  <2>7. TimersMatchWaits'
    BY <2>1, <2>2, <2>3, <2>4 DEF TimersMatchWaits, BoardExclusive, RowsMatchState,
       IsActiveLeg, IsLiveClaim, AtHubStates
  <2>8. QED
    BY <2>5, <2>6, <2>7 DEF BoardInv
<1>13. ASSUME NEW r \in StayId, leg_return(r) PROVE BoardInv'
  <2>1. PICK l \in LegId, a \in StayId : leg_return(r)!(l, a)
    BY <1>13 DEF leg_return
  <2>2. /\ \A t \in StayId : stay'[t].status =
             IF t = r THEN "active" ELSE IF t = a THEN "expired" ELSE stay[t].status
        /\ \A k \in LegId : leg'[k].status = IF k = l THEN "returned" ELSE leg[k].status
        /\ claim' = claim
        /\ state = "IN_TRANSIT" /\ state' = "AT_HUB"
    BY <2>1 DEF RowsTyped
  <2>3. /\ stay[a].status = "reserved"
        /\ stay[r].status = "none"
        /\ leg[l].status = "picked_up"
    BY <2>1 DEF IsArrival
  <2>4. \A t \in StayId : stay[t].status # "active"
    BY <2>2, <2>3 DEF RowsMatchState, AtHubStates
  <2>5. BoardExclusive'
    BY <2>2, <2>3, <2>4 DEF BoardExclusive, RowsMatchState, IsActiveLeg, IsLiveClaim,
       NoClaim
  <2>6. RowsMatchState'
    BY <2>2, <2>3, <2>4 DEF BoardExclusive, RowsMatchState, IsActiveLeg, IsLiveClaim,
       NoClaim, AtHubStates
  <2>7. TimersMatchWaits'
    <3>1. timers' = (timers \ {<<"transit", l>>}) \cup {<<"storage", r>>}
      BY <2>1
    <3>2. \A t \in StayId : <<"storage", t>> \in timers' <=> stay'[t].status = "active"
      <4>1. \A t \in StayId : <<"storage", t>> \in timers' <=> <<"storage", t>> \in timers \/ t = r
        BY <3>1
      <4>2. QED
        BY <2>2, <2>3, <2>4, <4>1 DEF TimersMatchWaits
    <3>3. \A k \in LegId :
            /\ <<"deposit_response", k>> \in timers' <=> leg'[k].status = "requested"
            /\ <<"leg_funding", k>> \in timers' <=> leg'[k].status = "pending_funding"
            /\ <<"pickup", k>> \in timers' <=> leg'[k].status = "booked"
            /\ <<"transit", k>> \in timers' <=> leg'[k].status = "picked_up"
      <4> TAKE k \in LegId
      <4>1. \A t \in {"deposit_response", "leg_funding", "pickup"} :
              <<t, k>> \in timers' <=> <<t, k>> \in timers
        BY <3>1
      <4>2. <<"transit", k>> \in timers' <=> <<"transit", k>> \in timers /\ k # l
        BY <3>1
      <4>3. leg'[k].status = IF k = l THEN "returned" ELSE leg[k].status
        BY <2>2
      <4>4. QED
        BY <2>3, <4>1, <4>2, <4>3 DEF TimersMatchWaits
    <3>4. \A d \in ClaimId :
            <<"claim_funding", d>> \in timers' <=> claim'[d].status = "pending_funding"
      BY <2>2, <3>1 DEF TimersMatchWaits
    <3>5. QED
      BY <2>2, <3>2, <3>3, <3>4 DEF TimersMatchWaits
  <2>8. QED
    BY <2>5, <2>6, <2>7 DEF BoardInv
<1>14. ASSUME NEW l \in LegId, transit_timeout(l) PROVE BoardInv'
  <2>1. PICK a \in StayId : transit_timeout(l)!(a)
    BY <1>14 DEF transit_timeout
  <2>2. /\ \A t \in StayId : stay'[t].status = IF t = a THEN "expired" ELSE stay[t].status
        /\ \A k \in LegId : leg'[k].status = IF k = l THEN "failed" ELSE leg[k].status
        /\ claim' = claim
        /\ state = "IN_TRANSIT" /\ state' = "LOST"
    BY <2>1 DEF RowsTyped, CloseLeg
  <2>3. /\ stay[a].status = "reserved"
        /\ leg[l].status = "picked_up"
    BY <2>1 DEF IsArrival
  <2>4. BoardExclusive'
    BY <2>2, <2>3 DEF BoardExclusive, RowsMatchState, IsActiveLeg, IsLiveClaim, NoClaim
  <2>5. RowsMatchState'
    BY <2>2, <2>3 DEF BoardExclusive, RowsMatchState, IsActiveLeg, IsLiveClaim, NoClaim,
       AtHubStates
  <2>6. TimersMatchWaits'
    BY <2>1, <2>2, <2>3 DEF TimersMatchWaits, BoardExclusive, RowsMatchState, IsActiveLeg,
       IsLiveClaim, AtHubStates
  <2>7. QED
    BY <2>4, <2>5, <2>6 DEF BoardInv
<1>15. ASSUME recipient_pickup PROVE BoardInv'
  <2>1. PICK s \in StayId : recipient_pickup!(s)
    BY <1>15 DEF recipient_pickup
  <2>2. /\ \A t \in StayId : stay'[t].status = IF t = s THEN "released" ELSE stay[t].status
        /\ leg' = leg /\ claim' = claim
        /\ state = "AWAITING_PICKUP" /\ state' = "DELIVERED"
    BY <2>1 DEF RowsTyped, EndStay
  <2>3. stay[s].status = "active"
    BY <2>1 DEF IsCurrentStay, AtHubStates
  <2>4. BoardExclusive'
    BY <2>2, <2>3 DEF BoardExclusive, RowsMatchState, IsActiveLeg, IsLiveClaim, NoClaim
  <2>5. RowsMatchState'
    BY <2>2, <2>3 DEF BoardExclusive, RowsMatchState, IsActiveLeg, IsLiveClaim, NoClaim,
       AtHubStates
  <2>6. TimersMatchWaits'
    BY <2>1, <2>2, <2>3 DEF TimersMatchWaits, BoardExclusive, RowsMatchState, IsActiveLeg,
       IsLiveClaim, AtHubStates, EndStay
  <2>7. QED
    BY <2>4, <2>5, <2>6 DEF BoardInv
<1>16. ASSUME NEW c \in ClaimId, NEW b \in BOOLEAN, recipient_claim(c, b) PROVE BoardInv'
  <2>1. PICK s \in StayId : recipient_claim(c, b)!(s)
    BY <1>16 DEF recipient_claim
  <2>2. /\ stay' = stay /\ leg' = leg
        /\ \A d \in ClaimId : d # c => claim'[d] = claim[d]
        /\ claim'[c].status = "pending_funding" /\ claim'[c].stay = s
        /\ state = "AT_HUB" /\ state' = "AT_HUB"
        /\ claim[c].status = "none"
    BY <2>1 DEF RowsTyped
  <2>3. /\ stay[s].status = "active"
        /\ \A k \in LegId : leg[k].status \notin {"requested", "pending_funding", "booked", "picked_up"}
        /\ \A d \in ClaimId : claim[d].status \notin {"pending_funding", "funded"}
    BY <2>1 DEF IsCurrentStay, IsActiveLeg, IsLiveClaim, NoLeg, NoRequest, NoClaim,
       ClaimGuard
  <2>4. BoardExclusive'
    BY <2>2, <2>3 DEF BoardExclusive, RowsMatchState, IsActiveLeg, IsLiveClaim, NoClaim
  <2>5. RowsMatchState'
    BY <2>2, <2>3 DEF BoardExclusive, RowsMatchState, IsActiveLeg, IsLiveClaim, NoClaim,
       AtHubStates
  <2>6. TimersMatchWaits'
    BY <2>1, <2>2, <2>3 DEF TimersMatchWaits, BoardExclusive, RowsMatchState, IsActiveLeg,
       IsLiveClaim, AtHubStates
  <2>7. QED
    BY <2>4, <2>5, <2>6 DEF BoardInv
<1>17. ASSUME claim_funded PROVE BoardInv'
  <2>1. PICK c \in ClaimId : claim_funded!(c)
    BY <1>17 DEF claim_funded
  <2>2. /\ stay' = stay /\ leg' = leg
        /\ \A d \in ClaimId : claim'[d].stay = claim[d].stay /\ claim'[d].status =
             IF d = c THEN "funded" ELSE claim[d].status
        /\ state = "AT_HUB" /\ state' = "CLAIMED"
        /\ claim[c].status = "pending_funding"
    BY <2>1 DEF RowsTyped
  <2>3. BoardExclusive'
    BY <2>2 DEF BoardExclusive, RowsMatchState, IsActiveLeg, IsLiveClaim, NoClaim
  <2>4. RowsMatchState'
    BY <2>2 DEF BoardExclusive, RowsMatchState, IsActiveLeg, IsLiveClaim, NoClaim,
       AtHubStates
  <2>5. TimersMatchWaits'
    BY <2>1, <2>2 DEF TimersMatchWaits, BoardExclusive, RowsMatchState, IsActiveLeg,
       IsLiveClaim, AtHubStates
  <2>6. QED
    BY <2>3, <2>4, <2>5 DEF BoardInv
<1>18. ASSUME NEW c \in ClaimId, claim_funding_expired(c) PROVE BoardInv'
  <2>1. /\ stay' = stay /\ leg' = leg
        /\ \A d \in ClaimId : claim'[d].stay = claim[d].stay /\ claim'[d].status =
             IF d = c THEN "expired" ELSE claim[d].status
        /\ state = "AT_HUB" /\ state' = "AT_HUB"
        /\ claim[c].status = "pending_funding"
    BY <1>18 DEF claim_funding_expired, RowsTyped
  <2>2. BoardExclusive'
    BY <2>1 DEF BoardExclusive, RowsMatchState, IsActiveLeg, IsLiveClaim, NoClaim
  <2>3. RowsMatchState'
    BY <2>1 DEF BoardExclusive, RowsMatchState, IsActiveLeg, IsLiveClaim, NoClaim,
       AtHubStates
  <2>4. TimersMatchWaits'
    BY <1>18, <2>1 DEF claim_funding_expired, TimersMatchWaits, BoardExclusive,
       RowsMatchState, IsActiveLeg, IsLiveClaim, AtHubStates
  <2>5. QED
    BY <2>2, <2>3, <2>4 DEF BoardInv
<1>19. ASSUME recipient_claimed_pickup PROVE BoardInv'
  <2>1. PICK c \in ClaimId, s \in StayId : recipient_claimed_pickup!(c, s)
    BY <1>19 DEF recipient_claimed_pickup
  <2>2. /\ \A t \in StayId : stay'[t].status = IF t = s THEN "released" ELSE stay[t].status
        /\ leg' = leg
        /\ \A d \in ClaimId : claim'[d].stay = claim[d].stay /\ claim'[d].status =
             IF d = c THEN "completed" ELSE claim[d].status
        /\ state = "CLAIMED" /\ state' = "DELIVERED"
    BY <2>1 DEF RowsTyped, EndStay
  <2>3. /\ stay[s].status = "active"
        /\ claim[c].status = "funded"
    BY <2>1 DEF IsCurrentStay, AtHubStates
  <2>4. BoardExclusive'
    BY <2>2, <2>3 DEF BoardExclusive, RowsMatchState, IsActiveLeg, IsLiveClaim, NoClaim
  <2>5. RowsMatchState'
    BY <2>2, <2>3 DEF BoardExclusive, RowsMatchState, IsActiveLeg, IsLiveClaim, NoClaim,
       AtHubStates
  <2>6. TimersMatchWaits'
    BY <2>1, <2>2, <2>3 DEF TimersMatchWaits, BoardExclusive, RowsMatchState, IsActiveLeg,
       IsLiveClaim, AtHubStates, EndStay
  <2>7. QED
    BY <2>4, <2>5, <2>6 DEF BoardInv
<1>20. ASSUME NEW s \in StayId, storage_expiry(s) PROVE BoardInv'
  <2>1. /\ \A t \in StayId : stay'[t].status =
             IF t = s \/ t \in Arrivals THEN "expired" ELSE stay[t].status
        /\ \A k \in LegId : leg'[k].status =
             IF k \in PendingLegs \cup RequestedLegs THEN "expired" ELSE leg[k].status
        /\ \A d \in ClaimId : claim'[d].status =
             IF d \in LiveClaims THEN "expired" ELSE claim[d].status
        /\ state \in {"AT_HUB", "AWAITING_PICKUP", "CLAIMED"} /\ state' = "FORFEITED"
    BY <1>20 DEF storage_expiry, RowsTyped
  <2>2. stay[s].status = "active"
    BY <1>20 DEF storage_expiry, IsCurrentStay, AtHubStates
  <2>3. \A k \in LegId : leg'[k].status \notin
             {"requested", "pending_funding", "booked", "picked_up"}
    BY <2>1, <2>2 DEF PendingLegs, RequestedLegs, IsActiveLeg
  <2>4. \A d \in ClaimId : claim'[d].status \notin {"pending_funding", "funded"}
    BY <2>1, <2>2, <2>3 DEF LiveClaims, IsLiveClaim
  <2>5. \A t \in StayId : stay'[t].status \notin {"reserved", "active"}
    BY <2>1, <2>2, <2>3, <2>4 DEF Arrivals, PendingLegs, IsActiveLeg, IsArrival,
       BoardExclusive, RowsMatchState
  <2>6. BoardExclusive'
    BY <2>1, <2>2, <2>3, <2>4, <2>5 DEF BoardExclusive, RowsMatchState, IsActiveLeg,
       IsLiveClaim, NoClaim
  <2>7. RowsMatchState'
    BY <2>1, <2>2, <2>3, <2>4, <2>5 DEF BoardExclusive, RowsMatchState, IsActiveLeg,
       IsLiveClaim, NoClaim, AtHubStates
  <2>8. TimersMatchWaits'
    BY <1>20, <2>1, <2>2, <2>3, <2>4, <2>5 DEF storage_expiry, TimersMatchWaits,
       BoardExclusive, RowsMatchState, IsActiveLeg, IsLiveClaim, AtHubStates
  <2>9. QED
    BY <2>6, <2>7, <2>8 DEF BoardInv
<1>21. ASSUME cancel_draft PROVE BoardInv'
  <2>1. /\ stay' = stay /\ leg' = leg /\ claim' = claim
        /\ state = "DRAFT" /\ state' = "CANCELLED"
    BY <1>21 DEF cancel_draft, RowsTyped, rows
  <2>2. BoardExclusive'
    BY <2>1 DEF BoardExclusive, RowsMatchState, IsActiveLeg, IsLiveClaim, NoClaim
  <2>3. RowsMatchState'
    BY <2>1 DEF BoardExclusive, RowsMatchState, IsActiveLeg, IsLiveClaim, NoClaim,
       AtHubStates
  <2>4. TimersMatchWaits'
    BY <1>21, <2>1 DEF cancel_draft, TimersMatchWaits, BoardExclusive, RowsMatchState,
       IsActiveLeg, IsLiveClaim, AtHubStates, rows
  <2>5. QED
    BY <2>2, <2>3, <2>4 DEF BoardInv
<1>22. ASSUME cancel PROVE BoardInv'
  <2>1. PICK s \in StayId : cancel!(s)
    BY <1>22 DEF cancel
  <2>2. /\ \A t \in StayId : stay'[t].status = IF t = s THEN "released" ELSE stay[t].status
        /\ leg' = leg /\ claim' = claim
        /\ state \in {"AWAITING_DROPOFF", "AT_HUB"} /\ state' = "CANCELLED"
    BY <2>1 DEF RowsTyped, EndStay
  <2>3. /\ stay[s].status = IF state = "AT_HUB" THEN "active" ELSE "reserved"
        /\ state = "AT_HUB" => /\ \A k \in LegId : leg[k].status \notin {"requested", "pending_funding", "booked", "picked_up"}
                             /\ \A d \in ClaimId : claim[d].status \notin {"pending_funding", "funded"}
    BY <2>1 DEF IsCurrentStay, IsActiveLeg, IsLiveClaim, NoLeg, NoRequest, NoClaim,
       AtHubStates
  <2>4. BoardExclusive'
    BY <2>2, <2>3 DEF BoardExclusive, RowsMatchState, IsActiveLeg, IsLiveClaim, NoClaim
  <2>5. RowsMatchState'
    BY <2>2, <2>3 DEF BoardExclusive, RowsMatchState, IsActiveLeg, IsLiveClaim, NoClaim,
       AtHubStates
  <2>6. TimersMatchWaits'
    BY <2>1, <2>2, <2>3 DEF TimersMatchWaits, BoardExclusive, RowsMatchState, IsActiveLeg,
       IsLiveClaim, AtHubStates, EndStay
  <2>7. QED
    BY <2>4, <2>5, <2>6 DEF BoardInv
<1>23. ASSUME UNCHANGED <<state, rows, timers>> PROVE BoardInv'
  <2>1. BoardExclusive'
    BY <1>23 DEF rows, BoardExclusive, IsActiveLeg, IsLiveClaim, NoClaim
  <2>2. RowsMatchState'
    BY <1>23 DEF rows, RowsMatchState, IsActiveLeg, IsLiveClaim
  <2>3. TimersMatchWaits'
    BY <1>23 DEF rows, TimersMatchWaits
  <2>4. QED
    BY <2>1, <2>2, <2>3 DEF BoardInv
<1>24. ASSUME NEW p \in Payment,
             PaymentHeld(p) \/ HoldLapses(p) \/ HoldDies(p) \/ ExecuteRelease(p) \/ ExecuteRefund(p)
      PROVE  BoardInv'
  BY <1>23, <1>24 DEF PaymentHeld, HoldLapses, HoldDies, ExecuteRelease, ExecuteRefund,
     PaymentUnchanged
<1>25. ASSUME NEW r \in Row, Elapse(r) PROVE BoardInv'
  BY <1>23, <1>25 DEF Elapse
<1>26. CASE UNCHANGED vars
  BY <1>23, <1>26 DEF vars
<1>27. QED
  BY <1>1, <1>2, <1>3, <1>4, <1>5, <1>6, <1>7, <1>8, <1>9, <1>10, <1>11, <1>12, <1>13,
     <1>14, <1>15, <1>16, <1>17, <1>18, <1>19, <1>20, <1>21, <1>22, <1>24, <1>25, <1>26
     DEF Next, User, Sweep, Pump, Wallets, Verbs, Clock, deposit_reject,
     deposit_request_cancel, deposit_request_expired

\* The board stays exclusive.
THEOREM BoardStaysExclusive == Spec => []BoardExclusive
<1>1. BoardInv => BoardExclusive
  BY DEF BoardInv
<1>2. QED
  BY BoardInit, BoardStep, <1>1, PTL DEF Spec

\* The rows that are open are those the state calls for.
THEOREM RowsAlwaysMatchState == Spec => []RowsMatchState
<1>1. BoardInv => RowsMatchState
  BY DEF BoardInv
<1>2. QED
  BY BoardInit, BoardStep, <1>1, PTL DEF Spec

\* No wait is ever without its timer and no timer outlives its wait.
THEOREM TimersAlwaysMatchWaits == Spec => []TimersMatchWaits
<1>1. BoardInv => TimersMatchWaits
  BY DEF BoardInv
<1>2. QED
  BY BoardInit, BoardStep, <1>1, PTL DEF Spec

-----------------------------------------------------------------------------
(* What each event of Shipment does to the rows and to the money, row by   *)
(* row and payment by payment, in the form the proofs about the money use. *)

-----------------------------------------------------------------------------
(* The names of the payments *)

\* Two payments of different purposes, or of different rows, are different:
\* idempotency keys never collide.
LEMMA NamesDistinct ==
  /\ \A s, t \in StayId :
       /\ HubBond(s) = HubBond(t) => s = t
       /\ HubBonus(s) = HubBonus(t) => s = t
       /\ HubBond(s) # HubBonus(t)
  /\ \A l, k \in LegId :
       /\ LegPayment(l) = LegPayment(k) => l = k
       /\ CarrierBond(l) = CarrierBond(k) => l = k
       /\ LegPayment(l) # CarrierBond(k)
  /\ \A c, d \in ClaimId :
       /\ ClaimPayment(c) = ClaimPayment(d) => c = d
       /\ ClaimBonus(c) = ClaimBonus(d) => c = d
       /\ ClaimPayment(c) # ClaimBonus(d)
  /\ \A s \in StayId, l \in LegId :
       /\ HubBond(s) # LegPayment(l) /\ HubBond(s) # CarrierBond(l)
       /\ HubBonus(s) # LegPayment(l) /\ HubBonus(s) # CarrierBond(l)
  /\ \A s \in StayId, c \in ClaimId :
       /\ HubBond(s) # ClaimPayment(c) /\ HubBond(s) # ClaimBonus(c)
       /\ HubBonus(s) # ClaimPayment(c) /\ HubBonus(s) # ClaimBonus(c)
  /\ \A l \in LegId, c \in ClaimId :
       /\ LegPayment(l) # ClaimPayment(c) /\ LegPayment(l) # ClaimBonus(c)
       /\ CarrierBond(l) # ClaimPayment(c) /\ CarrierBond(l) # ClaimBonus(c)
<1>1. \A x, y, u, v : <<x, y>> = <<u, v>> <=> x = u /\ y = v
  OBVIOUS
<1>2. \A s \in StayId, l \in LegId : s # l
  BY IdsDisjoint
<1>3. \A s \in StayId, c \in ClaimId : s # c
  BY IdsDisjoint
<1>4. \A l \in LegId, c \in ClaimId : l # c
  BY IdsDisjoint
<1>5. QED
  BY <1>1, <1>2, <1>3, <1>4
     DEF HubBond, HubBonus, LegPayment, CarrierBond, ClaimPayment, ClaimBonus

\* Each of the six kinds of names is a payment, and there are no others.
LEMMA PaymentKinds ==
  /\ \A s \in StayId : HubBond(s) \in Payment /\ HubBonus(s) \in Payment
  /\ \A l \in LegId : LegPayment(l) \in Payment /\ CarrierBond(l) \in Payment
  /\ \A c \in ClaimId : ClaimPayment(c) \in Payment /\ ClaimBonus(c) \in Payment
  /\ \A p \in Payment :
       \/ \E s \in StayId : p = HubBond(s) \/ p = HubBonus(s)
       \/ \E l \in LegId : p = LegPayment(l) \/ p = CarrierBond(l)
       \/ \E c \in ClaimId : p = ClaimPayment(c) \/ p = ClaimBonus(c)
  BY DEF Payment, HubBond, HubBonus, LegPayment, CarrierBond, ClaimPayment, ClaimBonus

-----------------------------------------------------------------------------
(* What a transaction leaves in the journal and among the intents *)

\* A payment's verbs and entries after a commit are those it had and those
\* the commit names it for.
LEMMA CommitAdds ==
  ASSUME NEW R, NEW F, NEW D, NEW H, Commit(R, F, D, H), NEW p
  PROVE  /\ <<p, "release">> \in intents' <=> <<p, "release">> \in intents \/ p \in R
         /\ <<p, "refund">> \in intents' <=> <<p, "refund">> \in intents \/ p \in F \/ p \in D
         /\ <<p, "settled">> \in journal' <=> <<p, "settled">> \in journal \/ p \in R
         /\ <<p, "refunded">> \in journal' <=> <<p, "refunded">> \in journal \/ p \in F
         /\ <<p, "held">> \in journal' <=> <<p, "held">> \in journal \/ p \in H
  BY DEF Commit, Entries

-----------------------------------------------------------------------------
(* The events, one definition each: what the step leaves, row by row and
   payment by payment *)

\* What a row keeps once it is written: a leg's terms, a claim's bonus.
TermsKept ==
  /\ \A k \in LegId : leg'[k].to = leg[k].to /\ leg'[k].from = leg[k].from
                      /\ leg'[k].bonus = leg[k].bonus
  /\ \A d \in ClaimId : claim'[d].bonus = claim[d].bonus
  /\ \A t \in StayId : stay[t].status # "none" => stay'[t].hub = stay[t].hub

RowsKept ==
  /\ \A t \in StayId : stay'[t].status = stay[t].status
  /\ \A k \in LegId : leg'[k].status = leg[k].status
  /\ \A d \in ClaimId : claim'[d].status = claim[d].status
  /\ TermsKept

\* An origin hub is asked: nothing moves.
Created(d) ==
  /\ state = "NONE" /\ state' = "DRAFT" /\ dest' = d /\ d # OriginHub
  /\ RowsKept /\ UNCHANGED money

\* A reroute moves neither rows nor holds, and gives the bonus back at the counter.
Rerouted(d, s) ==
  /\ state \in {"AT_HUB", "AWAITING_PICKUP"} /\ state' = "AT_HUB"
  /\ stay[s].status = "active" /\ dest' = d /\ d # stay[s].hub
  /\ \A k \in LegId : leg[k].status # "requested" /\ ~ IsActiveLeg(k)
  /\ RowsKept /\ pay' = pay
  /\ Commit({}, IF state = "AWAITING_PICKUP" THEN BonusHold ELSE {}, {}, {})

\* The origin hub accepts with its bond held and recognised.
Accepted(s) ==
  /\ state = "DRAFT" /\ state' = "AWAITING_DROPOFF" /\ dest' = dest
  /\ stay[s].status = "none" /\ stay'[s].hub = OriginHub
  /\ \A t \in StayId : stay'[t].status = IF t = s THEN "reserved" ELSE stay[t].status
  /\ \A k \in LegId : leg'[k].status = leg[k].status
  /\ \A d \in ClaimId : claim'[d].status = claim[d].status
  /\ TermsKept
  /\ \A p \in Payment : pay'[p] = IF p = HubBond(s) THEN "held" ELSE pay[p]
  /\ Commit({}, {}, {}, {HubBond(s)})

\* The parcel reaches the origin hub.
CheckedIn(s) ==
  /\ state = "AWAITING_DROPOFF" /\ state' = "AT_HUB" /\ dest' = dest
  /\ stay[s].status = "reserved"
  /\ \A t \in StayId : stay'[t].status = IF t = s THEN "active" ELSE stay[t].status
  /\ \A k \in LegId : leg'[k].status = leg[k].status
  /\ \A d \in ClaimId : claim'[d].status = claim[d].status
  /\ TermsKept /\ UNCHANGED money

\* A carrier asks for a deposit: only the leg's row is written.
Requested(l, h, b, s) ==
  /\ state = "AT_HUB" /\ state' = "AT_HUB" /\ dest' = dest
  /\ stay[s].status = "active" /\ leg[l].status = "none"
  /\ \A k \in LegId : leg[k].status # "requested" /\ ~ IsActiveLeg(k)
  /\ \A k \in LegId : leg'[k].status = IF k = l THEN "requested" ELSE leg[k].status
  /\ \A t \in StayId : stay'[t].status = stay[t].status
  /\ \A d \in ClaimId : claim'[d].status = claim[d].status
  /\ leg'[l].from = stay[s].hub /\ leg'[l].to = h /\ leg'[l].bonus = b /\ (b => h = dest)
  /\ \A k \in LegId : k # l => leg'[k] = leg[k]
  /\ \A d \in ClaimId : claim'[d].bonus = claim[d].bonus
  /\ \A t \in StayId : stay'[t].hub = stay[t].hub
  /\ UNCHANGED money

\* The next hub accepts the deposit: the holds of the leg are created.
Deposited(l, a) ==
  /\ state = "AT_HUB" /\ state' = "AT_HUB" /\ dest' = dest
  /\ stay[a].status = "none" /\ leg[l].status = "requested"
  /\ \A k \in LegId : ~ IsActiveLeg(k)
  /\ BonusHold = {}
  /\ \A t \in StayId : stay'[t].status = IF t = a THEN "reserved" ELSE stay[t].status
  /\ \A k \in LegId : leg'[k].status = IF k = l THEN "pending_funding" ELSE leg[k].status
  /\ \A d \in ClaimId : claim'[d].status = claim[d].status
  /\ TermsKept /\ stay'[a].hub = leg[l].to
  /\ \A p \in Payment : pay'[p] = IF p \in AcceptedHolds(l, a) THEN "created" ELSE pay[p]
  /\ UNCHANGED <<journal, intents>>

\* A request that is rejected, withdrawn or expired leaves no trace in the money.
RequestClosed(l) ==
  /\ state = "AT_HUB" /\ state' = "AT_HUB" /\ dest' = dest
  /\ leg[l].status = "requested"
  /\ \A k \in LegId : leg'[k].status = IF k = l THEN "expired" ELSE leg[k].status
  /\ \A t \in StayId : stay'[t].status = stay[t].status
  /\ \A d \in ClaimId : claim'[d].status = claim[d].status
  /\ TermsKept /\ UNCHANGED money

\* The pump books a leg all of whose holds it saw held.
Booked(l, s, a) ==
  /\ state = "AT_HUB" /\ state' = "LEG_BOOKED" /\ dest' = dest
  /\ stay[s].status = "active" /\ stay[a].status = "reserved"
  /\ leg[l].status = "pending_funding"
  /\ \A p \in LegHolds(l, a) \cup BonusHold : pay[p] = "held"
  /\ \A k \in LegId : leg'[k].status = IF k = l THEN "booked" ELSE leg[k].status
  /\ \A t \in StayId : stay'[t].status = stay[t].status
  /\ \A d \in ClaimId : claim'[d].status = claim[d].status
  /\ TermsKept /\ pay' = pay
  /\ Commit({}, {}, {}, LegHolds(l, a) \cup BonusHold)

\* An unfunded leg is closed and its holds dissolved.
LegUnfunded(l, a) ==
  /\ state = "AT_HUB" /\ state' = "AT_HUB" /\ dest' = dest
  /\ stay[a].status = "reserved" /\ leg[l].status = "pending_funding"
  /\ \A t \in StayId : stay'[t].status = IF t = a THEN "expired" ELSE stay[t].status
  /\ \A k \in LegId : leg'[k].status = IF k = l THEN "expired" ELSE leg[k].status
  /\ \A d \in ClaimId : claim'[d].status = claim[d].status
  /\ TermsKept /\ pay' = pay
  /\ Commit({}, {}, LegHolds(l, a) \cup BonusHold, {})

\* The carrier takes the parcel and the hub gets its bond back.
PickedUp(l, s) ==
  /\ state = "LEG_BOOKED" /\ state' = "IN_TRANSIT" /\ dest' = dest
  /\ stay[s].status = "active" /\ leg[l].status = "booked"
  /\ \A t \in StayId : stay'[t].status = IF t = s THEN "released" ELSE stay[t].status
  /\ \A k \in LegId : leg'[k].status = IF k = l THEN "picked_up" ELSE leg[k].status
  /\ \A d \in ClaimId : claim'[d].status = claim[d].status
  /\ TermsKept /\ pay' = pay
  /\ Commit({}, {HubBond(s)}, {}, {})

\* A carrier that does not come loses its bond.
NotPickedUp(l, s, a) ==
  /\ state = "LEG_BOOKED" /\ state' = "AT_HUB" /\ dest' = dest
  /\ stay[s].status = "active" /\ stay[a].status = "reserved"
  /\ leg[l].status = "booked"
  /\ \A t \in StayId : stay'[t].status = IF t = a THEN "expired" ELSE stay[t].status
  /\ \A k \in LegId : leg'[k].status = IF k = l THEN "failed" ELSE leg[k].status
  /\ \A d \in ClaimId : claim'[d].status = claim[d].status
  /\ TermsKept /\ pay' = pay
  /\ Commit({CarrierBond(l)}, {LegPayment(l), HubBond(a)} \cup BonusHold, {}, {})

\* The next hub takes the parcel in: the carrier is paid and unbonded.
Arrived(l, a) ==
  /\ state = "IN_TRANSIT" /\ dest' = dest
  /\ state' = IF leg[l].to = dest THEN "AWAITING_PICKUP" ELSE "AT_HUB"
  /\ stay[a].status = "reserved" /\ leg[l].status = "picked_up"
  /\ \A t \in StayId : stay'[t].status = IF t = a THEN "active" ELSE stay[t].status
  /\ \A k \in LegId : leg'[k].status = IF k = l THEN "completed" ELSE leg[k].status
  /\ \A d \in ClaimId : claim'[d].status = claim[d].status
  /\ TermsKept /\ pay' = pay
  /\ Commit({LegPayment(l)}, {CarrierBond(l)}, {}, {})

\* The carrier brings the parcel back to where it came from.
Returned(r, l, a) ==
  /\ state = "IN_TRANSIT" /\ state' = "AT_HUB" /\ dest' = dest
  /\ stay[a].status = "reserved" /\ stay[r].status = "none" /\ leg[l].status = "picked_up"
  /\ \A t \in StayId : stay'[t].status =
       IF t = r THEN "active" ELSE IF t = a THEN "expired" ELSE stay[t].status
  /\ \A k \in LegId : leg'[k].status = IF k = l THEN "returned" ELSE leg[k].status
  /\ \A d \in ClaimId : claim'[d].status = claim[d].status
  /\ TermsKept /\ stay'[r].hub = leg[l].from
  /\ \A p \in Payment : pay'[p] = IF p = HubBond(r) THEN "held" ELSE pay[p]
  /\ Commit({}, LegHolds(l, a) \cup BonusHold, {}, {HubBond(r)})

\* A parcel that never arrives is lost, and the carrier loses its bond.
GoneMissing(l, a) ==
  /\ state = "IN_TRANSIT" /\ state' = "LOST" /\ dest' = dest
  /\ stay[a].status = "reserved" /\ leg[l].status = "picked_up"
  /\ \A t \in StayId : stay'[t].status = IF t = a THEN "expired" ELSE stay[t].status
  /\ \A k \in LegId : leg'[k].status = IF k = l THEN "failed" ELSE leg[k].status
  /\ \A d \in ClaimId : claim'[d].status = claim[d].status
  /\ TermsKept /\ pay' = pay
  /\ Commit({CarrierBond(l)}, {LegPayment(l), HubBond(a)} \cup BonusHold, {}, {})

\* The recipient takes the parcel at its destination, and the bonus is paid.
Collected(s) ==
  /\ state = "AWAITING_PICKUP" /\ state' = "DELIVERED" /\ dest' = dest
  /\ stay[s].status = "active"
  /\ \A t \in StayId : stay'[t].status = IF t = s THEN "released" ELSE stay[t].status
  /\ \A k \in LegId : leg'[k].status = leg[k].status
  /\ \A d \in ClaimId : claim'[d].status = claim[d].status
  /\ TermsKept /\ pay' = pay
  /\ Commit(BonusHold, {HubBond(s)}, {}, {})

\* The recipient claims the parcel where it is: the holds of the claim are created.
Claimed(c, b, s) ==
  /\ state = "AT_HUB" /\ state' = "AT_HUB" /\ dest' = dest
  /\ stay[s].status = "active" /\ claim[c].status = "none"
  /\ \A k \in LegId : leg[k].status # "requested" /\ ~ IsActiveLeg(k)
  /\ \A d \in ClaimId : ~ IsLiveClaim(d)
  /\ \A d \in ClaimId : claim'[d].status = IF d = c THEN "pending_funding" ELSE claim[d].status
  /\ \A t \in StayId : stay'[t].status = stay[t].status
  /\ \A k \in LegId : leg'[k].status = leg[k].status
  /\ \A k \in LegId : leg'[k] = leg[k]
  /\ \A t \in StayId : stay'[t].hub = stay[t].hub
  /\ claim'[c].bonus = b /\ \A d \in ClaimId : d # c => claim'[d].bonus = claim[d].bonus
  /\ \A p \in Payment : pay'[p] =
       IF p = ClaimPayment(c) \/ (b /\ p = ClaimBonus(c)) THEN "created" ELSE pay[p]
  /\ UNCHANGED <<journal, intents>>

\* The pump funds a claim all of whose holds it saw held.
ClaimBooked(c) ==
  /\ state = "AT_HUB" /\ state' = "CLAIMED" /\ dest' = dest
  /\ claim[c].status = "pending_funding"
  /\ \A p \in ClaimHolds(c) : pay[p] = "held"
  /\ \A d \in ClaimId : claim'[d].status = IF d = c THEN "funded" ELSE claim[d].status
  /\ \A t \in StayId : stay'[t].status = stay[t].status
  /\ \A k \in LegId : leg'[k].status = leg[k].status
  /\ TermsKept /\ pay' = pay
  /\ Commit({}, {}, {}, ClaimHolds(c))

\* An unfunded claim is closed and its holds dissolved.
ClaimUnfunded(c) ==
  /\ state = "AT_HUB" /\ state' = "AT_HUB" /\ dest' = dest
  /\ claim[c].status = "pending_funding"
  /\ \A d \in ClaimId : claim'[d].status = IF d = c THEN "expired" ELSE claim[d].status
  /\ \A t \in StayId : stay'[t].status = stay[t].status
  /\ \A k \in LegId : leg'[k].status = leg[k].status
  /\ TermsKept /\ pay' = pay
  /\ Commit({}, {}, ClaimHolds(c), {})

\* The recipient takes the claimed parcel, and the claim is paid.
ClaimCollected(c, s) ==
  /\ state = "CLAIMED" /\ state' = "DELIVERED" /\ dest' = dest
  /\ stay[s].status = "active" /\ claim[c].status = "funded"
  /\ \A t \in StayId : stay'[t].status = IF t = s THEN "released" ELSE stay[t].status
  /\ \A d \in ClaimId : claim'[d].status = IF d = c THEN "completed" ELSE claim[d].status
  /\ \A k \in LegId : leg'[k].status = leg[k].status
  /\ TermsKept /\ pay' = pay
  /\ Commit(ClaimHolds(c), {HubBond(s)}, {}, {})

\* An expired parcel is forfeited: every open row is closed with it.
Forfeited(s) ==
  /\ state \in {"AT_HUB", "AWAITING_PICKUP", "CLAIMED"} /\ state' = "FORFEITED"
  /\ dest' = dest
  /\ stay[s].status = "active"
  /\ \A t \in StayId : stay'[t].status =
       IF t = s \/ stay[t].status = "reserved" THEN "expired" ELSE stay[t].status
  /\ \A k \in LegId : leg'[k].status =
       IF leg[k].status = "requested" \/ IsActiveLeg(k) THEN "expired" ELSE leg[k].status
  /\ \A d \in ClaimId : claim'[d].status = IF IsLiveClaim(d) THEN "expired" ELSE claim[d].status
  /\ TermsKept /\ pay' = pay
  /\ Commit({}, {HubBond(s)} \cup ForfeitRefunds, ForfeitDissolves, {})

\* A draft is dropped.
Dropped ==
  /\ state = "DRAFT" /\ state' = "CANCELLED" /\ dest' = dest
  /\ RowsKept /\ UNCHANGED money

\* The sender cancels while the parcel is nobody else's.
CalledOff(s) ==
  /\ state \in {"AWAITING_DROPOFF", "AT_HUB"} /\ state' = "CANCELLED" /\ dest' = dest
  /\ stay[s].status = IF state = "AT_HUB" THEN "active" ELSE "reserved"
  /\ \A k \in LegId : leg[k].status # "requested" /\ ~ IsActiveLeg(k)
  /\ \A d \in ClaimId : ~ IsLiveClaim(d)
  /\ \A t \in StayId : stay'[t].status = IF t = s THEN "released" ELSE stay[t].status
  /\ \A k \in LegId : leg'[k].status = leg[k].status
  /\ \A d \in ClaimId : claim'[d].status = claim[d].status
  /\ TermsKept /\ pay' = pay
  /\ Commit({}, {HubBond(s)}, {}, {})

-----------------------------------------------------------------------------
(* Every step is one of these *)

LEMMA CreatedStep ==
  ASSUME BoardInv, NEW d \in Hub, create(d)
  PROVE  Created(d)
<1>1. RowsTyped /\ MoneyTyped /\ RowsMatchState /\ BoardExclusive
  BY DEF BoardInv, TypeOK
<1>2. QED
  BY <1>1 DEF Created, create, rows, RowsKept, TermsKept

\* A change of destination only moves the destination and gives back the bonus.
LEMMA ReroutedStep ==
  ASSUME BoardInv, NEW d \in Hub, reroute(d)
  PROVE  \E s \in StayId : Rerouted(d, s)
<1>1. RowsTyped /\ MoneyTyped /\ RowsMatchState /\ BoardExclusive
  BY DEF BoardInv, TypeOK
<1>2. PICK s \in StayId : reroute(d)!(s)
  BY DEF reroute
<1>3. QED
  BY <1>1, <1>2 DEF Rerouted, RowsTyped, rows, IsCurrentStay, AtHubStates, NoLeg,
     NoRequest, NoClaim, NewDestination, RowsKept, TermsKept, IsActiveLeg, IsLiveClaim

\* The acceptance of the origin hub reserves its stay with its bond held.
LEMMA AcceptedStep ==
  ASSUME BoardInv, NEW s \in StayId, origin_hub_accept(s)
  PROVE  Accepted(s)
<1>1. RowsTyped /\ MoneyTyped /\ RowsMatchState /\ BoardExclusive
  BY DEF BoardInv, TypeOK
<1>2. QED
  BY <1>1 DEF Accepted, origin_hub_accept, RowsTyped, TermsKept, CreateHolds

\* The check-in at the origin starts the reserved stay and touches no money.
LEMMA CheckedInStep ==
  ASSUME BoardInv, origin_checkin
  PROVE  \E s \in StayId : CheckedIn(s)
<1>1. RowsTyped /\ MoneyTyped /\ RowsMatchState /\ BoardExclusive
  BY DEF BoardInv, TypeOK
<1>2. PICK s \in StayId : origin_checkin!(s)
  BY DEF origin_checkin
<1>3. QED
  BY <1>1, <1>2 DEF CheckedIn, RowsTyped, TermsKept, IsCurrentStay, AtHubStates

\* A request writes the row of its leg and no money.
LEMMA RequestedStep ==
  ASSUME BoardInv, NEW l \in LegId, NEW h \in Hub, NEW b \in BOOLEAN, leg_request(l, h, b)
  PROVE  \E s \in StayId : Requested(l, h, b, s)
<1>1. RowsTyped /\ MoneyTyped /\ RowsMatchState /\ BoardExclusive
  BY DEF BoardInv, TypeOK
<1>2. PICK s \in StayId : leg_request(l, h, b)!(s)
  BY DEF leg_request
<1>3. QED
  BY <1>1, <1>2 DEF Requested, RowsTyped, IsCurrentStay, AtHubStates, NoLeg, NoRequest,
     NoClaim

\* An accepted deposit books the leg and creates its holds.
LEMMA DepositedStep ==
  ASSUME BoardInv, NEW l \in LegId, NEW a \in StayId, deposit_accept(l, a)
  PROVE  Deposited(l, a)
<1>1. RowsTyped /\ MoneyTyped /\ RowsMatchState /\ BoardExclusive
  BY DEF BoardInv, TypeOK
<1>2. QED
  BY <1>1 DEF Deposited, deposit_accept, RowsTyped, TermsKept, IsActiveLeg, NoLeg,
     CreateHolds, NoVerbs

\* A request that lapses or is turned down leaves no trace but its own status.
LEMMA RequestClosedStep ==
  ASSUME BoardInv, NEW l \in LegId, CloseRequest(l)
  PROVE  RequestClosed(l)
<1>1. RowsTyped /\ MoneyTyped /\ RowsMatchState /\ BoardExclusive
  BY DEF BoardInv, TypeOK
<1>2. QED
  BY <1>1 DEF RequestClosed, CloseRequest, RowsTyped, TermsKept

\* A leg whose holds are all recognised is booked.
LEMMA BookedStep ==
  ASSUME BoardInv, leg_funded
  PROVE  \E l \in LegId, s, a \in StayId : Booked(l, s, a)
<1>1. RowsTyped /\ MoneyTyped /\ RowsMatchState /\ BoardExclusive
  BY DEF BoardInv, TypeOK
<1>2. PICK l \in LegId, s, a \in StayId : leg_funded!(l, s, a)
  BY DEF leg_funded
<1>3. QED
  BY <1>1, <1>2 DEF Booked, RowsTyped, TermsKept, IsCurrentStay, IsArrival, AtHubStates,
     FundingHeld

\* A leg that is not funded in time is closed and its holds are refunded.
LEMMA LegUnfundedStep ==
  ASSUME BoardInv, NEW l \in LegId, leg_funding_expired(l)
  PROVE  \E a \in StayId : LegUnfunded(l, a)
<1>1. RowsTyped /\ MoneyTyped /\ RowsMatchState /\ BoardExclusive
  BY DEF BoardInv, TypeOK
<1>2. PICK a \in StayId : leg_funding_expired(l)!(a)
  BY DEF leg_funding_expired
<1>3. QED
  BY <1>1, <1>2 DEF LegUnfunded, RowsTyped, TermsKept, IsArrival, CloseLeg, DissolveLeg

\* A checkout moves the parcel from the stay to the carrier.
LEMMA PickedUpStep ==
  ASSUME BoardInv, pickup_checkout
  PROVE  \E l \in LegId, s \in StayId : PickedUp(l, s)
<1>1. RowsTyped /\ MoneyTyped /\ RowsMatchState /\ BoardExclusive
  BY DEF BoardInv, TypeOK
<1>2. PICK l \in LegId, s \in StayId : pickup_checkout!(l, s)
  BY DEF pickup_checkout
<1>3. QED
  BY <1>1, <1>2 DEF PickedUp, RowsTyped, TermsKept, IsCurrentStay, AtHubStates

\* A pickup that never happens closes the leg and leaves the parcel where it is.
LEMMA NotPickedUpStep ==
  ASSUME BoardInv, NEW l \in LegId, pickup_timeout(l)
  PROVE  \E s, a \in StayId : NotPickedUp(l, s, a)
<1>1. RowsTyped /\ MoneyTyped /\ RowsMatchState /\ BoardExclusive
  BY DEF BoardInv, TypeOK
<1>2. PICK s, a \in StayId : pickup_timeout(l)!(s, a)
  BY DEF pickup_timeout
<1>3. QED
  BY <1>1, <1>2 DEF NotPickedUp, RowsTyped, TermsKept, IsCurrentStay, IsArrival,
     AtHubStates, CloseLeg, FailLeg

\* A check-in at the next hub ends the leg and starts the reserved stay.
LEMMA ArrivedStep ==
  ASSUME BoardInv, leg_checkin
  PROVE  \E l \in LegId, a \in StayId : Arrived(l, a)
<1>1. RowsTyped /\ MoneyTyped /\ RowsMatchState /\ BoardExclusive
  BY DEF BoardInv, TypeOK
<1>2. PICK l \in LegId, a \in StayId : leg_checkin!(l, a)
  BY DEF leg_checkin
<1>3. QED
  BY <1>1, <1>2 DEF Arrived, RowsTyped, TermsKept, IsArrival

\* A parcel brought back opens a new stay at the hub it left.
LEMMA ReturnedStep ==
  ASSUME BoardInv, NEW r \in StayId, leg_return(r)
  PROVE  \E l \in LegId, a \in StayId : Returned(r, l, a)
<1>1. RowsTyped /\ MoneyTyped /\ RowsMatchState /\ BoardExclusive
  BY DEF BoardInv, TypeOK
<1>2. PICK l \in LegId, a \in StayId : leg_return(r)!(l, a)
  BY DEF leg_return
<1>3. QED
  BY <1>1, <1>2 DEF Returned, RowsTyped, TermsKept, IsArrival, CreateHolds, ReturnLeg

\* A parcel that is lost fails its leg and settles the bond of its carrier.
LEMMA GoneMissingStep ==
  ASSUME BoardInv, NEW l \in LegId, transit_timeout(l)
  PROVE  \E a \in StayId : GoneMissing(l, a)
<1>1. RowsTyped /\ MoneyTyped /\ RowsMatchState /\ BoardExclusive
  BY DEF BoardInv, TypeOK
<1>2. PICK a \in StayId : transit_timeout(l)!(a)
  BY DEF transit_timeout
<1>3. QED
  BY <1>1, <1>2 DEF GoneMissing, RowsTyped, TermsKept, IsArrival, CloseLeg, FailLeg

\* The pickup by the recipient ends the shipment and its last stay.
LEMMA CollectedStep ==
  ASSUME BoardInv, recipient_pickup
  PROVE  \E s \in StayId : Collected(s)
<1>1. RowsTyped /\ MoneyTyped /\ RowsMatchState /\ BoardExclusive
  BY DEF BoardInv, TypeOK
<1>2. PICK s \in StayId : recipient_pickup!(s)
  BY DEF recipient_pickup
<1>3. QED
  BY <1>1, <1>2 DEF Collected, RowsTyped, TermsKept, IsCurrentStay, AtHubStates, EndStay

\* A claim writes its row and creates its holds.
LEMMA ClaimedStep ==
  ASSUME BoardInv, NEW c \in ClaimId, NEW b \in BOOLEAN, recipient_claim(c, b)
  PROVE  \E s \in StayId : Claimed(c, b, s)
<1>1. RowsTyped /\ MoneyTyped /\ RowsMatchState /\ BoardExclusive
  BY DEF BoardInv, TypeOK
<1>2. PICK s \in StayId : recipient_claim(c, b)!(s)
  BY DEF recipient_claim
<1>3. QED
  BY <1>1, <1>2 DEF Claimed, RowsTyped, IsCurrentStay, AtHubStates, NoLeg, NoRequest,
     NoClaim, ClaimGuard, CreateHolds, NoVerbs

\* A claim whose holds are recognised is booked.
LEMMA ClaimBookedStep ==
  ASSUME BoardInv, claim_funded
  PROVE  \E c \in ClaimId : ClaimBooked(c)
<1>1. RowsTyped /\ MoneyTyped /\ RowsMatchState /\ BoardExclusive
  BY DEF BoardInv, TypeOK
<1>2. PICK c \in ClaimId : claim_funded!(c)
  BY DEF claim_funded
<1>3. QED
  BY <1>1, <1>2 DEF ClaimBooked, RowsTyped, TermsKept

\* A claim that is not funded in time expires and its holds are refunded.
LEMMA ClaimUnfundedStep ==
  ASSUME BoardInv, NEW c \in ClaimId, claim_funding_expired(c)
  PROVE  ClaimUnfunded(c)
<1>1. RowsTyped /\ MoneyTyped /\ RowsMatchState /\ BoardExclusive
  BY DEF BoardInv, TypeOK
<1>2. QED
  BY <1>1 DEF ClaimUnfunded, claim_funding_expired, RowsTyped, TermsKept

\* A collected claim ends the shipment and the stay the parcel was in.
LEMMA ClaimCollectedStep ==
  ASSUME BoardInv, recipient_claimed_pickup
  PROVE  \E c \in ClaimId, s \in StayId : ClaimCollected(c, s)
<1>1. RowsTyped /\ MoneyTyped /\ RowsMatchState /\ BoardExclusive
  BY DEF BoardInv, TypeOK
<1>2. PICK c \in ClaimId, s \in StayId : recipient_claimed_pickup!(c, s)
  BY DEF recipient_claimed_pickup
<1>3. QED
  BY <1>1, <1>2 DEF ClaimCollected, RowsTyped, TermsKept, IsCurrentStay, AtHubStates,
     EndStay

\* A forfeit ends the shipment, its rows and whatever they still hold.
LEMMA ForfeitedStep ==
  ASSUME BoardInv, NEW s \in StayId, storage_expiry(s)
  PROVE  Forfeited(s)
<1>1. RowsTyped /\ MoneyTyped /\ RowsMatchState /\ BoardExclusive
  BY DEF BoardInv, TypeOK
<1>2. QED
  BY <1>1 DEF Forfeited, storage_expiry, RowsTyped, TermsKept, IsCurrentStay,
     AtHubStates, PendingLegs, RequestedLegs, LiveClaims, Arrivals, IsArrival,
     RowsMatchState, IsActiveLeg

\* A draft that is dropped leaves rows and money as they are.
LEMMA DroppedStep ==
  ASSUME BoardInv, cancel_draft
  PROVE  Dropped
<1>1. RowsTyped /\ MoneyTyped /\ RowsMatchState /\ BoardExclusive
  BY DEF BoardInv, TypeOK
<1>2. QED
  BY <1>1 DEF Dropped, cancel_draft, rows, RowsKept, TermsKept

\* A shipment called off at its origin hub releases its one stay.
LEMMA CalledOffStep ==
  ASSUME BoardInv, cancel
  PROVE  \E s \in StayId : CalledOff(s)
<1>1. RowsTyped /\ MoneyTyped /\ RowsMatchState /\ BoardExclusive
  BY DEF BoardInv, TypeOK
<1>2. PICK s \in StayId : cancel!(s)
  BY DEF cancel
<1>3. QED
  BY <1>1, <1>2 DEF CalledOff, RowsTyped, RowsMatchState, TermsKept, IsCurrentStay,
     IsActiveLeg, IsLiveClaim, NoLeg, NoRequest, NoClaim, AtHubStates, EndStay

\* A step that leaves the rows and the places alone.
AtRest == UNCHANGED <<state, dest, stay, leg, claim>>

\* A step is an event of the machine with its effects, or a wallet, a verb or
\* the clock moves.
LEMMA StepEffects ==
  ASSUME BoardInv, [Next]_vars
  PROVE  \/ \E d \in Hub : Created(d)
         \/ \E d \in Hub, s \in StayId : Rerouted(d, s)
         \/ \E s \in StayId : Accepted(s)
         \/ \E s \in StayId : CheckedIn(s)
         \/ \E l \in LegId, h \in Hub, b \in BOOLEAN, s \in StayId : Requested(l, h, b, s)
         \/ \E l \in LegId, a \in StayId : Deposited(l, a)
         \/ \E l \in LegId : RequestClosed(l)
         \/ \E l \in LegId, s, a \in StayId : Booked(l, s, a)
         \/ \E l \in LegId, a \in StayId : LegUnfunded(l, a)
         \/ \E l \in LegId, s \in StayId : PickedUp(l, s)
         \/ \E l \in LegId, s, a \in StayId : NotPickedUp(l, s, a)
         \/ \E l \in LegId, a \in StayId : Arrived(l, a)
         \/ \E r \in StayId, l \in LegId, a \in StayId : Returned(r, l, a)
         \/ \E l \in LegId, a \in StayId : GoneMissing(l, a)
         \/ \E s \in StayId : Collected(s)
         \/ \E c \in ClaimId, b \in BOOLEAN, s \in StayId : Claimed(c, b, s)
         \/ \E c \in ClaimId : ClaimBooked(c)
         \/ \E c \in ClaimId : ClaimUnfunded(c)
         \/ \E c \in ClaimId, s \in StayId : ClaimCollected(c, s)
         \/ \E s \in StayId : Forfeited(s)
         \/ Dropped
         \/ \E s \in StayId : CalledOff(s)
         \/ \E p \in Payment : AtRest /\ (\/ PaymentHeld(p) \/ HoldLapses(p) \/ HoldDies(p)
                                         \/ ExecuteRelease(p) \/ ExecuteRefund(p))
         \/ AtRest /\ UNCHANGED money
<1>1. ASSUME NEW p \in Payment,
             PaymentHeld(p) \/ HoldLapses(p) \/ HoldDies(p) \/ ExecuteRelease(p) \/ ExecuteRefund(p)
      PROVE  AtRest
  BY <1>1 DEF PaymentHeld, HoldLapses, HoldDies, ExecuteRelease, ExecuteRefund,
     PaymentUnchanged,
     AtRest, rows
<1>2. ASSUME NEW r \in Row, Elapse(r) PROVE AtRest /\ UNCHANGED money
  BY <1>2 DEF Elapse, AtRest, rows, money
<1>3. CASE UNCHANGED vars
  BY <1>3 DEF vars, AtRest, rows
<1>4. CASE User
  BY <1>4, CreatedStep, ReroutedStep, AcceptedStep, CheckedInStep, RequestedStep,
     DepositedStep,
     RequestClosedStep, PickedUpStep, ArrivedStep, ReturnedStep, CollectedStep, ClaimedStep,
     ClaimCollectedStep, DroppedStep, CalledOffStep
     DEF User, deposit_reject, deposit_request_cancel
<1>5. CASE Sweep
  BY <1>5, ForfeitedStep, RequestClosedStep, LegUnfundedStep, NotPickedUpStep,
     GoneMissingStep,
     ClaimUnfundedStep DEF Sweep, deposit_request_expired
<1>6. CASE Pump
  BY <1>6, BookedStep, ClaimBookedStep DEF Pump
<1>7. QED
  BY <1>1, <1>2, <1>3, <1>4, <1>5, <1>6 DEF Next, Wallets, Verbs, Clock


-----------------------------------------------------------------------------
(* Where the parcel is, and where it goes *)

\* A parcel at its origin is not at its destination; an open leg starts where
\* the parcel does not have to go, and the hub that waits for it is its end.
Places ==
  /\ NeverIdleAtDestination
  /\ state \in {"DRAFT", "AWAITING_DROPOFF"} => dest # OriginHub
  /\ state = "AWAITING_DROPOFF" =>
       \A s \in StayId : stay[s].status = "reserved" => stay[s].hub = OriginHub
  /\ \A l \in LegId : leg[l].status = "requested" \/ IsActiveLeg(l) => leg[l].from # dest
  /\ \A l \in LegId, a \in StayId :
       IsActiveLeg(l) /\ stay[a].status = "reserved" => stay[a].hub = leg[l].to

\* A new shipment has no stay and no place to be in.
LEMMA PlacesInit == Init => Places
  BY DEF Init, Places, NeverIdleAtDestination, IsActiveLeg

\* Every step keeps the parcel where its state says.
LEMMA PlacesStep ==
  ASSUME BoardInv, Places, [Next]_vars
  PROVE  Places'
<1>0. RowsMatchState /\ BoardExclusive
  BY DEF BoardInv
<1>1. ASSUME NEW d \in Hub, Created(d) PROVE Places'
  BY <1>0, <1>1 DEF Created, Places, NeverIdleAtDestination, IsActiveLeg, RowsMatchState,
     BoardExclusive, AtHubStates, RowsKept, TermsKept
<1>2. ASSUME NEW d \in Hub, NEW s \in StayId, Rerouted(d, s) PROVE Places'
  BY <1>0, <1>2 DEF Rerouted, Places, NeverIdleAtDestination, IsActiveLeg, RowsMatchState,
     BoardExclusive, AtHubStates, RowsKept, TermsKept
<1>3. ASSUME NEW s \in StayId, Accepted(s) PROVE Places'
  BY <1>0, <1>3 DEF Accepted, Places, NeverIdleAtDestination, IsActiveLeg, RowsMatchState,
     BoardExclusive, AtHubStates, TermsKept
<1>4. ASSUME NEW s \in StayId, CheckedIn(s) PROVE Places'
  BY <1>0, <1>4 DEF CheckedIn, Places, NeverIdleAtDestination, IsActiveLeg,
     RowsMatchState, BoardExclusive, AtHubStates, TermsKept
<1>5. ASSUME NEW l \in LegId, NEW h \in Hub, NEW b \in BOOLEAN, NEW s \in StayId,
        Requested(l, h, b, s) PROVE Places'
  BY <1>0, <1>5 DEF Requested, Places, NeverIdleAtDestination, IsActiveLeg,
     RowsMatchState, BoardExclusive, AtHubStates
<1>6. ASSUME NEW l \in LegId, NEW a \in StayId, Deposited(l, a) PROVE Places'
  BY <1>0, <1>6 DEF Deposited, Places, NeverIdleAtDestination, IsActiveLeg,
     RowsMatchState, BoardExclusive, AtHubStates, TermsKept
<1>7. ASSUME NEW l \in LegId, RequestClosed(l) PROVE Places'
  BY <1>0, <1>7 DEF RequestClosed, Places, NeverIdleAtDestination, IsActiveLeg,
     RowsMatchState, BoardExclusive, AtHubStates, TermsKept
<1>8. ASSUME NEW l \in LegId, NEW s \in StayId, NEW a \in StayId, Booked(l, s, a)
       PROVE Places'
  BY <1>0, <1>8 DEF Booked, Places, NeverIdleAtDestination, IsActiveLeg, RowsMatchState,
     BoardExclusive, AtHubStates, TermsKept
<1>9. ASSUME NEW l \in LegId, NEW a \in StayId, LegUnfunded(l, a) PROVE Places'
  BY <1>0, <1>9 DEF LegUnfunded, Places, NeverIdleAtDestination, IsActiveLeg,
     RowsMatchState, BoardExclusive, AtHubStates, TermsKept
<1>10. ASSUME NEW l \in LegId, NEW s \in StayId, PickedUp(l, s) PROVE Places'
  BY <1>0, <1>10 DEF PickedUp, Places, NeverIdleAtDestination, IsActiveLeg,
     RowsMatchState, BoardExclusive, AtHubStates, TermsKept
<1>11. ASSUME NEW l \in LegId, NEW s \in StayId, NEW a \in StayId, NotPickedUp(l, s, a)
        PROVE Places'
  BY <1>0, <1>11 DEF NotPickedUp, Places, NeverIdleAtDestination, IsActiveLeg,
     RowsMatchState, BoardExclusive, AtHubStates, TermsKept
<1>12. ASSUME NEW l \in LegId, NEW a \in StayId, Arrived(l, a) PROVE Places'
  BY <1>0, <1>12 DEF Arrived, Places, NeverIdleAtDestination, IsActiveLeg, RowsMatchState,
     BoardExclusive, AtHubStates, TermsKept
<1>13. ASSUME NEW r \in StayId, NEW l \in LegId, NEW a \in StayId, Returned(r, l, a)
       PROVE Places'
  BY <1>0, <1>13 DEF Returned, Places, NeverIdleAtDestination, IsActiveLeg,
     RowsMatchState, BoardExclusive, AtHubStates, TermsKept
<1>14. ASSUME NEW l \in LegId, NEW a \in StayId, GoneMissing(l, a) PROVE Places'
  BY <1>0, <1>14 DEF GoneMissing, Places, NeverIdleAtDestination, IsActiveLeg,
     RowsMatchState, BoardExclusive, AtHubStates, TermsKept
<1>15. ASSUME NEW s \in StayId, Collected(s) PROVE Places'
  BY <1>0, <1>15 DEF Collected, Places, NeverIdleAtDestination, IsActiveLeg,
     RowsMatchState, BoardExclusive, AtHubStates, TermsKept
<1>16. ASSUME NEW c \in ClaimId, NEW b \in BOOLEAN, NEW s \in StayId, Claimed(c, b, s)
        PROVE Places'
  BY <1>0, <1>16 DEF Claimed, Places, NeverIdleAtDestination, IsActiveLeg, RowsMatchState,
     BoardExclusive, AtHubStates
<1>17. ASSUME NEW c \in ClaimId, ClaimBooked(c) PROVE Places'
  BY <1>0, <1>17 DEF ClaimBooked, Places, NeverIdleAtDestination, IsActiveLeg,
     RowsMatchState, BoardExclusive, AtHubStates, TermsKept
<1>18. ASSUME NEW c \in ClaimId, ClaimUnfunded(c) PROVE Places'
  BY <1>0, <1>18 DEF ClaimUnfunded, Places, NeverIdleAtDestination, IsActiveLeg,
     RowsMatchState, BoardExclusive, AtHubStates, TermsKept
<1>19. ASSUME NEW c \in ClaimId, NEW s \in StayId, ClaimCollected(c, s) PROVE Places'
  BY <1>0, <1>19 DEF ClaimCollected, Places, NeverIdleAtDestination, IsActiveLeg,
     RowsMatchState, BoardExclusive, AtHubStates, TermsKept
<1>20. ASSUME NEW s \in StayId, Forfeited(s) PROVE Places'
  BY <1>0, <1>20 DEF Forfeited, Places, NeverIdleAtDestination, IsActiveLeg,
     RowsMatchState, BoardExclusive, AtHubStates, TermsKept
<1>21. ASSUME Dropped PROVE Places'
  BY <1>0, <1>21 DEF Dropped, Places, NeverIdleAtDestination, IsActiveLeg, RowsMatchState,
     BoardExclusive, AtHubStates, RowsKept, TermsKept
<1>22. ASSUME NEW s \in StayId, CalledOff(s) PROVE Places'
  BY <1>0, <1>22 DEF CalledOff, Places, NeverIdleAtDestination, IsActiveLeg,
     RowsMatchState, BoardExclusive, AtHubStates, TermsKept
<1>23. CASE AtRest
  BY <1>23 DEF AtRest, Places, NeverIdleAtDestination, IsActiveLeg
<1>24. QED
  BY StepEffects, <1>1, <1>2, <1>3, <1>4, <1>5, <1>6, <1>7, <1>8, <1>9, <1>10, <1>11,
     <1>12, <1>13, <1>14, <1>15, <1>16, <1>17, <1>18, <1>19, <1>20, <1>21, <1>22, <1>23

\* A parcel on the board is never at its own destination, whatever legs, returns
\* and reroutes brought it there.
THEOREM NeverIdle == Spec => []NeverIdleAtDestination
<1>1. BoardInv /\ Places /\ [Next]_vars => BoardInv' /\ Places'
  BY BoardStep, PlacesStep
<1>2. Places => NeverIdleAtDestination
  BY DEF Places
<1>3. QED
  BY BoardInit, PlacesInit, <1>1, <1>2, PTL DEF Spec

-----------------------------------------------------------------------------
(* The storage clock *)

\* A stay that is active before and after a step keeps its deadline's clock,
\* unless the clock itself moves on.
ClockKept == \A s \in StayId :
  stay[s].status = "active" /\ stay'[s].status = "active" =>
    /\ due[s] = "past" => due'[s] = "past"
    /\ due[s] = "now" => due'[s] # "ahead"

\* Refreshing the clocks of rows that are not resting stays moves no other back.
LEMMA ClocksKeep ==
  ASSUME BoardInv, NEW F \in SUBSET Row, Clocks(F),
         \A s \in StayId : stay[s].status = "active" => s \notin F
  PROVE  ClockKept
<1> SUFFICES ASSUME NEW s \in StayId, stay[s].status = "active", stay'[s].status = "active"
             PROVE  due'[s] = due[s]
  BY DEF ClockKept
<1>1. s \in Row /\ s \notin F
  BY DEF Row
<1>2. Watched(s)'
  BY DEF Watched
<1>3. QED
  BY <1>1, <1>2 DEF Clocks

\* No step moves the storage clock of a stay that goes on.
LEMMA ClockStep ==
  ASSUME BoardInv, [Next]_vars
  PROVE  ClockKept
<1>0. RowsTyped /\ TimeTyped /\ RowsMatchState
  BY DEF BoardInv, TypeOK
<1>1. \A s \in StayId, l \in LegId : s # l
  BY IdsDisjoint
<1>2. \A s \in StayId, c \in ClaimId : s # c
  BY IdsDisjoint
<1>3. StayId \subseteq Row /\ LegId \subseteq Row /\ ClaimId \subseteq Row
  BY DEF Row
<1>4. ASSUME UNCHANGED due PROVE ClockKept
  BY <1>4 DEF ClockKept
<1>5. ASSUME Clocks({}) PROVE ClockKept
  BY <1>5, ClocksKeep
<1>6. ASSUME NEW l \in LegId, Clocks({l}) PROVE ClockKept
  BY <1>1, <1>3, <1>6, ClocksKeep
<1>7. ASSUME NEW c \in ClaimId, Clocks({c}) PROVE ClockKept
  BY <1>2, <1>3, <1>7, ClocksKeep
<1>8. ASSUME NEW s \in StayId, Clocks({s}), stay[s].status # "active" PROVE ClockKept
  BY <1>3, <1>8, ClocksKeep
<1>9. CASE User
  <2>1. ASSUME NEW d \in Hub, create(d) \/ reroute(d) PROVE ClockKept
    BY <1>4, <2>1 DEF create, reroute
  <2>2. ASSUME NEW s \in StayId, origin_hub_accept(s) PROVE ClockKept
    BY <1>4, <2>2 DEF origin_hub_accept
  <2>3. ASSUME NEW r \in StayId, leg_return(r) PROVE ClockKept
    BY <1>8, <2>3 DEF leg_return
  <2>4. CASE origin_checkin
    BY <1>8, <2>4 DEF origin_checkin, IsCurrentStay, AtHubStates
  <2>5. ASSUME NEW l \in LegId, NEW h \in Hub, NEW b \in BOOLEAN, leg_request(l, h, b)
        PROVE  ClockKept
    BY <1>6, <2>5 DEF leg_request
  <2>6. ASSUME NEW l \in LegId, NEW a \in StayId, deposit_accept(l, a) PROVE ClockKept
    BY <1>6, <2>6 DEF deposit_accept
  <2>7. ASSUME NEW l \in LegId, deposit_reject(l) \/ deposit_request_cancel(l) PROVE ClockKept
    BY <1>5, <2>7 DEF deposit_reject, deposit_request_cancel, CloseRequest
  <2>8. CASE pickup_checkout
    BY <1>6, <2>8 DEF pickup_checkout
  <2>9. CASE leg_checkin
    BY <1>8, <2>9 DEF leg_checkin, IsArrival
  <2>10. CASE recipient_pickup \/ recipient_claimed_pickup \/ cancel
    BY <1>5, <2>10 DEF recipient_pickup, recipient_claimed_pickup, cancel
  <2>11. ASSUME NEW c \in ClaimId, NEW b \in BOOLEAN, recipient_claim(c, b) PROVE ClockKept
    BY <1>7, <2>11 DEF recipient_claim
  <2>12. CASE cancel_draft
    BY <1>4, <2>12 DEF cancel_draft
  <2>13. QED
    BY <1>9, <2>1, <2>2, <2>3, <2>4, <2>5, <2>6, <2>7, <2>8, <2>9, <2>10, <2>11, <2>12 DEF
       User
<1>10. CASE Sweep
  BY <1>5, <1>10 DEF Sweep, storage_expiry, deposit_request_expired, CloseRequest,
     leg_funding_expired, pickup_timeout, ResumedClock, transit_timeout, claim_funding_expired
<1>11. CASE Pump
  BY <1>5, <1>6, <1>11 DEF Pump, leg_funded, claim_funded
<1>12. CASE Wallets \/ Verbs
  BY <1>4, <1>12 DEF Wallets, Verbs, PaymentHeld, HoldLapses, HoldDies, ExecuteRelease,
     ExecuteRefund, PaymentUnchanged
<1>13. ASSUME NEW r \in Row, Elapse(r) PROVE ClockKept
  BY <1>0, <1>3, <1>13 DEF Elapse, ClockKept, TimeTyped, Phase
<1>14. CASE UNCHANGED vars
  BY <1>4, <1>14 DEF vars
<1>15. QED
  BY <1>9, <1>10, <1>11, <1>12, <1>13, <1>14 DEF Next, Clock

\* A stay's storage deadline is fixed at its check-in: whatever carriers book and
\* abandon meanwhile, its clock never moves back.
THEOREM StorageNeverRewinds == Spec => StorageClockMonotone
<1>1. BoardInv /\ [Next]_vars => ClockKept
  BY ClockStep
<1>2. BoardInv /\ [Next]_vars => BoardInv'
  BY BoardStep
<1>3. QED
  BY BoardInit, <1>1, <1>2, PTL DEF Spec, StorageClockMonotone, ClockKept

=============================================================================
