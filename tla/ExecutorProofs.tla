--------------------------- MODULE ExecutorProofs ---------------------------
(* Theorems of Executor, for any number of accepts and failures: an accept *)
(* that gave up gives back what it alone created, and, while accepts do    *)
(* not overlap, a booked leg has its money locked.                         *)
EXTENDS Executor, TLAPS

-----------------------------------------------------------------------------
(* Types *)

\* The hub's bond of an accept is its own: no other accept and no leg has it.
LEMMA BondsApart ==
  /\ LegPayment \in Payment
  /\ \A a \in Acceptor : HubBond(a) \in Payment /\ HubBond(a) # LegPayment
  /\ \A a, b \in Acceptor : HubBond(a) = HubBond(b) => a = b
  BY DEF Payment, LegPayment, HubBond

\* The holds of a leg are payments.
LEMMA LegHoldsTyped == arrival \in Acceptor \cup {NoOne} => LegHolds \subseteq Payment
  BY BondsApart DEF LegHolds

\* The request has just been made.
LEMMA TypeInit == Init => TypeOK
<1>1. 0 \in 0..MaxFailures
  BY FailureBound
<1>2. QED
  BY <1>1 DEF Init, TypeOK, Board, Step, Timer, Open

\* Every step keeps the types.
LEMMA TypeStep ==
  ASSUME TypeOK, [Next]_vars
  PROVE  TypeOK'
<1> USE FailureBound DEF TypeOK, Board, Step, Timer, Open, Goto, Arm,
      shipment, deadlines, accepts, sweep, pumping
<1>0. /\ LegPayment \in Payment /\ LegHolds \subseteq Payment
      /\ \A a \in Acceptor : HubBond(a) \in Payment
  BY BondsApart, LegHoldsTyped
<1> USE <1>0
<1>1. ASSUME NEW a \in Acceptor, BeginAccept(a) PROVE TypeOK'
  BY <1>1 DEF BeginAccept
<1>2. ASSUME NEW a \in Acceptor, CreateFails(a) PROVE TypeOK'
  BY <1>2 DEF CreateFails
<1>3. ASSUME NEW a \in Acceptor, Crash(a) PROVE TypeOK'
  BY <1>3 DEF Crash
<1>4. ASSUME NEW a \in Acceptor, CreateLegPayment(a) PROVE TypeOK'
  BY <1>4 DEF CreateLegPayment, CreateHold
<1>5. ASSUME NEW a \in Acceptor, CreateHubBond(a) PROVE TypeOK'
  BY <1>5 DEF CreateHubBond, CreateHold
<1>6. ASSUME NEW a \in Acceptor, CommitAccept(a) PROVE TypeOK'
  BY <1>6 DEF CommitAccept, AcceptTimers
<1>7. ASSUME NEW a \in Acceptor, Undo(a) PROVE TypeOK'
  BY <1>7 DEF Undo, Refunded
<1>8. ASSUME NEW a \in Acceptor, EndUndo(a) PROVE TypeOK'
  BY <1>8 DEF EndUndo, Undone
<1>9. CASE CloseRequest
  BY <1>9 DEF CloseRequest
<1>10. CASE FireTimer
  BY <1>10 DEF FireTimer, TimeoutRefunds, TimeoutOutcome
<1>11. CASE TimerConflicts
  BY <1>11 DEF TimerConflicts
<1>12. CASE PumpCheck
  BY <1>12 DEF PumpCheck
<1>13. CASE PumpBook
  BY <1>13 DEF PumpBook
<1>14. ASSUME NEW p \in Payment, PumpPoll(p) PROVE TypeOK'
  BY <1>14 DEF PumpPoll, SeenHeld
<1>15. ASSUME NEW p \in Payment, OtherPoll(p) PROVE TypeOK'
  BY <1>15 DEF OtherPoll, SeenHeld
<1>16. ASSUME NEW p \in Payment, ExecuteRefund(p) PROVE TypeOK'
  BY <1>16 DEF ExecuteRefund, Refunded
<1>17. ASSUME NEW p \in Payment, HoldLapses(p) PROVE TypeOK'
  BY <1>17 DEF HoldLapses
<1>18. ASSUME NEW t \in Timer, LoadDueTimer(t) PROVE TypeOK'
  BY <1>18 DEF LoadDueTimer
<1>19. ASSUME NEW t \in Timer, Elapse(t) PROVE TypeOK'
  BY <1>19 DEF Elapse
<1>20. CASE UNCHANGED vars
  BY <1>20 DEF vars
<1>21. QED
  BY <1>1, <1>2, <1>3, <1>4, <1>5, <1>6, <1>7, <1>8, <1>9, <1>10,
     <1>11, <1>12, <1>13, <1>14, <1>15, <1>16, <1>17, <1>18, <1>19, <1>20
     DEF Next, Proceed, Sweep, Pump

-----------------------------------------------------------------------------
(* What a single accept created, it gives back *)

\* While nothing fails, an accept knows of its own bond in every step until it
\* has committed it or has refunded it.
OwnBondKnown ==
  failures = 0 =>
    \A a \in Acceptor :
      /\ pc[a] \in {"idle", "create_leg", "create_bond"} => pay[HubBond(a)] = "none"
      /\ pc[a] = "commit" => HubBond(a) \in minted[a]
      /\ pc[a] = "undo" => HubBond(a) \in minted[a] \/ pay[HubBond(a)] \notin Open
      /\ pc[a] = "done" /\ arrival # a => pay[HubBond(a)] \notin Open

\* The request is answered once: no accept commits behind another.
AnsweredOnce == board = "requested" => arrival = NoOne

GiveInv == TypeOK /\ AnsweredOnce /\ OwnBondKnown

\* Nothing is created yet.
LEMMA GiveInit == Init => AnsweredOnce /\ OwnBondKnown
  BY BondsApart DEF Init, AnsweredOnce, OwnBondKnown

\* An answer takes the request off the board for good.
LEMMA AnswerStep ==
  ASSUME TypeOK, AnsweredOnce, [Next]_vars
  PROVE  AnsweredOnce'
<1> USE DEF AnsweredOnce,
      shipment, deadlines, accepts, sweep, pumping
<1>1. ASSUME NEW a \in Acceptor, BeginAccept(a) PROVE AnsweredOnce'
  BY <1>1 DEF BeginAccept
<1>2. ASSUME NEW a \in Acceptor, CreateFails(a) PROVE AnsweredOnce'
  BY <1>2 DEF CreateFails
<1>3. ASSUME NEW a \in Acceptor, Crash(a) PROVE AnsweredOnce'
  BY <1>3 DEF Crash
<1>4. ASSUME NEW a \in Acceptor, CreateLegPayment(a) PROVE AnsweredOnce'
  BY <1>4 DEF CreateLegPayment, CreateHold
<1>5. ASSUME NEW a \in Acceptor, CreateHubBond(a) PROVE AnsweredOnce'
  BY <1>5 DEF CreateHubBond, CreateHold
<1>6. ASSUME NEW a \in Acceptor, CommitAccept(a) PROVE AnsweredOnce'
  BY <1>6 DEF CommitAccept, AcceptTimers
<1>7. ASSUME NEW a \in Acceptor, Undo(a) PROVE AnsweredOnce'
  BY <1>7 DEF Undo, Refunded
<1>8. ASSUME NEW a \in Acceptor, EndUndo(a) PROVE AnsweredOnce'
  BY <1>8 DEF EndUndo, Undone
<1>9. CASE CloseRequest
  BY <1>9 DEF CloseRequest
<1>10. CASE FireTimer
  BY <1>10 DEF FireTimer, TimeoutRefunds, TimeoutOutcome
<1>11. CASE TimerConflicts
  BY <1>11 DEF TimerConflicts
<1>12. CASE PumpCheck
  BY <1>12 DEF PumpCheck
<1>13. CASE PumpBook
  BY <1>13 DEF PumpBook
<1>14. ASSUME NEW p \in Payment, PumpPoll(p) PROVE AnsweredOnce'
  BY <1>14 DEF PumpPoll, SeenHeld
<1>15. ASSUME NEW p \in Payment, OtherPoll(p) PROVE AnsweredOnce'
  BY <1>15 DEF OtherPoll, SeenHeld
<1>16. ASSUME NEW p \in Payment, ExecuteRefund(p) PROVE AnsweredOnce'
  BY <1>16 DEF ExecuteRefund, Refunded
<1>17. ASSUME NEW p \in Payment, HoldLapses(p) PROVE AnsweredOnce'
  BY <1>17 DEF HoldLapses
<1>18. ASSUME NEW t \in Timer, LoadDueTimer(t) PROVE AnsweredOnce'
  BY <1>18 DEF LoadDueTimer
<1>19. ASSUME NEW t \in Timer, Elapse(t) PROVE AnsweredOnce'
  BY <1>19 DEF Elapse
<1>20. CASE UNCHANGED vars
  BY <1>20 DEF vars
<1>21. QED
  BY <1>1, <1>2, <1>3, <1>4, <1>5, <1>6, <1>7, <1>8, <1>9, <1>10,
     <1>11, <1>12, <1>13, <1>14, <1>15, <1>16, <1>17, <1>18, <1>19, <1>20
     DEF Next, Proceed, Sweep, Pump

\* Nobody else creates or refunds an accept's own bond before it has done so.
LEMMA GiveStep ==
  ASSUME GiveInv, [Next]_vars
  PROVE  OwnBondKnown'
<1> USE BondsApart DEF TypeOK, AnsweredOnce, OwnBondKnown, Open, Goto,
      shipment, deadlines, accepts, sweep, pumping
<1>0. TypeOK /\ AnsweredOnce /\ OwnBondKnown
  BY DEF GiveInv
<1> USE <1>0, NoOneIsNobody
<1>1. ASSUME NEW a \in Acceptor, BeginAccept(a) PROVE OwnBondKnown'
  BY <1>1 DEF BeginAccept
<1>2. ASSUME NEW a \in Acceptor, CreateFails(a) PROVE OwnBondKnown'
  BY <1>2 DEF CreateFails
<1>3. ASSUME NEW a \in Acceptor, Crash(a) PROVE OwnBondKnown'
  BY <1>3 DEF Crash
<1>4. ASSUME NEW a \in Acceptor, CreateLegPayment(a) PROVE OwnBondKnown'
  BY <1>4 DEF CreateLegPayment, CreateHold
<1>5. ASSUME NEW a \in Acceptor, CreateHubBond(a) PROVE OwnBondKnown'
  BY <1>5 DEF CreateHubBond, CreateHold
<1>6. ASSUME NEW a \in Acceptor, CommitAccept(a) PROVE OwnBondKnown'
  BY <1>6 DEF CommitAccept, AcceptTimers
<1>7. ASSUME NEW a \in Acceptor, Undo(a) PROVE OwnBondKnown'
  BY <1>7 DEF Undo, Refunded
<1>8. ASSUME NEW a \in Acceptor, EndUndo(a) PROVE OwnBondKnown'
  BY <1>8 DEF EndUndo, Undone
<1>9. CASE CloseRequest
  BY <1>9 DEF CloseRequest
<1>10. CASE FireTimer
  BY <1>10 DEF FireTimer, TimeoutRefunds, TimeoutOutcome
<1>11. CASE TimerConflicts
  BY <1>11 DEF TimerConflicts
<1>12. CASE PumpCheck
  BY <1>12 DEF PumpCheck
<1>13. CASE PumpBook
  BY <1>13 DEF PumpBook
<1>14. ASSUME NEW p \in Payment, PumpPoll(p) PROVE OwnBondKnown'
  BY <1>14 DEF PumpPoll, SeenHeld
<1>15. ASSUME NEW p \in Payment, OtherPoll(p) PROVE OwnBondKnown'
  BY <1>15 DEF OtherPoll, SeenHeld
<1>16. ASSUME NEW p \in Payment, ExecuteRefund(p) PROVE OwnBondKnown'
  BY <1>16 DEF ExecuteRefund, Refunded
<1>17. ASSUME NEW p \in Payment, HoldLapses(p) PROVE OwnBondKnown'
  BY <1>17 DEF HoldLapses
<1>18. ASSUME NEW t \in Timer, LoadDueTimer(t) PROVE OwnBondKnown'
  BY <1>18 DEF LoadDueTimer
<1>19. ASSUME NEW t \in Timer, Elapse(t) PROVE OwnBondKnown'
  BY <1>19 DEF Elapse
<1>20. CASE UNCHANGED vars
  BY <1>20 DEF vars
<1>21. QED
  BY <1>1, <1>2, <1>3, <1>4, <1>5, <1>6, <1>7, <1>8, <1>9, <1>10,
     <1>11, <1>12, <1>13, <1>14, <1>15, <1>16, <1>17, <1>18, <1>19, <1>20
     DEF Next, Proceed, Sweep, Pump

\* An accept that gave up leaves no hold of its own behind, if nothing failed,
\* however many accepts of the request overlap.
THEOREM GivesBackWhatItMade == Spec => []GivesBackItsOwn
<1>1. Init => GiveInv
  BY TypeInit, GiveInit DEF GiveInv
<1>2. GiveInv /\ [Next]_vars => GiveInv'
  BY TypeStep, AnswerStep, GiveStep DEF GiveInv
<1>3. GiveInv => GivesBackItsOwn
  BY DEF GiveInv, OwnBondKnown, GivesBackItsOwn
<1>4. QED
  BY <1>1, <1>2, <1>3, PTL DEF Spec

-----------------------------------------------------------------------------
(* A booked leg *)

AtRest == {"idle", "done"}

Solo == \A a, b \in Acceptor : a = b \/ pc[a] \in AtRest \/ pc[b] \in AtRest

\* Once an accept has committed, no invocation is left that could compensate a
\* payment of the leg.
NobodyUndoes == arrival # NoOne => \A a \in Acceptor : pc[a] \in AtRest

\* No verb is out before the leg is dissolved.
NoVerbYet == board \in {"requested", "pending_funding", "booked"} => intents = {}

\* What the pump saw is still so when it books.
PumpIsRight ==
  /\ pump = "book" => board # "requested"
  /\ board \in {"pending_funding", "booked"} => arrival # NoOne
  /\ pump = "book" /\ board = "pending_funding" => Funded

BookInv == AnsweredOnce /\ Solo /\ NobodyUndoes /\ NoVerbYet /\ PumpIsRight /\ BookedIsBonded

\* Nobody has begun, and no verb is out.
LEMMA BookInit == Init => BookInv
  BY DEF Init, BookInv, AnsweredOnce, Solo, NobodyUndoes, AtRest, NoVerbYet, PumpIsRight,
     BookedIsBonded

\* One accept at a time is under way, and none once one of them has committed.
LEMMA SoloStep ==
  ASSUME ~ Overlap, TypeOK, AnsweredOnce, Solo, NobodyUndoes, [Next]_vars
  PROVE  (Solo /\ NobodyUndoes)'
<1> DEFINE Alone == Solo /\ NobodyUndoes
<1> USE DEF TypeOK, AnsweredOnce, Solo, NobodyUndoes, AtRest, Step, Goto,
      shipment, deadlines, accepts, sweep, pumping
<1>1. ASSUME NEW a \in Acceptor, BeginAccept(a) PROVE Alone'
  BY <1>1 DEF BeginAccept
<1>2. ASSUME NEW a \in Acceptor, CreateFails(a) PROVE Alone'
  BY <1>2 DEF CreateFails
<1>3. ASSUME NEW a \in Acceptor, Crash(a) PROVE Alone'
  BY <1>3 DEF Crash
<1>4. ASSUME NEW a \in Acceptor, CreateLegPayment(a) PROVE Alone'
  BY <1>4 DEF CreateLegPayment, CreateHold
<1>5. ASSUME NEW a \in Acceptor, CreateHubBond(a) PROVE Alone'
  BY <1>5 DEF CreateHubBond, CreateHold
<1>6. ASSUME NEW a \in Acceptor, CommitAccept(a) PROVE Alone'
  BY <1>6 DEF CommitAccept, AcceptTimers
<1>7. ASSUME NEW a \in Acceptor, Undo(a) PROVE Alone'
  BY <1>7 DEF Undo, Refunded
<1>8. ASSUME NEW a \in Acceptor, EndUndo(a) PROVE Alone'
  BY <1>8 DEF EndUndo, Undone
<1>9. CASE CloseRequest
  BY <1>9 DEF CloseRequest
<1>10. CASE FireTimer
  BY <1>10 DEF FireTimer, TimeoutRefunds, TimeoutOutcome
<1>11. CASE TimerConflicts
  BY <1>11 DEF TimerConflicts
<1>12. CASE PumpCheck
  BY <1>12 DEF PumpCheck
<1>13. CASE PumpBook
  BY <1>13 DEF PumpBook
<1>14. ASSUME NEW p \in Payment, PumpPoll(p) PROVE Alone'
  BY <1>14 DEF PumpPoll, SeenHeld
<1>15. ASSUME NEW p \in Payment, OtherPoll(p) PROVE Alone'
  BY <1>15 DEF OtherPoll, SeenHeld
<1>16. ASSUME NEW p \in Payment, ExecuteRefund(p) PROVE Alone'
  BY <1>16 DEF ExecuteRefund, Refunded
<1>17. ASSUME NEW p \in Payment, HoldLapses(p) PROVE Alone'
  BY <1>17 DEF HoldLapses
<1>18. ASSUME NEW t \in Timer, LoadDueTimer(t) PROVE Alone'
  BY <1>18 DEF LoadDueTimer
<1>19. ASSUME NEW t \in Timer, Elapse(t) PROVE Alone'
  BY <1>19 DEF Elapse
<1>20. CASE UNCHANGED vars
  BY <1>20 DEF vars
<1>21. QED
  BY <1>1, <1>2, <1>3, <1>4, <1>5, <1>6, <1>7, <1>8, <1>9, <1>10,
     <1>11, <1>12, <1>13, <1>14, <1>15, <1>16, <1>17, <1>18, <1>19, <1>20
     DEF Next, Proceed, Sweep, Pump

\* The pump books what it saw: whatever would take a hold away comes after.
LEMMA BookStep ==
  ASSUME TypeOK, BookInv, [Next]_vars
  PROVE  (NoVerbYet /\ PumpIsRight /\ BookedIsBonded)'
<1> DEFINE Bonded == NoVerbYet /\ PumpIsRight /\ BookedIsBonded
<1>0. AnsweredOnce /\ NobodyUndoes /\ NoVerbYet /\ PumpIsRight /\ BookedIsBonded
  BY DEF BookInv
<1> USE <1>0, NoOneIsNobody DEF TypeOK, AnsweredOnce, NobodyUndoes, AtRest, NoVerbYet, PumpIsRight,
      BookedIsBonded, Funded, LegHolds, Board, Goto,
      shipment, deadlines, accepts, sweep, pumping
<1>1. ASSUME NEW a \in Acceptor, BeginAccept(a) PROVE Bonded'
  BY <1>1 DEF BeginAccept
<1>2. ASSUME NEW a \in Acceptor, CreateFails(a) PROVE Bonded'
  BY <1>2 DEF CreateFails
<1>3. ASSUME NEW a \in Acceptor, Crash(a) PROVE Bonded'
  BY <1>3 DEF Crash
<1>4. ASSUME NEW a \in Acceptor, CreateLegPayment(a) PROVE Bonded'
  BY <1>4 DEF CreateLegPayment, CreateHold
<1>5. ASSUME NEW a \in Acceptor, CreateHubBond(a) PROVE Bonded'
  BY <1>5 DEF CreateHubBond, CreateHold
<1>6. ASSUME NEW a \in Acceptor, CommitAccept(a) PROVE Bonded'
  BY <1>6 DEF CommitAccept, AcceptTimers
<1>7. ASSUME NEW a \in Acceptor, Undo(a) PROVE Bonded'
  BY <1>7 DEF Undo, Refunded
<1>8. ASSUME NEW a \in Acceptor, EndUndo(a) PROVE Bonded'
  BY <1>8 DEF EndUndo, Undone
<1>9. CASE CloseRequest
  BY <1>9 DEF CloseRequest
<1>10. CASE FireTimer
  BY <1>10 DEF FireTimer, TimeoutRefunds, TimeoutOutcome
<1>11. CASE TimerConflicts
  BY <1>11 DEF TimerConflicts
<1>12. CASE PumpCheck
  BY <1>12 DEF PumpCheck
<1>13. CASE PumpBook
  BY <1>13 DEF PumpBook
<1>14. ASSUME NEW p \in Payment, PumpPoll(p) PROVE Bonded'
  BY <1>14 DEF PumpPoll, SeenHeld
<1>15. ASSUME NEW p \in Payment, OtherPoll(p) PROVE Bonded'
  BY <1>15 DEF OtherPoll, SeenHeld
<1>16. ASSUME NEW p \in Payment, ExecuteRefund(p) PROVE Bonded'
  BY <1>16 DEF ExecuteRefund, Refunded
<1>17. ASSUME NEW p \in Payment, HoldLapses(p) PROVE Bonded'
  BY <1>17 DEF HoldLapses
<1>18. ASSUME NEW t \in Timer, LoadDueTimer(t) PROVE Bonded'
  BY <1>18 DEF LoadDueTimer
<1>19. ASSUME NEW t \in Timer, Elapse(t) PROVE Bonded'
  BY <1>19 DEF Elapse
<1>20. CASE UNCHANGED vars
  BY <1>20 DEF vars
<1>21. QED
  BY <1>1, <1>2, <1>3, <1>4, <1>5, <1>6, <1>7, <1>8, <1>9, <1>10,
     <1>11, <1>12, <1>13, <1>14, <1>15, <1>16, <1>17, <1>18, <1>19, <1>20
     DEF Next, Proceed, Sweep, Pump

\* While accepts do not overlap, a booked leg has its money locked: what the pump
\* checked before its transaction is still so after it, whatever the sweep, the
\* other accepts, the crashes and the refunds did in between.
THEOREM BookedStaysBonded ==
  ASSUME ~ Overlap
  PROVE  Spec => []BookedIsBonded
<1>1. Init => TypeOK /\ BookInv
  BY TypeInit, BookInit
<1>2. TypeOK /\ BookInv /\ [Next]_vars => (TypeOK /\ BookInv)'
  BY TypeStep, AnswerStep, SoloStep, BookStep DEF BookInv
<1>3. BookInv => BookedIsBonded
  BY DEF BookInv
<1>4. QED
  BY <1>1, <1>2, <1>3, PTL DEF Spec
=============================================================================
