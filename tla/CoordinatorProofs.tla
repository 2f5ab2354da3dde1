------------------------- MODULE CoordinatorProofs -------------------------
(* One payment, for any number of creators and any crashes: what the row,  *)
(* the ledger and the wallet agree on, for one observer the order of the   *)
(* entries, and, while committed holds stay alive, the promise of          *)
(* Commitment.                                                             *)
EXTENDS Coordinator, TLAPS

-----------------------------------------------------------------------------
(* Types *)

\* Nothing has happened at first, and every variable is typed.
LEMMA TypeInit == Init => TypeOK
<1>1. 0 \in 0..MaxFailures
  BY Bounds
<1>2. QED
  BY <1>1 DEF Init, TypeOK, RowState, Open, Dead, Invoice, Entry, Verb, Task, Step

\* Every call, every change of the wallet and every commit keeps the types.
LEMMA TypeStep ==
  ASSUME TypeOK, [Next]_vars
  PROVE  TypeOK'
<1> USE Bounds DEF TypeOK, RowState, Open, Dead, Invoice, Entry, Verb, Task, Step,
      payment, outside, orders, locals, Goto, At
<1>1. ASSUME NEW a \in Process, Create(a) PROVE TypeOK'
  BY <1>1 DEF Create, Begin
<1>2. ASSUME NEW a \in Process, Poll(a) PROVE TypeOK'
  BY <1>2 DEF Poll, Begin
<1>3. ASSUME NEW a \in Process, Release(a) PROVE TypeOK'
  BY <1>3 DEF Release, Begin, ReleaseFrom
<1>4. ASSUME NEW a \in Process, Refund(a) PROVE TypeOK'
  BY <1>4 DEF Refund, Begin
<1>5. ASSUME NEW a \in Process, Proceed(a) PROVE TypeOK'
  <2>1. CASE MakeInvoice(a)
    BY <2>1 DEF MakeInvoice
  <2>2. CASE StoreInvoice(a)
    BY <2>2 DEF StoreInvoice
  <2>3. CASE Pay(a)
    BY <2>3 DEF Pay
  <2>4. CASE Lookup(a)
    BY <2>4 DEF Lookup, Observed, Cause, Reachable
  <2>5. CASE CloseLazy(a)
    BY <2>5 DEF CloseLazy, Cancelled
  <2>6. CASE Reveal(a)
    BY <2>6 DEF Reveal, Revealed
  <2>7. CASE CancelInvoice(a)
    BY <2>7 DEF CancelInvoice, Cancelled, Reachable
  <2>8. CASE Forget(a)
    BY <2>8 DEF Forget
  <2>9. CASE PostHeld(a)
    BY <2>9 DEF PostHeld, Post
  <2>10. CASE FlipHeld(a)
    BY <2>10 DEF FlipHeld, Flip
  <2>11. CASE CommitFirst(a)
    BY <2>11 DEF CommitFirst, Post
  <2>12. CASE PostSettled(a)
    BY <2>12 DEF PostSettled, Post
  <2>13. CASE FlipSettled(a)
    BY <2>13 DEF FlipSettled, Flip, Finish
  <2>14. CASE CheckHeld(a)
    BY <2>14 DEF CheckHeld, WasHeld
  <2>15. CASE PostRefunded(a)
    BY <2>15 DEF PostRefunded, Post
  <2>16. CASE FlipDead(a)
    BY <2>16 DEF FlipDead, Flip, Finish
  <2>17. QED
    BY <1>5, <2>1, <2>2, <2>3, <2>4, <2>5, <2>6, <2>7, <2>8,
       <2>9, <2>10, <2>11, <2>12, <2>13, <2>14, <2>15, <2>16 DEF Proceed
<1>6. ASSUME NEW a \in Process, CutShort(a) PROVE TypeOK'
  BY <1>6 DEF CutShort
<1>7. ASSUME NEW v \in Verb, Decide(v) PROVE TypeOK'
  BY <1>7 DEF Decide
<1>8. CASE HtlcArrives
  BY <1>8 DEF HtlcArrives
<1>9. CASE InvoiceExpires
  BY <1>9 DEF InvoiceExpires
<1>10. CASE HoldEnds
  BY <1>10 DEF HoldEnds
<1>11. CASE WindowCloses
  BY <1>11 DEF WindowCloses
<1>12. CASE Reconnect
  BY <1>12 DEF Reconnect
<1>13. CASE UNCHANGED vars
  BY <1>13 DEF vars
<1>14. QED
  BY <1>1, <1>2, <1>3, <1>4, <1>5, <1>6, <1>7, <1>8, <1>9, <1>10, <1>11, <1>12, <1>13 DEF Next

\* Every variable holds what its column or local may hold, for any processes.
THEOREM TypeCorrect == Spec => []TypeOK
<1>1. Init => TypeOK
  BY TypeInit
<1>2. TypeOK /\ [Next]_vars => TypeOK'
  BY TypeStep
<1>3. QED
  BY <1>1, <1>2, PTL DEF Spec

-----------------------------------------------------------------------------
(* The row and the wallet, with any number of observers *)

\* What a call has learnt of the wallet stays so while it acts on it: a settled
\* invoice is settled for good, and so is one that died.
CallsKnowWallet ==
  \A a \in Process :
    /\ pc[a] = "reveal" => decided = "release"
    /\ pc[a] = "cancel" => decided = "refund"
    /\ pc[a] \in {"commit_first", "post_settled", "flip_settled"} => wallet = "settled"
    /\ pc[a] \in {"close", "was_held", "post_refunded", "flip_dead"} =>
         cause[a] = "expired" \/ wallet \in Dead

WalletInv == TypeOK /\ CallsKnowWallet /\ WalletAgrees

\* No call knows anything of a wallet yet.
LEMMA WalletInit == Init => CallsKnowWallet /\ WalletAgrees
  BY DEF Init, CallsKnowWallet, WalletAgrees

\* No step makes what a call knows of the wallet untrue, nor the row.
LEMMA WalletStep ==
  ASSUME TypeOK, CallsKnowWallet, WalletAgrees, [Next]_vars
  PROVE  (CallsKnowWallet /\ WalletAgrees)'
<1> DEFINE WalletFacts == CallsKnowWallet /\ WalletAgrees
<1> USE DEF TypeOK, CallsKnowWallet, WalletAgrees,
      Open, Dead, RowState, Invoice, Entry, Verb, Task, Step,
      payment, outside, orders, locals, Goto, At
<1>1. ASSUME NEW a \in Process, Create(a) PROVE WalletFacts'
  BY <1>1 DEF Create, Begin
<1>2. ASSUME NEW a \in Process, Poll(a) PROVE WalletFacts'
  BY <1>2 DEF Poll, Begin
<1>3. ASSUME NEW a \in Process, Release(a) PROVE WalletFacts'
  BY <1>3 DEF Release, Begin, ReleaseFrom
<1>4. ASSUME NEW a \in Process, Refund(a) PROVE WalletFacts'
  BY <1>4 DEF Refund, Begin
<1>5. ASSUME NEW a \in Process, Proceed(a) PROVE WalletFacts'
  <2>1. CASE MakeInvoice(a)
    BY <2>1 DEF MakeInvoice
  <2>2. CASE StoreInvoice(a)
    BY <2>2 DEF StoreInvoice
  <2>3. CASE Pay(a)
    BY <2>3 DEF Pay
  <2>4. CASE Lookup(a)
    BY <2>4 DEF Lookup, Observed, Cause, Reachable
  <2>5. CASE CloseLazy(a)
    BY <2>5 DEF CloseLazy, Cancelled
  <2>6. CASE Reveal(a)
    BY <2>6 DEF Reveal, Revealed
  <2>7. CASE CancelInvoice(a)
    BY <2>7 DEF CancelInvoice, Cancelled, Reachable
  <2>8. CASE Forget(a)
    BY <2>8 DEF Forget
  <2>9. CASE PostHeld(a)
    BY <2>9 DEF PostHeld, Post
  <2>10. CASE FlipHeld(a)
    BY <2>10 DEF FlipHeld, Flip
  <2>11. CASE CommitFirst(a)
    BY <2>11 DEF CommitFirst, Post
  <2>12. CASE PostSettled(a)
    BY <2>12 DEF PostSettled, Post
  <2>13. CASE FlipSettled(a)
    BY <2>13 DEF FlipSettled, Flip, Finish
  <2>14. CASE CheckHeld(a)
    BY <2>14 DEF CheckHeld, WasHeld
  <2>15. CASE PostRefunded(a)
    BY <2>15 DEF PostRefunded, Post
  <2>16. CASE FlipDead(a)
    BY <2>16 DEF FlipDead, Flip, Finish
  <2>17. QED
    BY <1>5, <2>1, <2>2, <2>3, <2>4, <2>5, <2>6, <2>7, <2>8,
       <2>9, <2>10, <2>11, <2>12, <2>13, <2>14, <2>15, <2>16 DEF Proceed
<1>6. ASSUME NEW a \in Process, CutShort(a) PROVE WalletFacts'
  BY <1>6 DEF CutShort
<1>7. ASSUME NEW v \in Verb, Decide(v) PROVE WalletFacts'
  BY <1>7 DEF Decide
<1>8. CASE HtlcArrives
  BY <1>8 DEF HtlcArrives
<1>9. CASE InvoiceExpires
  BY <1>9 DEF InvoiceExpires
<1>10. CASE HoldEnds
  BY <1>10 DEF HoldEnds
<1>11. CASE WindowCloses
  BY <1>11 DEF WindowCloses
<1>12. CASE Reconnect
  BY <1>12 DEF Reconnect
<1>13. CASE UNCHANGED vars
  BY <1>13 DEF vars
<1>14. QED
  BY <1>1, <1>2, <1>3, <1>4, <1>5, <1>6, <1>7, <1>8, <1>9, <1>10, <1>11, <1>12, <1>13 DEF Next

\* The row never says what the wallet did not do: a cancelled payment has no
\* hold left, a settled one is settled, and a hold is only settled for a release
\* that was committed, for any number of observers and whatever holds die.
THEOREM WalletAlwaysAgrees == Spec => []WalletAgrees
<1>1. Init => WalletInv
  BY TypeInit, WalletInit DEF WalletInv
<1>2. WalletInv /\ [Next]_vars => WalletInv'
  BY TypeStep, WalletStep DEF WalletInv
<1>3. WalletInv => WalletAgrees
  BY DEF WalletInv
<1>4. QED
  BY <1>1, <1>2, <1>3, PTL DEF Spec

-----------------------------------------------------------------------------
(* The row and the ledger, with one observer *)

OneObserver == \A a, b \in Observer : a = b

\* The steps at which a call acts on the row it has read.
Working == Step \ {"idle", "make", "store", "pay", "forget"}

\* The one observer's view of the row is not stale, and an intent has its row.
NotStale ==
  /\ intent => row # "none"
  /\ \A a \in Process : pc[a] \in Working => a \in Observer /\ seen[a] = row /\ row \in Open

\* A hold that was never recognised has no entry at all.
HeldFirst ==
  /\ ledger # {} => "held" \in ledger
  /\ wallet \in {"none", "open"} => ledger = {}

\* What a call is about to do, the ledger is ready for.
CallsKnowLedger ==
  \A a \in Process :
    /\ pc[a] \in {"post_held", "commit_first"} => wallet \notin {"none", "open"}
    /\ pc[a] \in {"flip_held", "post_settled"} => "held" \in ledger
    /\ pc[a] = "flip_settled" => {"held", "settled"} \subseteq ledger
    /\ pc[a] = "close" => ledger = {}
    /\ pc[a] = "was_held" => ledger = {} \/ wallet \in Dead
    /\ pc[a] = "post_refunded" => "held" \in ledger /\ wallet \in Dead
    /\ pc[a] = "flip_dead" =>
         ledger = {} \/ ({"held", "refunded"} \subseteq ledger /\ wallet \in Dead)

LedgerInv == NotStale /\ HeldFirst /\ CallsKnowLedger /\ LedgerNeverBehind

\* There is no entry yet.
LEMMA LedgerInit == Init => LedgerInv
  BY DEF Init, LedgerInv, NotStale, Working, Step, HeldFirst, CallsKnowLedger,
     LedgerNeverBehind, Dead

\* With one observer nobody moves the row behind the call that has read it.
LEMMA StaleStep ==
  ASSUME OneObserver, TypeOK, LedgerInv, [Next]_vars
  PROVE  NotStale'
<1> USE ProcessesDisjoint DEF OneObserver, TypeOK, NotStale, Working, Process,
      Open, Dead, RowState, Invoice, Entry, Verb, Task, Step,
      payment, outside, orders, locals, Goto, At
<1>0. NotStale
  BY DEF LedgerInv
<1> USE <1>0
<1>1. ASSUME NEW a \in Process, Create(a) PROVE NotStale'
  BY <1>1 DEF Create, Begin
<1>2. ASSUME NEW a \in Process, Poll(a) PROVE NotStale'
  BY <1>2 DEF Poll, Begin
<1>3. ASSUME NEW a \in Process, Release(a) PROVE NotStale'
  BY <1>3 DEF Release, Begin, ReleaseFrom
<1>4. ASSUME NEW a \in Process, Refund(a) PROVE NotStale'
  BY <1>4 DEF Refund, Begin
<1>5. ASSUME NEW a \in Process, Proceed(a) PROVE NotStale'
  <2>1. CASE MakeInvoice(a)
    BY <2>1 DEF MakeInvoice
  <2>2. CASE StoreInvoice(a)
    BY <2>2 DEF StoreInvoice
  <2>3. CASE Pay(a)
    BY <2>3 DEF Pay
  <2>4. CASE Lookup(a)
    BY <2>4 DEF Lookup, Observed, Cause, Reachable
  <2>5. CASE CloseLazy(a)
    BY <2>5 DEF CloseLazy, Cancelled
  <2>6. CASE Reveal(a)
    BY <2>6 DEF Reveal, Revealed
  <2>7. CASE CancelInvoice(a)
    BY <2>7 DEF CancelInvoice, Cancelled, Reachable
  <2>8. CASE Forget(a)
    BY <2>8 DEF Forget
  <2>9. CASE PostHeld(a)
    BY <2>9 DEF PostHeld, Post
  <2>10. CASE FlipHeld(a)
    BY <2>10 DEF FlipHeld, Flip
  <2>11. CASE CommitFirst(a)
    BY <2>11 DEF CommitFirst, Post
  <2>12. CASE PostSettled(a)
    BY <2>12 DEF PostSettled, Post
  <2>13. CASE FlipSettled(a)
    BY <2>13 DEF FlipSettled, Flip, Finish
  <2>14. CASE CheckHeld(a)
    BY <2>14 DEF CheckHeld, WasHeld
  <2>15. CASE PostRefunded(a)
    BY <2>15 DEF PostRefunded, Post
  <2>16. CASE FlipDead(a)
    BY <2>16 DEF FlipDead, Flip, Finish
  <2>17. QED
    BY <1>5, <2>1, <2>2, <2>3, <2>4, <2>5, <2>6, <2>7, <2>8,
       <2>9, <2>10, <2>11, <2>12, <2>13, <2>14, <2>15, <2>16 DEF Proceed
<1>6. ASSUME NEW a \in Process, CutShort(a) PROVE NotStale'
  BY <1>6 DEF CutShort
<1>7. ASSUME NEW v \in Verb, Decide(v) PROVE NotStale'
  BY <1>7 DEF Decide
<1>8. CASE HtlcArrives
  BY <1>8 DEF HtlcArrives
<1>9. CASE InvoiceExpires
  BY <1>9 DEF InvoiceExpires
<1>10. CASE HoldEnds
  BY <1>10 DEF HoldEnds
<1>11. CASE WindowCloses
  BY <1>11 DEF WindowCloses
<1>12. CASE Reconnect
  BY <1>12 DEF Reconnect
<1>13. CASE UNCHANGED vars
  BY <1>13 DEF vars
<1>14. QED
  BY <1>1, <1>2, <1>3, <1>4, <1>5, <1>6, <1>7, <1>8, <1>9, <1>10, <1>11, <1>12, <1>13 DEF Next

\* The entries come in order, and a call acts on what the ledger has.
LEMMA LedgerStep ==
  ASSUME OneObserver, TypeOK, LedgerInv, [Next]_vars
  PROVE  (HeldFirst /\ CallsKnowLedger /\ LedgerNeverBehind)'
<1> DEFINE LedgerFacts == HeldFirst /\ CallsKnowLedger /\ LedgerNeverBehind
<1> USE DEF OneObserver, TypeOK, HeldFirst, CallsKnowLedger, LedgerNeverBehind, Working,
      NotStale,
      Open, Dead, RowState, Invoice, Entry, Verb, Task, Step,
      payment, outside, orders, locals, Goto, At
<1>0. NotStale /\ HeldFirst /\ CallsKnowLedger /\ LedgerNeverBehind
  BY DEF LedgerInv
<1> USE <1>0
<1>1. ASSUME NEW a \in Process, Create(a) PROVE LedgerFacts'
  BY <1>1 DEF Create, Begin
<1>2. ASSUME NEW a \in Process, Poll(a) PROVE LedgerFacts'
  BY <1>2 DEF Poll, Begin
<1>3. ASSUME NEW a \in Process, Release(a) PROVE LedgerFacts'
  BY <1>3 DEF Release, Begin, ReleaseFrom
<1>4. ASSUME NEW a \in Process, Refund(a) PROVE LedgerFacts'
  BY <1>4 DEF Refund, Begin
<1>5. ASSUME NEW a \in Process, Proceed(a) PROVE LedgerFacts'
  <2>1. CASE MakeInvoice(a)
    BY <2>1 DEF MakeInvoice
  <2>2. CASE StoreInvoice(a)
    BY <2>2 DEF StoreInvoice
  <2>3. CASE Pay(a)
    BY <2>3 DEF Pay
  <2>4. CASE Lookup(a)
    BY <2>4 DEF Lookup, Observed, Cause, Reachable
  <2>5. CASE CloseLazy(a)
    BY <2>5 DEF CloseLazy, Cancelled
  <2>6. CASE Reveal(a)
    BY <2>6 DEF Reveal, Revealed
  <2>7. CASE CancelInvoice(a)
    BY <2>7 DEF CancelInvoice, Cancelled, Reachable
  <2>8. CASE Forget(a)
    BY <2>8 DEF Forget
  <2>9. CASE PostHeld(a)
    BY <2>9 DEF PostHeld, Post
  <2>10. CASE FlipHeld(a)
    BY <2>10 DEF FlipHeld, Flip
  <2>11. CASE CommitFirst(a)
    BY <2>11 DEF CommitFirst, Post
  <2>12. CASE PostSettled(a)
    BY <2>12 DEF PostSettled, Post
  <2>13. CASE FlipSettled(a)
    BY <2>13 DEF FlipSettled, Flip, Finish
  <2>14. CASE CheckHeld(a)
    BY <2>14 DEF CheckHeld, WasHeld
  <2>15. CASE PostRefunded(a)
    BY <2>15 DEF PostRefunded, Post
  <2>16. CASE FlipDead(a)
    BY <2>16 DEF FlipDead, Flip, Finish
  <2>17. QED
    BY <1>5, <2>1, <2>2, <2>3, <2>4, <2>5, <2>6, <2>7, <2>8,
       <2>9, <2>10, <2>11, <2>12, <2>13, <2>14, <2>15, <2>16 DEF Proceed
<1>6. ASSUME NEW a \in Process, CutShort(a) PROVE LedgerFacts'
  BY <1>6 DEF CutShort
<1>7. ASSUME NEW v \in Verb, Decide(v) PROVE LedgerFacts'
  BY <1>7 DEF Decide
<1>8. CASE HtlcArrives
  BY <1>8 DEF HtlcArrives
<1>9. CASE InvoiceExpires
  BY <1>9 DEF InvoiceExpires
<1>10. CASE HoldEnds
  BY <1>10 DEF HoldEnds
<1>11. CASE WindowCloses
  BY <1>11 DEF WindowCloses
<1>12. CASE Reconnect
  BY <1>12 DEF Reconnect
<1>13. CASE UNCHANGED vars
  BY <1>13 DEF vars
<1>14. QED
  BY <1>1, <1>2, <1>3, <1>4, <1>5, <1>6, <1>7, <1>8, <1>9, <1>10, <1>11, <1>12, <1>13 DEF Next

\* "The ledger can run ahead of the row by one transition, never behind and never
\* twice": with one observer the entries of a row's state are there, and a dead
\* row's pair up, for any creators, crashes, and even if holds die late.
THEOREM LedgerNeverFallsBehind ==
  ASSUME OneObserver
  PROVE  Spec => []LedgerNeverBehind
<1>1. Init => TypeOK /\ LedgerInv
  BY TypeInit, LedgerInit
<1>2. TypeOK /\ LedgerInv /\ [Next]_vars => (TypeOK /\ LedgerInv)'
  BY TypeStep, StaleStep, LedgerStep DEF LedgerInv
<1>3. LedgerInv => LedgerNeverBehind
  BY DEF LedgerInv
<1>4. QED
  BY <1>1, <1>2, <1>3, PTL DEF Spec

-----------------------------------------------------------------------------
(* The direction of the funds, while a committed hold does not die *)

OneDirection ==
  /\ decided = "release" => wallet \in {"held", "settled"} /\ "settled" \in ledger
  /\ "settled" \in ledger => decided = "release"
  /\ "refunded" \in ledger => wallet \in Dead \/ decided = "refund"

PromiseInv == TypeOK /\ WalletInv /\ LedgerInv /\ OneDirection

\* Nothing is committed yet.
LEMMA DirectionInit == Init => OneDirection
  BY DEF Init, OneDirection

\* A release keeps its hold, and what is refunded has no hold to release.
LEMMA DirectionStep ==
  ASSUME ~ HoldsDieLate, PromiseInv, [Next]_vars
  PROVE  OneDirection'
<1> USE DEF TypeOK, OneDirection,
      Open, Dead, RowState, Invoice, Entry, Verb, Task, Step,
      payment, outside, orders, locals, Goto, At
<1>0. /\ TypeOK /\ OneDirection /\ CallsKnowWallet /\ WalletAgrees
      /\ NotStale /\ HeldFirst /\ CallsKnowLedger /\ LedgerNeverBehind
  BY DEF PromiseInv, WalletInv, LedgerInv
<1> USE <1>0 DEF CallsKnowWallet, WalletAgrees, HeldFirst, CallsKnowLedger, LedgerNeverBehind
<1>1. ASSUME NEW a \in Process, Create(a) PROVE OneDirection'
  BY <1>1 DEF Create, Begin
<1>2. ASSUME NEW a \in Process, Poll(a) PROVE OneDirection'
  BY <1>2 DEF Poll, Begin
<1>3. ASSUME NEW a \in Process, Release(a) PROVE OneDirection'
  BY <1>3 DEF Release, Begin, ReleaseFrom
<1>4. ASSUME NEW a \in Process, Refund(a) PROVE OneDirection'
  BY <1>4 DEF Refund, Begin
<1>5. ASSUME NEW a \in Process, Proceed(a) PROVE OneDirection'
  <2>1. CASE MakeInvoice(a)
    BY <2>1 DEF MakeInvoice
  <2>2. CASE StoreInvoice(a)
    BY <2>2 DEF StoreInvoice
  <2>3. CASE Pay(a)
    BY <2>3 DEF Pay
  <2>4. CASE Lookup(a)
    BY <2>4 DEF Lookup, Observed, Cause, Reachable
  <2>5. CASE CloseLazy(a)
    BY <2>5 DEF CloseLazy, Cancelled
  <2>6. CASE Reveal(a)
    BY <2>6 DEF Reveal, Revealed
  <2>7. CASE CancelInvoice(a)
    BY <2>7 DEF CancelInvoice, Cancelled, Reachable
  <2>8. CASE Forget(a)
    BY <2>8 DEF Forget
  <2>9. CASE PostHeld(a)
    BY <2>9 DEF PostHeld, Post
  <2>10. CASE FlipHeld(a)
    BY <2>10 DEF FlipHeld, Flip
  <2>11. CASE CommitFirst(a)
    BY <2>11 DEF CommitFirst, Post
  <2>12. CASE PostSettled(a)
    BY <2>12 DEF PostSettled, Post
  <2>13. CASE FlipSettled(a)
    BY <2>13 DEF FlipSettled, Flip, Finish
  <2>14. CASE CheckHeld(a)
    BY <2>14 DEF CheckHeld, WasHeld
  <2>15. CASE PostRefunded(a)
    BY <2>15 DEF PostRefunded, Post
  <2>16. CASE FlipDead(a)
    BY <2>16 DEF FlipDead, Flip, Finish
  <2>17. QED
    BY <1>5, <2>1, <2>2, <2>3, <2>4, <2>5, <2>6, <2>7, <2>8,
       <2>9, <2>10, <2>11, <2>12, <2>13, <2>14, <2>15, <2>16 DEF Proceed
<1>6. ASSUME NEW a \in Process, CutShort(a) PROVE OneDirection'
  BY <1>6 DEF CutShort
<1>7. ASSUME NEW v \in Verb, Decide(v) PROVE OneDirection'
  BY <1>7 DEF Decide
<1>8. CASE HtlcArrives
  BY <1>8 DEF HtlcArrives
<1>9. CASE InvoiceExpires
  BY <1>9 DEF InvoiceExpires
<1>10. CASE HoldEnds
  BY <1>10 DEF HoldEnds
<1>11. CASE WindowCloses
  BY <1>11 DEF WindowCloses
<1>12. CASE Reconnect
  BY <1>12 DEF Reconnect
<1>13. CASE UNCHANGED vars
  BY <1>13 DEF vars
<1>14. QED
  BY <1>1, <1>2, <1>3, <1>4, <1>5, <1>6, <1>7, <1>8, <1>9, <1>10, <1>11, <1>12, <1>13 DEF Next

\* Every step is one of Commitment's, or none.
LEMMA PromiseStep ==
  ASSUME ~ HoldsDieLate, PromiseInv, [Next]_vars
  PROVE  [Promise!Next]_(Promise!vars)
<1> USE DEF TypeOK,
      Open, Dead, RowState, Invoice, Entry, Verb, Task, Step,
      payment, outside, orders, locals, Goto, At
<1>0. /\ TypeOK /\ OneDirection /\ CallsKnowWallet /\ WalletAgrees
      /\ NotStale /\ HeldFirst /\ CallsKnowLedger /\ LedgerNeverBehind
  BY DEF PromiseInv, WalletInv, LedgerInv
<1> USE <1>0 DEF CallsKnowWallet, WalletAgrees, HeldFirst, CallsKnowLedger, LedgerNeverBehind,
      NotStale, Working, OneDirection, Promise!vars, Promise!Next, Promise!Open
<1>1. ASSUME NEW a \in Process, Create(a) PROVE [Promise!Next]_(Promise!vars)
  BY <1>1 DEF Create, Begin, Promise!Create
<1>2. ASSUME NEW a \in Process, Poll(a) PROVE [Promise!Next]_(Promise!vars)
  BY <1>2 DEF Poll, Begin
<1>3. ASSUME NEW a \in Process, Release(a) PROVE [Promise!Next]_(Promise!vars)
  BY <1>3 DEF Release, Begin, ReleaseFrom
<1>4. ASSUME NEW a \in Process, Refund(a) PROVE [Promise!Next]_(Promise!vars)
  BY <1>4 DEF Refund, Begin
<1>5. ASSUME NEW a \in Process, Proceed(a) PROVE [Promise!Next]_(Promise!vars)
  <2>1. CASE MakeInvoice(a)
    BY <2>1 DEF MakeInvoice
  <2>2. CASE StoreInvoice(a)
    BY <2>2 DEF StoreInvoice
  <2>3. CASE Pay(a)
    BY <2>3 DEF Pay
  <2>4. CASE Lookup(a)
    BY <2>4 DEF Lookup, Observed, Cause, Reachable
  <2>5. CASE CloseLazy(a)
    BY <2>5 DEF CloseLazy, Cancelled
  <2>6. CASE Reveal(a)
    BY <2>6 DEF Reveal, Revealed
  <2>7. CASE CancelInvoice(a)
    BY <2>7 DEF CancelInvoice, Cancelled, Reachable
  <2>8. CASE Forget(a)
    BY <2>8 DEF Forget
  <2>9. CASE PostHeld(a)
    BY <2>9 DEF PostHeld, Post, Promise!RecordHeld
  <2>10. CASE FlipHeld(a)
    BY <2>10 DEF FlipHeld, Flip, Promise!Hold
  <2>11. CASE CommitFirst(a)
    BY <2>11 DEF CommitFirst, Post
  <2>12. CASE PostSettled(a)
    BY <2>12 DEF PostSettled, Post
  <2>13. CASE FlipSettled(a)
    BY <2>13 DEF FlipSettled, Flip, Finish, Promise!Settle
  <2>14. CASE CheckHeld(a)
    BY <2>14 DEF CheckHeld, WasHeld
  <2>15. CASE PostRefunded(a)
    BY <2>15 DEF PostRefunded, Post, Promise!RecordOutcome
  <2>16. CASE FlipDead(a)
    BY <2>16 DEF FlipDead, Flip, Finish, Promise!Die
  <2>17. QED
    BY <1>5, <2>1, <2>2, <2>3, <2>4, <2>5, <2>6, <2>7, <2>8,
       <2>9, <2>10, <2>11, <2>12, <2>13, <2>14, <2>15, <2>16 DEF Proceed
<1>6. ASSUME NEW a \in Process, CutShort(a) PROVE [Promise!Next]_(Promise!vars)
  BY <1>6 DEF CutShort
<1>7. ASSUME NEW v \in Verb, Decide(v) PROVE [Promise!Next]_(Promise!vars)
  <2>1. CASE row = "held" /\ ledger = {"held"}
    BY <1>7, <2>1 DEF Decide, Promise!RecordOutcome
  <2>2. CASE row = "held" /\ ledger # {"held"}
    <3>1. "settled" \notin ledger
      BY <1>7 DEF Decide
    <3>2. {"held", "refunded"} \subseteq ledger
      BY <2>2, <3>1
    <3>3. v # "release"
      BY <1>7, <2>2, <3>2 DEF Decide
    <3>4. QED
      BY <1>7, <2>2, <3>2, <3>3 DEF Decide
  <2>3. CASE row # "held"
    BY <1>7, <2>3 DEF Decide
  <2>4. QED
    BY <2>1, <2>2, <2>3
<1>8. CASE HtlcArrives
  BY <1>8 DEF HtlcArrives
<1>9. CASE InvoiceExpires
  BY <1>9 DEF InvoiceExpires
<1>10. CASE HoldEnds
  BY <1>10 DEF HoldEnds
<1>11. CASE WindowCloses
  BY <1>11 DEF WindowCloses
<1>12. CASE Reconnect
  BY <1>12 DEF Reconnect
<1>13. CASE UNCHANGED vars
  BY <1>13 DEF vars
<1>14. QED
  BY <1>1, <1>2, <1>3, <1>4, <1>5, <1>6, <1>7, <1>8, <1>9, <1>10, <1>11, <1>12, <1>13 DEF Next

\* The coordinator keeps the promise of Commitment: with one observer, and while a
\* hold does not die after its release was committed, every behaviour, whatever
\* the creators, the crashes and the wallets do, is one of Commitment's.
THEOREM PromiseIsKept ==
  ASSUME OneObserver, ~ HoldsDieLate
  PROVE  Spec => KeepsPromise
<1>1. Init => PromiseInv /\ Promise!Init
  BY TypeInit, WalletInit, LedgerInit, DirectionInit
     DEF PromiseInv, WalletInv, Init, Promise!Init, Dead
<1>2. PromiseInv /\ [Next]_vars => PromiseInv'
  BY TypeStep, WalletStep, StaleStep, LedgerStep, DirectionStep
     DEF PromiseInv, WalletInv, LedgerInv
<1>3. PromiseInv /\ [Next]_vars => [Promise!Next]_(Promise!vars)
  BY PromiseStep
<1>4. QED
  BY <1>1, <1>2, <1>3, PTL DEF Spec, KeepsPromise, Promise!Spec
=============================================================================
