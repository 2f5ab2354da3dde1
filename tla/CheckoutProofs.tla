----------------------------- MODULE CheckoutProofs -----------------------------
(***************************************************************************)
(* Theorems of Checkout, for any number of requests in flight, of legs and *)
(* of retries.  What a request has read (its leg, the fee of its snapshot, *)
(* the invoice of the row) is not what the rows say when it commits; the   *)
(* invariants say what of it can still be relied on.                       *)
(***************************************************************************)
EXTENDS Checkout, FiniteSetTheorems, TLAPS

PayingAt == {"findRow", "invoice", "pay", "lookup", "commit"}
EventName == {"pickup_checkout", "leg_checkin", "cancel"}
FeeOf == [key : Key, amount : {1, 2}]
CheckoutStep == [pc : {"confirm", "fresh", "snapshot"}, event : {"pickup_checkout"},
                 now : Nat \ {0}, leg : Leg]
OtherStep == [pc : {"snapshot"}, event : {"leg_checkin", "cancel"}, now : Nat \ {0}]
PaymentStep == [pc : {"findRow", "invoice", "pay", "lookup", "commit"}, event : EventName,
                now : Nat \ {0}, fee : FeeOf, hash : Nat]
Request == {Idle} \cup CheckoutStep \cup OtherStep \cup PaymentStep
PaymentRow == [state : {"pending", "settled"}, amount : {1, 2}, hash : Nat]
Invoice == [key : Key, state : {"open", "inflight", "settled"}]

TypeOK ==
  /\ now \in Nat \ {0}
  /\ state \in {"AT_HUB", "LEG_BOOKED", "IN_TRANSIT", "CANCELLED"}
  /\ leg \in Leg /\ work \in {1, 2}
  /\ confirmed \in [Leg -> [hub : Nat, carrier : Nat]]
  /\ row \in [Key -> PaymentRow \cup {NoRow}]
  /\ invoice \in Seq(Invoice)
  /\ request \in [Caller -> Request]

\* A row's hash is of an invoice for its own fee, and a row is settled only by one.
RowsMatch ==
  /\ \A k \in Key : row[k] # NoRow /\ row[k].hash # 0 =>
       row[k].hash \in DOMAIN invoice /\ invoice[row[k].hash].key = k
  /\ \A k \in Key : row[k] # NoRow /\ row[k].state = "settled" =>
       \E i \in DOMAIN invoice : invoice[i] = [key |-> k, state |-> "settled"]

\* What a request carries is still so when it acts on it.
Fits(c, r) ==
  /\ r.pc = "confirm" => Role[c] \in {"hub", "carrier"}
  /\ r.pc \in {"pay", "lookup"} =>
       r.hash \in DOMAIN invoice /\ invoice[r.hash].key = r.fee.key
  /\ r.pc \in {"invoice", "pay", "lookup", "commit"} => row[r.fee.key] # NoRow
  /\ r.pc = "commit" => row[r.fee.key].state = "settled"

Reliable == TypeOK /\ RowsMatch /\ \A c \in Caller : Fits(c, request[c])

----------------------------------------------------------------------------
(* What each action makes of the request it is a step of.                  *)

Becomes(c, r) == request' = [request EXCEPT ![c] = r]
Confirming(c, p) ==
  [pc |-> p, event |-> request[c].event, now |-> request[c].now, leg |-> request[c].leg]
PayingFrom(c, p, h) ==
  [pc |-> p, event |-> request[c].event, now |-> request[c].now, fee |-> request[c].fee,
   hash |-> h]

\* The step a request is at tells what it carries.
LEMMA CheckoutAt ==
  ASSUME TypeOK, NEW c \in Caller,
         \/ request[c].pc \in {"confirm", "fresh"}
         \/ request[c].pc = "snapshot" /\ request[c].event = "pickup_checkout"
  PROVE  request[c] \in CheckoutStep
<1>1. request[c] \in Request
  BY DEF TypeOK
<1>2. request[c] \notin PaymentStep /\ request[c] \notin OtherStep /\ request[c] # Idle
  BY DEF PaymentStep, OtherStep, Idle
<1>3. QED
  BY <1>1, <1>2 DEF Request

\* A request that pays carries a fee and a hash.
LEMMA PaymentAt ==
  ASSUME TypeOK, NEW c \in Caller, request[c].pc \in PayingAt
  PROVE  request[c] \in PaymentStep
<1>1. request[c] \in Request
  BY DEF TypeOK
<1>2. request[c] \notin CheckoutStep /\ request[c] \notin OtherStep /\ request[c] # Idle
  BY DEF CheckoutStep, OtherStep, Idle, PayingAt
<1>3. QED
  BY <1>1, <1>2 DEF Request

\* One at its snapshot knows its event and the time it was received.
LEMMA SnapshotAt ==
  ASSUME TypeOK, NEW c \in Caller, request[c].pc = "snapshot"
  PROVE  request[c].event \in EventName /\ request[c].now \in Nat \ {0}
  BY DEF TypeOK, Request, PaymentStep, CheckoutStep, OtherStep, Idle, EventName

\* Moving on keeps everything else that a request carries.
LEMMA ConfirmMoves ==
  ASSUME TypeOK, NEW c \in Caller, request[c] \in CheckoutStep,
         NEW p \in {"fresh", "snapshot"}, Goto(c, p)
  PROVE  Becomes(c, Confirming(c, p)) /\ Confirming(c, p) \in Request
<1>1. [request[c] EXCEPT !.pc = p] = Confirming(c, p)
  BY DEF CheckoutStep, Confirming
<1>2. Becomes(c, Confirming(c, p))
  BY <1>1 DEF Goto, TypeOK, Becomes
<1>3. Confirming(c, p) \in Request
  BY DEF CheckoutStep, Confirming, Request
<1>4. QED
  BY <1>2, <1>3

\* So does going on with a payment, but for the hash it may have learnt.
LEMMA PaymentMoves ==
  ASSUME TypeOK, NEW c \in Caller, request[c] \in PaymentStep, NEW p \in PayingAt, NEW h \in Nat,
         \/ Goto(c, p) /\ h = request[c].hash
         \/ request' = [request EXCEPT ![c].pc = p, ![c].hash = h]
  PROVE  Becomes(c, PayingFrom(c, p, h)) /\ PayingFrom(c, p, h) \in Request
<1>1. [request[c] EXCEPT !.pc = p] = PayingFrom(c, p, request[c].hash)
  BY DEF PaymentStep, PayingFrom
<1>2. [PayingFrom(c, p, request[c].hash) EXCEPT !.hash = h] = PayingFrom(c, p, h)
  BY DEF PayingFrom
<1>3. [request EXCEPT ![c].pc = p] = [request EXCEPT ![c] = PayingFrom(c, p, request[c].hash)]
  BY <1>1 DEF TypeOK
<1>4. [request EXCEPT ![c].pc = p, ![c].hash = h] = [request EXCEPT ![c] = PayingFrom(c, p, h)]
  BY <1>2, <1>3 DEF TypeOK
<1>5. Becomes(c, PayingFrom(c, p, h))
  BY <1>3, <1>4 DEF Goto, Becomes
<1>6. PayingFrom(c, p, h) \in Request
  BY DEF PaymentStep, PayingFrom, Request, PayingAt
<1>7. QED
  BY <1>5, <1>6

\* The fee that an event asks for is the fee of a key.
LEMMA FeeTyped ==
  ASSUME TypeOK, NEW e \in EventName
  PROVE  Fee(e) \in FeeOf
<1>1. <<"dep_hub_fee", leg>> \in Key /\ <<"arr_hub_fee", leg>> \in Key
      /\ <<"cancellation_compensation", 0>> \in Key
  BY DEF TypeOK, Key
<1>2. QED
  BY <1>1 DEF TypeOK, Fee, FeeOf, EventName

\* One request moves and the others stay.
LEMMA Became ==
  ASSUME TypeOK, NEW c \in Caller, NEW r \in Request, Becomes(c, r)
  PROVE  /\ request' \in [Caller -> Request] /\ request'[c] = r
         /\ \A d \in Caller \ {c} : request'[d] = request[d]
  BY DEF TypeOK, Becomes

----------------------------------------------------------------------------
(* The actions, without EXCEPT.                                            *)

\* A confirmation is added to its leg and takes none away.
LEMMA ConfirmEffect ==
  ASSUME TypeOK, NEW c \in Caller, Confirm(c), Role[c] \in {"hub", "carrier"}
  PROVE  /\ request[c] \in CheckoutStep /\ Becomes(c, Confirming(c, "fresh"))
         /\ Confirming(c, "fresh") \in Request
         /\ confirmed' \in [Leg -> [hub : Nat, carrier : Nat]]
         /\ \A l \in Leg : /\ confirmed[l].hub > 0 => confirmed'[l].hub > 0
                           /\ confirmed[l].carrier > 0 => confirmed'[l].carrier > 0
<1>1. request[c] \in CheckoutStep
  BY CheckoutAt DEF Confirm, At
<1>2. request[c].leg \in Leg /\ request[c].now \in Nat \ {0} /\ Role[c] \in {"hub", "carrier"}
  BY <1>1 DEF CheckoutStep, Confirm, At, TypeOK
<1>3. Becomes(c, Confirming(c, "fresh")) /\ Confirming(c, "fresh") \in Request
  BY <1>1, ConfirmMoves DEF Confirm
<1>4. QED
  BY <1>1, <1>2, <1>3 DEF Confirm, TypeOK

\* Only a checkout that both have confirmed goes on.
LEMMA ReadFreshEffect ==
  ASSUME TypeOK, NEW c \in Caller, ReadFresh(c)
  PROVE  /\ request[c] \in CheckoutStep
         /\ \/ Becomes(c, Idle)
            \/ /\ Becomes(c, Confirming(c, "snapshot")) /\ Confirming(c, "snapshot") \in Request
               /\ BothIn(request[c].leg)
<1>1. request[c] \in CheckoutStep
  BY CheckoutAt DEF ReadFresh, At
<1>2. QED
  BY <1>1, ConfirmMoves DEF ReadFresh, Answer, Becomes

\* Only a legal event goes on, and only to pay the fee that it asks for then.
LEMMA SnapshotEffect ==
  ASSUME TypeOK, NEW c \in Caller, Snapshot(c)
  PROVE  \/ Becomes(c, Idle)
         \/ \E r \in PaymentStep :
              /\ Becomes(c, r) /\ r.pc = "findRow" /\ r.event = request[c].event
              /\ Legal(r.event, r.now) /\ r.fee = Fee(r.event)
              /\ Cardinality(Paying) < PayersAtOnce
<1>1. request[c].event \in EventName /\ request[c].now \in Nat \ {0}
  BY SnapshotAt DEF Snapshot, At
<1>2. CASE Legal(request[c].event, request[c].now)
  <2> DEFINE r == [pc |-> "findRow", event |-> request[c].event, now |-> request[c].now,
                   fee |-> Fee(request[c].event), hash |-> 0]
  <2>1. r \in PaymentStep
    BY <1>1, FeeTyped DEF PaymentStep
  <2>2. Becomes(c, r) /\ Cardinality(Paying) < PayersAtOnce
    BY <1>2 DEF Snapshot, Becomes, TypeOK
  <2>3. QED
    BY <1>2, <2>1, <2>2
<1>3. CASE ~Legal(request[c].event, request[c].now)
  BY <1>3 DEF Snapshot, Answer, Becomes
<1>4. QED
  BY <1>2, <1>3

\* A row is made where there was none, and tells how to go on.
LEMMA FindRowEffect ==
  ASSUME TypeOK, NEW c \in Caller, findOrCreateRow(c)
  PROVE  /\ request[c] \in PaymentStep
         /\ row' \in [Key -> PaymentRow \cup {NoRow}]
         /\ \A k \in Key : row[k] # NoRow => row'[k] = row[k]
         /\ \A k \in Key : row[k] = NoRow =>
              row'[k] = NoRow \/ (row'[k].state = "pending" /\ row'[k].hash = 0)
         /\ row'[request[c].fee.key] # NoRow
         /\ \/ Becomes(c, Idle)
            \/ \E p \in {"commit", "invoice", "pay"} :
                 LET found == row'[request[c].fee.key] IN
                 /\ Becomes(c, PayingFrom(c, p, found.hash))
                 /\ PayingFrom(c, p, found.hash) \in Request
                 /\ p = "commit" => found.state = "settled"
                 /\ p = "invoice" => found.hash = 0
                 /\ p = "pay" => found.hash # 0
<1> DEFINE k == request[c].fee.key
           found == IF row[k] # NoRow THEN row[k]
                    ELSE [state |-> "pending", amount |-> request[c].fee.amount, hash |-> 0]
<1>1. request[c] \in PaymentStep
  BY PaymentAt DEF findOrCreateRow, At, PayingAt
<1>2. k \in Key /\ request[c].fee.amount \in {1, 2}
  BY <1>1 DEF PaymentStep, FeeOf
<1>3. found \in PaymentRow /\ found # NoRow
  BY <1>2 DEF TypeOK, PaymentRow, NoRow
<1>4. row' = [row EXCEPT ![k] = found]
  BY DEF findOrCreateRow
<1>5. row' \in [Key -> PaymentRow \cup {NoRow}] /\ row'[k] = found
      /\ \A j \in Key \ {k} : row'[j] = row[j]
  BY <1>2, <1>3, <1>4 DEF TypeOK
<1>6. \/ Becomes(c, Idle)
      \/ \E p \in {"commit", "invoice", "pay"} :
           /\ request' = [request EXCEPT ![c].pc = p, ![c].hash = found.hash]
           /\ p = "commit" => found.state = "settled"
           /\ p = "invoice" => found.hash = 0
           /\ p = "pay" => found.hash # 0
  <2> DEFINE p == IF found.state = "settled" THEN "commit"
                  ELSE IF found.hash = 0 THEN "invoice" ELSE "pay"
  <2>1. \/ request' = [request EXCEPT ![c] = Idle]
        \/ request' = [request EXCEPT ![c].pc = p, ![c].hash = found.hash]
    BY DEF findOrCreateRow, Answer
  <2>2. p \in {"commit", "invoice", "pay"}
        /\ (p = "commit" => found.state = "settled")
        /\ (p = "invoice" => found.hash = 0) /\ (p = "pay" => found.hash # 0)
    OBVIOUS
  <2> HIDE DEF p, found
  <2>3. QED
    BY <2>1, <2>2 DEF Becomes
<1>7. found.hash \in Nat
  BY <1>3 DEF PaymentRow
<1>8. ASSUME NEW p \in {"commit", "invoice", "pay"},
             request' = [request EXCEPT ![c].pc = p, ![c].hash = found.hash]
      PROVE  Becomes(c, PayingFrom(c, p, found.hash)) /\ PayingFrom(c, p, found.hash) \in Request
  BY <1>1, <1>7, <1>8, PaymentMoves DEF PayingAt
<1>9. \A j \in Key : row[j] # NoRow => row'[j] = row[j]
  BY <1>5
<1>10. \A j \in Key : row[j] = NoRow =>
         row'[j] = NoRow \/ (row'[j].state = "pending" /\ row'[j].hash = 0)
  BY <1>5
<1>11. found = row'[request[c].fee.key] /\ found # NoRow
  BY <1>3, <1>5
<1> HIDE DEF found
<1>12. \/ Becomes(c, Idle)
       \/ \E p \in {"commit", "invoice", "pay"} :
            /\ Becomes(c, PayingFrom(c, p, found.hash))
            /\ PayingFrom(c, p, found.hash) \in Request
            /\ p = "commit" => found.state = "settled"
            /\ p = "invoice" => found.hash = 0
            /\ p = "pay" => found.hash # 0
  BY <1>6, <1>8
<1>13. QED
  BY <1>1, <1>5, <1>9, <1>10, <1>11, <1>12

\* A new invoice goes at the end, and its hash into the row of its fee.
LEMMA MakeInvoiceEffect ==
  ASSUME TypeOK, NEW c \in Caller, MakeInvoice(c)
  PROVE  LET k == request[c].fee.key
             h == Len(invoice) + 1 IN
         /\ request[c] \in PaymentStep
         /\ invoice' = Append(invoice, [key |-> k, state |-> "open"])
         /\ invoice' \in Seq(Invoice)
         /\ row[k] # NoRow =>
              /\ row' \in [Key -> PaymentRow \cup {NoRow}]
              /\ row'[k] \in PaymentRow /\ row'[k].hash = h /\ row'[k].state = row[k].state
         /\ \A j \in Key \ {k} : row'[j] = row[j]
         /\ Becomes(c, PayingFrom(c, "pay", h)) /\ PayingFrom(c, "pay", h) \in Request
<1> DEFINE k == request[c].fee.key
           h == Len(invoice) + 1
<1>1. request[c] \in PaymentStep /\ k \in Key
  BY PaymentAt DEF MakeInvoice, At, PayingAt, PaymentStep, FeeOf
<1>2. h \in Nat
  BY DEF TypeOK
<1>3. Becomes(c, PayingFrom(c, "pay", h)) /\ PayingFrom(c, "pay", h) \in Request
  BY <1>1, <1>2, PaymentMoves DEF MakeInvoice, PayingAt
<1>4. row' = [row EXCEPT ![k].hash = h]
  BY DEF MakeInvoice, StoredHash
<1>5. ASSUME row[k] # NoRow
      PROVE  /\ row' \in [Key -> PaymentRow \cup {NoRow}]
             /\ row'[k] \in PaymentRow /\ row'[k].hash = h /\ row'[k].state = row[k].state
  <2>1. row[k] \in PaymentRow
    BY <1>1, <1>5 DEF TypeOK
  <2>2. [row[k] EXCEPT !.hash = h] = [state |-> row[k].state, amount |-> row[k].amount, hash |-> h]
    BY <2>1 DEF PaymentRow
  <2>3. row' = [row EXCEPT ![k] = [state |-> row[k].state, amount |-> row[k].amount, hash |-> h]]
    BY <1>1, <1>4, <2>2 DEF TypeOK
  <2>4. [state |-> row[k].state, amount |-> row[k].amount, hash |-> h] \in PaymentRow
    BY <1>2, <2>1 DEF PaymentRow
  <2>5. QED
    BY <1>1, <2>3, <2>4 DEF TypeOK
<1>6. \A j \in Key \ {k} : row'[j] = row[j]
  BY <1>1, <1>4 DEF TypeOK
<1>7. [key |-> k, state |-> "open"] \in Invoice
  BY <1>1 DEF Invoice
<1>8. invoice' = Append(invoice, [key |-> k, state |-> "open"]) /\ invoice' \in Seq(Invoice)
  BY <1>7 DEF MakeInvoice, TypeOK
<1>9. QED
  BY <1>1, <1>3, <1>5, <1>6, <1>8

\* Invoices keep their keys, and a settled one stays settled.
InvoicesKept ==
  /\ invoice' \in Seq(Invoice) /\ Len(invoice') = Len(invoice)
  /\ \A i \in DOMAIN invoice :
       /\ invoice'[i].key = invoice[i].key
       /\ invoice[i].state = "settled" => invoice'[i].state = "settled"

\* An invoice that is not settled may change its state.
LEMMA InvoiceMoves ==
  ASSUME TypeOK, NEW i \in DOMAIN invoice, NEW s \in {"open", "inflight", "settled"},
         invoice[i].state # "settled", invoice' = [invoice EXCEPT ![i].state = s]
  PROVE  InvoicesKept
<1>1. invoice[i] \in Invoice /\ i \in 1 .. Len(invoice)
  BY DEF TypeOK
<1>2. [invoice[i] EXCEPT !.state = s] = [key |-> invoice[i].key, state |-> s]
  BY <1>1 DEF Invoice
<1>3. invoice' = [invoice EXCEPT ![i] = [key |-> invoice[i].key, state |-> s]]
  BY <1>2 DEF TypeOK
<1>4. [key |-> invoice[i].key, state |-> s] \in Invoice
  BY <1>1 DEF Invoice
<1>5. /\ invoice \in [1 .. Len(invoice) -> Invoice] /\ Len(invoice) \in Nat
      /\ DOMAIN invoice = 1 .. Len(invoice)
  BY DEF TypeOK
<1>6. /\ invoice' \in [1 .. Len(invoice) -> Invoice]
      /\ invoice'[i] = [key |-> invoice[i].key, state |-> s]
      /\ \A j \in DOMAIN invoice \ {i} : invoice'[j] = invoice[j]
  BY <1>1, <1>3, <1>4, <1>5
<1>7. invoice' \in Seq(Invoice) /\ Len(invoice') = Len(invoice)
  BY <1>5, <1>6
<1>8. QED
  BY <1>6, <1>7 DEF InvoicesKept

\* Paying may send the invoice on its way, and keeps it in hand.
LEMMA PayEffect ==
  ASSUME TypeOK, NEW c \in Caller, PayInvoice(c), request[c].hash \in DOMAIN invoice
  PROVE  /\ request[c] \in PaymentStep /\ InvoicesKept
         /\ Becomes(c, PayingFrom(c, "lookup", request[c].hash))
         /\ PayingFrom(c, "lookup", request[c].hash) \in Request
<1>1. request[c] \in PaymentStep
  BY PaymentAt DEF PayInvoice, At, PayingAt
<1>2. InvoicesKept
  <2>1. CASE invoice' = invoice
    BY <2>1 DEF InvoicesKept, TypeOK
  <2>2. CASE invoice[request[c].hash].state = "open"
             /\ invoice' = [invoice EXCEPT ![request[c].hash].state = "inflight"]
    BY <2>2, InvoiceMoves
  <2>3. QED
    BY <2>1, <2>2 DEF PayInvoice
<1>3. request[c].hash \in Nat
  BY <1>1 DEF PaymentStep
<1>4. QED
  BY <1>1, <1>2, <1>3, PaymentMoves DEF PayInvoice, PayingAt

\* A request goes on to its commit only with the row settled by its own invoice.
LEMMA LookupEffect ==
  ASSUME TypeOK, NEW c \in Caller, LookupInvoice(c), row[request[c].fee.key] # NoRow
  PROVE  /\ request[c] \in PaymentStep
         /\ \/ Becomes(c, Idle) /\ UNCHANGED row
            \/ LET k == request[c].fee.key IN
               /\ invoice[request[c].hash].state = "settled"
               /\ row' \in [Key -> PaymentRow \cup {NoRow}]
               /\ row'[k] \in PaymentRow /\ row'[k].state = "settled" /\ row'[k].hash = row[k].hash
               /\ \A j \in Key \ {k} : row'[j] = row[j]
               /\ Becomes(c, PayingFrom(c, "commit", request[c].hash))
               /\ PayingFrom(c, "commit", request[c].hash) \in Request
<1> DEFINE k == request[c].fee.key
<1>1. request[c] \in PaymentStep /\ k \in Key /\ request[c].hash \in Nat
  BY PaymentAt DEF LookupInvoice, At, PayingAt, PaymentStep, FeeOf
<1>2. CASE ~Observed(request[c].hash)
  BY <1>1, <1>2 DEF LookupInvoice, Answer, Becomes
<1>3. CASE Observed(request[c].hash)
  <2>1. row[k] \in PaymentRow
    BY <1>1 DEF TypeOK
  <2> DEFINE paid == [state |-> "settled", amount |-> row[k].amount, hash |-> row[k].hash]
  <2>2. [row[k] EXCEPT !.state = "settled"] = paid /\ paid \in PaymentRow
    BY <2>1 DEF PaymentRow
  <2>3. row' = [row EXCEPT ![k] = paid]
    BY <1>1, <1>3, <2>2 DEF LookupInvoice, TypeOK
  <2>4. /\ row' \in [Key -> PaymentRow \cup {NoRow}] /\ row'[k] = paid
        /\ \A j \in Key \ {k} : row'[j] = row[j]
    BY <1>1, <2>2, <2>3 DEF TypeOK
  <2>5. /\ Becomes(c, PayingFrom(c, "commit", request[c].hash))
        /\ PayingFrom(c, "commit", request[c].hash) \in Request
    BY <1>1, <1>3, PaymentMoves DEF LookupInvoice, PayingAt
  <2>6. QED
    BY <1>1, <1>3, <2>2, <2>4, <2>5 DEF Observed
<1>4. QED
  BY <1>2, <1>3

----------------------------------------------------------------------------
(* Fees: a request that gets to its commit has had its own fee paid.       *)

\* Rows and invoices stay what they are for, and what is settled stays settled.
Forward ==
  /\ row' \in [Key -> PaymentRow \cup {NoRow}] /\ invoice' \in Seq(Invoice)
  /\ \A i \in DOMAIN invoice :
       /\ i \in DOMAIN invoice' /\ invoice'[i].key = invoice[i].key
       /\ invoice[i].state = "settled" => invoice'[i].state = "settled"
  /\ \A k \in Key : row[k] # NoRow =>
       row'[k] # NoRow /\ (row[k].state = "settled" => row'[k].state = "settled")

\* So what a request relies on stays true while others and the wallets move.
LEMMA OthersFit ==
  ASSUME TypeOK, Forward, NEW c \in Caller, Fits(c, request[c]), request'[c] = request[c]
  PROVE  Fits(c, request[c])'
<1>1. request[c].pc \in PayingAt => request[c].fee.key \in Key
  BY PaymentAt DEF PaymentStep, FeeOf
<1>2. QED
  BY <1>1 DEF Fits, Forward, PayingAt

\* A fee that was paid stays paid.
LEMMA SettledStays ==
  ASSUME TypeOK, Forward, NEW k,
         \E i \in DOMAIN invoice : invoice[i] = [key |-> k, state |-> "settled"]
  PROVE  \E i \in DOMAIN invoice' : invoice'[i] = [key |-> k, state |-> "settled"]
<1>1. PICK i \in DOMAIN invoice : invoice[i] = [key |-> k, state |-> "settled"]
  OBVIOUS
<1>2. i \in DOMAIN invoice' /\ invoice'[i].key = k /\ invoice'[i].state = "settled"
  BY <1>1 DEF Forward
<1>3. invoice'[i] \in Invoice
  BY <1>2 DEF Forward
<1>4. QED
  BY <1>2, <1>3 DEF Invoice

\* It suffices to look at the request that moves.
LEMMA ReliableStep ==
  ASSUME Reliable, Forward, RowsMatch', NEW c \in Caller, NEW r \in Request,
         Becomes(c, r), Fits(c, r)',
         now' \in Nat \ {0}, state' \in {"AT_HUB", "LEG_BOOKED", "IN_TRANSIT", "CANCELLED"},
         UNCHANGED <<leg, work>>, confirmed' \in [Leg -> [hub : Nat, carrier : Nat]]
  PROVE  Reliable' /\ Forward
<1> USE DEF Reliable
<1>1. /\ request' \in [Caller -> Request] /\ request'[c] = r
      /\ \A d \in Caller \ {c} : request'[d] = request[d]
  BY Became
<1>2. TypeOK'
  BY <1>1 DEF TypeOK, Forward
<1>3. ASSUME NEW d \in Caller PROVE Fits(d, request[d])'
  <2>1. CASE d = c
    BY <1>1, <2>1 DEF Fits
  <2>2. CASE d # c
    BY <1>1, <2>2, OthersFit
  <2>3. QED
    BY <2>1, <2>2
<1>4. QED
  BY <1>2, <1>3

\* A step that leaves the rows and the invoices alone.
LEMMA IdleStep ==
  ASSUME Reliable, NEW c \in Caller, NEW r \in Request, Becomes(c, r), Fits(c, r),
         UNCHANGED <<row, invoice, leg, work>>,
         now' \in Nat \ {0}, state' \in {"AT_HUB", "LEG_BOOKED", "IN_TRANSIT", "CANCELLED"},
         confirmed' \in [Leg -> [hub : Nat, carrier : Nat]]
  PROVE  Reliable' /\ Forward
<1>1. Forward /\ RowsMatch' /\ Fits(c, r)'
  BY DEF Reliable, TypeOK, Forward, RowsMatch, Fits
<1>2. QED
  BY <1>1, ReliableStep

\* A new request carries what it just read.
LEMMA StartReliable ==
  ASSUME Reliable, NEW c \in Caller, CheckoutRequest(c) \/ CheckinRequest(c) \/ CancelRequest(c)
  PROVE  Reliable' /\ Forward
<1>1. CASE CheckoutRequest(c)
  <2> DEFINE r == [pc |-> "confirm", event |-> "pickup_checkout", now |-> now, leg |-> leg]
  <2>1. r \in Request /\ Fits(c, r) /\ Becomes(c, r)
    BY <1>1 DEF CheckoutRequest, CheckoutStep, Request, Fits, Reliable, TypeOK, Becomes
  <2>2. QED
    BY <1>1, <2>1, IdleStep DEF CheckoutRequest, wallets, Reliable, TypeOK
<1>2. ASSUME NEW e \in {"leg_checkin", "cancel"},
             Becomes(c, [pc |-> "snapshot", event |-> e, now |-> now]),
             UNCHANGED <<now, state, leg, confirmed, work, row, invoice>>
      PROVE  Reliable' /\ Forward
  <2> DEFINE r == [pc |-> "snapshot", event |-> e, now |-> now]
  <2>1. r \in Request /\ Fits(c, r)
    BY DEF OtherStep, Request, Fits, Reliable, TypeOK
  <2>2. QED
    BY <1>2, <2>1, IdleStep DEF Reliable, TypeOK
<1>3. QED
  BY <1>1, <1>2 DEF CheckinRequest, CancelRequest, Becomes, wallets

\* A request that is answered carries nothing.
LEMMA AnswerReliable ==
  ASSUME Reliable, NEW c \in Caller, Becomes(c, Idle), UNCHANGED <<row, invoice, leg, work>>,
         now' \in Nat \ {0}, state' \in {"AT_HUB", "LEG_BOOKED", "IN_TRANSIT", "CANCELLED"},
         UNCHANGED confirmed
  PROVE  Reliable' /\ Forward
<1>1. Idle \in Request /\ Fits(c, Idle)
  BY DEF Request, Idle, Fits
<1>2. QED
  BY <1>1, IdleStep DEF Reliable, TypeOK

\* Up to the snapshot no row and no invoice changes.
LEMMA ConfirmReliable ==
  ASSUME Reliable, NEW c \in Caller, Confirm(c) \/ ReadFresh(c) \/ Snapshot(c)
  PROVE  Reliable' /\ Forward
<1>1. CASE Confirm(c)
  <2>1. Role[c] \in {"hub", "carrier"}
    BY <1>1 DEF Confirm, At, Reliable, Fits
  <2>2. Fits(c, Confirming(c, "fresh"))
    BY DEF Fits, Confirming
  <2>3. QED
    BY <1>1, <2>1, <2>2, ConfirmEffect, IdleStep DEF Confirm, wallets, Reliable, TypeOK
<1>2. CASE ReadFresh(c)
  <2>1. Fits(c, Confirming(c, "snapshot"))
    BY DEF Fits, Confirming
  <2>2. UNCHANGED <<now, state, leg, confirmed, work, row, invoice>>
    BY <1>2 DEF ReadFresh, wallets
  <2>3. QED
    BY <1>2, <2>1, <2>2, ReadFreshEffect, IdleStep, AnswerReliable DEF Reliable, TypeOK
<1>3. CASE Snapshot(c)
  <2>1. UNCHANGED <<now, state, leg, confirmed, work, row, invoice>>
    BY <1>3 DEF Snapshot, wallets
  <2>2. ASSUME NEW r \in PaymentStep, r.pc = "findRow", Becomes(c, r)
        PROVE  Reliable' /\ Forward
    <3>1. r \in Request /\ Fits(c, r)
      BY <2>2 DEF Request, Fits
    <3>2. QED
      BY <2>1, <2>2, <3>1, IdleStep DEF Reliable, TypeOK
  <2>3. QED
    BY <1>3, <2>1, <2>2, SnapshotEffect, AnswerReliable DEF Reliable, TypeOK
<1>4. QED
  BY <1>1, <1>2, <1>3

\* The row that is found, or made, fits the request that looked for it.
LEMMA FindRowReliable ==
  ASSUME Reliable, NEW c \in Caller, findOrCreateRow(c)
  PROVE  Reliable' /\ Forward
<1> USE DEF Reliable
<1>1. UNCHANGED <<now, state, leg, confirmed, work, invoice>>
  BY DEF findOrCreateRow
<1>2. Forward
  BY <1>1, FindRowEffect DEF Forward, TypeOK
<1>3. RowsMatch'
  BY <1>1, FindRowEffect DEF RowsMatch
<1>4. request[c].fee.key \in Key
  BY FindRowEffect DEF PaymentStep, FeeOf
<1>5. Fits(c, Idle)' /\ Idle \in Request
  BY DEF Fits, Idle, Request
<1>6. ASSUME NEW p \in {"commit", "invoice", "pay"},
             LET found == row'[request[c].fee.key] IN
               /\ p = "commit" => found.state = "settled"
               /\ p = "pay" => found.hash # 0,
             row'[request[c].fee.key] # NoRow
      PROVE  \A r : r = PayingFrom(c, p, row'[request[c].fee.key].hash) => Fits(c, r)'
  BY <1>3, <1>4, <1>6 DEF Fits, PayingFrom, RowsMatch
<1>7. QED
  BY <1>1, <1>2, <1>3, <1>5, <1>6, FindRowEffect, ReliableStep DEF TypeOK

\* The invoice that is made fits the row and the request.
LEMMA MakeInvoiceReliable ==
  ASSUME Reliable, NEW c \in Caller, MakeInvoice(c)
  PROVE  Reliable' /\ Forward
<1> DEFINE k == request[c].fee.key
           h == Len(invoice) + 1
<1> USE DEF Reliable
<1>1. UNCHANGED <<now, state, leg, confirmed, work>>
  BY DEF MakeInvoice
<1>2. k \in Key /\ row[k] # NoRow
  BY MakeInvoiceEffect DEF PaymentStep, FeeOf, Fits, MakeInvoice, At
<1>3. /\ h \in DOMAIN invoice' /\ h # 0 /\ invoice'[h].key = k
      /\ \A i \in DOMAIN invoice : i \in DOMAIN invoice' /\ invoice'[i] = invoice[i]
  <2>1. invoice' = Append(invoice, [key |-> k, state |-> "open"]) /\ Len(invoice) \in Nat
        /\ DOMAIN invoice = 1 .. Len(invoice)
    BY MakeInvoiceEffect DEF TypeOK
  <2>2. DOMAIN invoice' = 1 .. h /\ invoice'[h] = [key |-> k, state |-> "open"]
        /\ \A i \in 1 .. Len(invoice) : invoice'[i] = invoice[i]
    BY <2>1 DEF TypeOK
  <2>3. QED
    BY <2>1, <2>2
<1>4. /\ row' \in [Key -> PaymentRow \cup {NoRow}] /\ invoice' \in Seq(Invoice)
      /\ row'[k] \in PaymentRow /\ row'[k].hash = h /\ row'[k].state = row[k].state
      /\ \A j \in Key \ {k} : row'[j] = row[j]
      /\ Becomes(c, PayingFrom(c, "pay", h)) /\ PayingFrom(c, "pay", h) \in Request
  BY <1>2, MakeInvoiceEffect
<1>5. row'[k] # NoRow
  BY <1>4 DEF PaymentRow, NoRow
<1> HIDE DEF k, h
<1>6. Forward
  BY <1>3, <1>4, <1>5 DEF Forward
<1>7. RowsMatch'
  BY <1>2, <1>3, <1>4, <1>6, SettledStays DEF RowsMatch
<1>8. \A r : r = PayingFrom(c, "pay", h) => Fits(c, r)'
  BY <1>3, <1>5 DEF Fits, PayingFrom, k
<1>9. QED
  BY <1>1, <1>4, <1>6, <1>7, <1>8, ReliableStep DEF TypeOK

\* The wallets act on an invoice, whether asked to pay or by themselves.
LEMMA InvoicesForward ==
  ASSUME Reliable, InvoicesKept, UNCHANGED row
  PROVE  Forward /\ RowsMatch'
<1> USE DEF Reliable
<1>1. DOMAIN invoice' = DOMAIN invoice
  BY DEF InvoicesKept, TypeOK
<1>2. Forward
  BY <1>1 DEF InvoicesKept, Forward, TypeOK
<1>3. RowsMatch'
  BY <1>1, <1>2, SettledStays DEF RowsMatch, InvoicesKept
<1>4. QED
  BY <1>2, <1>3

\* Paying moves the invoice on, for the request and for the others.
LEMMA PayReliable ==
  ASSUME Reliable, NEW c \in Caller, PayInvoice(c)
  PROVE  Reliable' /\ Forward
<1> USE DEF Reliable
<1>1. /\ request[c].hash \in DOMAIN invoice /\ invoice[request[c].hash].key = request[c].fee.key
      /\ row[request[c].fee.key] # NoRow
  BY DEF PayInvoice, At, Fits
<1>2. Forward /\ RowsMatch' /\ UNCHANGED <<now, state, leg, confirmed, work, row>>
  BY <1>1, PayEffect, InvoicesForward DEF PayInvoice
<1>3. \A r : r = PayingFrom(c, "lookup", request[c].hash) => Fits(c, r)'
  BY <1>1, <1>2 DEF Fits, PayingFrom, Forward
<1>4. QED
  BY <1>1, <1>2, <1>3, PayEffect, ReliableStep DEF TypeOK

\* A row is settled only with a settled invoice of its fee.
LEMMA LookupReliable ==
  ASSUME Reliable, NEW c \in Caller, LookupInvoice(c)
  PROVE  Reliable' /\ Forward
<1> DEFINE k == request[c].fee.key
<1> USE DEF Reliable
<1>1. /\ row[k] # NoRow /\ request[c].hash \in DOMAIN invoice
      /\ invoice[request[c].hash].key = k
      /\ UNCHANGED <<now, state, leg, confirmed, work, invoice>>
  BY DEF LookupInvoice, At, Fits
<1>2. k \in Key
  BY <1>1, LookupEffect DEF PaymentStep, FeeOf
<1>3. CASE Becomes(c, Idle) /\ UNCHANGED row
  BY <1>1, <1>3, AnswerReliable DEF TypeOK
<1>4. CASE /\ invoice[request[c].hash].state = "settled"
           /\ row' \in [Key -> PaymentRow \cup {NoRow}]
           /\ row'[k] \in PaymentRow /\ row'[k].state = "settled"
           /\ row'[k].hash = row[k].hash
           /\ \A j \in Key \ {k} : row'[j] = row[j]
           /\ Becomes(c, PayingFrom(c, "commit", request[c].hash))
           /\ PayingFrom(c, "commit", request[c].hash) \in Request
  <2>1. invoice[request[c].hash] = [key |-> k, state |-> "settled"]
    <3>1. invoice[request[c].hash] \in Invoice
      BY <1>1 DEF TypeOK
    <3>2. QED
      BY <1>1, <1>4, <3>1 DEF Invoice
  <2>2. row'[k] # NoRow
    BY <1>4 DEF PaymentRow, NoRow
  <2> HIDE DEF k
  <2>3. Forward
    BY <1>1, <1>4, <2>2 DEF Forward, TypeOK
  <2>4. RowsMatch'
    BY <1>1, <1>2, <1>4, <2>1 DEF RowsMatch
  <2>5. \A r : r = PayingFrom(c, "commit", request[c].hash) => Fits(c, r)'
    BY <1>4, <2>2 DEF Fits, PayingFrom, k
  <2>6. QED
    BY <1>1, <1>4, <2>3, <2>4, <2>5, ReliableStep DEF TypeOK
<1>5. QED
  BY <1>1, <1>3, <1>4, LookupEffect

\* The transaction changes the parcel, and no payment.
LEMMA CommitReliable ==
  ASSUME Reliable, NEW c \in Caller, Commit(c)
  PROVE  Reliable' /\ Forward
<1>1. request[c].event \in EventName
  BY PaymentAt DEF Commit, At, PayingAt, PaymentStep, Reliable
<1>2. state' \in {"AT_HUB", "LEG_BOOKED", "IN_TRANSIT", "CANCELLED"}
  BY <1>1 DEF Commit, After, EventName, TypeOK, Reliable
<1>3. QED
  BY <1>2, AnswerReliable DEF Commit, Answer, Becomes, wallets, TypeOK, Reliable

\* Time, wallets and other requests leave what is relied on.
LEMMA RestReliable ==
  ASSUME Reliable, pickup_timeout \/ BookLeg \/ Reroute \/ Tick \/ UNCHANGED vars
                   \/ \E i \in DOMAIN invoice : Settle(i)
  PROVE  Reliable' /\ Forward
<1>1. CASE UNCHANGED <<row, invoice, request>>
  <2>1. TypeOK'
    BY <1>1, CallersAreMany DEF Reliable, TypeOK, pickup_timeout, BookLeg, Reroute, Tick, vars,
       Leg, Settle
  <2>2. Forward
    BY <1>1 DEF Reliable, TypeOK, Forward
  <2>3. QED
    BY <1>1, <2>1, <2>2 DEF Reliable, RowsMatch, Fits
<1>2. ASSUME NEW i \in DOMAIN invoice, Settle(i) PROVE Reliable' /\ Forward
  <2>1. Forward /\ RowsMatch' /\ UNCHANGED <<now, state, leg, confirmed, work, row, request>>
    BY <1>2, InvoiceMoves, InvoicesForward DEF Settle, Reliable
  <2>2. TypeOK'
    BY <2>1 DEF Reliable, TypeOK, Forward
  <2>3. QED
    BY <2>1, <2>2, OthersFit DEF Reliable
<1>3. QED
  BY <1>1, <1>2 DEF pickup_timeout, BookLeg, Reroute, Tick, vars, wallets

\* Every step keeps what the requests rely on, and takes back no payment.
LEMMA ReliableStays ==
  ASSUME Reliable, [Next]_vars
  PROVE  Reliable' /\ Forward
<1>1. ASSUME NEW c \in Caller, InvoiceFails(c) \/ Crash(c) PROVE Reliable' /\ Forward
  BY <1>1, AnswerReliable DEF InvoiceFails, Crash, Answer, Becomes, wallets, Reliable, TypeOK
<1>2. QED
  BY <1>1, StartReliable, ConfirmReliable, FindRowReliable, MakeInvoiceReliable, PayReliable,
     LookupReliable, CommitReliable, RestReliable DEF Next

\* What a commit relies on was paid.
LEMMA CommittedFeeIsPaid ==
  ASSUME Reliable, NEW c \in Caller, At(c, "commit")
  PROVE  \E i \in DOMAIN invoice : invoice[i] = [key |-> request[c].fee.key, state |-> "settled"]
<1>1. request[c].fee.key \in Key
  BY PaymentAt DEF At, PayingAt, PaymentStep, FeeOf, Reliable
<1>2. QED
  BY <1>1 DEF Reliable, Fits, RowsMatch, At

\* A commit certifies only what was paid, and nothing paid is taken back.
LEMMA CertifiedStays ==
  ASSUME Reliable, CertifiedIsPaid, [Next]_vars
  PROVE  CertifiedIsPaid'
<1> DEFINE Paid(k) == \E i \in DOMAIN invoice : invoice[i] = [key |-> k, state |-> "settled"]
<1>1. \A k : Paid(k) => Paid(k)'
  BY ReliableStays, SettledStays DEF Reliable
<1>2. CASE UNCHANGED pickedUp /\ (state' = "CANCELLED" => state = "CANCELLED")
  BY <1>1, <1>2 DEF CertifiedIsPaid
<1>3. ASSUME NEW c \in Caller, Commit(c) PROVE CertifiedIsPaid'
  <2>1. Paid(request[c].fee.key)
    BY <1>3, CommittedFeeIsPaid DEF Commit
  <2>2. request[c].event \in EventName
    BY <1>3, PaymentAt DEF Commit, At, PayingAt, PaymentStep, Reliable
  <2>3. CASE UNCHANGED <<state, pickedUp>>
    BY <1>2, <2>3
  <2>4. CASE /\ Unchanged(request[c]) /\ state' = After(request[c].event)
             /\ pickedUp' = IF request[c].event = "pickup_checkout" THEN pickedUp \cup {leg}
                            ELSE pickedUp
    <3>1. request[c].fee.key = Fee(request[c].event).key
      BY <2>4 DEF Unchanged
    <3>2. CASE request[c].event = "pickup_checkout"
      BY <1>1, <2>1, <2>4, <3>1, <3>2 DEF CertifiedIsPaid, After, Fee
    <3>3. CASE request[c].event = "leg_checkin"
      BY <1>2, <2>4, <3>3 DEF After
    <3>4. CASE request[c].event = "cancel"
      BY <1>1, <2>1, <2>4, <3>1, <3>4 DEF CertifiedIsPaid, After, Fee
    <3>5. QED
      BY <2>2, <3>2, <3>3, <3>4 DEF EventName
  <2>5. QED
    BY <1>3, <2>3, <2>4 DEF Commit
<1>4. ASSUME NEW c \in Caller,
             \/ CheckoutRequest(c) \/ Confirm(c) \/ ReadFresh(c)
             \/ CheckinRequest(c) \/ CancelRequest(c)
             \/ Snapshot(c) \/ findOrCreateRow(c) \/ MakeInvoice(c) \/ InvoiceFails(c)
             \/ PayInvoice(c) \/ LookupInvoice(c) \/ Crash(c)
      PROVE  UNCHANGED <<state, pickedUp>>
  BY <1>4 DEF CheckoutRequest, Confirm, ReadFresh, CheckinRequest, CancelRequest, Snapshot,
     findOrCreateRow, MakeInvoice, InvoiceFails, PayInvoice, LookupInvoice, Crash
<1>5. CASE pickup_timeout \/ BookLeg \/ Reroute \/ Tick \/ UNCHANGED vars
           \/ \E i \in DOMAIN invoice : Settle(i)
  BY <1>2, <1>5 DEF pickup_timeout, BookLeg, Reroute, Tick, Settle, vars
<1>6. QED
  BY <1>2, <1>3, <1>4, <1>5 DEF Next

\* Nothing is in flight when the leg has just been booked.
LEMMA InitReliable == Init => Reliable /\ CertifiedIsPaid
<1> SUFFICES ASSUME Init PROVE Reliable /\ CertifiedIsPaid
  OBVIOUS
<1> USE CallersAreMany DEF Init
<1>1. TypeOK
  BY WindowsPositive DEF TypeOK, Leg, Request
<1>2. RowsMatch /\ \A c \in Caller : Fits(c, request[c])
  BY DEF RowsMatch, Fits, NoRow, Idle
<1>3. QED
  BY <1>1, <1>2 DEF Reliable, CertifiedIsPaid

\* CertifiedIsPaid: a leg is picked up, and a shipment cancelled, only after the payee's
\* wallet holds the fee, however many requests pay, retry, crash or conflict at once.
THEOREM CertificationIsPaid == Spec => []CertifiedIsPaid
<1>1. Init => Reliable /\ CertifiedIsPaid
  BY InitReliable
<1>2. Reliable /\ CertifiedIsPaid /\ [Next]_vars => Reliable' /\ CertifiedIsPaid'
  BY ReliableStays, CertifiedStays
<1>3. QED
  BY <1>1, <1>2, PTL DEF Spec

----------------------------------------------------------------------------
(* Confirmations.                                                          *)

BothSaid(l) == confirmed[l].hub > 0 /\ confirmed[l].carrier > 0

\* Until its snapshot a checkout is about the current leg; from then on it is bound
\* by its fee to a leg that both have confirmed.
Agreed(r) ==
  /\ r.pc \in {"confirm", "fresh"} => r.leg = leg
  /\ r.pc = "snapshot" /\ r.event = "pickup_checkout" => r.leg = leg /\ BothSaid(leg)
  /\ r.pc \in PayingAt /\ r.event = "pickup_checkout" =>
       \E l \in Leg : r.fee.key = <<"dep_hub_fee", l>> /\ BothSaid(l)

AllAgreed ==
  /\ \A c \in Caller : Agreed(request[c])
  /\ pickedUp \subseteq Leg /\ PickedUpWasConfirmed

\* It suffices to look at the request that moves, while no leg is booked.
LEMMA AgreedStep ==
  ASSUME TypeOK, AllAgreed, NEW c \in Caller, NEW r \in Request, Becomes(c, r), Agreed(r)',
         leg' = leg, \A l \in Leg : BothSaid(l) => BothSaid(l)',
         pickedUp' \subseteq Leg, \A l \in pickedUp' \ pickedUp : BothSaid(l)'
  PROVE  AllAgreed'
<1>1. request'[c] = r /\ \A d \in Caller \ {c} : request'[d] = request[d]
  BY Became
<1>2. leg \in Leg
  BY DEF TypeOK
<1>3. ASSUME NEW d \in Caller PROVE Agreed(request[d])'
  <2>1. CASE d = c
    BY <1>1, <2>1 DEF Agreed
  <2>2. CASE d # c
    BY <1>1, <1>2, <2>2 DEF AllAgreed, Agreed
  <2>3. QED
    BY <2>1, <2>2
<1>4. PickedUpWasConfirmed'
  BY DEF AllAgreed, PickedUpWasConfirmed, BothSaid
<1>5. QED
  BY <1>3, <1>4 DEF AllAgreed

\* A request that is answered, or goes on with the same fee, agrees as before.
LEMMA AgreedOn ==
  ASSUME TypeOK, AllAgreed, NEW c \in Caller, NEW r \in Request, Becomes(c, r),
         \/ r = Idle
         \/ /\ request[c].pc \in PayingAt /\ r.pc \in PayingAt
            /\ r.event = request[c].event /\ r.fee = request[c].fee,
         UNCHANGED <<leg, confirmed, pickedUp>>
  PROVE  AllAgreed'
<1>1. Agreed(r)'
  BY DEF AllAgreed, Agreed, BothSaid, Idle, PayingAt
<1>2. QED
  BY <1>1, AgreedStep DEF AllAgreed, BothSaid

\* No step unbinds a checkout from the leg that was confirmed.
LEMMA AgreementStays ==
  ASSUME ~MayStall, Reliable, AllAgreed, [Next]_vars
  PROVE  AllAgreed'
<1> USE DEF Reliable
<1>0. Idle \in Request
  BY DEF Request
<1>1. ASSUME NEW c \in Caller, CheckoutRequest(c) PROVE AllAgreed'
  <2> DEFINE r == [pc |-> "confirm", event |-> "pickup_checkout", now |-> now, leg |-> leg]
  <2>1. r \in Request /\ Becomes(c, r) /\ UNCHANGED <<leg, confirmed, pickedUp>>
    BY <1>1 DEF CheckoutRequest, CheckoutStep, Request, TypeOK, Becomes
  <2>2. \A q : q = r => Agreed(q)'
    BY <2>1 DEF Agreed, PayingAt
  <2>3. QED
    BY <2>1, <2>2, AgreedStep DEF AllAgreed, BothSaid
<1>2. ASSUME NEW c \in Caller, CheckinRequest(c) \/ CancelRequest(c) PROVE AllAgreed'
  <2>1. \E e \in {"leg_checkin", "cancel"} :
          Becomes(c, [pc |-> "snapshot", event |-> e, now |-> now])
    BY <1>2 DEF CheckinRequest, CancelRequest, Becomes
  <2>2. UNCHANGED <<leg, confirmed, pickedUp>>
    BY <1>2 DEF CheckinRequest, CancelRequest
  <2>3. ASSUME NEW e \in {"leg_checkin", "cancel"},
               Becomes(c, [pc |-> "snapshot", event |-> e, now |-> now])
        PROVE  AllAgreed'
    <3> DEFINE r == [pc |-> "snapshot", event |-> e, now |-> now]
    <3>1. r \in Request /\ \A q : q = r => Agreed(q)'
      BY DEF OtherStep, Request, TypeOK, Agreed, PayingAt
    <3>2. QED
      BY <2>2, <2>3, <3>1, AgreedStep DEF AllAgreed, BothSaid
  <2>4. QED
    BY <2>1, <2>3
<1>3. ASSUME NEW c \in Caller, Confirm(c) PROVE AllAgreed'
  <2>1. request[c].pc = "confirm" /\ Role[c] \in {"hub", "carrier"} /\ UNCHANGED <<leg, pickedUp>>
    BY <1>3 DEF Confirm, At, Fits
  <2>2. \A r : r = Confirming(c, "fresh") => Agreed(r)'
    BY <2>1 DEF Agreed, AllAgreed, Confirming, PayingAt
  <2>3. QED
    BY <1>3, <2>1, <2>2, ConfirmEffect, AgreedStep DEF AllAgreed, BothSaid
<1>4. ASSUME NEW c \in Caller, ReadFresh(c) PROVE AllAgreed'
  <2>1. request[c].leg = leg /\ UNCHANGED <<leg, confirmed, pickedUp>>
    BY <1>4 DEF ReadFresh, At, AllAgreed, Agreed
  <2>2. CASE Becomes(c, Idle)
    BY <1>0, <2>1, <2>2, AgreedOn
  <2>3. CASE /\ Becomes(c, Confirming(c, "snapshot")) /\ Confirming(c, "snapshot") \in Request
             /\ BothIn(request[c].leg)
    <3>1. \A r : r = Confirming(c, "snapshot") => Agreed(r)'
      BY <2>1, <2>3 DEF Agreed, Confirming, BothIn, BothSaid, PayingAt
    <3>2. QED
      BY <2>1, <2>3, <3>1, AgreedStep DEF AllAgreed, BothSaid
  <2>4. QED
    BY <1>4, <2>2, <2>3, ReadFreshEffect
<1>5. ASSUME NEW c \in Caller, Snapshot(c) PROVE AllAgreed'
  <2>1. request[c].pc = "snapshot" /\ UNCHANGED <<leg, confirmed, pickedUp>> /\ leg \in Leg
    BY <1>5 DEF Snapshot, At, TypeOK
  <2>2. ASSUME NEW r \in PaymentStep, Becomes(c, r), r.pc = "findRow",
               r.event = request[c].event, r.fee = Fee(r.event)
        PROVE  AllAgreed'
    <3>1. r.event = "pickup_checkout" => r.fee.key = <<"dep_hub_fee", leg>> /\ BothSaid(leg)
      <4>1. Fee("pickup_checkout").key = <<"dep_hub_fee", leg>>
        BY DEF Fee
      <4>2. r.event = "pickup_checkout" => BothSaid(leg)
        BY <2>1, <2>2 DEF AllAgreed, Agreed
      <4>3. QED
        BY <2>2, <4>1, <4>2
    <3>2. Agreed(r)' /\ r \in Request
      BY <2>1, <2>2, <3>1 DEF Agreed, BothSaid, Request
    <3>3. QED
      BY <2>1, <2>2, <3>2, AgreedStep DEF AllAgreed, BothSaid
  <2>3. QED
    BY <1>0, <1>5, <2>1, <2>2, SnapshotEffect, AgreedOn
<1>6. ASSUME NEW c \in Caller, findOrCreateRow(c) PROVE AllAgreed'
  <2>1. request[c].pc = "findRow" /\ UNCHANGED <<leg, confirmed, pickedUp>>
    BY <1>6 DEF findOrCreateRow, At
  <2>2. QED
    BY <1>0, <1>6, <2>1, FindRowEffect, AgreedOn DEF PayingFrom, PayingAt
<1>7. ASSUME NEW c \in Caller, MakeInvoice(c) PROVE AllAgreed'
  <2>1. request[c].pc = "invoice" /\ UNCHANGED <<leg, confirmed, pickedUp>>
    BY <1>7 DEF MakeInvoice, At
  <2>2. QED
    BY <1>7, <2>1, MakeInvoiceEffect, AgreedOn DEF PayingFrom, PayingAt
<1>8. ASSUME NEW c \in Caller, PayInvoice(c) PROVE AllAgreed'
  <2>1. request[c].pc = "pay" /\ UNCHANGED <<leg, confirmed, pickedUp>>
        /\ request[c].hash \in DOMAIN invoice
    BY <1>8 DEF PayInvoice, At, Fits
  <2>2. QED
    BY <1>8, <2>1, PayEffect, AgreedOn DEF PayingFrom, PayingAt
<1>9. ASSUME NEW c \in Caller, LookupInvoice(c) PROVE AllAgreed'
  <2>1. request[c].pc = "lookup" /\ UNCHANGED <<leg, confirmed, pickedUp>>
        /\ row[request[c].fee.key] # NoRow
    BY <1>9 DEF LookupInvoice, At, Fits
  <2>2. QED
    BY <1>0, <1>9, <2>1, LookupEffect, AgreedOn DEF PayingFrom, PayingAt
<1>10. ASSUME NEW c \in Caller, Commit(c) PROVE AllAgreed'
  <2>1. request[c].pc = "commit" /\ Becomes(c, Idle) /\ UNCHANGED <<leg, confirmed>> /\ leg \in Leg
    BY <1>10 DEF Commit, At, Answer, Becomes, TypeOK
  <2>2. CASE pickedUp' = pickedUp
    BY <1>0, <2>1, <2>2, AgreedOn
  <2>3. CASE /\ pickedUp' = pickedUp \cup {leg} /\ request[c].event = "pickup_checkout"
             /\ Unchanged(request[c])
    <3>1. request[c].fee.key = <<"dep_hub_fee", leg>>
      BY <2>3 DEF Unchanged, Fee
    <3>2. BothSaid(leg)
      BY <2>1, <2>3, <3>1 DEF AllAgreed, Agreed, PayingAt
    <3>3. Agreed(Idle)'
      BY DEF Agreed, Idle, PayingAt
    <3>4. QED
      BY <1>0, <2>1, <2>3, <3>2, <3>3, AgreedStep DEF AllAgreed, BothSaid
  <2>4. QED
    BY <1>10, <2>2, <2>3 DEF Commit
<1>11. ASSUME NEW c \in Caller, InvoiceFails(c) \/ Crash(c) PROVE AllAgreed'
  BY <1>0, <1>11, AgreedOn DEF InvoiceFails, Crash, Answer, Becomes
<1>12. CASE BookLeg
  BY <1>12 DEF BookLeg, AllAgreed, Agreed, BothSaid, PickedUpWasConfirmed, PayingAt, TypeOK, Request
<1>13. CASE pickup_timeout \/ Reroute \/ Tick \/ UNCHANGED vars \/ \E i \in DOMAIN invoice : Settle(i)
  BY <1>13 DEF pickup_timeout, Reroute, Tick, Settle, vars, AllAgreed, Agreed, BothSaid,
     PickedUpWasConfirmed
<1>14. QED
  BY <1>1, <1>2, <1>3, <1>4, <1>5, <1>6, <1>7, <1>8, <1>9, <1>10, <1>11, <1>12, <1>13 DEF Next

\* PickedUpWasConfirmed: while requests do not stall for the life of a leg, a leg is
\* picked up only after hub and carrier have confirmed that very leg, whatever payments,
\* retries and timeouts of earlier legs are still on their way.
THEOREM PickupIsConfirmed ==
  ASSUME ~MayStall
  PROVE  Spec => []PickedUpWasConfirmed
<1>1. Init => Reliable /\ AllAgreed
  BY InitReliable DEF Init, AllAgreed, Agreed, Idle, PayingAt, PickedUpWasConfirmed
<1>2. Reliable /\ AllAgreed /\ [Next]_vars => Reliable' /\ AllAgreed'
  BY ReliableStays, AgreementStays
<1>3. AllAgreed => PickedUpWasConfirmed
  BY DEF AllAgreed
<1>4. QED
  BY <1>1, <1>2, <1>3, PTL DEF Spec

----------------------------------------------------------------------------
(* One payment per fee.                                                    *)

\* One request pays at a time, and issues an invoice only where there is none; so the
\* only invoice of a fee is the one its row knows.
OnlyInvoice ==
  /\ \A c, d \in Caller : request[c].pc \in PayingAt /\ request[d].pc \in PayingAt => c = d
  /\ \A i \in DOMAIN invoice : row[invoice[i].key] # NoRow /\ row[invoice[i].key].hash = i
  /\ \A c \in Caller : request[c].pc = "invoice" => row[request[c].fee.key].hash = 0

\* A step of the one request that pays, or an answer to it.
LEMMA OnlyPayer ==
  ASSUME TypeOK, OnlyInvoice, NEW c \in Caller, NEW r \in Request, Becomes(c, r),
         request[c].pc \in PayingAt, r.pc = "invoice" => row'[r.fee.key].hash = 0,
         \A i \in DOMAIN invoice' : row'[invoice'[i].key] # NoRow /\ row'[invoice'[i].key].hash = i
  PROVE  OnlyInvoice'
  BY Became DEF OnlyInvoice, PayingAt

\* A step of a request that does not pay.
LEMMA NoPayer ==
  ASSUME TypeOK, OnlyInvoice, NEW c \in Caller, NEW r \in Request, Becomes(c, r),
         r.pc \notin PayingAt, UNCHANGED <<row, invoice>>
  PROVE  OnlyInvoice'
  BY Became DEF OnlyInvoice, PayingAt

\* With no room for another payer there is none.
LEMMA NobodyPays ==
  ASSUME Cardinality(Paying) < 1
  PROVE  \A c \in Caller : request[c].pc \notin PayingAt
<1>1. IsFiniteSet(Paying)
  BY CallersAreMany, FS_Subset DEF Paying
<1>2. Paying = {}
  BY <1>1, FS_EmptySet, FS_CardinalityType
<1>3. QED
  BY <1>2 DEF Paying, PayingAt

\* A row that exists is not the null one, and invoices are for fees.
LEMMA RowsAndKeys ==
  ASSUME TypeOK
  PROVE  NoRow \notin PaymentRow /\ \A i \in DOMAIN invoice : invoice[i].key \in Key
<1>1. NoRow \notin PaymentRow
  BY DEF NoRow, PaymentRow
<1>2. ASSUME NEW i \in DOMAIN invoice PROVE invoice[i].key \in Key
  <2>1. invoice[i] \in Invoice
    BY DEF TypeOK
  <2>2. QED
    BY <2>1 DEF Invoice
<1>3. QED
  BY <1>1, <1>2

\* No step makes a second invoice for a fee.
LEMMA OnlyInvoiceStays ==
  ASSUME PayersAtOnce = 1, Reliable, OnlyInvoice, [Next]_vars
  PROVE  OnlyInvoice'
<1> USE DEF Reliable
<1>0. Idle \in Request /\ Idle.pc \notin PayingAt /\ Idle.pc # "invoice"
  BY DEF Request, Idle, PayingAt
<1>1. ASSUME NEW c \in Caller, CheckoutRequest(c) \/ CheckinRequest(c) \/ CancelRequest(c)
      PROVE  OnlyInvoice'
  <2>1. \E r \in CheckoutStep \cup OtherStep : Becomes(c, r) /\ UNCHANGED <<row, invoice>>
    BY <1>1 DEF CheckoutRequest, CheckinRequest, CancelRequest, Becomes, CheckoutStep,
       OtherStep, TypeOK, wallets
  <2>2. \A r \in CheckoutStep \cup OtherStep : r \in Request /\ r.pc \notin PayingAt
    BY DEF CheckoutStep, OtherStep, Request, PayingAt
  <2>3. QED
    BY <2>1, <2>2, NoPayer
<1>2. ASSUME NEW c \in Caller, Confirm(c) PROVE OnlyInvoice'
  <2>1. Role[c] \in {"hub", "carrier"} /\ UNCHANGED <<row, invoice>>
    BY <1>2 DEF Confirm, At, Fits, wallets
  <2>2. QED
    BY <1>2, <2>1, ConfirmEffect, NoPayer DEF Confirming, PayingAt
<1>3. ASSUME NEW c \in Caller, ReadFresh(c) PROVE OnlyInvoice'
  BY <1>0, <1>3, ReadFreshEffect, NoPayer DEF ReadFresh, wallets, Confirming, PayingAt
<1>4. ASSUME NEW c \in Caller, Snapshot(c) PROVE OnlyInvoice'
  <2>1. UNCHANGED <<row, invoice>>
    BY <1>4 DEF Snapshot, wallets
  <2>2. CASE Becomes(c, Idle)
    BY <1>0, <2>1, <2>2, NoPayer
  <2>3. ASSUME NEW r \in PaymentStep, Becomes(c, r), r.pc = "findRow",
               Cardinality(Paying) < PayersAtOnce
        PROVE  OnlyInvoice'
    <3>1. \A d \in Caller : request[d].pc \notin PayingAt
      BY <2>3, NobodyPays
    <3>2. r \in Request
      BY DEF Request
    <3>3. QED
      BY <2>1, <2>3, <3>1, <3>2, Became DEF OnlyInvoice, PayingAt
  <2>4. QED
    BY <1>4, <2>2, <2>3, SnapshotEffect
<1>5. ASSUME NEW c \in Caller, findOrCreateRow(c) PROVE OnlyInvoice'
  <2>1. request[c].pc = "findRow" /\ UNCHANGED invoice
    BY <1>5 DEF findOrCreateRow, At
  <2>2. \A i \in DOMAIN invoice : invoice[i].key \in Key
    BY RowsAndKeys
  <2>3. \A i \in DOMAIN invoice' : row'[invoice'[i].key] # NoRow /\ row'[invoice'[i].key].hash = i
    BY <1>5, <2>1, <2>2, FindRowEffect DEF OnlyInvoice
  <2>4. ASSUME NEW p \in {"commit", "invoice", "pay"},
               Becomes(c, PayingFrom(c, p, row'[request[c].fee.key].hash)),
               PayingFrom(c, p, row'[request[c].fee.key].hash) \in Request,
               p = "invoice" => row'[request[c].fee.key].hash = 0
        PROVE  OnlyInvoice'
    <3>1. \A r : r = PayingFrom(c, p, row'[request[c].fee.key].hash) =>
            (r.pc = "invoice" => row'[r.fee.key].hash = 0)
      BY <2>4 DEF PayingFrom
    <3>2. QED
      BY <2>1, <2>3, <2>4, <3>1, OnlyPayer DEF PayingAt
  <2>5. CASE Becomes(c, Idle)
    BY <1>0, <2>1, <2>3, <2>5, OnlyPayer DEF PayingAt
  <2>6. QED
    BY <1>5, <2>4, <2>5, FindRowEffect
<1>6. ASSUME NEW c \in Caller, MakeInvoice(c) PROVE OnlyInvoice'
  <2> DEFINE k == request[c].fee.key
             h == Len(invoice) + 1
  <2>1. request[c].pc = "invoice" /\ k \in Key /\ row[k] # NoRow /\ row[k].hash = 0
    BY <1>6, MakeInvoiceEffect DEF MakeInvoice, At, PaymentStep, FeeOf, Fits, OnlyInvoice
  <2>2. /\ DOMAIN invoice' = DOMAIN invoice \cup {h} /\ invoice'[h].key = k
        /\ \A i \in DOMAIN invoice : invoice'[i] = invoice[i] /\ i # 0 /\ invoice[i].key \in Key
    <3>1. /\ invoice' = Append(invoice, [key |-> k, state |-> "open"]) /\ Len(invoice) \in Nat
          /\ DOMAIN invoice = 1 .. Len(invoice)
      BY <1>6, MakeInvoiceEffect DEF TypeOK
    <3>2. /\ DOMAIN invoice' = 1 .. h /\ invoice'[h] = [key |-> k, state |-> "open"]
          /\ \A i \in 1 .. Len(invoice) : invoice'[i] = invoice[i]
      BY <3>1 DEF TypeOK
    <3>3. \A i \in DOMAIN invoice : invoice[i].key \in Key
      BY RowsAndKeys
    <3>4. QED
      BY <3>1, <3>2, <3>3
  <2>3. /\ row'[k] # NoRow /\ row'[k].hash = h /\ \A j \in Key \ {k} : row'[j] = row[j]
        /\ Becomes(c, PayingFrom(c, "pay", h)) /\ PayingFrom(c, "pay", h) \in Request
    BY <1>6, <2>1, MakeInvoiceEffect, RowsAndKeys
  <2> HIDE DEF k, h
  <2>4. \A i \in DOMAIN invoice : invoice[i].key # k
    BY <2>1, <2>2 DEF OnlyInvoice
  <2>5. \A i \in DOMAIN invoice' : row'[invoice'[i].key] # NoRow /\ row'[invoice'[i].key].hash = i
    BY <2>2, <2>3, <2>4 DEF OnlyInvoice
  <2>6. QED
    BY <2>1, <2>3, <2>5, OnlyPayer DEF PayingFrom, PayingAt
<1>7. ASSUME InvoicesKept, UNCHANGED row
      PROVE  \A i \in DOMAIN invoice' : row'[invoice'[i].key] # NoRow /\ row'[invoice'[i].key].hash = i
  <2>1. DOMAIN invoice' = DOMAIN invoice
    BY <1>7 DEF InvoicesKept, TypeOK
  <2>2. QED
    BY <1>7, <2>1 DEF InvoicesKept, OnlyInvoice
<1>8. ASSUME NEW c \in Caller, PayInvoice(c) PROVE OnlyInvoice'
  <2>1. request[c].pc = "pay" /\ request[c].hash \in DOMAIN invoice /\ UNCHANGED row
    BY <1>8 DEF PayInvoice, At, Fits
  <2>2. InvoicesKept /\ Becomes(c, PayingFrom(c, "lookup", request[c].hash))
        /\ PayingFrom(c, "lookup", request[c].hash) \in Request
    BY <1>8, <2>1, PayEffect
  <2>3. PayingFrom(c, "lookup", request[c].hash).pc = "lookup"
    BY DEF PayingFrom
  <2>4. \A i \in DOMAIN invoice' : row'[invoice'[i].key] # NoRow /\ row'[invoice'[i].key].hash = i
    BY <1>7, <2>1, <2>2
  <2>5. QED
    BY <2>1, <2>2, <2>3, <2>4, OnlyPayer DEF PayingAt
<1>9. ASSUME NEW c \in Caller, LookupInvoice(c) PROVE OnlyInvoice'
  <2> DEFINE k == request[c].fee.key
  <2>1. request[c].pc = "lookup" /\ row[k] # NoRow /\ UNCHANGED invoice
    BY <1>9 DEF LookupInvoice, At, Fits
  <2>2. \A i \in DOMAIN invoice : invoice[i].key \in Key
    BY RowsAndKeys
  <2>3. NoRow \notin PaymentRow
    BY RowsAndKeys
  <2>4. \A i \in DOMAIN invoice' : row'[invoice'[i].key] # NoRow /\ row'[invoice'[i].key].hash = i
    BY <1>9, <2>1, <2>2, <2>3, LookupEffect DEF OnlyInvoice
  <2>5. QED
    BY <1>0, <1>9, <2>1, <2>4, LookupEffect, OnlyPayer DEF PayingFrom, PayingAt
<1>10. ASSUME NEW c \in Caller, Commit(c) \/ InvoiceFails(c) \/ Crash(c) PROVE OnlyInvoice'
  BY <1>0, <1>10, NoPayer DEF Commit, InvoiceFails, Crash, Answer, Becomes, wallets
<1>11. ASSUME NEW i \in DOMAIN invoice, Settle(i) PROVE OnlyInvoice'
  <2>1. InvoicesKept /\ UNCHANGED <<row, request>>
    BY <1>11, InvoiceMoves DEF Settle
  <2>2. QED
    BY <1>7, <2>1 DEF OnlyInvoice
<1>12. CASE pickup_timeout \/ BookLeg \/ Reroute \/ Tick \/ UNCHANGED vars
  BY <1>12 DEF pickup_timeout, BookLeg, Reroute, Tick, vars, wallets, OnlyInvoice
<1>13. QED
  BY <1>1, <1>2, <1>3, <1>4, <1>5, <1>6, <1>8, <1>9, <1>10, <1>11, <1>12 DEF Next

\* FeePaidOnce: where one request pays at a time, no fee has two payments under way,
\* however often it is retried, after crashes and payments that settle late.
THEOREM FeeIsPaidOnce ==
  ASSUME PayersAtOnce = 1
  PROVE  Spec => []FeePaidOnce
<1>1. Init => Reliable /\ OnlyInvoice
  BY InitReliable DEF Init, OnlyInvoice, Idle, PayingAt
<1>2. Reliable /\ OnlyInvoice /\ [Next]_vars => Reliable' /\ OnlyInvoice'
  BY ReliableStays, OnlyInvoiceStays
<1>3. OnlyInvoice => FeePaidOnce
  <2> SUFFICES ASSUME OnlyInvoice, NEW k \in Key PROVE Cardinality(PaidOrPaying(k)) <= 1
    BY DEF FeePaidOnce
  <2>1. PaidOrPaying(k) \subseteq {row[k].hash}
    BY DEF PaidOrPaying, OnlyInvoice
  <2>2. IsFiniteSet({row[k].hash}) /\ Cardinality({row[k].hash}) = 1
    BY FS_Singleton
  <2>3. QED
    BY <2>1, <2>2, FS_Subset
<1>4. QED
  BY <1>1, <1>2, <1>3, PTL DEF Spec
=============================================================================
