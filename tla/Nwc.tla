---------------------------------- MODULE Nwc ----------------------------------
(***************************************************************************)
(* Calls to a wallet over Nostr Wallet Connect: each call publishes one    *)
(* signed request on a relay and waits for one reply.  The relay is not    *)
(* trusted: it loses, delays, repeats and forges events.  The wallet       *)
(* serves a request whenever it sees it, also after the caller gave up.    *)
(*                                                                         *)
(* Sources: packages/escrow/src/adapters/nwc.ts and nostr/relay.ts; the    *)
(* states of lookups as adapters/lnd-rest.ts translates them too.  Relay   *)
(* and wallet are external.  One hold invoice of the payee; its payer and  *)
(* its payee are called through the same relay.                            *)
(***************************************************************************)
EXTENDS Integers, Sequences, FiniteSets

CONSTANTS
  Call,         \* calls in flight at once
  Spoken,       \* the encryption schemes the wallet speaks
  Unpaid,       \* the word the wallet has for an invoice nobody has paid
  Cancelled,    \* and for one that was cancelled: "canceled" or "failed"
  MaxCalls      \* bound: requests signed once connected

\* The wallet's word for a cancelled invoice is one of those the client knows, and
\* it has a word of its own for one that is not paid.
WordsAreKnown ==
  /\ Cancelled \in {"cancelled", "canceled", "failed"}
  /\ Unpaid \notin {"settled", "accepted", "cancelled", "canceled", "failed", "expired"}

VARIABLES
  invoice,      \* the wallet's word for the state of the hold invoice
  pastExpiry,   \* whether its expires_at has passed
  requests,     \* the requests signed, in order
  replies,      \* what the wallet has ever replied, delivered or not
  calls,        \* by caller: where its call stands
  connection,   \* the encryption negotiated at connection time, or "none"
  answers       \* the last lookup that was answered, and what was confirmed done

nwcVars == <<invoice, pastExpiry, requests, replies, calls, connection, answers>>

Idle == [step |-> "idle"]
Methods == {"pay_invoice", "settle_hold_invoice", "cancel_hold_invoice", "lookup_invoice"}
Over == {"settled", Cancelled, "expired"}

----------------------------------------------------------------------------
(* What an answer says.                                                    *)

mapInvoiceState(word, past) ==
  CASE word = "settled" -> "settled"
    [] word = "accepted" -> "held"
    [] word \in {"cancelled", "canceled", "failed"} -> "cancelled"
    [] word = "expired" -> "expired"
    [] OTHER -> IF past THEN "expired" ELSE "open"

\* What has happened to the invoice, whatever the word for it.
TruthOf(word, past) ==
  CASE word = Cancelled -> "cancelled"
    [] word = "accepted" -> "held"
    [] word = Unpaid -> IF past THEN "expired" ELSE "open"
    [] OTHER -> word
Truth == TruthOf(invoice, pastExpiry)

\* Every call in flight has seen the states the invoice goes through.
Witnessed(now) ==
  calls' = [c \in Call |-> IF calls[c] = Idle THEN Idle ELSE [calls[c] EXCEPT !.since = @ \cup {now}]]

----------------------------------------------------------------------------
(* The client.                                                             *)

Signed(c, method, encryption) ==
  /\ calls[c] = Idle
  /\ requests' = Append(requests, [method |-> method, encryption |-> encryption, status |-> "published"])
  /\ calls' = [calls EXCEPT ![c] = [step |-> "waiting", id |-> Len(requests'), method |-> method,
                                    since |-> {Truth}]]
  /\ UNCHANGED <<invoice, pastExpiry, replies, connection, answers>>

\* probeNwcWallet, once: get_info under the preferred scheme, then under the other.
probe(c) ==
  /\ requests = <<>>
  /\ Signed(c, "get_info", "nip44_v2")

call(c, method) ==
  /\ connection # "none"
  /\ Cardinality({i \in DOMAIN requests : requests[i].method # "get_info"}) < MaxCalls
  /\ Signed(c, method, connection)

\* A reply is to this request and signed by the wallet, or it is ignored.
\* Fault: replies are not matched to requests.
matchesFilter_any(reply, c) == reply.method = calls[c].method
matchesFilter(reply, c) == reply.to = calls[c].id

verifyEvent(reply) == reply.signed

\* The relay may also make up a reply: it cannot sign it.
Forged(c) == [to |-> calls[c].id, method |-> calls[c].method, says |-> "ok", signed |-> FALSE]

Ends(c, answer) ==
  /\ calls' = [calls EXCEPT ![c] = Idle]
  /\ answers' = IF answer = "error" THEN answers
                ELSE IF calls[c].method = "lookup_invoice"
                THEN [answers EXCEPT !.found = [says |-> answer, since |-> calls[c].since]]
                ELSE [answers EXCEPT !.done = @ \cup {calls[c].method}]

\* roundTrip: the first event that matches and verifies is the reply.
ReplyArrives(c) ==
  /\ calls[c] # Idle
  /\ \E reply \in replies \cup {Forged(c)} :
       /\ matchesFilter(reply, c) /\ verifyEvent(reply)
       /\ Ends(c, IF reply.method = "lookup_invoice" THEN mapInvoiceState(reply.says, pastExpiry)
                  ELSE reply.says)
       /\ connection' = IF calls[c].method = "get_info" /\ connection = "none"
                        THEN requests[reply.to].encryption ELSE connection
  /\ UNCHANGED <<invoice, pastExpiry, requests, replies>>

\* No relay opens, the relay rejects the request or no reply comes in time; the
\* request may be served all the same.  The probe then tries nip04.
CallFails(c) ==
  /\ calls[c] # Idle
  /\ IF calls[c].method = "get_info" /\ requests[calls[c].id].encryption = "nip44_v2"
     THEN /\ requests' = Append(requests, [method |-> "get_info", encryption |-> "nip04",
                                           status |-> "published"])
          /\ calls' = [calls EXCEPT ![c].id = Len(requests')]
          /\ UNCHANGED answers
     ELSE /\ Ends(c, "error")
          /\ UNCHANGED requests
  /\ UNCHANGED <<invoice, pastExpiry, replies, connection>>

----------------------------------------------------------------------------
(* The wallet.                                                             *)

Reply(i, says) ==
  replies' = replies \cup {[to |-> i, method |-> requests[i].method, says |-> says, signed |-> TRUE]}

Served(i, status) == requests' = [requests EXCEPT ![i].status = status]

\* A request it can decrypt is served once; it pays nothing that is over, settles
\* and cancels only what it can.
WalletServes(i) ==
  LET r == requests[i]
      becomes == CASE r.method = "pay_invoice" /\ Truth = "open" -> "accepted"
                   [] r.method = "settle_hold_invoice" /\ invoice = "accepted" -> "settled"
                   [] r.method = "cancel_hold_invoice" /\ invoice \in {Unpaid, "accepted"} -> Cancelled
                   [] OTHER -> invoice
  IN
  /\ r.status = "published" /\ r.encryption \in Spoken
  /\ invoice' = becomes
  /\ Witnessed(TruthOf(becomes, pastExpiry))
  /\ \/ /\ r.method = "pay_invoice" /\ becomes # invoice
        /\ Served(i, "paying")
        /\ UNCHANGED replies
     \/ /\ r.method # "pay_invoice" \/ becomes = invoice
        /\ Served(i, "served")
        /\ Reply(i, CASE r.method = "lookup_invoice" -> invoice
                      [] r.method = "get_info" \/ becomes # invoice -> "ok"
                      [] OTHER -> "error")
  /\ UNCHANGED <<pastExpiry, connection, answers>>

\* The payer's wallet answers only when the hold is over.
PaymentEnds(i) ==
  /\ requests[i].status = "paying"
  /\ invoice \in Over
  /\ Served(i, "served")
  /\ Reply(i, IF invoice = "settled" THEN "ok" ELSE "error")
  /\ UNCHANGED <<invoice, pastExpiry, calls, connection, answers>>

\* Time: the invoice passes its expiry; the wallet notices sooner or later, and
\* may give up an accepted hold before its timelock.
ExpiryPasses ==
  /\ ~pastExpiry
  /\ pastExpiry' = TRUE
  /\ Witnessed(TruthOf(invoice, TRUE))
  /\ UNCHANGED <<invoice, requests, replies, connection, answers>>

WalletExpires ==
  /\ pastExpiry /\ invoice = Unpaid
  /\ invoice' = "expired"
  /\ Witnessed("expired")
  /\ UNCHANGED <<pastExpiry, requests, replies, connection, answers>>

HoldDies ==
  /\ invoice = "accepted"
  /\ invoice' = Cancelled
  /\ Witnessed("cancelled")
  /\ UNCHANGED <<pastExpiry, requests, replies, connection, answers>>

NwcInit ==
  /\ invoice = Unpaid /\ pastExpiry = FALSE
  /\ requests = <<>> /\ replies = {}
  /\ calls = [c \in Call |-> Idle]
  /\ connection = "none"
  /\ answers = [found |-> [says |-> "nothing"], done |-> {}]

NwcNext ==
  \/ \E c \in Call : \/ probe(c) \/ ReplyArrives(c) \/ CallFails(c)
                     \/ \E m \in Methods : call(c, m)
  \/ \E i \in DOMAIN requests : WalletServes(i) \/ PaymentEnds(i)
  \/ ExpiryPasses \/ WalletExpires \/ HoldDies

----------------------------------------------------------------------------
(* Properties.                                                             *)

\* Over a relay that loses, repeats, delays and forges events, what a call
\* returns is true: a lookup tells a state the invoice had while the call was in
\* flight, never an older one, or that it had lapsed unless paid meanwhile; and a
\* settlement or a cancellation reported done is done for good, also when it
\* followed one that had timed out (ADR-019).
AnswersAreTrue ==
  /\ LET found == answers.found IN
       \/ found.says = "nothing" \/ found.says \in found.since
       \/ found.says = "expired" /\ pastExpiry /\ "open" \in found.since
  /\ "settle_hold_invoice" \in answers.done => invoice = "settled"
  /\ "cancel_hold_invoice" \in answers.done => invoice = Cancelled
  /\ "get_info" \in answers.done => connection \in Spoken
=============================================================================
