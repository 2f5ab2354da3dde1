---------------------------------- MODULE Mail ----------------------------------
(***************************************************************************)
(* The e-mail outbox: rows queued by transitions and by the storage        *)
(* warner, and the dispatcher that renders, sends and marks them.          *)
(*                                                                         *)
(* Sources: apps/api/src/shipments/outbox.ts, storage-warnings.ts and the  *)
(* schedule of worker.ts.  One stay of one parcel; a body is a template.   *)
(* The mail relay is external: it takes a message or refuses it.           *)
(***************************************************************************)
EXTENDS Integers, Sequences, FiniteSets

CONSTANTS
  MaxAttempts,    \* MAX_ATTEMPTS
  Limit,          \* rows of one dispatch
  FirstHours,     \* bound: the widest threshold the stay starts within, 72 or 24
  MaxCrashes      \* bound: crashes of the worker process

LimitsArePositive == MaxAttempts \in Nat \ {0} /\ Limit \in Nat \ {0}

VARIABLES
  outbox,     \* the rows, in the order they were queued
  hours,      \* the least threshold the hours left to the deadline are within, or 0
  armed,      \* whether the storage timer of the stay exists
  erased,     \* whether the sender's account was deleted
  warner,     \* what the warner's pass still has to look at
  batch,      \* the rows the dispatcher has read and not settled yet
  crashes

mailVars == <<outbox, hours, armed, erased, warner, batch, crashes>>

NoPass == [threshold |-> 0, todo |-> <<>>]
Letter(template, key) == [template |-> template, key |-> key, status |-> "pending", attempts |-> 0]
Templates == {"parcel_arrived", "storage_expiry_warning"}

Queue(row) == outbox' = Append(outbox, row)

----------------------------------------------------------------------------
(* The stay: its timer, as the transitions of the parcel move it.          *)

\* The parcel arrives: its mail and its timer are written by one transaction.
Arrive ==
  /\ outbox = <<>> /\ ~armed
  /\ armed' = TRUE
  /\ Queue(Letter("parcel_arrived", <<0, "recipient">>))
  /\ UNCHANGED <<hours, erased, warner, batch, crashes>>

\* pickup_checkout deletes the timer, pickup_timeout arms it again with the same
\* deadline, and at the deadline it fires.
Depart ==
  /\ armed
  /\ armed' = FALSE
  /\ UNCHANGED <<outbox, hours, erased, warner, batch, crashes>>

ReturnToShelf ==
  /\ ~armed /\ outbox # <<>> /\ hours > 0
  /\ armed' = TRUE
  /\ UNCHANGED <<outbox, hours, erased, warner, batch, crashes>>

Hours ==
  /\ outbox # <<>> /\ hours > 0
  /\ hours' = IF hours = 72 THEN 24 ELSE 0
  /\ armed' = (armed /\ hours' > 0)
  /\ UNCHANGED <<outbox, erased, warner, batch, crashes>>

senderDeleted ==
  /\ ~erased
  /\ erased' = TRUE
  /\ UNCHANGED <<outbox, hours, armed, warner, batch, crashes>>

----------------------------------------------------------------------------
(* enqueueStorageWarnings: one query, then one look and one insert per     *)
(* audience.                                                               *)

Threshold == IF hours <= 24 THEN 24 ELSE 72

WarnBegin ==
  /\ warner = NoPass
  /\ armed /\ hours > 0
  /\ warner' = [threshold |-> Threshold,
                todo |-> IF erased THEN <<"recipient">> ELSE <<"sender", "recipient">>]
  /\ UNCHANGED <<outbox, hours, armed, erased, batch, crashes>>

Already(key) == \E i \in DOMAIN outbox : outbox[i].key = key

WarnStep ==
  LET key == <<warner.threshold, Head(warner.todo)>> IN
  /\ warner.todo # <<>>
  /\ IF Already(key) THEN UNCHANGED outbox
     ELSE Queue(Letter("storage_expiry_warning", key))
  /\ warner' = IF Tail(warner.todo) = <<>> THEN NoPass ELSE [warner EXCEPT !.todo = Tail(@)]
  /\ UNCHANGED <<hours, armed, erased, batch, crashes>>

----------------------------------------------------------------------------
(* dispatchEmailOutbox.                                                    *)

Pending ==
  {i \in DOMAIN outbox : /\ outbox[i].status = "pending"
                         /\ outbox[i].template \in Templates
                         /\ outbox[i].attempts < MaxAttempts}

\* Any pending rows, up to the limit: the query has no order.
Dispatch ==
  /\ batch = {}
  /\ \E rows \in SUBSET Pending :
       /\ rows # {}
       /\ Cardinality(rows) = Limit \/ (rows = Pending /\ Cardinality(rows) < Limit)
       /\ batch' = rows
  /\ UNCHANGED <<outbox, hours, armed, erased, warner, crashes>>

SendMail ==
  \E i \in batch :
    /\ outbox' = [outbox EXCEPT ![i].status = "sent"]
    /\ batch' = batch \ {i}
    /\ UNCHANGED <<hours, armed, erased, warner, crashes>>

\* The relay refuses, or the row cannot be marked: one catch for both.
\* Fault: the attempt is not counted.
Failed_uncounted(row) == row
Failed(row) ==
  [row EXCEPT !.attempts = @ + 1,
              !.status = IF row.attempts + 1 >= MaxAttempts THEN "failed" ELSE "pending"]

SendFails ==
  \E i \in batch :
    /\ outbox' = [outbox EXCEPT ![i] = Failed(@)]
    /\ batch' = batch \ {i}
    /\ UNCHANGED <<hours, armed, erased, warner, crashes>>

Crash ==
  /\ crashes < MaxCrashes
  /\ batch # {} \/ warner # NoPass
  /\ crashes' = crashes + 1
  /\ batch' = {} /\ warner' = NoPass
  /\ UNCHANGED <<outbox, hours, armed, erased>>

----------------------------------------------------------------------------
MailInit ==
  /\ outbox = <<>>
  /\ hours = FirstHours
  /\ armed = FALSE /\ erased = FALSE
  /\ warner = NoPass /\ batch = {} /\ crashes = 0

Dispatcher == Dispatch \/ SendMail \/ SendFails
Warner == WarnBegin \/ WarnStep

MailNext ==
  \/ Arrive \/ Depart \/ ReturnToShelf \/ Hours \/ senderDeleted
  \/ Warner \/ Dispatcher \/ Crash

----------------------------------------------------------------------------
(* Properties.                                                             *)

\* Whatever the passes, re-armed timers and crashes, each audience of a stay is
\* warned of each threshold by one row at most.
WarnedOnce ==
  \A i, j \in DOMAIN outbox : outbox[i].key = outbox[j].key => i = j

\* Every queued mail is sent or given up after MaxAttempts: one that the relay
\* refuses for ever neither stays pending nor starves the others.  And none of
\* the passes, re-armed timers and crashes on the way queues a warning twice.
MailSettlesOnce ==
  /\ []<>(\A i \in DOMAIN outbox : outbox[i].status \in {"sent", "failed"})
  /\ []WarnedOnce
=============================================================================
