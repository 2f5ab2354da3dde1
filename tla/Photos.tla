--------------------------------- MODULE Photos ---------------------------------
(***************************************************************************)
(* Photos: a row per shipment that certified the bytes, one blob per       *)
(* content, and the requests and the worker that create and delete them    *)
(* with no lock between a row and its blob.                                *)
(*                                                                         *)
(* Sources: apps/api/src/routes/photos.ts, shipments/photo-purge.ts,       *)
(* deleteAccount of lib/account.ts and the drivers of lib/blob-store.ts.   *)
(* One content, certified by several shipments.                            *)
(***************************************************************************)
EXTENDS Integers, FiniteSets

CONSTANTS
  Album,        \* shipments that certified the same bytes
  MaxOutages    \* bound: crashes of the API or of the worker

VARIABLES
  purgeAfter,   \* by shipment: "none" without a row, "far", "near" or "past"
  closed,       \* shipments in a terminal state
  blob,         \* "none", "fresh" or "old": by the age of its last write
  upload,       \* by shipment: where its upload stands
  cleaner,      \* where the worker and the erasure of an account stand
  outages

photoVars == <<purgeAfter, closed, blob, upload, cleaner, outages>>

Rows == {s \in Album : purgeAfter[s] # "none"}

----------------------------------------------------------------------------
(* POST /shipments/:id/photos/:sha256: look for the row, write the blob,   *)
(* insert the row.                                                         *)

UploadCheck(s) ==
  /\ upload[s] = "idle"
  /\ purgeAfter[s] = "none"
  /\ upload' = [upload EXCEPT ![s] = "checked"]
  /\ UNCHANGED <<purgeAfter, closed, blob, cleaner, outages>>

\* put: one rename, or one PutObject; it renews the age of a blob already there.
UploadPut(s) ==
  /\ upload[s] = "checked"
  /\ upload' = [upload EXCEPT ![s] = "stored"]
  /\ blob' = "fresh"
  /\ UNCHANGED <<purgeAfter, closed, cleaner, outages>>

UploadInsert(s) ==
  /\ upload[s] = "stored"
  /\ upload' = [upload EXCEPT ![s] = "idle"]
  /\ purgeAfter' = [purgeAfter EXCEPT ![s] = "far"]
  /\ UNCHANGED <<closed, blob, cleaner, outages>>

----------------------------------------------------------------------------
(* Deleting: a row first, then its blob when no row refers to it.          *)

\* Phase 1 of the purge, over all rows of closed shipments at once.
Tighten ==
  /\ cleaner["worker"] = "idle"
  /\ \E s \in closed : purgeAfter[s] = "far"
  /\ purgeAfter' = [s \in Album |-> IF s \in closed /\ purgeAfter[s] = "far"
                                    THEN "near" ELSE purgeAfter[s]]
  /\ UNCHANGED <<closed, blob, upload, cleaner, outages>>

DeleteRow(c, s) ==
  /\ cleaner[c] = "idle"
  /\ purgeAfter[s] # "none"
  /\ IF c = "worker" THEN purgeAfter[s] = "past" ELSE s \in closed
  /\ purgeAfter' = [purgeAfter EXCEPT ![s] = "none"]
  /\ cleaner' = [cleaner EXCEPT ![c] = "rowless"]
  /\ UNCHANGED <<closed, blob, upload, outages>>

\* Phase 3 of the purge lists the blobs that are a day old.
\* Fault: only young blobs are looked at.
OldEnough_young == blob = "fresh"
OldEnough == blob = "old"

SweepList ==
  /\ cleaner["worker"] = "idle"
  /\ OldEnough
  /\ cleaner' = [cleaner EXCEPT !["worker"] = "rowless"]
  /\ UNCHANGED <<purgeAfter, closed, blob, upload, outages>>

CheckReferences(c) ==
  /\ cleaner[c] = "rowless"
  /\ cleaner' = [cleaner EXCEPT ![c] = IF Rows = {} THEN "unlink" ELSE "idle"]
  /\ UNCHANGED <<purgeAfter, closed, blob, upload, outages>>

Unlink(c) ==
  /\ cleaner[c] = "unlink"
  /\ blob' = "none"
  /\ cleaner' = [cleaner EXCEPT ![c] = "idle"]
  /\ UNCHANGED <<purgeAfter, closed, upload, outages>>

----------------------------------------------------------------------------
CloseShipment(s) ==
  /\ s \notin closed
  /\ closed' = closed \cup {s}
  /\ UNCHANGED <<purgeAfter, blob, upload, cleaner, outages>>

\* Days pass: never in the middle of a request or of a pass.
DaysPass ==
  /\ \A s \in Album : upload[s] = "idle"
  /\ \A c \in DOMAIN cleaner : cleaner[c] = "idle"
  /\ blob = "fresh" \/ \E s \in Album : purgeAfter[s] \in {"near", "far"}
  /\ blob' = IF blob = "fresh" THEN "old" ELSE blob
  /\ \/ UNCHANGED purgeAfter
     \/ purgeAfter' = [s \in Album |-> IF purgeAfter[s] = "near" THEN "past" ELSE purgeAfter[s]]
     \/ purgeAfter' = [s \in Album |-> IF purgeAfter[s] \in {"near", "far"} THEN "past"
                                       ELSE purgeAfter[s]]
  /\ UNCHANGED <<closed, upload, cleaner, outages>>

\* A crash forgets where its process stood.
ApiCrash ==
  /\ outages < MaxOutages
  /\ upload' = [s \in Album |-> "idle"]
  /\ cleaner' = [cleaner EXCEPT !["account"] = "idle"]
  /\ <<upload, cleaner>>' # <<upload, cleaner>>
  /\ outages' = outages + 1
  /\ UNCHANGED <<purgeAfter, closed, blob>>

WorkerCrash ==
  /\ outages < MaxOutages
  /\ cleaner["worker"] # "idle"
  /\ cleaner' = [cleaner EXCEPT !["worker"] = "idle"]
  /\ outages' = outages + 1
  /\ UNCHANGED <<purgeAfter, closed, blob, upload>>

PhotosInit ==
  /\ purgeAfter = [s \in Album |-> "none"]
  /\ closed = {}
  /\ blob = "none"
  /\ upload = [s \in Album |-> "idle"]
  /\ cleaner = [c \in {"worker", "account"} |-> "idle"]
  /\ outages = 0

PurgeWorker ==
  \/ Tighten \/ SweepList \/ CheckReferences("worker") \/ Unlink("worker")
  \/ \E s \in Album : DeleteRow("worker", s)

Uploading(s) == UploadPut(s) \/ UploadInsert(s)
Erasing == CheckReferences("account") \/ Unlink("account")

PhotosNext ==
  \/ PurgeWorker \/ Erasing
  \/ \E s \in Album : UploadCheck(s) \/ Uploading(s) \/ DeleteRow("account", s) \/ CloseShipment(s)
  \/ DaysPass \/ ApiCrash \/ WorkerCrash

----------------------------------------------------------------------------
(* Properties.                                                             *)

\* A blob that no row refers to is removed or referred to again, whatever crashed
\* between a blob and its row (ADR-020).
OrphansSwept == blob # "none" /\ Rows = {} ~> blob = "none" \/ Rows # {}
=============================================================================
