-------------------------------- MODULE Trusted --------------------------------
(***************************************************************************)
(* The services whose word is taken for good by a shipment or a payment:   *)
(* the accounts, the road distances, the wallets and the EUR rate.  They   *)
(* share no state; a shipment freezes what two of them say when it is      *)
(* created (routes/shipments.ts).                                          *)
(***************************************************************************)
EXTENDS Accounts, Roads, Nwc, Rates

\* What a shipment freezes for life: its rate is recent, corroborated and no
\* outlier (eur-rate.ts), and a pair of hubs has one value for everyone who
\* prices a leg, for ever (road-routing.ts).
FrozenForLife == FrozenRateTrusted /\ PairValueForever
=============================================================================
