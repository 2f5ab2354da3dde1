--------------------------- MODULE MCCoordinator ---------------------------
(* Instances of Coordinator for TLC.                                        *)
EXTENDS Coordinator

CONSTANTS w1, c1, c2

OneObserver  == {w1}
TwoCreators  == {c1, c2}
=============================================================================
