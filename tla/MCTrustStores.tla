--------------------------- MODULE MCTrustStores ---------------------------
(***************************************************************************)
(* Two threads are enough for every pair of switches to meet.              *)
(***************************************************************************)
EXTENDS TrustStores
=============================================================================
