-------------------------- MODULE MCLocalDelivery --------------------------
(* Small instances of LocalDelivery for TLC. *)
EXTENDS LocalDeliveryRefinement
=============================================================================
