----------------------------- MODULE MCDelivery -----------------------------
(* Instances of Delivery: the constants are set in the configurations. *)
EXTENDS Delivery
=============================================================================
