------------------------------ MODULE MCDelivery -------------------------------
(* One driver, so that all that happens concerns the same rows.               *)
EXTENDS Delivery, TLC
================================================================================
