------------------------------ MODULE MCLtr308 ------------------------------
(* The driver with a sensor that makes a few measurements. *)
EXTENDS Ltr308
=============================================================================
