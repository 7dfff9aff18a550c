------------------------------ MODULE MCBleAts -------------------------------
(* Identities for the run of BleAts.  *)
EXTENDS BleAts

CONSTANTS i1, i2

MCIds == {i1, i2}
=============================================================================
