------------------------------ MODULE MCGpsSpi -------------------------------
(* Fixes for the run of GpsSpi.  *)
EXTENDS GpsSpi

CONSTANTS f1, f2

MCFixes == {f1, f2}
=============================================================================
