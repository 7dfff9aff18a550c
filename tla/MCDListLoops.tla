---------------------------- MODULE MCDListLoops -----------------------------
(* Lists and entries for the run of DListLoops.  *)
EXTENDS DListLoops

CONSTANTS h1, h2, x1, x2, x3

MCHeads == {h1, h2}
MCNodes == {x1, x2, x3}
=============================================================================
