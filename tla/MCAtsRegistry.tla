--------------------------- MODULE MCAtsRegistry ----------------------------
(* A program of three modules: two share a name, one table has an entry    *)
(* without a callback, and other code calls the exported functions.        *)
EXTENDS AtsRegistry

CONSTANTS m1, m2, m3, a, b, c, d, f, g

MCModule == {m1, m2, m3}
MCName == {a, b, c, d}
MCCallback == {f, g}

MCCmds ==
  m1 :> << [str |-> a, cb |-> f], [str |-> b, cb |-> f] >> @@
  m2 :> << [str |-> b, cb |-> g], [str |-> d, cb |-> NULL], [str |-> c, cb |-> g] >> @@
  m3 :> << [str |-> NULL, cb |-> g], [str |-> a, cb |-> f] >>

MCApiCmd ==
  { [str |-> a, cb |-> g], [str |-> d, cb |-> f], [str |-> d, cb |-> NULL],
    [str |-> NULL, cb |-> f] }
=============================================================================
