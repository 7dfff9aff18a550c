---------------------------- MODULE MCAtsDaemon -----------------------------
(* Requests for TLC: for each kind of handler one that it accepts and one  *)
(* that it refuses, from two UDP peers and from the console.               *)
EXTENDS AtsDaemon

CONSTANTS p1, p2

MCClient == {p1, p2}

Req(from, name, argc, valid) ==
  [from |-> from, tl |-> TRUE, name |-> name, argc |-> argc, valid |-> valid]

Junk(from) == [from |-> from, tl |-> FALSE, name |-> "", argc |-> 0, valid |-> FALSE]

Peers == {p1, p2, "console"}

\* Two calls and a checked value, a call and output, two calls that are not
\* checked for their values, a refused value, one that is not in any table, one with too many parameters.
MCRequest ==
  UNION { { Req(p, "TL_ETH_PHY_TEST", 1, TRUE), Req(p, "TL_ETH_PHY_TEST", 1, FALSE),
            Req(p, "TL_GPIO_READ", 2, TRUE), Req(p, "TL_GPIO_READ", 1, TRUE),
            Req(p, "TL_WIFI_CONN", 2, TRUE), Req(p, "TL_LCD_TEST", 2, FALSE),
            Req(p, "TL_CHECK_LTE", 0, TRUE), Req(p, "TL_DUT_RFTEST_ON", 33, TRUE),
            Junk(p) } : p \in Peers }
=============================================================================
