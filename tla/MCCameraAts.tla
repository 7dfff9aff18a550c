---------------------------- MODULE MCCameraAts ----------------------------
(* Commands for the runs of CameraAts.  *)
EXTENDS CameraAts

CONSTANTS c1, c2

R(from, head, sep, args) == [from |-> from, head |-> head, sep |-> sep, args |-> args]

\* One command of each kind: with and without calls, explained, refused for
\* its parameter, known only under an old word, and not known; and from both
\* sides the commands that work on what the camera keeps.
MCRequest ==
  { R("uart", "AT+ATSVER", "_", <<>>), R("uart", "AT+LED", "_", <<"RED", "1", "ON">>),
    R("uart", "AT+LED", "_", <<"PINK", "1", "ON">>), R("uart", "AT+Nope", "_", <<>>),
    R("uart", "AT+PlayStart", "_", <<>>), R("uart", "AT+DIDWrite", "=", <<>>),
    R("uart", "AT+WifiMACWrite", "_", <<"m1">>), R("uart", "AT+TFTest", "_", <<>>),
    R(c1, "AT+WifiMACWrite", "_", <<"m2">>), R(c1, "AT+Reset", "_", <<>>),
    R(c1, "AT+OldFlagRead", "_", <<>>), R(c1, "AT+WifiRxStop", "_", <<>>),
    R(c1, "AT+WifiConnect", "_", <<"ssid">>),
    R(c2, "AT+Nope", "_", <<>>), R(c2, "AT+PlayRecord", "_", <<"L">>),
    R(c1, "AT+TFTest", "_", <<>>) }

\* The words kept for old products.
MCLegacy ==
  { R("uart", "AT+PCBWrite", "_", <<"p1">>), R("uart", "AT+WriteWifiMac", "_", <<"m1">>),
    R(c1, "AT+PCBRead", "_", <<>>), R(c1, "AT+LED", "_", <<"ON">>) }
=============================================================================
