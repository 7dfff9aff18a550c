----------------------------- MODULE MCAtsParse -----------------------------
(* Two commands, one whose name contains the parameter separator, as TL_... *)
(* names do, and one that is a prefix of it.                               *)
EXTENDS AtsParse

MCChar == {"a", "=", "_", "eol", "nul"}
MCNames == { <<"a">>, <<"a", "_", "a">> }
=============================================================================
