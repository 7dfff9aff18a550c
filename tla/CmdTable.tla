------------------------------ MODULE CmdTable ------------------------------
(***************************************************************************)
(* What the command registry of ats/ promises to the code that uses it: a  *)
(* table that gives each command name at most one callback.  A name that   *)
(* is bound keeps its callback until it is unbound, and the value returned *)
(* to the caller says whether the call changed the table.                  *)
(*                                                                         *)
(* ats/src/ats.c implements the table by a linked list of nodes: see       *)
(* AtsRegistry for the list as a sequence, DList for the list's pointers.  *)
(***************************************************************************)

CONSTANTS
  Name,      \* command names
  Callback,  \* command callbacks
  NULL       \* the null pointer

VARIABLES
  table,     \* name -> callback, NULL when the name is not bound
  ret        \* what the last call returned

vars == <<table, ret>>

AtCmd == [str: Name \cup {NULL}, cb: Callback \cup {NULL}]

ReturnCode == {"RET_OK", "RET_INVALID_PARAM", "RET_ERROR"}

TypeOK ==
  /\ table \in [Name -> Callback \cup {NULL}]
  /\ ret \in ReturnCode

Init ==
  /\ table = [n \in Name |-> NULL]
  /\ ret = "RET_OK"

Bind(n, cb) ==
  /\ table[n] = NULL
  /\ table' = [table EXCEPT ![n] = cb]
  /\ ret' = "RET_OK"

Unbind(n) ==
  /\ table[n] # NULL
  /\ table' = [table EXCEPT ![n] = NULL]
  /\ ret' = "RET_OK"

Refuse ==
  /\ ret' \in ReturnCode \ {"RET_OK"}
  /\ UNCHANGED table

Next ==
  \/ \E n \in Name, cb \in Callback : Bind(n, cb)
  \/ \E n \in Name : Unbind(n)
  \/ Refuse

Spec == Init /\ [][Next]_vars
=============================================================================
