---------------------------- MODULE AtsRegistry -----------------------------
(***************************************************************************)
(* The command registry of ats/src/ats.c and the module list of            *)
(* ats/module/*.c.                                                         *)
(*                                                                         *)
(* Every module file carries a static table g_cmds.  Its constructor       *)
(* CmdsInit links a ModuleNode that points at the table into g_moduleList  *)
(* before main runs, in an order the linker chooses; its destructor        *)
(* unlinks the node when the process exits.  AtCmdInit walks g_moduleList  *)
(* and registers every table entry in g_cmdList, AtCmdDeInit walks it      *)
(* again and unregisters them; AtCmdRegister and AtCmdUnregister are also  *)
(* exported by ats.h.  The registry is used by one thread at a time, and   *)
(* one step here is one iteration of a loop.                               *)
(*                                                                         *)
(* The two lists, which the code links with dlist.h, are sequences here.   *)
(***************************************************************************)
EXTENDS Naturals, Sequences, SequencesExt

CONSTANTS
  Module,    \* module files linked into the program
  Name,      \* command names
  Callback,  \* command callbacks
  NULL,      \* the null pointer
  Cmds,      \* Cmds[m] is the table g_cmds of module m
  ApiCmd     \* commands other code passes to the two exported functions

AtCmd == [str: Name \cup {NULL}, cb: Callback \cup {NULL}]

ASSUME NullAssumption == NULL \notin Name \cup Callback
ASSUME CmdsAssumption == Cmds \in [Module -> Seq(AtCmd)]
ASSUME ApiAssumption  == ApiCmd \subseteq AtCmd

VARIABLES
  pc,          \* where the one thread of control is
  moduleList,  \* g_moduleList
  cmdList,     \* g_cmdList
  mi,          \* position of `pos` in g_moduleList while a loop runs
  ci,          \* the index i in tmp->cmds, counted from 1
  ret          \* what the last AtCmdRegister or AtCmdUnregister returned

vars == <<pc, moduleList, cmdList, mi, ci, ret>>

-----------------------------------------------------------------------------
(* A list of registered commands *)

Names(list) == {list[i].str : i \in DOMAIN list}

\* The node at which a scan from the head of the list stops when it looks for
\* the name n.
IsFirst(list, n, i) ==
  /\ i \in DOMAIN list
  /\ list[i].str = n
  /\ \A j \in 1 .. i - 1 : list[j].str # n

\* The callback AtCmdExec finds for the name n.
Lookup(list, n) ==
  IF n \in Names(list)
  THEN list[CHOOSE i \in DOMAIN list : IsFirst(list, n, i)].cb
  ELSE NULL

Registered == Names(cmdList)

-----------------------------------------------------------------------------
(* The exported functions *)

\* Mutant: no scan for a command with the same name.
RegistrableTwice(cmd) == cmd.str # NULL /\ cmd.cb # NULL

Registrable(cmd) ==
  /\ cmd.str # NULL
  /\ cmd.cb # NULL
  /\ cmd.str \notin Registered

\* Mutant: a name that is registered already gets the new callback.
AtCmdRegisterReplaces(cmd) ==
  \/ Registrable(cmd) /\ cmdList' = Append(cmdList, cmd) /\ ret' = "RET_OK"
  \/ /\ ~Registrable(cmd)
     /\ cmdList' = [i \in DOMAIN cmdList |->
                      IF cmdList[i].str = cmd.str /\ cmd.cb # NULL THEN cmd ELSE cmdList[i]]
     /\ ret' = "RET_OK"

AtCmdRegister(cmd) ==
  \/ /\ Registrable(cmd)
     /\ cmdList' = Append(cmdList, cmd)
     /\ ret' = "RET_OK"
  \/ /\ ~Registrable(cmd)
     /\ ret' = "RET_INVALID_PARAM"
     /\ UNCHANGED cmdList

\* Mutant: the callback must match as well.
AtCmdUnregisterSameCallback(cmd) ==
  \/ /\ \E i \in DOMAIN cmdList :
          cmdList[i] = cmd /\ cmdList' = RemoveAt(cmdList, i)
     /\ ret' = "RET_OK"
  \/ /\ \A i \in DOMAIN cmdList : cmdList[i] # cmd
     /\ ret' = "RET_ERROR"
     /\ UNCHANGED cmdList

\* Only the name selects the node: the callback of cmd is not looked at.
AtCmdUnregister(cmd) ==
  \/ /\ cmd.str = NULL
     /\ ret' = "RET_INVALID_PARAM"
     /\ UNCHANGED cmdList
  \/ /\ cmd.str # NULL
     /\ \E i \in DOMAIN cmdList :
          /\ IsFirst(cmdList, cmd.str, i)
          /\ cmdList' = RemoveAt(cmdList, i)
     /\ ret' = "RET_OK"
  \/ /\ cmd.str # NULL
     /\ cmd.str \notin Registered
     /\ ret' = "RET_ERROR"
     /\ UNCHANGED cmdList

-----------------------------------------------------------------------------
Init ==
  /\ pc = "load"
  /\ moduleList = <<>>
  /\ cmdList = <<>>
  /\ mi = 1
  /\ ci = 1
  /\ ret = "RET_OK"

\* Constructor of module m.
CmdsInit(m) ==
  /\ pc = "load"
  /\ m \notin ToSet(moduleList)
  /\ moduleList' = Append(moduleList, m)
  /\ UNCHANGED <<pc, cmdList, mi, ci, ret>>

\* All constructors have run: main starts.
MainStarts ==
  /\ pc = "load"
  /\ ToSet(moduleList) = Module
  /\ pc' = "idle"
  /\ UNCHANGED <<moduleList, cmdList, mi, ci, ret>>

RegisterCall ==
  /\ pc = "idle"
  /\ \E cmd \in ApiCmd : AtCmdRegister(cmd)
  /\ UNCHANGED <<pc, moduleList, mi, ci>>

UnregisterCall ==
  /\ pc = "idle"
  /\ \E cmd \in ApiCmd : AtCmdUnregister(cmd)
  /\ UNCHANGED <<pc, moduleList, mi, ci>>

-----------------------------------------------------------------------------
(* AtCmdInit (loop = "init") and AtCmdDeInit (loop = "deinit") are the     *)
(* same two nested loops.                                                  *)

EnterLoop(loop) ==
  /\ pc = "idle"
  /\ pc' = loop
  /\ mi' = 1
  /\ ci' = 1
  /\ UNCHANGED <<moduleList, cmdList, ret>>

InTable == mi <= Len(moduleList) /\ ci <= Len(Cmds[moduleList[mi]])

\* Mutant: AtCmdInit gives up at the first call that fails.
InitStepGivesUp ==
  /\ pc = "init"
  /\ InTable
  /\ AtCmdRegister(Cmds[moduleList[mi]][ci])
  /\ IF ret' = "RET_OK" THEN ci' = ci + 1 /\ UNCHANGED pc ELSE pc' = "idle" /\ UNCHANGED ci
  /\ UNCHANGED <<moduleList, mi>>

\* Mutant: a call that fails is tried again.
InitStepRetries ==
  /\ pc = "init"
  /\ InTable
  /\ AtCmdRegister(Cmds[moduleList[mi]][ci])
  /\ ci' = IF ret' = "RET_OK" THEN ci + 1 ELSE ci
  /\ UNCHANGED <<pc, moduleList, mi>>

\* A call that fails is logged and skipped.
InitStep ==
  /\ pc = "init"
  /\ InTable
  /\ AtCmdRegister(Cmds[moduleList[mi]][ci])
  /\ ci' = ci + 1
  /\ UNCHANGED <<pc, moduleList, mi>>

DeInitStep ==
  /\ pc = "deinit"
  /\ InTable
  /\ AtCmdUnregister(Cmds[moduleList[mi]][ci])
  /\ ci' = ci + 1
  /\ UNCHANGED <<pc, moduleList, mi>>

\* Mutant: the index of the inner loop is not set back for the next module.
NextModuleKeepsIndex ==
  /\ pc \in {"init", "deinit"}
  /\ mi <= Len(moduleList)
  /\ ci > Len(Cmds[moduleList[mi]])
  /\ mi' = mi + 1
  /\ UNCHANGED <<pc, moduleList, cmdList, ci, ret>>

NextModule ==
  /\ pc \in {"init", "deinit"}
  /\ mi <= Len(moduleList)
  /\ ci > Len(Cmds[moduleList[mi]])
  /\ mi' = mi + 1
  /\ ci' = 1
  /\ UNCHANGED <<pc, moduleList, cmdList, ret>>

LeaveLoop ==
  /\ pc \in {"init", "deinit"}
  /\ mi > Len(moduleList)
  /\ pc' = "idle"
  /\ UNCHANGED <<moduleList, cmdList, mi, ci, ret>>

-----------------------------------------------------------------------------
(* The process exits: the destructors run. *)

Exit ==
  /\ pc = "idle"
  /\ pc' = "exit"
  /\ UNCHANGED <<moduleList, cmdList, mi, ci, ret>>

CmdsDeInit(m) ==
  /\ pc = "exit"
  /\ \E i \in DOMAIN moduleList :
       /\ moduleList[i] = m
       /\ moduleList' = RemoveAt(moduleList, i)
  /\ UNCHANGED <<pc, cmdList, mi, ci, ret>>

\* The process is gone.
Exited ==
  /\ pc = "exit"
  /\ moduleList = <<>>
  /\ UNCHANGED vars

Loop == InitStep \/ DeInitStep \/ NextModule \/ LeaveLoop

Next ==
  \/ \E m \in Module : CmdsInit(m) \/ CmdsDeInit(m)
  \/ MainStarts
  \/ RegisterCall
  \/ UnregisterCall
  \/ EnterLoop("init")
  \/ EnterLoop("deinit")
  \/ Loop
  \/ Exit
  \/ Exited

Spec == Init /\ [][Next]_vars

\* A thread inside AtCmdInit or AtCmdDeInit keeps running: neither blocks.
FairSpec == Spec /\ WF_vars(Loop)

-----------------------------------------------------------------------------
(* Properties *)

\* While a loop runs, its indices stay within the lists they index, or stand
\* right behind the last entry, where the loop's condition ends it.
IndicesInLists ==
  pc \in {"init", "deinit"} =>
    /\ mi <= Len(moduleList) + 1
    /\ IF mi <= Len(moduleList)
       THEN ci <= Len(Cmds[moduleList[mi]]) + 1
       ELSE ci = 1

\* The variables keep their types, and the loop indices stay in their lists.
TypeOK ==
  /\ pc \in {"load", "idle", "init", "deinit", "exit"}
  /\ moduleList \in Seq(Module)
  /\ cmdList \in Seq([str: Name, cb: Callback])
  /\ mi \in Nat \ {0}
  /\ ci \in Nat \ {0}
  /\ IndicesInLists
  /\ ret \in {"RET_OK", "RET_INVALID_PARAM", "RET_ERROR"}

\* No two nodes of g_cmdList carry the same name (the scan at the start of
\* AtCmdRegister).  AtCmdExec and AtCmdUnregister both stop at the first match,
\* so a second node with the name would be a command that comes back when the
\* first is unregistered.
UniqueNames ==
  \A i, j \in DOMAIN cmdList : cmdList[i].str = cmdList[j].str => i = j

\* When AtCmdInit returns, every complete entry of every linked module has
\* its name registered, whatever the order of the constructors, whatever was
\* registered before, and although some registrations failed on the way.
InitCompletes ==
  [][ pc = "init" /\ pc' = "idle" =>
        \A k \in DOMAIN moduleList :
          \A i \in DOMAIN Cmds[moduleList[k]] :
            LET cmd == Cmds[moduleList[k]][i] IN
              cmd.str # NULL /\ cmd.cb # NULL => cmd.str \in Registered ]_vars

\* When AtCmdDeInit returns, no name of any linked module can be executed any
\* more, although it removes only one node for each table entry.
DeInitCompletes ==
  [][ pc = "deinit" /\ pc' = "idle" =>
        \A k \in DOMAIN moduleList :
          \A i \in DOMAIN Cmds[moduleList[k]] :
            Cmds[moduleList[k]][i].str \notin Registered ]_vars

\* AtCmdInit and AtCmdDeInit return: a failing entry is skipped, not retried.
LoopsReturn == pc \in {"init", "deinit"} ~> pc = "idle"

Abstract == INSTANCE CmdTable WITH table <- [n \in Name |-> Lookup(cmdList, n)]

\* The list implements the table: seen through the first-match scan, every
\* call binds one free name, unbinds one name, or fails and changes nothing;
\* a return of RET_OK means that the call took effect.
ImplementsCmdTable == Abstract!Spec
=============================================================================
