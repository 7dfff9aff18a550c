-------------------------- MODULE AtsDaemonProofs ----------------------------
(***************************************************************************)
(* What the daemon promises, for any peers, any requests, any board        *)
(* functions that fail, and any moment at which main returns.              *)
(*                                                                         *)
(* Nothing it says of a command goes to a peer that did not send it.       *)
(* UdpSendToPc takes the address from the global g_srvAddr, which every    *)
(* datagram overwrites, also one that is no command.  It is right because  *)
(* one thread receives and answers in turn, and because the handlers send  *)
(* by the function of the channel they were called from.                   *)
(*                                                                         *)
(* The list of commands is complete and at rest once a thread runs: main   *)
(* creates the threads behind AtCmdInit, which registers all it can.       *)
(*                                                                         *)
(* Every status is earned: between two steps of a handler what it has done *)
(* is a part of its program in front of what it has still to do.  This     *)
(* needs the list at rest, since AtCmdExec looks the command up in it.     *)
(*                                                                         *)
(* So the daemon is the service of AtsService: a request is taken, and     *)
(* answered with what was earned, and all other steps are invisible.       *)
(***************************************************************************)
EXTENDS AtsDaemon, SequenceLemmas

Places == {"none", "start", "recv", "exec", "handler", "status", "ended"}

Shape ==
  /\ at \in [Thread -> Places]
  /\ DOMAIN cur = Thread
  /\ DOMAIN trace = Thread
  /\ \A t \in Thread : Len(trace[t]) \in Nat /\ DOMAIN trace[t] = 1 .. Len(trace[t])

\* A thread that executes a command sends to the peer the command is from.
Addressed == \A t \in Thread : Busy(t) => Dest(t) = cur[t].from

IInv == Shape /\ Addressed /\ RepliesToRequester

-----------------------------------------------------------------------------
(* The steps of a thread *)

\* Thread t goes from one place to another and notes nothing.
Moves(t, from, then) ==
  /\ at[t] = from /\ at' = [at EXCEPT ![t] = then]
  /\ UNCHANGED <<cur, trace, srvAddr>>

\* Thread t goes on and notes a message to its peer or a call on the board.
Notes(t, from, then) ==
  /\ at[t] = from /\ at' = [at EXCEPT ![t] = then]
  /\ \E to \in {"board", Dest(t)} : \E what, good : Did(t, what, to, good)
  /\ UNCHANGED <<cur, srvAddr>>

LEMMA GoneOn ==
  ASSUME IInv, NEW t \in Thread, NEW then \in Places,
         at' = [at EXCEPT ![t] = then], Busy(t)' => Busy(t),
         UNCHANGED <<cur, srvAddr>>
  PROVE  at' \in [Thread -> Places] /\ Addressed'
<1>1. at' \in [Thread -> Places] /\ \A u \in Thread : u # t => at'[u] = at[u]
  BY DEF IInv, Shape
<1>2. \A u \in Thread : Busy(u)' => Busy(u) BY <1>1 DEF Busy
<1>3. \A u \in Thread : Dest(u)' = Dest(u) BY DEF Dest
<1>. QED BY <1>1, <1>2, <1>3 DEF IInv, Addressed

LEMMA MovingKeeps ==
  ASSUME IInv, NEW t \in Thread, NEW from, NEW then \in Places, Moves(t, from, then),
         Busy(t)' => Busy(t)
  PROVE  IInv'
<1>1. at' \in [Thread -> Places] /\ Addressed' BY GoneOn DEF Moves
<1>2. UNCHANGED <<cur, trace>> BY DEF Moves
<1>. QED BY <1>1, <1>2 DEF IInv, Shape, RepliesToRequester

LEMMA NotingKeeps ==
  ASSUME IInv, NEW t \in Thread, Busy(t), NEW from, NEW then \in Places, Notes(t, from, then)
  PROVE  IInv'
<1>1. at' \in [Thread -> Places] /\ Addressed' BY GoneOn DEF Notes
<1>2. PICK to \in {"board", Dest(t)} : \E what, good : Did(t, what, to, good) BY DEF Notes
<1>2a. PICK what, good : Did(t, what, to, good) BY <1>2
<1>3. to \in {"board", cur[t].from} BY DEF IInv, Addressed
<1> DEFINE e == [what |-> what, to |-> to, ok |-> good]
           old == trace[t]
           new == Append(old, e)
<1>4. e.to = to OBVIOUS
<1>5. Len(old) \in Nat /\ DOMAIN old = 1 .. Len(old) /\ \A i \in DOMAIN old : old[i].to \in {"board", cur[t].from}
  BY DEF IInv, Shape, RepliesToRequester
<1>6. trace' = [trace EXCEPT ![t] = new] BY <1>2a DEF Did
<1> HIDE DEF e, old
<1>7. /\ Len(new) = Len(old) + 1 /\ DOMAIN new = 1 .. Len(new)
      /\ \A i \in 1 .. Len(new) : new[i] = IF i <= Len(old) THEN old[i] ELSE e
  BY <1>5
<1> HIDE DEF new
<1>8. \A i \in DOMAIN new : new[i].to \in {"board", cur[t].from} BY <1>3, <1>4, <1>5, <1>7
<1>9. /\ DOMAIN trace' = Thread /\ trace'[t] = new
      /\ \A u \in Thread : u # t => trace'[u] = trace[u]
  BY <1>6 DEF IInv, Shape
<1>10. cur' = cur BY DEF Notes
<1>11. Shape' BY <1>1, <1>5, <1>7, <1>9, <1>10 DEF IInv, Shape
<1>12. RepliesToRequester' BY <1>8, <1>9, <1>10 DEF IInv, RepliesToRequester
<1>. QED BY <1>1, <1>11, <1>12 DEF IInv

LEMMA ExecuteKeeps ==
  ASSUME IInv, NEW t \in Thread, Execute(t)
  PROVE  IInv'
<1>1. CASE AtCmdExec(t)
  <2>1. PICK then \in {"handler", "status"} : Moves(t, "exec", then)
    BY <1>1 DEF AtCmdExec, Goto, Moves
  <2>2. Busy(t) /\ then \in Places BY <2>1 DEF Moves, Busy, Places
  <2>. QED BY <2>1, <2>2, MovingKeeps
<1>2. CASE DeviceCall(t)
  <2>1. PICK then \in {"handler", "status"} : Goto(t, "handler", then) BY <1>2 DEF DeviceCall
  <2>2. Notes(t, "handler", then) BY <1>2, <2>1 DEF DeviceCall, Goto, Notes
  <2>3. Busy(t) /\ then \in Places BY <2>2 DEF Notes, Busy, Places
  <2>. QED BY <2>2, <2>3, NotingKeeps
<1>3. CASE SendOutput(t)
  <2>1. Notes(t, "handler", "handler") BY <1>3 DEF SendOutput, Goto, Notes
  <2>2. Busy(t) /\ "handler" \in Places BY <2>1 DEF Notes, Busy, Places
  <2>. QED BY <2>1, <2>2, NotingKeeps
<1>4. CASE HandlerReturns(t)
  <2>1. Moves(t, "handler", "status") BY <1>4 DEF HandlerReturns, Goto, Moves
  <2>2. Busy(t) /\ "status" \in Places BY <2>1 DEF Moves, Busy, Places
  <2>. QED BY <2>1, <2>2, MovingKeeps
<1>5. CASE SendStatus(t)
  <2>1. Notes(t, "status", "recv") BY <1>5 DEF SendStatus, Goto, Notes
  <2>2. Busy(t) /\ "recv" \in Places BY <2>1 DEF Notes, Busy, Places
  <2>. QED BY <2>1, <2>2, NotingKeeps
<1>. QED BY <1>1, <1>2, <1>3, <1>4, <1>5 DEF Execute

LEMMA StartKeeps ==
  ASSUME IInv, StdInStart \/ UdpStart
  PROVE  IInv'
<1>1. PICK t \in Thread, then \in {"recv", "ended"} : Moves(t, "start", then)
  BY DEF StdInStart, UdpStart, Goto, Moves, Thread
<1>2. then \in Places /\ ~Busy(t)' BY <1>1 DEF Moves, Places, Busy, IInv, Shape
<1>. QED BY <1>1, <1>2, MovingKeeps

LEMMA TakeKeeps ==
  ASSUME IInv, NEW t \in Thread, NEW r, Take(t, r),
         t = "stdin" => r.from = "console" /\ srvAddr' = srvAddr,
         t = "udp" => srvAddr' = r.from
  PROVE  IInv'
<1>1. at[t] = "recv" BY DEF Take, Goto
<1>2. /\ \A u \in Thread : u # t => Dest(u)' = Dest(u)
      /\ Dest(t)' = r.from
  BY DEF Dest, Thread
<1>3. CASE r.tl
  <2>1. /\ at' = [at EXCEPT ![t] = "exec"] /\ cur' = [cur EXCEPT ![t] = r]
        /\ trace' = [trace EXCEPT ![t] = <<>>]
    BY <1>3 DEF Take, Goto
  <2>2. /\ DOMAIN cur' = Thread /\ cur'[t] = r /\ \A u \in Thread : u # t => cur'[u] = cur[u]
        /\ DOMAIN trace' = Thread /\ trace'[t] = <<>> /\ \A u \in Thread : u # t => trace'[u] = trace[u]
        /\ at' \in [Thread -> Places] /\ at'[t] = "exec" /\ \A u \in Thread : u # t => at'[u] = at[u]
    BY <2>1 DEF IInv, Shape, Places
  <2>3. Shape' BY <2>2 DEF IInv, Shape
  <2>4. RepliesToRequester' BY <2>2 DEF IInv, RepliesToRequester
  <2>5. Addressed' BY <2>2, <1>2 DEF IInv, Addressed, Busy
  <2>. QED BY <2>3, <2>4, <2>5 DEF IInv
<1>4. CASE ~r.tl
  <2>1. at' = at /\ UNCHANGED <<cur, trace>> BY <1>1, <1>4 DEF Take, Goto, IInv, Shape
  <2>2. ~Busy(t) /\ \A u \in Thread : Busy(u)' = Busy(u) BY <1>1, <2>1 DEF Busy
  <2>3. Addressed' BY <2>1, <2>2, <1>2 DEF IInv, Addressed
  <2>. QED BY <2>1, <2>3 DEF IInv, Shape, RepliesToRequester
<1>. QED BY <1>3, <1>4

\* main starts the threads and otherwise leaves them alone.
LEMMA MainKeeps ==
  ASSUME IInv, Main
  PROVE  IInv'
<1>1. CASE UNCHANGED threads
  BY <1>1 DEF IInv, Shape, Addressed, RepliesToRequester, Busy, Dest, threads
<1>2. ASSUME NEW t \in Thread, NEW from, NEW then, CreateThread(from, t, then)
      PROVE  IInv'
  <2>1. UNCHANGED <<cur, trace, srvAddr>> BY <1>2 DEF CreateThread
  <2>2. CASE at' = [at EXCEPT ![t] = "start"]
    <3>1. Moves(t, at[t], "start") BY <2>1, <2>2 DEF Moves
    <3>2. "start" \in Places /\ ~Busy(t)' BY <2>2 DEF Places, Busy, IInv, Shape
    <3>. QED BY <3>1, <3>2, MovingKeeps
  <2>3. CASE UNCHANGED at
    BY <2>1, <2>3 DEF IInv, Shape, Addressed, RepliesToRequester, Busy, Dest
  <2>. QED BY <2>2, <2>3, <1>2 DEF CreateThread
<1>3. "stdin" \in Thread /\ "udp" \in Thread BY DEF Thread
<1>. QED
  BY <1>1, <1>2, <1>3 DEF Main, Boot, AtCmdInit, Exiting, ChnStdInInit, ChnUdpInit

LEMMA Initially == Init => IInv
<1> SUFFICES ASSUME Init PROVE IInv OBVIOUS
<1>1. Shape BY DEF Init, Shape, Places
<1>2. \A t \in Thread : ~Busy(t) BY DEF Init, Busy
<1>3. RepliesToRequester BY DEF Init, RepliesToRequester
<1>. QED BY <1>1, <1>2, <1>3 DEF IInv, Addressed

LEMMA Inductive == IInv /\ [Next]_vars => IInv'
<1> SUFFICES ASSUME IInv, [Next]_vars PROVE IInv' OBVIOUS
<1>1. CASE UNCHANGED vars
  BY <1>1 DEF IInv, Shape, Addressed, RepliesToRequester, Busy, Dest, vars, threads
<1>2. CASE Main BY <1>2, MainKeeps
<1>3. CASE StdInStart \/ UdpStart BY <1>3, StartKeeps
<1>4. ASSUME NEW r \in ConsoleRequest, StdInRecv(r) PROVE IInv'
  BY <1>4, TakeKeeps DEF ConsoleRequest, StdInRecv, Thread
<1>5. ASSUME NEW r \in UdpRequest, UdpRecv(r) PROVE IInv'
  BY <1>5, TakeKeeps DEF UdpRecv, Thread
<1>6. ASSUME NEW t \in Thread, Execute(t) PROVE IInv' BY <1>6, ExecuteKeeps
<1>. QED BY <1>1, <1>2, <1>3, <1>4, <1>5, <1>6 DEF Next, Rest

\* ats_chn.c, UdpSendToPc and the handlers: everything a thread sends while it
\* executes a request goes to the peer the request came from.
THEOREM NothingGoesAstray == Spec => []RepliesToRequester
<1>1. IInv => RepliesToRequester BY DEF IInv
<1>. QED BY <1>1, Initially, Inductive, PTL DEF Spec

-----------------------------------------------------------------------------
(* The registry under the daemon.  Only main calls it, and only until      *)
(* AtCmdInit has returned; the threads are created after that.             *)

AllRegistered == \A c \in AllCmds : c.str \in R!Registered

UniqueNames == \A i, j \in DOMAIN cmdList : cmdList[i].str = cmdList[j].str => i = j

\* The loop of AtCmdInit has dealt with the entry i of the module at position k.
Passed(k, i) == k < mi \/ (k = mi /\ i < ci)

PassedAreRegistered ==
  \A k \in DOMAIN moduleList : \A i \in DOMAIN Table[moduleList[k]] :
    Passed(k, i) => Table[moduleList[k]][i].str \in R!Registered

\* Where main is, and what that says of the registry and of the threads.
Phase ==
  \/ /\ main = "boot" /\ pc \in {"load", "idle"}
     /\ pc = "idle" => ToSet(moduleList) = DOMAIN Table
  \/ /\ main = "AtCmdInit" /\ pc = "init"
     /\ ToSet(moduleList) = DOMAIN Table
     /\ PassedAreRegistered
  \/ main \in {"ChnStdInInit", "ChnUdpInit", "sleep"} /\ pc = "idle" /\ AllRegistered
  \/ main \in {"exit", "gone"} /\ pc = "exit" /\ AllRegistered

NoThreads == main \in {"boot", "AtCmdInit"} => at = [t \in Thread |-> "none"]

RegistryInv ==
  /\ moduleList \in Seq(DOMAIN Table)
  /\ cmdList \in Seq(AllCmds)
  /\ mi \in Nat \ {0} /\ ci \in Nat \ {0}
  /\ UniqueNames
  /\ Phase
  /\ NoThreads

\* The entries of the tables, by module and position.
LEMMA TableEntries ==
  /\ \A m \in DOMAIN Table : Table[m] \in Seq(AllCmds)
  /\ \A m \in DOMAIN Table : DOMAIN Table[m] \subseteq Nat \ {0}
  /\ \A m \in DOMAIN Table : \A i \in DOMAIN Table[m] : Table[m][i] \in AllCmds
  /\ \A c \in AllCmds : \E m \in DOMAIN Table : \E i \in DOMAIN Table[m] : Table[m][i] = c
<1>1. DOMAIN Table = {"hw", "board", "rf"} BY DEF Table
<1>2. /\ Table["hw"] = HwTestCmds /\ Table["board"] = MainBoardCmds /\ Table["rf"] = RfCmds
  BY DEF Table
<1>3. /\ \A i \in DOMAIN HwTestCmds : HwTestCmds[i] \in AllCmds
      /\ \A i \in DOMAIN MainBoardCmds : MainBoardCmds[i] \in AllCmds
      /\ \A i \in DOMAIN RfCmds : RfCmds[i] \in AllCmds
  BY DEF AllCmds, ToSet
<1>4. HwTestCmds \in Seq(AllCmds)
  <2>1. HwTestCmds \in Seq({HwTestCmds[i] : i \in DOMAIN HwTestCmds}) BY DEF HwTestCmds
  <2>. QED BY <2>1, <1>3, SeqMonotonic
<1>5. MainBoardCmds \in Seq(AllCmds)
  <2>1. MainBoardCmds \in Seq({MainBoardCmds[i] : i \in DOMAIN MainBoardCmds}) BY DEF MainBoardCmds
  <2>. QED BY <2>1, <1>3, SeqMonotonic
<1>6. RfCmds \in Seq(AllCmds)
  <2>1. RfCmds \in Seq({RfCmds[i] : i \in DOMAIN RfCmds}) BY DEF RfCmds
  <2>. QED BY <2>1, <1>3, SeqMonotonic
<1>7. \A m \in DOMAIN Table : Table[m] \in Seq(AllCmds) BY <1>1, <1>2, <1>4, <1>5, <1>6
<1>8. \A m \in DOMAIN Table : DOMAIN Table[m] \subseteq Nat \ {0} BY <1>7, LenProperties
<1>9. \A c \in AllCmds : \E m \in DOMAIN Table : \E i \in DOMAIN Table[m] : Table[m][i] = c
  BY <1>1, <1>2 DEF AllCmds, ToSet
<1>. QED BY <1>1, <1>2, <1>3, <1>7, <1>8, <1>9

\* No two tables of the program use the same name.
LEMMA NamesDiffer == \A c, d \in AllCmds : c.str = d.str => c = d
  BY SMTT(30) DEF AllCmds, HwTestCmds, MainBoardCmds, RfCmds, Cmd, ToSet

\* AtCmdRegister leaves the command registered and forgets none.
LEMMA Registering ==
  ASSUME cmdList \in Seq(AllCmds), UniqueNames, NEW cmd \in AllCmds, R!AtCmdRegister(cmd)
  PROVE  /\ cmdList' \in Seq(AllCmds) /\ UniqueNames'
         /\ R!Registered \subseteq R!Registered'
         /\ cmd.str \in R!Registered'
<1>1. cmd.str # NULL /\ cmd.cb # NULL BY NullAssumption
<1>2. CASE R!Registrable(cmd) /\ cmdList' = Append(cmdList, cmd)
  <2>1. /\ cmdList' \in Seq(AllCmds) /\ Len(cmdList) \in Nat
        /\ DOMAIN cmdList = 1 .. Len(cmdList) /\ DOMAIN cmdList' = 1 .. Len(cmdList) + 1
        /\ \A i \in 1 .. Len(cmdList) : cmdList'[i] = cmdList[i]
        /\ cmdList'[Len(cmdList) + 1] = cmd
    BY <1>2, AppendProperties, LenProperties
  <2>2. \A i \in DOMAIN cmdList : cmdList[i].str # cmd.str
    BY <1>2 DEF R!Registrable, R!Registered, R!Names
  <2>3. UniqueNames' BY <2>1, <2>2 DEF UniqueNames
  <2>4. \A i \in DOMAIN cmdList : cmdList[i].str \in R!Names(cmdList') BY <2>1 DEF R!Names
  <2>5. cmd.str \in R!Names(cmdList') BY <2>1 DEF R!Names
  <2>. QED BY <2>1, <2>3, <2>4, <2>5 DEF R!Registered, R!Names
<1>3. CASE ~R!Registrable(cmd) /\ UNCHANGED cmdList
  <2>1. cmd.str \in R!Registered BY <1>1, <1>3 DEF R!Registrable
  <2>. QED BY <1>3, <2>1 DEF R!Registered, UniqueNames
<1>. QED BY <1>2, <1>3 DEF R!AtCmdRegister

\* One iteration of AtCmdInit registers one entry, and the next entry is due.
LEMMA InitStepKeeps ==
  ASSUME RegistryInv, main = "AtCmdInit", R!InitStep, UNCHANGED <<main, at>>
  PROVE  RegistryInv'
<1>0. pc = "init" /\ ToSet(moduleList) = DOMAIN Table /\ PassedAreRegistered
  BY DEF RegistryInv, Phase
<1> DEFINE cmd == Table[moduleList[mi]][ci]
<1>1. /\ mi \in DOMAIN moduleList /\ moduleList[mi] \in DOMAIN Table
      /\ ci \in DOMAIN Table[moduleList[mi]] /\ cmd \in AllCmds
  <2>1. mi \in 1 .. Len(moduleList) BY LenProperties DEF RegistryInv, R!InitStep, R!InTable
  <2>2. mi \in DOMAIN moduleList /\ moduleList[mi] \in DOMAIN Table
    BY <2>1, LenProperties, ElementOfSeq DEF RegistryInv
  <2>3. Table[moduleList[mi]] \in Seq(AllCmds) BY <2>2, TableEntries
  <2>4. ci \in DOMAIN Table[moduleList[mi]]
    BY <2>3, LenProperties DEF RegistryInv, R!InitStep, R!InTable
  <2>. QED BY <2>2, <2>4, TableEntries
<1>2. /\ cmdList' \in Seq(AllCmds) /\ UniqueNames'
      /\ R!Registered \subseteq R!Registered' /\ cmd.str \in R!Registered'
  BY <1>1, Registering DEF RegistryInv, R!InitStep
<1>3. pc' = pc /\ moduleList' = moduleList /\ mi' = mi /\ ci' = ci + 1 BY DEF R!InitStep
<1>4. PassedAreRegistered'
  <2> SUFFICES ASSUME NEW k \in DOMAIN moduleList, NEW i \in DOMAIN Table[moduleList[k]], Passed(k, i)'
               PROVE  Table[moduleList[k]][i].str \in R!Registered'
    BY <1>3 DEF PassedAreRegistered
  <2>1. moduleList[k] \in DOMAIN Table BY LenProperties DEF RegistryInv
  <2>2. i \in Nat /\ ci \in Nat BY <2>1, TableEntries DEF RegistryInv
  <2>3. Passed(k, i) \/ (k = mi /\ i = ci) BY <1>3, <2>2 DEF Passed
  <2>. QED BY <2>3, <1>0, <1>2 DEF PassedAreRegistered
<1>. QED BY <1>0, <1>2, <1>3, <1>4 DEF RegistryInv, Phase, NoThreads

\* When the loop has dealt with every entry of every module, every command of
\* the program is registered.
LEMMA LeavingLoop ==
  ASSUME RegistryInv, main = "AtCmdInit", R!LeaveLoop
  PROVE  AllRegistered
<1>1. ToSet(moduleList) = DOMAIN Table /\ PassedAreRegistered BY DEF RegistryInv, Phase
<1>2. \A k \in DOMAIN moduleList : k < mi BY LenProperties DEF RegistryInv, R!LeaveLoop
<1>3. SUFFICES ASSUME NEW c \in AllCmds PROVE c.str \in R!Registered BY DEF AllRegistered
<1>4. PICK m \in DOMAIN Table : \E i \in DOMAIN Table[m] : Table[m][i] = c BY TableEntries
<1>5. PICK k \in DOMAIN moduleList : moduleList[k] = m BY <1>1 DEF ToSet
<1>. QED BY <1>1, <1>2, <1>4, <1>5 DEF PassedAreRegistered, Passed

LEMMA NextModuleKeeps ==
  ASSUME RegistryInv, main = "AtCmdInit", R!NextModule, UNCHANGED <<main, at>>
  PROVE  RegistryInv'
<1>0. pc = "init" /\ ToSet(moduleList) = DOMAIN Table /\ PassedAreRegistered
  BY DEF RegistryInv, Phase
<1>1. /\ mi \in Nat \ {0} /\ mi' = mi + 1 /\ ci' = 1 /\ UNCHANGED <<pc, moduleList, cmdList>>
      /\ mi <= Len(moduleList) /\ ci > Len(Table[moduleList[mi]])
  BY DEF R!NextModule, RegistryInv
<1>2. PassedAreRegistered'
  <2> SUFFICES ASSUME NEW k \in DOMAIN moduleList, NEW i \in DOMAIN Table[moduleList[k]], Passed(k, i)'
               PROVE  Table[moduleList[k]][i].str \in R!Registered
    BY <1>1 DEF PassedAreRegistered, R!Registered
  <2>1. moduleList[k] \in DOMAIN Table /\ k \in Nat BY LenProperties DEF RegistryInv
  <2>2. /\ Table[moduleList[k]] \in Seq(AllCmds) /\ i \in Nat \ {0}
    BY <2>1, TableEntries
  <2>3. i \in 1 .. Len(Table[moduleList[k]]) /\ Len(Table[moduleList[k]]) \in Nat
    BY <2>2, LenProperties
  <2>4. k < mi + 1 BY <1>1, <2>1, <2>2 DEF Passed
  <2>5. Passed(k, i) BY <1>1, <2>1, <2>3, <2>4 DEF Passed, RegistryInv
  <2>. QED BY <1>0, <2>5 DEF PassedAreRegistered
<1>. QED BY <1>0, <1>1, <1>2 DEF RegistryInv, Phase, NoThreads, UniqueNames

\* main keeps the registry's invariant, and so does everything else: the
\* threads only read the list.
LEMMA MainKeepsRegistry ==
  ASSUME RegistryInv, Main
  PROVE  RegistryInv'
<1>1. CASE Boot
  <2>0. main = "boot" /\ pc \in {"load", "idle"} /\ (pc = "idle" => ToSet(moduleList) = DOMAIN Table)
    BY <1>1 DEF Boot, RegistryInv, Phase
  <2>1. at' = at BY <1>1 DEF Boot, threads
  <2>2. ASSUME NEW m \in DOMAIN Table, R!CmdsInit(m), UNCHANGED main PROVE RegistryInv'
    <3>1. moduleList' \in Seq(DOMAIN Table) BY <2>2, AppendProperties DEF R!CmdsInit, RegistryInv
    <3>. QED BY <3>1, <2>0, <2>1, <2>2 DEF R!CmdsInit, RegistryInv, Phase, NoThreads, UniqueNames
  <2>3. CASE R!MainStarts /\ UNCHANGED main
    <3>1. ToSet(moduleList') = DOMAIN Table BY <2>3 DEF R!MainStarts, R!ToSet, ToSet
    <3>. QED BY <3>1, <2>0, <2>1, <2>3 DEF R!MainStarts, RegistryInv, Phase, NoThreads, UniqueNames
  <2>4. CASE R!EnterLoop("init") /\ main' = "AtCmdInit"
    <3>1. /\ pc' = "init" /\ mi' = 1 /\ ci' = 1 /\ UNCHANGED <<moduleList, cmdList>> /\ pc = "idle"
      BY <2>4 DEF R!EnterLoop
    <3>2. PassedAreRegistered'
      <4>1. \A k \in DOMAIN moduleList : k \in Nat \ {0} /\ moduleList[k] \in DOMAIN Table
        BY LenProperties DEF RegistryInv
      <4>2. \A k \in DOMAIN moduleList : \A i \in DOMAIN Table[moduleList[k]] : ~Passed(k, i)'
        BY <3>1, <4>1, TableEntries DEF Passed
      <4>. QED BY <3>1, <4>2 DEF PassedAreRegistered
    <3>. QED BY <3>1, <3>2, <2>0, <2>1, <2>4 DEF RegistryInv, Phase, NoThreads, UniqueNames
  <2>. QED BY <1>1, <2>2, <2>3, <2>4 DEF Boot
<1>2. CASE AtCmdInit
  <2>0. main = "AtCmdInit" /\ pc = "init" /\ at' = at
    BY <1>2 DEF AtCmdInit, RegistryInv, Phase, threads
  <2>1. CASE R!InitStep
    <3>1. main' = main BY <1>2, <2>0, <2>1 DEF AtCmdInit, R!InitStep
    <3>. QED BY <2>0, <2>1, <3>1, InitStepKeeps
  <2>2. CASE R!NextModule
    <3>1. main' = main BY <1>2, <2>0, <2>2 DEF AtCmdInit, R!NextModule
    <3>. QED BY <2>0, <2>2, <3>1, NextModuleKeeps
  <2>3. CASE R!LeaveLoop
    <3>1. AllRegistered BY <2>0, <2>3, LeavingLoop
    <3>2. /\ main' = "ChnStdInInit" /\ pc' = "idle" /\ UNCHANGED <<moduleList, cmdList, mi, ci>>
      BY <1>2, <2>3 DEF AtCmdInit, R!LeaveLoop
    <3>. QED BY <2>0, <3>1, <3>2
           DEF RegistryInv, Phase, NoThreads, UniqueNames, AllRegistered, R!Registered, R!Names
  <2>4. ~R!DeInitStep BY <2>0 DEF R!DeInitStep
  <2>. QED BY <1>2, <2>1, <2>2, <2>3, <2>4 DEF AtCmdInit, R!Loop
<1>3. CASE ChnStdInInit \/ ChnUdpInit
  <2>1. PICK t \in Thread, from \in {"ChnStdInInit", "ChnUdpInit"}, then \in {"ChnUdpInit", "sleep"} :
          CreateThread(from, t, then)
    BY <1>3 DEF ChnStdInInit, ChnUdpInit, Thread
  <2>2. main = from /\ pc = "idle" /\ AllRegistered BY <2>1 DEF CreateThread, RegistryInv, Phase
  <2>3. UNCHANGED <<moduleList, cmdList, mi, ci>> BY <2>1 DEF CreateThread, registry, R!Exit
  <2>4. \/ main' = then /\ pc' = "idle"
        \/ main' = "exit" /\ pc' = "exit"
    <3>1. CASE main' = then /\ UNCHANGED registry BY <3>1, <2>2 DEF registry
    <3>2. CASE main' = "exit" /\ R!Exit BY <3>2 DEF R!Exit
    <3>. QED BY <2>1, <3>1, <3>2 DEF CreateThread
  <2>. QED BY <2>2, <2>3, <2>4
         DEF RegistryInv, Phase, NoThreads, UniqueNames, AllRegistered, R!Registered, R!Names
<1>4. CASE Exiting
  <2>1. main = "exit" /\ pc = "exit" /\ AllRegistered BY <1>4 DEF Exiting, RegistryInv, Phase
  <2>2. main' \in {"exit", "gone"} /\ UNCHANGED <<pc, cmdList, mi, ci>>
    BY <1>4, <2>1 DEF Exiting, registry, R!CmdsDeInit
  <2>3. moduleList' \in Seq(DOMAIN Table)
    <3>1. CASE UNCHANGED registry BY <3>1 DEF registry, RegistryInv
    <3>2. ASSUME NEW m \in DOMAIN Table, R!CmdsDeInit(m) PROVE moduleList' \in Seq(DOMAIN Table)
      <4>1. PICK i \in DOMAIN moduleList : moduleList' = RemoveAt(moduleList, i)
        BY <3>2 DEF R!CmdsDeInit, R!RemoveAt, RemoveAt
      <4>. QED BY <4>1, RemoveAtFacts, LenProperties DEF RegistryInv
    <3>. QED BY <1>4, <3>1, <3>2 DEF Exiting
  <2>. QED BY <2>1, <2>2, <2>3
         DEF RegistryInv, Phase, NoThreads, UniqueNames, AllRegistered, R!Registered, R!Names
<1>. QED BY <1>1, <1>2, <1>3, <1>4 DEF Main

\* A thread that does something exists already.
LEMMA ThreadsKeepRegistry ==
  ASSUME RegistryInv, UNCHANGED <<registry, main>>,
         \E t \in Thread : at[t] # "none"
  PROVE  RegistryInv'
<1>1. main \notin {"boot", "AtCmdInit"} BY DEF RegistryInv, NoThreads
<1>2. UNCHANGED <<pc, moduleList, cmdList, mi, ci, main>> BY DEF registry
<1>. QED BY <1>1, <1>2
       DEF RegistryInv, Phase, NoThreads, UniqueNames, AllRegistered, R!Registered, R!Names

\* What a thread does: it was created, and it leaves the registry alone.
LEMMA ThreadSteps ==
  ASSUME \/ StdInStart \/ UdpStart
         \/ (\E r \in ConsoleRequest : StdInRecv(r)) \/ (\E r \in UdpRequest : UdpRecv(r))
         \/ \E t \in Thread : Execute(t)
  PROVE  UNCHANGED <<registry, main>> /\ \E t \in Thread : at[t] # "none"
<1>1. \E t \in Thread : \E from, then : from # "none" /\ Goto(t, from, then)
  <2>1. CASE StdInStart \/ UdpStart BY <2>1 DEF StdInStart, UdpStart, Thread
  <2>2. CASE (\E r \in ConsoleRequest : StdInRecv(r)) \/ (\E r \in UdpRequest : UdpRecv(r))
    BY <2>2 DEF StdInRecv, UdpRecv, Take, Thread
  <2>3. ASSUME NEW t \in Thread, Execute(t) PROVE \E from, then : from # "none" /\ Goto(t, from, then)
    BY <2>3 DEF Execute, AtCmdExec, DeviceCall, SendOutput, HandlerReturns, SendStatus
  <2>. QED BY <2>1, <2>2, <2>3
<1>. QED BY <1>1 DEF Goto

LEMMA RegistryInitially == Init => RegistryInv
<1> SUFFICES ASSUME Init PROVE RegistryInv OBVIOUS
<1>1. moduleList = <<>> /\ cmdList = <<>> /\ mi = 1 /\ ci = 1 /\ pc = "load" /\ main = "boot"
  BY DEF Init, R!Init
<1>2. moduleList \in Seq(DOMAIN Table) /\ cmdList \in Seq(AllCmds) BY <1>1, EmptySeq
<1>. QED BY <1>1, <1>2 DEF Init, RegistryInv, UniqueNames, Phase, NoThreads

LEMMA RegistryInductive == RegistryInv /\ [Next]_vars => RegistryInv'
<1> SUFFICES ASSUME RegistryInv, [Next]_vars PROVE RegistryInv' OBVIOUS
<1>1. CASE UNCHANGED vars
  BY <1>1 DEF vars, registry, threads, RegistryInv, Phase, NoThreads, UniqueNames, Passed,
              PassedAreRegistered, AllRegistered, R!Registered, R!Names
<1>2. CASE Main BY <1>2, MainKeepsRegistry
<1>3. CASE \/ StdInStart \/ UdpStart
           \/ (\E r \in ConsoleRequest : StdInRecv(r)) \/ (\E r \in UdpRequest : UdpRecv(r))
           \/ \E t \in Thread : Execute(t)
  <2>1. UNCHANGED <<registry, main>> /\ \E t \in Thread : at[t] # "none" BY <1>3, ThreadSteps
  <2>. QED BY <2>1, ThreadsKeepRegistry
<1>. QED BY <1>1, <1>2, <1>3 DEF Next, Rest

LEMMA RegistryInvariance == Spec => []RegistryInv
  BY RegistryInitially, RegistryInductive, PTL DEF Spec

\* main.c, AtCmdInit: once there is a thread, the list holds every command
\* of the program and no step changes it.
THEOREM ListIsStable == Spec => RegistryStable
<1> DEFINE Stable ==
      (\E t \in Thread : at[t] # "none") =>
        cmdList' = cmdList /\ R!Registered = {c.str : c \in AllCmds}
<1>1. RegistryInv /\ [Next]_vars => [Stable]_vars
  <2> SUFFICES ASSUME RegistryInv, Next, \E t \in Thread : at[t] # "none"
               PROVE  cmdList' = cmdList /\ R!Registered = {c.str : c \in AllCmds}
    OBVIOUS
  <2>1. main \notin {"boot", "AtCmdInit"} BY DEF RegistryInv, NoThreads
  <2>2. AllRegistered BY <2>1 DEF RegistryInv, Phase
  <2>3. \A i \in DOMAIN cmdList : cmdList[i] \in AllCmds BY LenProperties DEF RegistryInv
  <2>4. R!Registered = {c.str : c \in AllCmds}
    BY <2>2, <2>3 DEF AllRegistered, R!Registered, R!Names
  <2>5. cmdList' = cmdList
    <3>1. CASE ChnStdInInit \/ ChnUdpInit
      BY <3>1 DEF ChnStdInInit, ChnUdpInit, CreateThread, registry, R!Exit
    <3>2. CASE Exiting BY <3>2 DEF Exiting, registry, R!CmdsDeInit
    <3>3. CASE UNCHANGED registry BY <3>3 DEF registry
    <3>. QED BY <2>1, <3>1, <3>2, <3>3, ThreadSteps DEF Next, Main, Boot, AtCmdInit, Rest, vars
  <2>. QED BY <2>4, <2>5
<1>. QED BY <1>1, RegistryInvariance, PTL DEF Spec, RegistryStable

-----------------------------------------------------------------------------
(* What the status of a request rests on.  The trace of a request is the   *)
(* part of the handler's program that has been executed, todo the rest.    *)

Words == { "GetGpio", "SetGpio", "SetGpioMode", "sed ssid", "sed psk", "I2cRead",
           "PhyTest 0x1F", "PhyTest 0x09", "toUsbHost.sh", "memtool",
           "LcdShowBmp or LcdFillColor", "toPc", "output" }

Program(r) == Calls(CallbackOf(r)) \o IF Prints(CallbackOf(r)) THEN <<"toPc">> ELSE <<>>
Full(r)    == Calls(CallbackOf(r)) \o IF Prints(CallbackOf(r)) THEN <<"output">> ELSE <<>>

\* The first n entries of the trace s are the first n things the handler of r
\* does.
Made(s, n, r) == n <= Len(Full(r)) /\ \A i \in 1 .. n : s[i].what = Full(r)[i]

AllOk(s, n) == \A i \in 1 .. n : s[i].ok = TRUE

\* The handler of r has come to its end with the first n entries of s: after
\* all its calls, without having been called, or at a call that failed.
Ended(s, n, r, good) ==
  \/ good = TRUE /\ Known(r) /\ n = Len(Full(r)) /\ Made(s, n, r) /\ AllOk(s, n)
  \/ good = FALSE /\ ~Known(r) /\ n = 0
  \/ /\ good = FALSE /\ Known(r) /\ n # 0
     /\ Made(s, n, r) /\ AllOk(s, n - 1) /\ s[n].ok = FALSE

InHandler(t) ==
  /\ Known(cur[t]) /\ ok[t] = TRUE
  /\ todo[t] \in Seq(Words)
  /\ Len(trace[t]) + Len(todo[t]) = Len(Program(cur[t]))
  /\ \A i \in 1 .. Len(todo[t]) : todo[t][i] = Program(cur[t])[Len(trace[t]) + i]
  /\ Made(trace[t], Len(trace[t]), cur[t])
  /\ AllOk(trace[t], Len(trace[t]))

Status(good) == IF good = TRUE THEN "SUCCESS" ELSE "FAIL"

Answered(t, good) ==
  /\ Len(trace[t]) # 0
  /\ trace[t][Len(trace[t])].what = Status(good)
  /\ Ended(trace[t], Len(trace[t]) - 1, cur[t], good)

WorkOf(t) ==
  /\ Busy(t) => cur[t] \in Request
  /\ at[t] \in {"none", "start"} => trace[t] = <<>>
  /\ at[t] = "exec" => ok[t] = TRUE /\ trace[t] = <<>>
  /\ at[t] = "handler" => InHandler(t)
  /\ at[t] = "status" => Ended(trace[t], Len(trace[t]), cur[t], ok[t])
  /\ at[t] = "recv" => trace[t] = <<>> \/ \E good \in BOOLEAN : Answered(t, good)

NotCreated ==
  /\ main = "ChnStdInInit" => at["stdin"] = "none"
  /\ main \in {"ChnStdInInit", "ChnUdpInit"} => at["udp"] = "none"

WorkInv ==
  /\ DOMAIN todo = Thread /\ DOMAIN ok = Thread
  /\ NotCreated
  /\ \A t \in Thread : WorkOf(t)

\* The handlers' programs.
LEMMA CallPrograms ==
  ASSUME NEW cb
  PROVE  Calls(cb) \in { <<>>, <<"GetGpio">>, <<"SetGpio">>, <<"SetGpioMode">>,
           <<"sed ssid", "sed psk">>, <<"I2cRead">>, <<"PhyTest 0x1F", "PhyTest 0x09">>,
           <<"toUsbHost.sh", "memtool">>, <<"LcdShowBmp or LcdFillColor">> }
  BY Zenon DEF Calls

\* Program and Full differ in what the last step of a handler with output is
\* called, and in nothing else.
LEMMA Programs ==
  ASSUME NEW r
  PROVE  /\ Program(r) \in Seq(Words) /\ Full(r) \in Seq(Words)
         /\ Len(Full(r)) = Len(Program(r))
         /\ \A i \in 1 .. Len(Program(r)) :
              Full(r)[i] = IF Program(r)[i] = "toPc" THEN "output" ELSE Program(r)[i]
<1> DEFINE calls == Calls(CallbackOf(r))
           prints == Prints(CallbackOf(r))
<1>1. /\ calls \in Seq(Words)
      /\ \A i \in 1 .. Len(calls) : calls[i] # "toPc"
  <2>1. CASE calls = <<>> BY <2>1
  <2>2. CASE \E c \in Words : calls = <<c>> /\ c # "toPc" BY <2>2
  <2>3. CASE \E c, d \in Words : calls = <<c, d>> /\ c # "toPc" /\ d # "toPc" BY <2>3
  <2>. HIDE DEF calls
  <2>4. calls \in { <<>>, <<"GetGpio">>, <<"SetGpio">>, <<"SetGpioMode">>,
           <<"sed ssid", "sed psk">>, <<"I2cRead">>, <<"PhyTest 0x1F", "PhyTest 0x09">>,
           <<"toUsbHost.sh", "memtool">>, <<"LcdShowBmp or LcdFillColor">> }
    BY CallPrograms DEF calls
  <2>. QED BY <2>1, <2>2, <2>3, <2>4 DEF Words
<1>2. Len(calls) \in Nat BY <1>1, LenProperties
<1>3. CASE prints
  <2>1. Program(r) = calls \o <<"toPc">> /\ Full(r) = calls \o <<"output">>
    BY <1>3 DEF Program, Full
  <2>2. <<"toPc">> \in Seq(Words) /\ <<"output">> \in Seq(Words) BY DEF Words
  <2>. HIDE DEF calls
  <2>. QED BY <1>1, <1>2, <2>1, <2>2, ConcatProperties
<1>4. CASE ~prints
  <2>1. Program(r) = calls \o <<>> /\ Full(r) = calls \o <<>> BY <1>4 DEF Program, Full
  <2>. HIDE DEF calls
  <2>2. Program(r) = calls /\ Full(r) = calls BY <1>1, <2>1, ConcatEmptySeq
  <2>. QED BY <1>1, <2>2
<1>. QED BY <1>3, <1>4

\* AtCmdExec finds a command by its name, once all of them are registered.
LEMMA Finding ==
  ASSUME RegistryInv, AllRegistered, NEW r
  PROVE  /\ Runs(R!Lookup(cmdList, r.name), r) <=> Known(r)
         /\ Known(r) => R!Lookup(cmdList, r.name) = CallbackOf(r)
<1>1. /\ \A i \in DOMAIN cmdList : cmdList[i] \in AllCmds
      /\ DOMAIN cmdList = 1 .. Len(cmdList) /\ Len(cmdList) \in Nat
  BY LenProperties DEF RegistryInv
<1>2. CASE \E c \in AllCmds : c.str = r.name
  <2>1. PICK c \in AllCmds : c.str = r.name BY <1>2
  <2>2. \A d \in AllCmds : d.str = r.name => d = c BY <2>1, NamesDiffer
  <2>3. CallbackOf(r) = c.cb BY <2>1, <2>2 DEF CallbackOf
  <2>4. PICK i \in DOMAIN cmdList : cmdList[i].str = r.name
    BY <2>1 DEF AllRegistered, R!Registered, R!Names
  <2>5. \A j \in DOMAIN cmdList : cmdList[j].str = r.name => j = i
    BY <2>4 DEF RegistryInv, UniqueNames
  <2>6. \A j \in DOMAIN cmdList : R!IsFirst(cmdList, r.name, j) <=> j = i
    BY <1>1, <2>4, <2>5 DEF R!IsFirst
  <2>7. R!Lookup(cmdList, r.name) = cmdList[i].cb
    BY <2>4, <2>6 DEF R!Lookup, R!Names
  <2>8. R!Lookup(cmdList, r.name) = c.cb BY <1>1, <2>2, <2>4, <2>7
  <2>9. c.cb # NULL BY NullAssumption
  <2>10. Known(r) <=> Runs(c.cb, r) BY <2>1, <2>2, <2>9 DEF Known, Runs
  <2>. QED BY <2>3, <2>8, <2>10
<1>3. CASE ~ \E c \in AllCmds : c.str = r.name
  <2>1. ~Known(r) BY <1>3 DEF Known
  <2>2. r.name \notin R!Names(cmdList) BY <1>1, <1>3 DEF R!Names
  <2>3. R!Lookup(cmdList, r.name) = NULL BY <2>2 DEF R!Lookup
  <2>. QED BY <2>1, <2>3 DEF Runs
<1>. QED BY <1>2, <1>3

-----------------------------------------------------------------------------
(* Traces *)

\* What is said of the first n entries of a trace holds of every trace that
\* starts with them.
LEMMA SameStart ==
  ASSUME NEW s, NEW s2, NEW n \in Nat, NEW r, NEW good, \A i \in 1 .. n : s2[i] = s[i]
  PROVE  /\ Made(s, n, r) => Made(s2, n, r)
         /\ AllOk(s, n) => AllOk(s2, n)
         /\ Ended(s, n, r, good) => Ended(s2, n, r, good)
<1>1. /\ Made(s, n, r) => Made(s2, n, r)
      /\ AllOk(s, n) => AllOk(s2, n)
      /\ AllOk(s, n - 1) => AllOk(s2, n - 1)
  BY DEF Made, AllOk
<1>2. n # 0 => s2[n] = s[n] OBVIOUS
<1>3. n # 0 => s2[n].ok = s[n].ok BY <1>2
<1>4. ASSUME Ended(s, n, r, good) PROVE Ended(s2, n, r, good)
  <2>1. CASE good = TRUE /\ Known(r) /\ n = Len(Full(r)) /\ Made(s, n, r) /\ AllOk(s, n)
    BY <1>1, <2>1 DEF Ended
  <2>2. CASE good = FALSE /\ ~Known(r) /\ n = 0 BY <2>2 DEF Ended
  <2>3. CASE /\ good = FALSE /\ Known(r) /\ n # 0
             /\ Made(s, n, r) /\ AllOk(s, n - 1) /\ s[n].ok = FALSE
    <3>1. Made(s2, n, r) /\ AllOk(s2, n - 1) /\ s2[n].ok = FALSE BY <1>1, <1>3, <2>3
    <3>. QED BY <2>3, <3>1 DEF Ended
  <2>. QED BY <1>4, <2>1, <2>2, <2>3 DEF Ended
<1>. QED BY <1>1, <1>4

\* The trace of t has one entry more; those of the others are as they were.
Grown(t, what, good) ==
  /\ Len(trace[t]) \in Nat /\ Len(trace'[t]) = Len(trace[t]) + 1
  /\ \A i \in 1 .. Len(trace[t]) : trace'[t][i] = trace[t][i]
  /\ trace'[t][Len(trace[t]) + 1].what = what
  /\ trace'[t][Len(trace[t]) + 1].ok = good
  /\ \A u \in Thread : u # t => trace'[u] = trace[u]

LEMMA DidAppends ==
  ASSUME Shape, NEW t \in Thread, NEW what, NEW to, NEW good, Did(t, what, to, good)
  PROVE  Grown(t, what, good)
<1> DEFINE e == [what |-> what, to |-> to, ok |-> good]
<1>1. trace' = [trace EXCEPT ![t] = Append(trace[t], e)] BY DEF Did
<1>2. Len(trace[t]) \in Nat /\ DOMAIN trace[t] = 1 .. Len(trace[t]) /\ DOMAIN trace = Thread
  BY DEF Shape
<1> HIDE DEF e
<1>3. trace'[t] = Append(trace[t], e) /\ \A u \in Thread : u # t => trace'[u] = trace[u]
  BY <1>1, <1>2
<1>4. /\ Len(Append(trace[t], e)) = Len(trace[t]) + 1
      /\ \A i \in 1 .. Len(trace[t]) : Append(trace[t], e)[i] = trace[t][i]
      /\ Append(trace[t], e)[Len(trace[t]) + 1] = e
  BY <1>2
<1>5. e.what = what /\ e.ok = good BY DEF e
<1>. QED BY <1>2, <1>3, <1>4, <1>5 DEF Grown

\* A thread that nothing happens to.
LEMMA Untouched ==
  ASSUME NEW u \in Thread, WorkOf(u),
         at'[u] = at[u], cur'[u] = cur[u], trace'[u] = trace[u],
         todo'[u] = todo[u], ok'[u] = ok[u]
  PROVE  WorkOf(u)'
<1>1. Busy(u)' <=> Busy(u) BY DEF Busy
<1>2. InHandler(u)' <=> InHandler(u) BY DEF InHandler
<1>3. \A good : Answered(u, good)' <=> Answered(u, good) BY DEF Answered
<1>. QED BY <1>1, <1>2, <1>3 DEF WorkOf

-----------------------------------------------------------------------------
(* The steps of a thread, seen from its request *)

DaemonInv == IInv /\ RegistryInv /\ WorkInv

\* t is the only thread that does something.
Only(t) ==
  /\ at[t] # "none"
  /\ main' = main
  /\ DOMAIN todo' = Thread /\ DOMAIN ok' = Thread
  /\ \A u \in Thread : u # t =>
       /\ at'[u] = at[u] /\ cur'[u] = cur[u] /\ trace'[u] = trace[u]
       /\ todo'[u] = todo[u] /\ ok'[u] = ok[u]

LEMMA OnlyOne ==
  ASSUME WorkInv, NEW t \in Thread, Only(t), WorkOf(t)'
  PROVE  WorkInv'
<1>1. \A u \in Thread : WorkOf(u)'
  <2> SUFFICES ASSUME NEW u \in Thread, u # t PROVE WorkOf(u)' OBVIOUS
  <2>. QED BY Untouched DEF WorkInv, Only
<1>2. NotCreated' BY DEF WorkInv, NotCreated, Only, Thread
<1>. QED BY <1>1, <1>2 DEF WorkInv, Only

LEMMA Going ==
  ASSUME DaemonInv, NEW t \in Thread, NEW from, NEW then, Goto(t, from, then)
  PROVE  /\ at[t] = from /\ at'[t] = then /\ main' = main
         /\ \A u \in Thread : u # t => at'[u] = at[u]
  BY DEF Goto, DaemonInv, IInv, Shape

LEMMA ExecWorks ==
  ASSUME DaemonInv, NEW t \in Thread, AtCmdExec(t)
  PROVE  WorkInv'
<1> DEFINE cb == R!Lookup(cmdList, cur[t].name)
<1>1. at[t] = "exec" /\ UNCHANGED <<cur, trace>> BY DEF AtCmdExec
<1>2. cur[t] \in Request /\ ok[t] = TRUE /\ trace[t] = <<>>
  BY <1>1 DEF DaemonInv, WorkInv, WorkOf, Busy
<1>3. AllRegistered
  <2>1. main \notin {"boot", "AtCmdInit"} BY <1>1 DEF DaemonInv, RegistryInv, NoThreads
  <2>. QED BY <2>1 DEF DaemonInv, RegistryInv, Phase
<1>4. /\ Runs(cb, cur[t]) <=> Known(cur[t])
      /\ Known(cur[t]) => cb = CallbackOf(cur[t])
  BY <1>3, Finding DEF DaemonInv
<1>5. CASE Runs(cb, cur[t])
  <2>1. /\ Goto(t, "exec", "handler") /\ UNCHANGED ok
        /\ todo' = [todo EXCEPT ![t] = Calls(cb) \o IF Prints(cb) THEN <<"toPc">> ELSE <<>>]
    BY <1>5 DEF AtCmdExec
  <2>2. todo' = [todo EXCEPT ![t] = Program(cur[t])] BY <1>4, <1>5, <2>1 DEF Program
  <2>3. at'[t] = "handler" /\ todo'[t] = Program(cur[t]) BY <2>1, <2>2, Going DEF DaemonInv, WorkInv
  <2>4. /\ Program(cur[t]) \in Seq(Words) /\ Full(cur[t]) \in Seq(Words)
        /\ Len(Full(cur[t])) \in Nat
    BY Programs, LenProperties
  <2>5. Len(trace'[t]) = 0 BY <1>1, <1>2
  <2>6. \A i \in 1 .. Len(Program(cur[t])) : Program(cur[t])[i] = Program(cur[t])[0 + i] OBVIOUS
  <2>7. Len(Program(cur[t])) \in Nat BY <2>4, LenProperties
  <2>8. Made(trace'[t], 0, cur[t]) /\ AllOk(trace'[t], 0) BY <2>4 DEF Made, AllOk
  <2>9. InHandler(t)'
    <3> DEFINE p == Program(cur[t])
    <3>1. Known(cur'[t]) /\ ok'[t] = TRUE BY <1>1, <1>2, <1>4, <1>5, <2>1
    <3>2. /\ todo'[t] = p /\ Len(trace'[t]) = 0 /\ Program(cur'[t]) = p /\ cur'[t] = cur[t]
      BY <1>1, <2>3, <2>5
    <3> HIDE DEF p
    <3>3. 0 + Len(p) = Len(p) /\ p \in Seq(Words) BY <2>4, <2>7 DEF p
    <3>4. \A i \in 1 .. Len(p) : p[i] = p[0 + i] BY <2>6 DEF p
    <3>. QED BY <2>8, <3>1, <3>2, <3>3, <3>4 DEF InHandler
  <2>10. WorkOf(t)' BY <1>1, <1>2, <2>3, <2>9 DEF WorkOf
  <2>11. Only(t) BY <1>1, <2>1, <2>2, Going DEF Only, DaemonInv, WorkInv
  <2>. QED BY <2>10, <2>11, OnlyOne DEF DaemonInv
<1>6. CASE ~Runs(cb, cur[t])
  <2>1. Goto(t, "exec", "status") /\ ok' = [ok EXCEPT ![t] = FALSE] /\ UNCHANGED todo
    BY <1>6 DEF AtCmdExec
  <2>2. at'[t] = "status" /\ ok'[t] = FALSE BY <2>1, Going DEF DaemonInv, WorkInv
  <2>3. Ended(trace'[t], Len(trace'[t]), cur'[t], ok'[t])
    BY <1>1, <1>2, <1>4, <1>6, <2>2 DEF Ended
  <2>4. WorkOf(t)' BY <1>1, <1>2, <2>2, <2>3 DEF WorkOf
  <2>5. Only(t) BY <1>1, <2>1, Going DEF Only, DaemonInv, WorkInv
  <2>. QED BY <2>4, <2>5, OnlyOne DEF DaemonInv
<1>. QED BY <1>5, <1>6

\* The next step of a handler's program, and what is left after it.
LEMMA NextStep ==
  ASSUME DaemonInv, NEW t \in Thread, at[t] = "handler", todo[t] # <<>>
  PROVE  LET n == Len(trace[t])
             h == Head(todo[t])
         IN  /\ InHandler(t) /\ n \in Nat /\ n + 1 <= Len(Full(cur[t]))
             /\ Full(cur[t])[n + 1] = IF h = "toPc" THEN "output" ELSE h
             /\ Tail(todo[t]) \in Seq(Words)
             /\ n + 1 + Len(Tail(todo[t])) = Len(Program(cur[t]))
             /\ \A i \in 1 .. Len(Tail(todo[t])) :
                  Tail(todo[t])[i] = Program(cur[t])[n + 1 + i]
<1> DEFINE n == Len(trace[t])
           p == Program(cur[t])
           q == todo[t]
<1>1. InHandler(t) BY DEF DaemonInv, WorkInv, WorkOf
<1>2. n \in Nat BY DEF DaemonInv, IInv, Shape
<1>3. /\ q \in Seq(Words) /\ n + Len(q) = Len(p)
      /\ \A i \in 1 .. Len(q) : q[i] = p[n + i]
  BY <1>1 DEF InHandler
<1>4. Len(Full(cur[t])) = Len(p) /\ Len(p) \in Nat
      /\ \A i \in 1 .. Len(p) : Full(cur[t])[i] = IF p[i] = "toPc" THEN "output" ELSE p[i]
  BY Programs, LenProperties
<1>5. Len(q) \in Nat \ {0} BY <1>3, EmptySeq
<1>6. /\ Tail(q) \in Seq(Words) /\ Len(Tail(q)) = Len(q) - 1
      /\ \A i \in 1 .. Len(Tail(q)) : Tail(q)[i] = q[i + 1]
  BY <1>3, HeadTailProperties
<1>7. Head(q) = q[1] BY <1>3, <1>5
<1> HIDE DEF n, p, q
<1>8. q[1] = p[n + 1] /\ n + 1 \in 1 .. Len(p) BY <1>2, <1>3, <1>4, <1>5
<1>9. \A i \in 1 .. Len(Tail(q)) : Tail(q)[i] = p[n + 1 + i]
  <2> TAKE i \in 1 .. Len(Tail(q))
  <2>1. i + 1 \in 1 .. Len(q) /\ n + (i + 1) = n + 1 + i BY <1>2, <1>5, <1>6
  <2>. QED BY <1>3, <1>6, <2>1
<1>10. /\ Full(cur[t])[n + 1] = IF Head(q) = "toPc" THEN "output" ELSE Head(q)
       /\ n + 1 <= Len(Full(cur[t])) /\ n + 1 + Len(Tail(q)) = Len(p)
  BY <1>2, <1>3, <1>4, <1>5, <1>6, <1>7, <1>8
<1>. QED BY <1>1, <1>2, <1>6, <1>9, <1>10 DEF n, p, q

\* A step that succeeded.
LEMMA StepDone ==
  ASSUME DaemonInv, NEW t \in Thread, todo[t] # <<>>, Goto(t, "handler", "handler"),
         todo' = [todo EXCEPT ![t] = Tail(@)], UNCHANGED <<cur, ok>>,
         NEW what, Grown(t, what, TRUE),
         what = IF Head(todo[t]) = "toPc" THEN "output" ELSE Head(todo[t])
  PROVE  WorkInv'
<1> DEFINE n == Len(trace[t])
<1>1. at[t] = "handler" /\ at'[t] = "handler" BY Going
<1>2. /\ InHandler(t) /\ n \in Nat /\ n + 1 <= Len(Full(cur[t]))
      /\ Full(cur[t])[n + 1] = what
      /\ Tail(todo[t]) \in Seq(Words)
      /\ n + 1 + Len(Tail(todo[t])) = Len(Program(cur[t]))
      /\ \A i \in 1 .. Len(Tail(todo[t])) : Tail(todo[t])[i] = Program(cur[t])[n + 1 + i]
  BY <1>1, NextStep
<1>3. /\ Len(trace'[t]) = n + 1
      /\ \A i \in 1 .. n : trace'[t][i] = trace[t][i]
      /\ trace'[t][n + 1].what = what /\ trace'[t][n + 1].ok = TRUE
      /\ \A u \in Thread : u # t => trace'[u] = trace[u]
  BY DEF Grown
<1>4. todo'[t] = Tail(todo[t]) /\ \A u \in Thread : u # t => todo'[u] = todo[u]
  BY DEF DaemonInv, WorkInv
<1> HIDE DEF n
<1>5. Made(trace[t], n, cur[t]) /\ AllOk(trace[t], n) BY <1>2 DEF InHandler, n
<1>7. Made(trace'[t], n + 1, cur[t]) BY <1>2, <1>3, <1>5 DEF Made
<1>8. AllOk(trace'[t], n + 1) BY <1>2, <1>3, <1>5 DEF AllOk
<1>9. Known(cur'[t]) /\ ok'[t] = TRUE /\ cur'[t] = cur[t] BY <1>2 DEF InHandler
<1>10. InHandler(t)'
  <2>1. Len(trace'[t]) + Len(todo'[t]) = Len(Program(cur'[t])) BY <1>2, <1>3, <1>4, <1>9
  <2>2. \A i \in 1 .. Len(todo'[t]) : todo'[t][i] = Program(cur'[t])[Len(trace'[t]) + i]
    BY <1>2, <1>3, <1>4, <1>9
  <2>3. todo'[t] \in Seq(Words) BY <1>2, <1>4
  <2>4. Made(trace'[t], Len(trace'[t]), cur'[t]) /\ AllOk(trace'[t], Len(trace'[t]))
    BY <1>3, <1>7, <1>8, <1>9
  <2>. QED BY <1>9, <2>1, <2>2, <2>3, <2>4 DEF InHandler
<1>11. WorkOf(t)' BY <1>1, <1>9, <1>10 DEF WorkOf, DaemonInv, WorkInv, Busy
<1>12. Only(t) BY <1>1, <1>3, Going DEF Only, DaemonInv, WorkInv
<1>. QED BY <1>11, <1>12, OnlyOne DEF DaemonInv

\* A call that failed: the handler returns.
LEMMA StepFailed ==
  ASSUME DaemonInv, NEW t \in Thread, todo[t] # <<>>, Goto(t, "handler", "status"),
         todo' = [todo EXCEPT ![t] = <<>>], ok' = [ok EXCEPT ![t] = FALSE], UNCHANGED cur,
         Head(todo[t]) # "toPc", Grown(t, Head(todo[t]), FALSE)
  PROVE  WorkInv'
<1> DEFINE n == Len(trace[t])
           h == Head(todo[t])
<1>1. at[t] = "handler" /\ at'[t] = "status" BY Going
<1>2. /\ InHandler(t) /\ n \in Nat /\ n + 1 <= Len(Full(cur[t])) /\ Full(cur[t])[n + 1] = h
  BY <1>1, NextStep
<1>3. /\ Len(trace'[t]) = n + 1
      /\ \A i \in 1 .. n : trace'[t][i] = trace[t][i]
      /\ trace'[t][n + 1].what = h /\ trace'[t][n + 1].ok = FALSE
      /\ \A u \in Thread : u # t => trace'[u] = trace[u]
  BY DEF Grown
<1>4. ok'[t] = FALSE /\ cur'[t] = cur[t] BY DEF DaemonInv, WorkInv
<1> HIDE DEF n, h
<1>5. Made(trace[t], n, cur[t]) /\ AllOk(trace[t], n) /\ Known(cur[t])
  BY <1>2 DEF InHandler, n
<1> DEFINE m == n + 1
<1>6. Made(trace'[t], m, cur[t]) BY <1>2, <1>3, <1>5 DEF Made
<1>7. AllOk(trace'[t], n) BY <1>2, <1>3, <1>5 DEF AllOk
<1>8. m # 0 /\ m - 1 = n /\ trace'[t][m].ok = FALSE /\ Len(trace'[t]) = m BY <1>2, <1>3
<1> HIDE DEF m
<1>9. Ended(trace'[t], m, cur[t], ok'[t]) BY <1>4, <1>5, <1>6, <1>7, <1>8 DEF Ended
<1>10. Ended(trace'[t], Len(trace'[t]), cur'[t], ok'[t]) BY <1>4, <1>8, <1>9
<1>11. cur[t] \in Request BY <1>1 DEF DaemonInv, WorkInv, WorkOf, Busy
<1>12. WorkOf(t)' BY <1>1, <1>4, <1>10, <1>11 DEF WorkOf
<1>13. Only(t) BY <1>1, <1>3, Going DEF Only, DaemonInv, WorkInv
<1>. QED BY <1>12, <1>13, OnlyOne DEF DaemonInv

LEMMA CallWorks ==
  ASSUME DaemonInv, NEW t \in Thread, DeviceCall(t)
  PROVE  WorkInv'
<1> DEFINE h == Head(todo[t])
<1>1. todo[t] # <<>> /\ h # "toPc" /\ UNCHANGED cur BY DEF DeviceCall
<1>2. Did(t, h, "board", ok'[t]) BY DEF DeviceCall
<1>3. Grown(t, h, ok'[t]) BY <1>2, DidAppends DEF DaemonInv, IInv
<1>4. CASE /\ Goto(t, "handler", "handler")
           /\ todo' = [todo EXCEPT ![t] = Tail(@)] /\ UNCHANGED ok
  <2>1. ok'[t] = TRUE BY <1>4 DEF Goto, DaemonInv, WorkInv, WorkOf, InHandler
  <2>2. Grown(t, h, TRUE) BY <1>3, <2>1 DEF Grown
  <2>. QED BY <1>1, <1>4, <2>2, StepDone
<1>5. CASE /\ Goto(t, "handler", "status")
           /\ todo' = [todo EXCEPT ![t] = <<>>] /\ ok' = [ok EXCEPT ![t] = FALSE]
  <2>1. ok'[t] = FALSE BY <1>5 DEF DaemonInv, WorkInv
  <2>2. Grown(t, h, FALSE) BY <1>3, <2>1 DEF Grown
  <2>. QED BY <1>1, <1>5, <2>2, StepFailed
<1>. QED BY <1>4, <1>5 DEF DeviceCall

LEMMA OutputWorks ==
  ASSUME DaemonInv, NEW t \in Thread, SendOutput(t)
  PROVE  WorkInv'
<1>1. /\ todo[t] # <<>> /\ Head(todo[t]) = "toPc" /\ UNCHANGED <<cur, ok>>
      /\ Goto(t, "handler", "handler") /\ todo' = [todo EXCEPT ![t] = Tail(@)]
      /\ Did(t, "output", Dest(t), TRUE)
  BY DEF SendOutput
<1>2. Grown(t, "output", TRUE) BY <1>1, DidAppends, Zenon DEF DaemonInv, IInv
<1>. QED BY <1>1, <1>2, StepDone

LEMMA ReturnWorks ==
  ASSUME DaemonInv, NEW t \in Thread, HandlerReturns(t)
  PROVE  WorkInv'
<1>1. /\ at[t] = "handler" /\ at'[t] = "status" /\ todo[t] = <<>>
      /\ UNCHANGED <<cur, todo, ok, trace>>
  BY Going DEF HandlerReturns
<1>2. InHandler(t) /\ cur[t] \in Request BY <1>1 DEF DaemonInv, WorkInv, WorkOf, Busy
<1>3. Len(todo[t]) = 0 /\ Len(trace[t]) \in Nat BY <1>1 DEF DaemonInv, IInv, Shape
<1>4. Len(trace[t]) = Len(Full(cur[t])) BY <1>2, <1>3, Programs DEF InHandler
<1>5. Ended(trace[t], Len(trace[t]), cur[t], ok[t]) BY <1>2, <1>4 DEF Ended, InHandler
<1>6. WorkOf(t)' BY <1>1, <1>2, <1>5 DEF WorkOf
<1>7. Only(t) BY <1>1, Going DEF Only, DaemonInv, WorkInv, HandlerReturns
<1>. QED BY <1>6, <1>7, OnlyOne DEF DaemonInv

LEMMA StatusWorks ==
  ASSUME DaemonInv, NEW t \in Thread, SendStatus(t)
  PROVE  WorkInv'
<1> DEFINE n == Len(trace[t])
<1>1. /\ at[t] = "status" /\ at'[t] = "recv" /\ UNCHANGED <<cur, todo, ok>>
  BY Going DEF SendStatus
<1>2. Ended(trace[t], n, cur[t], ok[t]) BY <1>1 DEF DaemonInv, WorkInv, WorkOf
<1>3. ok[t] \in BOOLEAN BY <1>2 DEF Ended
<1>4. Did(t, IF ok[t] THEN "SUCCESS" ELSE "FAIL", Dest(t), TRUE) BY DEF SendStatus
<1>5. (IF ok[t] THEN "SUCCESS" ELSE "FAIL") = Status(ok[t]) BY <1>3, Zenon DEF Status
<1>6. Did(t, Status(ok[t]), Dest(t), TRUE) BY <1>4, <1>5, Zenon
<1>7. Grown(t, Status(ok[t]), TRUE) BY <1>6, DidAppends, Zenon DEF DaemonInv, IInv
<1>8. /\ n \in Nat /\ Len(trace'[t]) = n + 1
      /\ \A i \in 1 .. n : trace'[t][i] = trace[t][i]
      /\ trace'[t][n + 1].what = Status(ok[t])
      /\ \A u \in Thread : u # t => trace'[u] = trace[u]
  BY <1>7 DEF Grown
<1> HIDE DEF n
<1>9. Ended(trace'[t], n, cur[t], ok[t]) BY <1>2, <1>8, SameStart
<1>10. n + 1 # 0 /\ n + 1 - 1 = n BY <1>8
<1>11. Answered(t, ok[t])'
  <2>1. cur'[t] = cur[t] /\ ok'[t] = ok[t] BY <1>1
  <2>. QED BY <1>8, <1>9, <1>10, <2>1 DEF Answered
<1>12. ok'[t] \in BOOLEAN BY <1>1, <1>3
<1>13. \E good \in BOOLEAN : Answered(t, good)' BY <1>11, <1>12
<1>14. WorkOf(t)' BY <1>1, <1>13 DEF WorkOf, Busy
<1>15. Only(t) BY <1>1, <1>8, Going DEF Only, DaemonInv, WorkInv, SendStatus
<1>. QED BY <1>14, <1>15, OnlyOne DEF DaemonInv

LEMMA StartWorks ==
  ASSUME DaemonInv, StdInStart \/ UdpStart
  PROVE  WorkInv'
<1>1. PICK t \in Thread, then \in {"recv", "ended"} :
        Goto(t, "start", then) /\ UNCHANGED <<cur, todo, ok, trace>>
  BY DEF StdInStart, UdpStart, Thread
<1>2. t \in Thread /\ at[t] = "start" /\ at'[t] = then BY <1>1, Going
<1>3. trace'[t] = <<>> BY <1>1, <1>2 DEF DaemonInv, WorkInv, WorkOf
<1>4. WorkOf(t)' BY <1>2, <1>3 DEF WorkOf, Busy
<1>5. Only(t) BY <1>1, <1>2, Going DEF Only, DaemonInv, WorkInv
<1>. QED BY <1>2, <1>4, <1>5, OnlyOne DEF DaemonInv

LEMMA TakeWorks ==
  ASSUME DaemonInv, NEW t \in Thread, NEW r \in Request, Take(t, r)
  PROVE  WorkInv'
<1>1. CASE r.tl
  <2>1. /\ Goto(t, "recv", "exec") /\ UNCHANGED todo
        /\ cur' = [cur EXCEPT ![t] = r] /\ trace' = [trace EXCEPT ![t] = <<>>]
        /\ ok' = [ok EXCEPT ![t] = TRUE]
    BY <1>1 DEF Take
  <2>2. /\ cur'[t] = r /\ trace'[t] = <<>> /\ ok'[t] = TRUE /\ at'[t] = "exec" /\ at[t] = "recv"
    BY <2>1, Going DEF DaemonInv, IInv, Shape, WorkInv
  <2>3. WorkOf(t)' BY <2>2 DEF WorkOf, Busy
  <2>4. Only(t) BY <2>1, <2>2, Going DEF Only, DaemonInv, IInv, Shape, WorkInv
  <2>. QED BY <2>3, <2>4, OnlyOne DEF DaemonInv
<1>2. CASE ~r.tl
  <2>1. Goto(t, "recv", "recv") /\ UNCHANGED <<cur, trace, ok, todo>> BY <1>2 DEF Take
  <2>2. at'[t] = at[t] /\ at[t] = "recv" BY <2>1, Going
  <2>3. WorkOf(t) BY DEF DaemonInv, WorkInv
  <2>4. WorkOf(t)' BY <2>1, <2>2, <2>3, Untouched
  <2>5. Only(t) BY <2>1, <2>2, Going DEF Only, DaemonInv, WorkInv
  <2>. QED BY <2>4, <2>5, OnlyOne DEF DaemonInv
<1>. QED BY <1>1, <1>2

\* main does not touch what the threads do; a thread it creates has done
\* nothing yet.
LEMMA MainWorks ==
  ASSUME DaemonInv, Main
  PROVE  WorkInv'
<1>1. UNCHANGED <<cur, todo, ok, trace>>
  BY DEF Main, Boot, AtCmdInit, Exiting, ChnStdInInit, ChnUdpInit, CreateThread, threads
<1>2. CASE UNCHANGED at
  <2>1. \A t \in Thread : WorkOf(t)' BY <1>1, <1>2, Untouched DEF DaemonInv, WorkInv
  <2>2. NotCreated'
    <3>1. CASE main \in {"boot", "AtCmdInit"}
      BY <1>2, <3>1 DEF NotCreated, DaemonInv, RegistryInv, NoThreads, Thread
    <3>2. CASE main \notin {"boot", "AtCmdInit"}
      <4>1. \/ main' = main
            \/ main' \in {"exit", "gone", "sleep"}
            \/ main = "ChnStdInInit" /\ main' = "ChnUdpInit"
        BY <3>2 DEF Main, Boot, AtCmdInit, Exiting, ChnStdInInit, ChnUdpInit, CreateThread
      <4>. QED BY <1>2, <4>1 DEF NotCreated, DaemonInv, WorkInv
    <3>. QED BY <3>1, <3>2
  <2>. QED BY <1>1, <2>1, <2>2 DEF DaemonInv, WorkInv
<1>3. ASSUME NEW t \in Thread, NEW from, NEW then, CreateThread(from, t, then),
             at' = [at EXCEPT ![t] = "start"], main' = then, at[t] = "none", NotCreated'
      PROVE  WorkInv'
  <2>1. at'[t] = "start" /\ \A u \in Thread : u # t => at'[u] = at[u]
    BY <1>3 DEF DaemonInv, IInv, Shape
  <2>2. trace'[t] = <<>> BY <1>1, <1>3 DEF DaemonInv, WorkInv, WorkOf
  <2>3. WorkOf(t)' BY <2>1, <2>2 DEF WorkOf, Busy
  <2>4. \A u \in Thread : WorkOf(u)' BY <1>1, <2>1, <2>3, Untouched DEF DaemonInv, WorkInv
  <2>. QED BY <1>1, <1>3, <2>4 DEF DaemonInv, WorkInv
<1>4. CASE ChnStdInInit /\ at' = [at EXCEPT !["stdin"] = "start"] /\ main' = "ChnUdpInit"
  <2>1. main = "ChnStdInInit" /\ "stdin" \in Thread BY <1>4 DEF ChnStdInInit, CreateThread, Thread
  <2>2. at["stdin"] = "none" /\ NotCreated'
    BY <1>4, <2>1 DEF NotCreated, DaemonInv, IInv, Shape, WorkInv, Thread
  <2>. QED BY <1>3, <1>4, <2>1, <2>2 DEF ChnStdInInit
<1>5. CASE ChnUdpInit /\ at' = [at EXCEPT !["udp"] = "start"] /\ main' = "sleep"
  <2>1. main = "ChnUdpInit" /\ "udp" \in Thread BY <1>5 DEF ChnUdpInit, CreateThread, Thread
  <2>2. at["udp"] = "none" /\ NotCreated' BY <1>5, <2>1 DEF NotCreated, DaemonInv, WorkInv
  <2>. QED BY <1>3, <1>5, <2>1, <2>2 DEF ChnUdpInit
<1>. QED BY <1>2, <1>4, <1>5
       DEF Main, Boot, AtCmdInit, Exiting, ChnStdInInit, ChnUdpInit, CreateThread, threads

LEMMA WorkInitially == Init => WorkInv
<1> SUFFICES ASSUME Init PROVE WorkInv OBVIOUS
<1>1. \A t \in Thread : at[t] = "none" /\ trace[t] = <<>> BY DEF Init
<1>. QED BY <1>1 DEF Init, WorkInv, WorkOf, Busy, NotCreated

LEMMA WorkInductive == DaemonInv /\ [Next]_vars => WorkInv'
<1> SUFFICES ASSUME DaemonInv, [Next]_vars PROVE WorkInv' OBVIOUS
<1>1. CASE UNCHANGED vars
  <2>1. UNCHANGED <<main, at, cur, todo, ok, trace>> BY <1>1 DEF vars, threads
  <2>2. \A t \in Thread : WorkOf(t)' BY <2>1, Untouched DEF DaemonInv, WorkInv
  <2>. QED BY <2>1, <2>2 DEF DaemonInv, WorkInv, NotCreated
<1>2. CASE Main BY <1>2, MainWorks
<1>3. CASE StdInStart \/ UdpStart BY <1>3, StartWorks
<1>4. ASSUME NEW r \in ConsoleRequest, StdInRecv(r) PROVE WorkInv'
  BY <1>4, TakeWorks DEF ConsoleRequest, StdInRecv, Thread
<1>5. ASSUME NEW r \in UdpRequest, UdpRecv(r) PROVE WorkInv'
  BY <1>5, TakeWorks DEF UdpRequest, UdpRecv, Thread
<1>6. ASSUME NEW t \in Thread, Execute(t) PROVE WorkInv'
  BY <1>6, ExecWorks, CallWorks, OutputWorks, ReturnWorks, StatusWorks DEF Execute
<1>. QED BY <1>1, <1>2, <1>3, <1>4, <1>5, <1>6 DEF Next, Rest

LEMMA DaemonInvariance == Spec => []DaemonInv
<1>1. Init => DaemonInv BY Initially, RegistryInitially, WorkInitially DEF DaemonInv
<1>2. DaemonInv /\ [Next]_vars => DaemonInv'
  BY Inductive, RegistryInductive, WorkInductive DEF DaemonInv
<1>. QED BY <1>1, <1>2, PTL DEF Spec

\* An answered request, in the words of StatusIsEarned.
LEMMA AnsweredEarned ==
  ASSUME Shape, NEW t \in Thread, NEW good \in BOOLEAN, Answered(t, good)
  PROVE  LET whats == [i \in DOMAIN trace[t] |-> trace[t][i].what]
             made == Front(whats)
             full == Full(cur[t])
             Failed == {i \in DOMAIN made : ~trace[t][i].ok}
         IN  \/ Last(whats) = "SUCCESS" /\ Known(cur[t]) /\ made = full /\ Failed = {}
             \/ Last(whats) = "FAIL" /\ ~Known(cur[t]) /\ made = <<>>
             \/ /\ Last(whats) = "FAIL" /\ Known(cur[t])
                /\ IsPrefix(made, full) /\ Failed = {Len(made)}
<1> DEFINE s == trace[t]
           n == Len(s) - 1
           whats == [i \in DOMAIN s |-> s[i].what]
           made == Front(whats)
           full == Full(cur[t])
           Failed == {i \in DOMAIN made : ~s[i].ok}
           S == {s[i].what : i \in DOMAIN s} \cup Words
<1>1. n \in Nat /\ Len(s) = n + 1 /\ DOMAIN s = 1 .. n + 1 BY DEF Shape, Answered
<1>2. s[n + 1].what = Status(good) /\ Ended(s, n, cur[t], good) BY <1>1 DEF Answered
<1>3. whats \in Seq(S) /\ Len(whats) = n + 1 /\ \A i \in 1 .. n + 1 : whats[i] = s[i].what
  <2>1. whats \in [1 .. n + 1 -> S] BY <1>1
  <2>2. n + 1 \in Nat BY <1>1
  <2>3. \A i \in 1 .. n + 1 : whats[i] = s[i].what BY <1>1
  <2> HIDE DEF n, S, s, whats
  <2>4. whats \in Seq(S) BY <2>1, <2>2
  <2>5. DOMAIN whats = 1 .. n + 1 BY <2>1
  <2>. QED BY <2>2, <2>3, <2>4, <2>5, LenProperties
<1>4. Last(whats) = Status(good) BY <1>1, <1>2, <1>3 DEF Last
<1> HIDE DEF n, S, s, whats
<1>5. made \in Seq(S) /\ Len(made) = n /\ DOMAIN made = 1 .. n /\ \A i \in 1 .. n : made[i] = s[i].what
  <2>1. Len(whats) - 1 = n BY <1>1, <1>3
  <2>2. \A i \in 1 .. n : whats[i] \in S BY <1>1, <1>3, ElementOfSeq
  <2>3. made = SubSeq(whats, 1, n) BY <1>3, <2>1 DEF Front
  <2>4. /\ SubSeq(whats, 1, n) \in Seq(S) /\ Len(SubSeq(whats, 1, n)) = n
        /\ \A i \in 1 .. n : SubSeq(whats, 1, n)[i] = whats[i]
    BY <1>1, <2>2, SubSeqProperties
  <2>. QED BY <1>1, <1>3, <2>3, <2>4, LenProperties
<1>6. full \in Seq(S)
  <2>1. Words \subseteq S BY DEF S
  <2>. QED BY <2>1, Programs, SeqMonotonic
<1> HIDE DEF made, full
<1>7. CASE /\ good = TRUE /\ Known(cur[t]) /\ n = Len(full)
           /\ Made(s, n, cur[t]) /\ AllOk(s, n)
  <2>1. made = full BY <1>5, <1>6, <1>7, SeqEqual DEF Made, full
  <2>2. Failed = {} BY <1>5, <1>7 DEF AllOk
  <2>3. Last(whats) = "SUCCESS" BY <1>4, <1>7 DEF Status
  <2>. QED BY <1>7, <2>1, <2>2, <2>3 DEF s, whats, made, full
<1>8. CASE good = FALSE /\ ~Known(cur[t]) /\ n = 0
  <2>1. made = <<>> BY <1>5, <1>8
  <2>2. Last(whats) = "FAIL" BY <1>4, <1>8 DEF Status
  <2>. QED BY <1>8, <2>1, <2>2 DEF s, whats, made, full
<1>9. CASE /\ good = FALSE /\ Known(cur[t]) /\ n # 0
           /\ Made(s, n, cur[t]) /\ AllOk(s, n - 1) /\ s[n].ok = FALSE
  <2>1. n <= Len(full) /\ \A i \in 1 .. n : made[i] = full[i] BY <1>5, <1>9 DEF Made, full
  <2>2. SubSeq(made, 1, n) = SubSeq(full, 1, n)
    <3>1. \A i \in 1 .. n : made[i] \in S /\ full[i] \in S
      BY <1>1, <1>5, <1>6, <2>1, ElementOfSeq, LenProperties
    <3>2. /\ SubSeq(made, 1, n) \in Seq(S) /\ Len(SubSeq(made, 1, n)) = n
          /\ \A i \in 1 .. n : SubSeq(made, 1, n)[i] = made[i]
      BY <1>1, <3>1, SubSeqProperties
    <3>3. /\ SubSeq(full, 1, n) \in Seq(S) /\ Len(SubSeq(full, 1, n)) = n
          /\ \A i \in 1 .. n : SubSeq(full, 1, n)[i] = full[i]
      BY <1>1, <3>1, SubSeqProperties
    <3>. QED BY <2>1, <3>2, <3>3, SeqEqual
  <2>3. IsPrefix(made, full) BY <1>5, <2>1, <2>2 DEF IsPrefix
  <2>4. Failed = {n}
    <3>1. n \in 1 .. n /\ \A i \in 1 .. n : i # n => i \in 1 .. n - 1 BY <1>1, <1>9
    <3>2. \A i \in 1 .. n : s[i].ok = TRUE \/ i = n BY <1>9, <3>1 DEF AllOk
    <3>. QED BY <1>5, <1>9, <3>1, <3>2
  <2>5. Last(whats) = "FAIL" BY <1>4, <1>9 DEF Status
  <2>. QED BY <1>5, <1>9, <2>3, <2>4, <2>5 DEF s, whats, made, full
<1>. QED BY <1>2, <1>7, <1>8, <1>9 DEF Ended, full

\* ats_chn.c and AtCmdExec: one status for each request, last; SUCCESS for a
\* known command whose handler did all it does, FAIL for an unknown one and
\* after a call that failed.  For any requests, board and order of events.
THEOREM EveryStatusIsEarned == Spec => []StatusIsEarned
<1>1. DaemonInv => StatusIsEarned
  <2> SUFFICES ASSUME DaemonInv, NEW t \in Thread, at[t] = "recv" /\ trace[t] # <<>>
               PROVE  LET whats == [i \in DOMAIN trace[t] |-> trace[t][i].what]
                          made == Front(whats)
                          full == Full(cur[t])
                          Failed == {i \in DOMAIN made : ~trace[t][i].ok}
                      IN  \/ Last(whats) = "SUCCESS" /\ Known(cur[t]) /\ made = full /\ Failed = {}
                          \/ Last(whats) = "FAIL" /\ ~Known(cur[t]) /\ made = <<>>
                          \/ /\ Last(whats) = "FAIL" /\ Known(cur[t])
                             /\ IsPrefix(made, full) /\ Failed = {Len(made)}
    BY DEF StatusIsEarned, Full
  <2>1. PICK good \in BOOLEAN : Answered(t, good) BY DEF DaemonInv, WorkInv, WorkOf
  <2>. QED BY <2>1, AnsweredEarned DEF DaemonInv, IInv
<1>. QED BY <1>1, DaemonInvariance, PTL

-----------------------------------------------------------------------------
(* The daemon implements AtsService                                        *)

Serving(t) == IF Busy(t) THEN cur[t] ELSE NULL

LastAnswer(t) ==
  IF Busy(t) \/ trace[t] = <<>> THEN NULL
  ELSE [to |-> Last(trace[t]).to, status |-> Last(trace[t]).what]

\* A thread whose place, request and trace stay the same looks the same.
LEMMA LooksTheSame ==
  ASSUME NEW u \in Thread, at'[u] = at[u], cur'[u] = cur[u], trace'[u] = trace[u]
  PROVE  Serving(u)' = Serving(u) /\ LastAnswer(u)' = LastAnswer(u)
<1>1. Busy(u)' <=> Busy(u) BY DEF Busy
<1>. QED BY <1>1 DEF Serving, LastAnswer

LEMMA Stutters ==
  ASSUME \A u \in Thread : Serving(u)' = Serving(u) /\ LastAnswer(u)' = LastAnswer(u)
  PROVE  UNCHANGED Abstract!vars
  BY DEF Abstract!vars, Serving, LastAnswer

\* What a thread does between taking a command and answering it cannot be seen.
LEMMA BusyStutters ==
  ASSUME NEW t \in Thread, Busy(t), Busy(t)', Only(t), cur' = cur
  PROVE  UNCHANGED Abstract!vars
<1>1. Serving(t)' = Serving(t) /\ LastAnswer(t)' = LastAnswer(t) BY DEF Serving, LastAnswer
<1>2. \A u \in Thread : u # t => Serving(u)' = Serving(u) /\ LastAnswer(u)' = LastAnswer(u)
  BY LooksTheSame DEF Only
<1>. QED BY <1>1, <1>2, Stutters

LEMMA ExecuteStutters ==
  ASSUME DaemonInv, NEW t \in Thread,
         AtCmdExec(t) \/ DeviceCall(t) \/ SendOutput(t) \/ HandlerReturns(t)
  PROVE  UNCHANGED Abstract!vars
<1>1. PICK from \in {"exec", "handler"}, then \in {"handler", "status"} : Goto(t, from, then)
  BY DEF AtCmdExec, DeviceCall, SendOutput, HandlerReturns
<1>2. Busy(t) /\ Busy(t)' BY <1>1, Going DEF Busy
<1>3. cur' = cur BY DEF AtCmdExec, DeviceCall, SendOutput, HandlerReturns
<1>4. \A u \in Thread : u # t => trace'[u] = trace[u]
  BY DEF AtCmdExec, DeviceCall, SendOutput, HandlerReturns, Did, DaemonInv, IInv, Shape
<1>5. \A u \in Thread : u # t => at'[u] = at[u] BY <1>1, Going
<1>6. Serving(t)' = Serving(t) /\ LastAnswer(t)' = LastAnswer(t)
  BY <1>2, <1>3 DEF Serving, LastAnswer
<1>7. \A u \in Thread : u # t => Serving(u)' = Serving(u) /\ LastAnswer(u)' = LastAnswer(u)
  BY <1>3, <1>4, <1>5, LooksTheSame
<1>. QED BY <1>6, <1>7, Stutters

\* The status of a command is the answer to it.
LEMMA StatusAnswers ==
  ASSUME DaemonInv, NEW t \in Thread, SendStatus(t)
  PROVE  Abstract!Next
<1> DEFINE status == Status(ok[t])
<1>1. at[t] = "status" /\ at'[t] = "recv" /\ UNCHANGED cur
      /\ \A u \in Thread : u # t => at'[u] = at[u]
  BY Going DEF SendStatus
<1>2. cur[t] \in Request /\ Ended(trace[t], Len(trace[t]), cur[t], ok[t])
  BY <1>1 DEF DaemonInv, WorkInv, WorkOf, Busy
<1>3. ok[t] \in BOOLEAN BY <1>2 DEF Ended
<1>4. (IF ok[t] THEN "SUCCESS" ELSE "FAIL") = status BY <1>3, Zenon DEF Status
<1> HIDE DEF status
<1>5. Did(t, status, Dest(t), TRUE) BY <1>4, Zenon DEF SendStatus
<1>6. trace' = [trace EXCEPT ![t] = Append(@, [what |-> status, to |-> Dest(t), ok |-> TRUE])]
  BY <1>5 DEF Did
<1>7. /\ Len(trace'[t]) = Len(trace[t]) + 1 /\ Len(trace[t]) \in Nat
      /\ Last(trace'[t]) = [what |-> status, to |-> Dest(t), ok |-> TRUE]
      /\ \A u \in Thread : u # t => trace'[u] = trace[u]
  <2> DEFINE e == [what |-> status, to |-> Dest(t), ok |-> TRUE]
  <2>1. trace' = [trace EXCEPT ![t] = Append(trace[t], e)] BY <1>6
  <2>2. Len(trace[t]) \in Nat /\ DOMAIN trace[t] = 1 .. Len(trace[t]) /\ DOMAIN trace = Thread
    BY DEF DaemonInv, IInv, Shape
  <2> HIDE DEF e
  <2>3. trace'[t] = Append(trace[t], e) /\ \A u \in Thread : u # t => trace'[u] = trace[u]
    BY <2>1, <2>2
  <2>4. /\ Len(Append(trace[t], e)) = Len(trace[t]) + 1
        /\ Append(trace[t], e)[Len(trace[t]) + 1] = e
    BY <2>2
  <2>. QED BY <2>2, <2>3, <2>4 DEF Last, e
<1>8. Dest(t) = cur[t].from BY <1>1 DEF DaemonInv, IInv, Addressed, Busy
<1>9. trace'[t] # <<>> BY <1>7
<1>10. Serving(t) = cur[t] /\ cur[t] # NULL BY <1>1, <1>2, NullAssumption DEF Serving, Busy
<1>11. Serving(t)' = NULL BY <1>1 DEF Serving, Busy
<1>12. LastAnswer(t)' = [to |-> cur[t].from, status |-> status]
  <2>1. ~Busy(t)' BY <1>1 DEF Busy
  <2>2. LastAnswer(t)' = [to |-> Last(trace'[t]).to, status |-> Last(trace'[t]).what]
    BY <1>9, <2>1 DEF LastAnswer
  <2>. QED BY <1>7, <1>8, <2>2
<1>13. \A u \in Thread : u # t => Serving(u)' = Serving(u) /\ LastAnswer(u)' = LastAnswer(u)
  BY <1>1, <1>7, LooksTheSame
<1>14. status \in {"SUCCESS", "FAIL"} /\ (status = "SUCCESS" => Known(cur[t]))
  BY <1>2 DEF status, Status, Ended
<1>15. PICK x \in {"SUCCESS", "FAIL"} : x = status BY <1>14
<1>16. [u \in Thread |-> Serving(u)]' = [[u \in Thread |-> Serving(u)] EXCEPT ![t] = NULL]
  BY <1>11, <1>13
<1>17. [u \in Thread |-> LastAnswer(u)]' =
         [[u \in Thread |-> LastAnswer(u)] EXCEPT ![t] = [to |-> cur[t].from, status |-> x]]
  BY <1>12, <1>13, <1>15
<1>18. Abstract!Answer(t, x)
  BY <1>10, <1>14, <1>15, <1>16, <1>17 DEF Abstract!Answer, Serving, LastAnswer
<1>. QED BY <1>18 DEF Abstract!Next

\* A request taken is a command taken; other text makes no difference.
LEMMA TakeTakes ==
  ASSUME DaemonInv, NEW t \in Thread, NEW r \in Request, Take(t, r)
  PROVE  Abstract!Next \/ UNCHANGED Abstract!vars
<1>1. CASE r.tl
  <2>1. /\ Goto(t, "recv", "exec")
        /\ cur' = [cur EXCEPT ![t] = r] /\ trace' = [trace EXCEPT ![t] = <<>>]
    BY <1>1 DEF Take
  <2>2. /\ cur'[t] = r /\ trace'[t] = <<>> /\ at'[t] = "exec" /\ at[t] = "recv"
        /\ \A u \in Thread : u # t =>
             at'[u] = at[u] /\ cur'[u] = cur[u] /\ trace'[u] = trace[u]
    BY <2>1, Going DEF DaemonInv, IInv, Shape
  <2>3. Serving(t) = NULL /\ Serving(t)' = r /\ LastAnswer(t)' = NULL
    BY <2>2 DEF Serving, LastAnswer, Busy
  <2>4. \A u \in Thread : u # t => Serving(u)' = Serving(u) /\ LastAnswer(u)' = LastAnswer(u)
    BY <2>2, LooksTheSame
  <2>5. [u \in Thread |-> Serving(u)]' = [[u \in Thread |-> Serving(u)] EXCEPT ![t] = r]
    BY <2>3, <2>4
  <2>6. [u \in Thread |-> LastAnswer(u)]' = [[u \in Thread |-> LastAnswer(u)] EXCEPT ![t] = NULL]
    BY <2>3, <2>4
  <2>7. Abstract!Take(t, r) BY <2>3, <2>5, <2>6 DEF Abstract!Take, Serving, LastAnswer
  <2>. QED BY <2>7 DEF Abstract!Next
<1>2. CASE ~r.tl
  <2>1. Goto(t, "recv", "recv") /\ UNCHANGED <<cur, trace>> BY <1>2 DEF Take
  <2>2. \A u \in Thread : at'[u] = at[u] /\ cur'[u] = cur[u] /\ trace'[u] = trace[u]
    BY <2>1, Going
  <2>. QED BY <2>2, LooksTheSame, Stutters
<1>. QED BY <1>1, <1>2

\* A thread that is created or starts takes nothing yet.
LEMMA IdleStutters ==
  ASSUME DaemonInv, UNCHANGED <<cur, trace>>,
         \A u \in Thread : at'[u] = at[u] \/ (~Busy(u) /\ ~Busy(u)')
  PROVE  UNCHANGED Abstract!vars
<1>1. \A u \in Thread : Busy(u)' <=> Busy(u) BY DEF Busy
<1>2. \A u \in Thread : Serving(u)' = Serving(u) /\ LastAnswer(u)' = LastAnswer(u)
  BY <1>1 DEF Serving, LastAnswer
<1>. QED BY <1>2, Stutters

LEMMA MainStutters ==
  ASSUME DaemonInv, Main
  PROVE  UNCHANGED Abstract!vars
<1>1. UNCHANGED <<cur, trace>>
  BY DEF Main, Boot, AtCmdInit, Exiting, ChnStdInInit, ChnUdpInit, CreateThread, threads
<1>2. \/ UNCHANGED at
      \/ main = "ChnStdInInit" /\ at' = [at EXCEPT !["stdin"] = "start"]
      \/ main = "ChnUdpInit" /\ at' = [at EXCEPT !["udp"] = "start"]
  BY DEF Main, Boot, AtCmdInit, Exiting, ChnStdInInit, ChnUdpInit, CreateThread, threads
<1>3. CASE UNCHANGED at BY <1>1, <1>3, IdleStutters
<1>4. CASE main = "ChnStdInInit" /\ at' = [at EXCEPT !["stdin"] = "start"]
  <2>1. at["stdin"] = "none" BY <1>4 DEF DaemonInv, WorkInv, NotCreated
  <2>2. at'["stdin"] = "start" /\ at'["udp"] = at["udp"]
    BY <1>4 DEF DaemonInv, IInv, Shape, Thread
  <2>. QED BY <1>1, <2>1, <2>2, IdleStutters DEF Thread, Busy
<1>5. CASE main = "ChnUdpInit" /\ at' = [at EXCEPT !["udp"] = "start"]
  <2>1. at["udp"] = "none" BY <1>5 DEF DaemonInv, WorkInv, NotCreated
  <2>2. at'["udp"] = "start" /\ at'["stdin"] = at["stdin"]
    BY <1>5 DEF DaemonInv, IInv, Shape, Thread
  <2>. QED BY <1>1, <2>1, <2>2, IdleStutters DEF Thread, Busy
<1>. QED BY <1>2, <1>3, <1>4, <1>5

\* Whoever sends commands to the daemon sees the service that AtsService
\* describes: one command at a time for each channel, one answer for each, to
\* where it came from, and SUCCESS only for a command the daemon knows.
THEOREM Refinement == Spec => ImplementsAtsService
<1>1. Init => Abstract!Init
  <2> SUFFICES ASSUME Init PROVE Abstract!Init OBVIOUS
  <2>1. \A t \in Thread : ~Busy(t) /\ trace[t] = <<>> BY DEF Init, Busy
  <2>. QED BY <2>1 DEF Abstract!Init
<1>2. DaemonInv /\ [Next]_vars => [Abstract!Next]_Abstract!vars
  <2> SUFFICES ASSUME DaemonInv, [Next]_vars PROVE Abstract!Next \/ UNCHANGED Abstract!vars
    OBVIOUS
  <2>1. CASE UNCHANGED vars
    <3>1. UNCHANGED <<at, cur, trace>> BY <2>1 DEF vars, threads
    <3>. QED BY <3>1, IdleStutters
  <2>2. CASE Main BY <2>2, MainStutters
  <2>3. CASE StdInStart \/ UdpStart
    <3>1. PICK t \in Thread, then \in {"recv", "ended"} :
            Goto(t, "start", then) /\ UNCHANGED <<cur, trace>>
      BY <2>3 DEF StdInStart, UdpStart, Thread
    <3>2. \A u \in Thread : at'[u] = at[u] \/ (~Busy(u) /\ ~Busy(u)') BY <3>1, Going DEF Busy
    <3>. QED BY <3>1, <3>2, IdleStutters
  <2>4. ASSUME NEW r \in ConsoleRequest, StdInRecv(r)
        PROVE  Abstract!Next \/ UNCHANGED Abstract!vars
    BY <2>4, TakeTakes DEF ConsoleRequest, StdInRecv, Thread
  <2>5. ASSUME NEW r \in UdpRequest, UdpRecv(r)
        PROVE  Abstract!Next \/ UNCHANGED Abstract!vars
    BY <2>5, TakeTakes DEF UdpRequest, UdpRecv, Thread
  <2>6. ASSUME NEW t \in Thread, Execute(t) PROVE Abstract!Next \/ UNCHANGED Abstract!vars
    BY <2>6, ExecuteStutters, StatusAnswers DEF Execute
  <2>. QED BY <2>1, <2>2, <2>3, <2>4, <2>5, <2>6 DEF Next, Rest
<1>. QED BY <1>1, <1>2, DaemonInvariance, PTL DEF Spec, ImplementsAtsService, Abstract!Spec
=============================================================================
