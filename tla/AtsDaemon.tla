----------------------------- MODULE AtsDaemon ------------------------------
(***************************************************************************)
(* The test daemon of ats/: main boots the command registry and then       *)
(* starts one thread that reads commands from the console and one that     *)
(* reads them from a UDP socket.  Both execute commands, on their own and  *)
(* without a lock: they share the list of commands and the board.          *)
(*                                                                         *)
(* The registry is the module AtsRegistry, with the real command tables.   *)
(* A datagram may be lost, duplicated, delayed or overtaken: the UDP       *)
(* thread receives any request at any time.  Lines and datagrams are       *)
(* already split into a name and parameters: see AtsParse.                 *)
(***************************************************************************)
EXTENDS Integers, Sequences, SequencesExt, AtsCommands

CONSTANTS
  Client,    \* the peers that send datagrams
  Request,   \* [from, tl, name, argc, valid]: see the assumption below
  NULL

\* tl: the text starts with "TL_"; name: the command name; argc: how many
\* parameters follow; valid: whether the handler accepts their values.
ASSUME RequestAssumption ==
  Request \subseteq [from: Client \cup {"console"}, tl: BOOLEAN, name: STRING,
                     argc: Nat, valid: BOOLEAN]

MAX_PARAM_CNT == 32

Thread == {"stdin", "udp"}
ConsoleRequest == {r \in Request : r.from = "console"}
UdpRequest     == {r \in Request : r.from # "console"}

VARIABLES
  pc, moduleList, cmdList, mi, ci, ret,   \* the registry
  main,      \* where main is once the registry is initialised
  at,        \* thread -> where it is
  cur,       \* thread -> the request it executes, or executed last
  todo,      \* thread -> the calls its handler has still to make
  ok,        \* thread -> no call of the handler has failed
  trace,     \* thread -> what it did for that request: calls, with their
             \* outcome, and messages
  srvAddr,   \* g_srvAddr: where the last datagram came from
  stuck      \* the thread that may hang inside a call; it stays the same

registry == <<pc, moduleList, cmdList, mi, ci, ret>>
threads  == <<at, cur, todo, ok, trace, srvAddr, stuck>>
vars     == <<registry, main, threads>>

Table == [hw |-> HwTestCmds, board |-> MainBoardCmds, rf |-> RfCmds]
AllCmds == ToSet(HwTestCmds) \cup ToSet(MainBoardCmds) \cup ToSet(RfCmds)

\* A null pointer is neither a request nor the name or the handler of a command.
ASSUME NullAssumption ==
  /\ NULL \notin Request
  /\ NULL \notin {c.str : c \in AllCmds} \cup {c.cb : c \in AllCmds}

R == INSTANCE AtsRegistry WITH
       Module <- DOMAIN Table, Cmds <- Table, ApiCmd <- {},
       Name <- {c.str : c \in AllCmds}, Callback <- {c.cb : c \in AllCmds}

Init ==
  /\ R!Init
  /\ main = "boot"
  /\ at = [t \in Thread |-> "none"]
  /\ cur = [t \in Thread |-> NULL]
  /\ todo = [t \in Thread |-> <<>>]
  /\ ok = [t \in Thread |-> TRUE]
  /\ trace = [t \in Thread |-> <<>>]
  /\ srvAddr = NULL
  /\ stuck \in Thread

-----------------------------------------------------------------------------
(* main *)

\* The constructors run, then main calls AtCmdInit.
Boot ==
  /\ main = "boot"
  /\ \/ (\E m \in DOMAIN Table : R!CmdsInit(m)) /\ UNCHANGED main
     \/ R!MainStarts /\ UNCHANGED main
     \/ R!EnterLoop("init") /\ main' = "AtCmdInit"
  /\ UNCHANGED threads

\* Mutant: main does not wait for AtCmdInit to return.
AtCmdInitInBackground ==
  /\ main = "AtCmdInit"
  /\ R!Loop
  /\ main' = "ChnStdInInit"
  /\ UNCHANGED threads

AtCmdInit ==
  /\ main = "AtCmdInit"
  /\ R!Loop
  /\ main' = IF pc' = "idle" THEN "ChnStdInInit" ELSE main
  /\ UNCHANGED threads

\* pthread_create starts the thread, or fails and main returns: the process
\* exits.
CreateThread(from, t, then) ==
  /\ main = from
  /\ \/ at' = [at EXCEPT ![t] = "start"] /\ main' = then /\ UNCHANGED registry
     \/ main' = "exit" /\ R!Exit /\ UNCHANGED at
  /\ UNCHANGED <<cur, todo, ok, trace, srvAddr, stuck>>

ChnStdInInit == CreateThread("ChnStdInInit", "stdin", "ChnUdpInit")
ChnUdpInit   == CreateThread("ChnUdpInit", "udp", "sleep")

\* The process exits: the destructors run while the console thread, if there
\* is one, still works; then the process and its threads are gone.
Exiting ==
  /\ main = "exit"
  /\ \/ (\E m \in DOMAIN Table : R!CmdsDeInit(m)) /\ UNCHANGED main
     \/ moduleList = <<>> /\ main' = "gone" /\ UNCHANGED registry
  /\ UNCHANGED threads

Main == Boot \/ AtCmdInit \/ ChnStdInInit \/ ChnUdpInit \/ Exiting

-----------------------------------------------------------------------------
(* Sending.  On the console this is printf; UdpSendToPc sends to whatever  *)
(* g_srvAddr holds when it is called.                                      *)

\* Mutant: handlers always send by UdpSendToPc.
DestAlwaysUdp(t) == srvAddr

Dest(t) == IF t = "udp" THEN srvAddr ELSE "console"

Did(t, what, to, good) ==
  trace' = [trace EXCEPT ![t] = Append(@, [what |-> what, to |-> to, ok |-> good])]

-----------------------------------------------------------------------------
(* The two threads *)

\* Mutant: one lock is held while a command is executed.
GotoWithLock(t, from, then) ==
  /\ main # "gone"
  /\ at[t] = from
  /\ from = "exec" => \A u \in Thread : at[u] \notin {"handler", "status"}
  /\ at' = [at EXCEPT ![t] = then]
  /\ UNCHANGED <<registry, main, stuck>>

Goto(t, from, then) ==
  /\ main # "gone"
  /\ at[t] = from
  /\ at' = [at EXCEPT ![t] = then]
  /\ UNCHANGED <<registry, main, stuck>>

StdInStart ==
  /\ Goto("stdin", "start", "recv")
  /\ UNCHANGED <<cur, todo, ok, trace, srvAddr>>

\* socket and bind succeed, or the thread ends and the process goes on.
UdpStart ==
  /\ Goto("udp", "start", "recv") \/ Goto("udp", "start", "ended")
  /\ UNCHANGED <<cur, todo, ok, trace, srvAddr>>

\* A thread takes a request; text that does not start with TL_ is ignored.
Take(t, r) ==
  /\ Goto(t, "recv", IF r.tl THEN "exec" ELSE "recv")
  /\ IF r.tl
     THEN /\ cur' = [cur EXCEPT ![t] = r]
          /\ trace' = [trace EXCEPT ![t] = <<>>]
          /\ ok' = [ok EXCEPT ![t] = TRUE]
     ELSE UNCHANGED <<cur, trace, ok>>
  /\ UNCHANGED todo

StdInRecv(r) == Take("stdin", r) /\ UNCHANGED srvAddr

\* recvfrom stores the sender in g_srvAddr before anything is looked at.
UdpRecv(r) == Take("udp", r) /\ srvAddr' = r.from

\* The checks AtCmdExec makes before it calls the handler and those the handler
\* makes before its own first call.
Runs(cb, r) ==
  /\ cb # NULL
  /\ r.argc <= MAX_PARAM_CNT
  /\ Accepts(cb, r.argc)
  /\ ChecksValue(cb) => r.valid

\* AtCmdExec up to the first call of the handler, by a scan of g_cmdList.
AtCmdExec(t) ==
  /\ at[t] = "exec"
  /\ LET cb == R!Lookup(cmdList, cur[t].name) IN
       \/ /\ Runs(cb, cur[t])
          /\ Goto(t, "exec", "handler")
          /\ todo' = [todo EXCEPT ![t] =
                        Calls(cb) \o IF Prints(cb) THEN <<"toPc">> ELSE <<>>]
          /\ UNCHANGED ok
       \/ /\ ~Runs(cb, cur[t])
          /\ Goto(t, "exec", "status")
          /\ ok' = [ok EXCEPT ![t] = FALSE]
          /\ UNCHANGED todo
  /\ UNCHANGED <<cur, trace, srvAddr>>

\* Mutant: the handler goes on after a call that failed.
DeviceCallUnchecked(t) ==
  /\ todo[t] # <<>>
  /\ Head(todo[t]) # "toPc"
  /\ Goto(t, "handler", "handler")
  /\ todo' = [todo EXCEPT ![t] = Tail(@)]
  /\ \/ UNCHANGED ok
     \/ MayFail(Head(todo[t])) /\ ok' = [ok EXCEPT ![t] = FALSE]
  /\ Did(t, Head(todo[t]), "board", ok'[t])
  /\ UNCHANGED <<cur, srvAddr>>

\* The handler makes its next call; after a failure it returns.
DeviceCall(t) ==
  /\ todo[t] # <<>>
  /\ Head(todo[t]) # "toPc"
  /\ \/ /\ Goto(t, "handler", "handler")
        /\ todo' = [todo EXCEPT ![t] = Tail(@)]
        /\ UNCHANGED ok
     \/ /\ MayFail(Head(todo[t]))
        /\ Goto(t, "handler", "status")
        /\ todo' = [todo EXCEPT ![t] = <<>>]
        /\ ok' = [ok EXCEPT ![t] = FALSE]
  /\ Did(t, Head(todo[t]), "board", ok'[t])
  /\ UNCHANGED <<cur, srvAddr>>

SendOutput(t) ==
  /\ todo[t] # <<>>
  /\ Head(todo[t]) = "toPc"
  /\ Goto(t, "handler", "handler")
  /\ todo' = [todo EXCEPT ![t] = Tail(@)]
  /\ Did(t, "output", Dest(t), TRUE)
  /\ UNCHANGED <<cur, ok, srvAddr>>

HandlerReturns(t) ==
  /\ todo[t] = <<>>
  /\ Goto(t, "handler", "status")
  /\ UNCHANGED <<cur, todo, ok, trace, srvAddr>>

\* Mutant: SUCCESS is sent whatever AtCmdExec returned.
SendStatusBlindly(t) ==
  /\ Goto(t, "status", "recv")
  /\ Did(t, "SUCCESS", Dest(t), TRUE)
  /\ UNCHANGED <<cur, todo, ok, srvAddr>>

\* The thread reports what AtCmdExec returned and goes back to receiving.
SendStatus(t) ==
  /\ Goto(t, "status", "recv")
  /\ Did(t, IF ok[t] THEN "SUCCESS" ELSE "FAIL", Dest(t), TRUE)
  /\ UNCHANGED <<cur, todo, ok, srvAddr>>

Execute(t) ==
  AtCmdExec(t) \/ DeviceCall(t) \/ SendOutput(t) \/ HandlerReturns(t) \/ SendStatus(t)

\* A process that is gone does nothing.
Rest ==
  /\ main = "gone"
  /\ UNCHANGED vars

Next ==
  \/ Main
  \/ StdInStart
  \/ UdpStart
  \/ \E r \in ConsoleRequest : StdInRecv(r)
  \/ \E r \in UdpRequest : UdpRecv(r)
  \/ \E t \in Thread : Execute(t)
  \/ Rest

\* main and the threads keep running, but a call that the handler of one
\* thread makes may never return.
Spec ==
  /\ Init /\ [][Next]_vars
  /\ WF_vars(Main)
  /\ \A t \in Thread : WF_vars(t # stuck /\ Execute(t))

-----------------------------------------------------------------------------
(* Properties *)

TypeOK ==
  /\ R!TypeOK
  /\ main \in {"boot", "AtCmdInit", "ChnStdInInit", "ChnUdpInit", "sleep", "exit", "gone"}
  /\ at \in [Thread -> {"none", "start", "recv", "exec", "handler", "status", "ended"}]
  /\ cur \in [Thread -> Request \cup {NULL}]
  /\ ok \in [Thread -> BOOLEAN]
  /\ srvAddr \in Client \cup {NULL}

\* A request the daemon should be able to carry out: some linked table has the
\* command and its handler accepts the parameters.
Known(r) ==
  \E c \in AllCmds :
    /\ c.str = r.name
    /\ r.argc <= MAX_PARAM_CNT
    /\ Accepts(c.cb, r.argc)
    /\ ChecksValue(c.cb) => r.valid

CallbackOf(r) == (CHOOSE c \in AllCmds : c.str = r.name).cb

\* A request that has been dealt with got exactly one status, last.  SUCCESS
\* means that the daemon knows the command, that its handler made all its calls
\* in order, that none failed, and that it sent its output.  A known command
\* gets FAIL only because a call failed, and then the handler made no further
\* one.  Whatever the order of the constructors and of the threads.
StatusIsEarned ==
  \A t \in Thread :
    at[t] = "recv" /\ trace[t] # <<>> =>
      LET whats == [i \in DOMAIN trace[t] |-> trace[t][i].what]
          made  == Front(whats)
          full  == Calls(CallbackOf(cur[t]))
                     \o IF Prints(CallbackOf(cur[t])) THEN <<"output">> ELSE <<>>
          Failed == {i \in DOMAIN made : ~trace[t][i].ok}
      IN  \/ Last(whats) = "SUCCESS" /\ Known(cur[t]) /\ made = full /\ Failed = {}
          \/ Last(whats) = "FAIL" /\ ~Known(cur[t]) /\ made = <<>>
          \/ /\ Last(whats) = "FAIL" /\ Known(cur[t])
             /\ IsPrefix(made, full) /\ Failed = {Len(made)}

\* Everything a thread sends while it executes a request goes to the peer the
\* request came from, although UDP replies are addressed by the global
\* g_srvAddr and both threads run the same handlers.
RepliesToRequester ==
  \A t \in Thread : \A i \in DOMAIN trace[t] :
    trace[t][i].to \in {"board", cur[t].from}

\* No thread executes a command before the registry is complete, nor does the
\* registry change under a thread that reads it.
RegistryStable ==
  [][ (\E t \in Thread : at[t] # "none") =>
        /\ cmdList' = cmdList
        /\ R!Registered = {c.str : c \in AllCmds} ]_vars

\* A command taken by one thread is answered although the handler that runs on
\* the other thread never comes back; on the console unless the process exits
\* first, over UDP even then.
OtherThreadAnswers ==
  /\ stuck = "stdin" /\ at["udp"] = "exec" ~> at["udp"] = "recv"
  /\ stuck = "udp" /\ at["stdin"] = "exec" ~> at["stdin"] = "recv" \/ main = "gone"

Busy(t) == at[t] \in {"exec", "handler", "status"}

Abstract ==
  INSTANCE AtsService WITH
    Channel <- Thread, None <- NULL, Known <- Known,
    serving <- [t \in Thread |-> IF Busy(t) THEN cur[t] ELSE NULL],
    answer  <- [t \in Thread |->
                  IF Busy(t) \/ trace[t] = <<>> THEN NULL
                  ELSE [to |-> Last(trace[t]).to, status |-> Last(trace[t]).what]]

\* Seen from its two channels the daemon is the abstract service.
ImplementsAtsService == Abstract!Spec
=============================================================================
