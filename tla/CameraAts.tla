----------------------------- MODULE CameraAts ------------------------------
(***************************************************************************)
(* The factory test server of the camera, UDP/msg_manager.c and the        *)
(* dispatch of UDP/cmd_handle.c: one thread takes commands from the UART,  *)
(* one from a UDP socket, both execute them without a lock on the same     *)
(* camera, and one command restarts the camera.                            *)
(*                                                                         *)
(* Every text ends with a line end and starts with its command word.  The  *)
(* functions the handlers call and channel_data_send are external: a call  *)
(* takes a while and succeeds or fails; what is written to the chip, the   *)
(* DID partition and the memory card stays there over a restart.           *)
(***************************************************************************)
EXTENDS CameraCommands, SequencesExt

CONSTANTS
  Client,    \* the peers that send datagrams
  Request,   \* [from, head, sep, args]: the word before the first separator
             \* that the handler splits at, and what follows
  NULL

Separator == {"_", "="}

ASSUME RequestAssumption ==
  Request \subseteq [from: Client \cup {"uart"}, head: STRING, sep: Separator,
                     args: Seq(STRING)]

Thread == {"uart", "udp"}
Key == {"chip_mac", "did_mac", "did_sn", "did", "did_license", "pcb_sn", "wifi_cc"}

VARIABLES
  at,        \* thread -> where it is
  cur,       \* thread -> the request it executes, or executed last
  todo,      \* thread -> the steps its handler has still to make
  ok,        \* thread -> what the handler will return is RET_OK
  trace,     \* thread -> what it did for that request
  srvAddr,   \* server_addr: where the last datagram came from
  store,     \* what the camera keeps: key -> the value written last
  file,      \* the content of the test file on the memory card
  rebooting, \* reboot has been called
  mac,       \* history: how the last write of the MAC address went
  disturbed, \* history: threads whose card test another one ran into
  got        \* history: thread -> what the fread of its card test gave

work == <<at, cur, todo, ok, trace>>
camera == <<store, file, rebooting, mac, disturbed, got>>
vars == <<work, srvAddr, camera>>

-----------------------------------------------------------------------------
(* The dispatch *)

Line(r) == FoldLeft(LAMBDA l, a : l \o r.sep \o a, r.head, r.args)

\* strstr: the word occurs anywhere in the text.
Occurs(word, l) ==
  \E i \in 0 .. Len(l) - Len(word) : SubSeq(l, i + 1, i + Len(word)) = word

\* The rows whose word occurs in the text.
Matches(l) == {i \in DOMAIN g_cmd_handles : Occurs(g_cmd_handles[i].word, l)}

\* A row's word is at the front of the text.
Begun(l) == \E i \in DOMAIN g_cmd_handles : IsPrefix(g_cmd_handles[i].word, l)

\* The tool puts a command word in front and none of them behind it.
ASSUME ToolAssumption == \A r \in Request : Matches(Line(r)) # {} <=> Begun(Line(r))

ASSUME NullAssumption == NULL \notin DOMAIN Handlers

\* Mutant: the last row that matches is taken.
DispatchLast(l) ==
  IF Matches(l) = {} THEN 0 ELSE CHOOSE i \in Matches(l) : \A j \in Matches(l) : j <= i

\* The first row that matches; 0 if none does.
Dispatch(l) ==
  IF Matches(l) = {} THEN 0 ELSE CHOOSE i \in Matches(l) : \A j \in Matches(l) : i <= j

Func == [r \in Request |->
           IF Dispatch(Line(r)) = 0 THEN NULL ELSE g_cmd_handles[Dispatch(Line(r))].func]

-----------------------------------------------------------------------------
Started == [t \in Thread |-> "none"]

Init ==
  /\ at = Started
  /\ cur = [t \in Thread |-> NULL]
  /\ todo = [t \in Thread |-> <<>>]
  /\ ok = [t \in Thread |-> TRUE]
  /\ trace = [t \in Thread |-> <<>>]
  /\ srvAddr = NULL
  /\ store = [k \in Key |-> NULL]
  /\ file = "none"
  /\ rebooting = FALSE
  /\ mac = "unwritten"
  /\ disturbed = {}
  /\ got = [t \in Thread |-> "unread"]

Goto(t, from, then) ==
  /\ at[t] = from
  /\ at' = [at EXCEPT ![t] = then]

\* Mutant: the type of the channel is ignored.
DestAlwaysUdp(t) == srvAddr

\* AT_RSP: over the UART, or to whatever server_addr holds.
Dest(t) == IF t = "udp" THEN srvAddr ELSE "uart"

Note(t, what, to, good) ==
  trace' = [trace EXCEPT ![t] = Append(@, [what |-> what, to |-> to, ok |-> good])]

\* MsgManagerInit does not look at the results: a thread may be missing.  The
\* UDP thread ends when it gets no socket.
StartThread(t) ==
  /\ \/ Goto(t, "none", "recv")
     \/ t = "udp" /\ Goto(t, "none", "ended")
  /\ UNCHANGED <<cur, todo, ok, trace, srvAddr, camera>>

Take(t, r) ==
  /\ Goto(t, "recv", "dispatch")
  /\ cur' = [cur EXCEPT ![t] = r]
  /\ trace' = [trace EXCEPT ![t] = <<>>]
  /\ ok' = [ok EXCEPT ![t] = TRUE]
  /\ disturbed' = disturbed \ {t}
  /\ got' = [got EXCEPT ![t] = "unread"]
  /\ UNCHANGED <<todo, store, file, rebooting, mac>>

UartRecv(r) == r.from = "uart" /\ Take("uart", r) /\ UNCHANGED srvAddr

UdpRecv(r) == r.from # "uart" /\ Take("udp", r) /\ srvAddr' = r.from

\* A datagram that does not start with AT+, or has nothing behind it, gets no
\* answer.
UdpIgnore(c) ==
  /\ at["udp"] = "recv"
  /\ srvAddr' = c
  /\ UNCHANGED <<work, camera>>

\* cmd_process_handle up to the first step of the handler.
CmdProcessHandle(t) ==
  /\ at[t] = "dispatch"
  /\ LET f == Func[cur[t]] IN
       \/ /\ f = NULL
          /\ at' = [at EXCEPT ![t] = "not_found"]
          /\ UNCHANGED <<todo, ok>>
       \/ /\ f # NULL /\ ~Accepts(f, cur[t].head, cur[t].args)
          /\ at' = [at EXCEPT ![t] = "status"]
          /\ ok' = [ok EXCEPT ![t] = FALSE]
          /\ UNCHANGED todo
       \/ /\ f # NULL /\ Accepts(f, cur[t].head, cur[t].args)
          /\ at' = [at EXCEPT ![t] = "handler"]
          /\ todo' = [todo EXCEPT ![t] = Handlers[f].prog]
          /\ UNCHANGED ok
  /\ UNCHANGED <<cur, trace, srvAddr, camera>>

-----------------------------------------------------------------------------
(* The steps of a handler *)

Next1(t, do) ==
  /\ at[t] = "handler"
  /\ todo[t] # <<>>
  /\ Head(todo[t]).do = do

Proceed(t) ==
  /\ todo' = [todo EXCEPT ![t] = Tail(@)]
  /\ UNCHANGED <<at, ok>>

\* The handler returns an error.
Abort(t) ==
  /\ todo' = [todo EXCEPT ![t] = <<>>]
  /\ ok' = [ok EXCEPT ![t] = FALSE]
  /\ at' = [at EXCEPT ![t] = "status"]

DoCall(t) ==
  /\ Next1(t, "call") \/ Next1(t, "explain")
  /\ \/ Proceed(t) /\ Note(t, Head(todo[t]).what, "board", TRUE)
     \/ Abort(t) /\ Note(t, Head(todo[t]).what, "board", FALSE)
  /\ UNCHANGED <<cur, srvAddr, camera>>

DoTry(t) ==
  /\ Next1(t, "try")
  /\ Proceed(t)
  /\ Note(t, Head(todo[t]).what, "board", TRUE)
  /\ UNCHANGED <<cur, srvAddr, camera>>

DoSay(t) ==
  /\ Next1(t, "say")
  /\ Proceed(t)
  /\ Note(t, Head(todo[t]).what, Dest(t), TRUE)
  /\ UNCHANGED <<cur, srvAddr, camera>>

\* Between the two writes of the MAC address.
HalfWritten(t) == at[t] = "handler" /\ todo[t] = <<Write("did_mac")>>

MacStep(t, key, good) ==
  mac' = IF key = "chip_mac"
         THEN IF \E u \in Thread \ {t} : HalfWritten(u) THEN "mixed"
              ELSE IF good THEN "half" ELSE "failed"
         ELSE IF key = "did_mac" /\ mac = "half"
              THEN IF good THEN "written" ELSE "failed"
              ELSE mac

\* Mutant: a failing write does not end the handler.
DoWriteUnchecked(t) ==
  /\ Next1(t, "write")
  /\ \E good \in BOOLEAN :
       /\ store' = IF good THEN [store EXCEPT ![Head(todo[t]).what] = cur[t].args[1]]
                   ELSE store
       /\ Proceed(t)
       /\ Note(t, Head(todo[t]).what, "board", TRUE)
       /\ MacStep(t, Head(todo[t]).what, TRUE)
  /\ UNCHANGED <<cur, srvAddr, file, rebooting, disturbed, got>>

DoWrite(t) ==
  /\ Next1(t, "write")
  /\ LET key == Head(todo[t]).what IN
       \/ /\ store' = [store EXCEPT ![key] = cur[t].args[1]]
          /\ Proceed(t)
          /\ Note(t, key, "board", TRUE)
          /\ MacStep(t, key, TRUE)
       \/ /\ UNCHANGED store
          /\ Abort(t)
          /\ Note(t, key, "board", FALSE)
          /\ MacStep(t, key, FALSE)
  /\ UNCHANGED <<cur, srvAddr, file, rebooting, disturbed, got>>

\* The card test: fopen truncates the file, the data reaches it when fseek
\* flushes it, fread gets it back; each may fail.  The result of fseek is not
\* looked at, but after a failure there is nothing to read.
InCardTest(t) == at[t] = "handler" /\ todo[t] # <<>> /\ Head(todo[t]).do = "card"

CardOpen(t) ==
  /\ Next1(t, "card") /\ Head(todo[t]).what = "fopen"
  /\ \/ /\ file' = "empty"
        /\ disturbed' = disturbed \cup
             {u \in Thread \ {t} : InCardTest(u) /\ Head(todo[u]).what # "fopen"}
        /\ Proceed(t)
        /\ Note(t, "fopen", "board", TRUE)
     \/ /\ UNCHANGED <<file, disturbed>>
        /\ Abort(t)
        /\ Note(t, "fopen", "board", FALSE)
  /\ UNCHANGED <<cur, srvAddr, store, rebooting, mac, got>>

CardWrite(t) ==
  /\ Next1(t, "card") /\ Head(todo[t]).what = "fwrite"
  /\ \/ file' = "magic" /\ Proceed(t) /\ Note(t, "fwrite", "board", TRUE)
     \/ UNCHANGED file /\ Abort(t) /\ Note(t, "fwrite", "board", FALSE)
  /\ UNCHANGED <<cur, srvAddr, store, rebooting, mac, disturbed, got>>

\* A file that holds the data gives it back, or other bytes if the card is bad;
\* one that another thread has truncated gives nothing, which fread reports like
\* an error.
FreadGives == IF file = "magic" THEN {"magic", "other", "error"} ELSE {"end", "error"}
ReadInFull == {"magic", "other"}

\* Mutant: what was read is not compared.
CardReadOnly(t) ==
  /\ Next1(t, "card") /\ Head(todo[t]).what = "fread"
  /\ \E bytes \in FreadGives :
       /\ got' = [got EXCEPT ![t] = bytes]
       /\ IF bytes \in ReadInFull THEN Proceed(t) ELSE Abort(t)
       /\ Note(t, "fread", "board", bytes \in ReadInFull)
  /\ UNCHANGED <<cur, srvAddr, store, file, rebooting, mac, disturbed>>

CardRead(t) ==
  /\ Next1(t, "card") /\ Head(todo[t]).what = "fread"
  /\ \E bytes \in FreadGives :
       /\ got' = [got EXCEPT ![t] = bytes]
       /\ IF bytes = "magic" THEN Proceed(t) ELSE Abort(t)
       /\ Note(t, "fread", "board", bytes \in ReadInFull)
  /\ UNCHANGED <<cur, srvAddr, store, file, rebooting, mac, disturbed>>

DoReboot(t) ==
  /\ Next1(t, "reboot")
  /\ Proceed(t)
  /\ Note(t, Head(todo[t]).what, "board", TRUE)
  /\ rebooting' = TRUE
  /\ UNCHANGED <<cur, srvAddr, store, file, mac, disturbed, got>>

HandlerReturns(t) ==
  /\ at[t] = "handler"
  /\ todo[t] = <<>>
  /\ Goto(t, "handler", "status")
  /\ UNCHANGED <<cur, todo, ok, trace, srvAddr, camera>>

-----------------------------------------------------------------------------
(* The answer *)

\* Handlers that say something about a failure, or about the card, do so
\* before they return.
Explains(t) ==
  \/ Func[cur[t]] = "TestTfcardHandle"
  \/ ~ok[t] /\ Func[cur[t]] \in {"PlayStartHandle", "AutoPlayRecordHandle"}
       /\ trace[t] # <<>>

Verdict(t) ==
  IF at[t] = "not_found" THEN "cmd_not_found"
  ELSE IF ok[t] THEN "success" ELSE "fail"

Said(t, lines) ==
  trace' = [trace EXCEPT ![t] = @ \o
              [i \in DOMAIN lines |-> [what |-> lines[i], to |-> Dest(t), ok |-> TRUE]]]

\* Mutant: a command that is not in the table is not answered.
AnswerKnown(t) ==
  /\ at[t] \in {"status", "not_found"}
  /\ at' = [at EXCEPT ![t] = "recv"]
  /\ IF at[t] = "status" THEN Said(t, <<Verdict(t)>>) ELSE UNCHANGED trace
  /\ UNCHANGED <<cur, todo, ok, srvAddr, camera>>

Explain1(t) ==
  /\ at[t] = "status"
  /\ Explains(t)
  /\ Goto(t, "status", "explained")
  /\ Said(t, <<"explanation">>)
  /\ UNCHANGED <<cur, todo, ok, srvAddr, camera>>

Answer(t) ==
  /\ \/ at[t] \in {"explained", "not_found"}
     \/ at[t] = "status" /\ ~Explains(t)
  /\ at' = [at EXCEPT ![t] = "recv"]
  /\ Said(t, <<Verdict(t)>>)
  /\ UNCHANGED <<cur, todo, ok, srvAddr, camera>>

\* The restart reboot has asked for, at any moment after it; what the handlers
\* were doing is lost.
Restart ==
  /\ rebooting
  /\ rebooting' = FALSE
  /\ at' = Started
  /\ cur' = [t \in Thread |-> NULL]
  /\ todo' = [t \in Thread |-> <<>>]
  /\ ok' = [t \in Thread |-> TRUE]
  /\ trace' = [t \in Thread |-> <<>>]
  /\ srvAddr' = NULL
  /\ disturbed' = {}
  /\ got' = [t \in Thread |-> "unread"]
  /\ UNCHANGED <<store, file, mac>>

-----------------------------------------------------------------------------
Handle(t) ==
  \/ StartThread(t) \/ CmdProcessHandle(t) \/ HandlerReturns(t)
  \/ DoCall(t) \/ DoTry(t) \/ DoSay(t) \/ DoWrite(t) \/ DoReboot(t)
  \/ CardOpen(t) \/ CardWrite(t) \/ CardRead(t)
  \/ Explain1(t) \/ Answer(t)

Next ==
  \/ \E t \in Thread : Handle(t)
  \/ \E r \in Request : UartRecv(r) \/ UdpRecv(r)
  \/ \E c \in Client : UdpIgnore(c)
  \/ Restart

Spec == Init /\ [][Next]_vars

-----------------------------------------------------------------------------
(* Properties *)

Verdicts == {"success", "fail", "cmd_not_found"}

\* The variables keep their types.
TypeOK ==
  /\ at \in [Thread -> {"none", "ended", "recv", "dispatch", "handler", "status",
                        "explained", "not_found"}]
  /\ cur \in [Thread -> Request \cup {NULL}]
  /\ ok \in [Thread -> BOOLEAN]
  /\ \A t \in Thread : \A i \in DOMAIN trace[t] :
       trace[t][i].to \in Client \cup {"uart", "board"}
  /\ srvAddr \in Client \cup {NULL}
  /\ DOMAIN store = Key
  /\ file \in {"none", "empty", "magic"}
  /\ rebooting \in BOOLEAN
  /\ mac \in {"unwritten", "half", "failed", "written", "mixed"}
  /\ disturbed \subseteq Thread
  /\ got \in [Thread -> {"unread", "magic", "other", "end", "error"}]

\* A thread that waits for the next command has dealt with one.
Done(t) == at[t] = "recv" /\ cur[t] # NULL

Result(t) == Last(trace[t]).what

FoundAt == [i \in DOMAIN g_cmd_handles |-> Dispatch(g_cmd_handles[i].word)]

\* strstr finds a word in another one, and the table has words that begin
\* with other words (AT+LED and AT+LED_ON): when a thread searches it, the
\* order of the rows sees to it that each word reaches its own row.
EveryRowIsReached ==
  \A t \in Thread : at[t] = "dispatch" =>
    \A i \in DOMAIN g_cmd_handles : FoundAt[i] = i

\* The first n entries of the trace are the first n steps of the handler.
Made(t, n) ==
  \A i \in 1 .. n :
    /\ trace[t][i].what \notin Verdicts \cup {"explanation"}
    /\ trace[t][i].what = Handlers[Func[cur[t]]].prog[i].what

Accepted(t) == Accepts(Func[cur[t]], cur[t].head, cur[t].args)

\* It made all its steps, and no call whose result counts failed.
Succeeded(t, n) ==
  /\ Accepted(t)
  /\ n = Len(Handlers[Func[cur[t]]].prog)
  /\ \A i \in 1 .. n : trace[t][i].ok

\* It refused its parameters and did nothing, or the last call it made failed,
\* or the card held something else.
Failed(t, n) ==
  /\ Accepted(t) => n > 0 /\ (~trace[t][n].ok \/ trace[t][n].what = "fread")
  /\ ~Accepted(t) => n = 0

\* The factory tool reads one verdict for every command, behind everything else
\* that is said about it: "success" only when the handler succeeded, "fail" only
\* when it failed, and "cmd not found" exactly for a word that no row begins.
VerdictIsEarned ==
  \A t \in Thread : Done(t) =>
    \E n \in 0 .. Len(trace[t]) - 1 :
      /\ Made(t, n)
      /\ \A i \in n + 1 .. Len(trace[t]) - 1 : trace[t][i].what = "explanation"
      /\ Result(t) \in Verdicts
      /\ (Result(t) = "cmd_not_found") <=> ~Begun(Line(cur[t]))
      /\ Result(t) = "success" => Succeeded(t, n)
      /\ Result(t) = "fail" => Failed(t, n)

\* Whatever is said about a command goes to the peer that sent it, although
\* the handlers find the peer's address in a global that the next datagram
\* overwrites, and both threads share the handlers.
RepliesToRequester ==
  \A t \in Thread : \A i \in DOMAIN trace[t] :
    trace[t][i].to \in {"board", cur[t].from}

\* When the last write of the MAC address ran through, alone, the chip and
\* the DID partition hold the same address, also after a restart; a handler
\* that another one ran into or that a restart cut short promises nothing.
MacsAgree == mac = "written" => store["chip_mac"] = store["did_mac"]

\* The verdict on the memory card is true: "success" only when each operation
\* of the test succeeded and the card gave back what was written, and "fail"
\* only when an operation failed or the card gave back other bytes.  That it
\* gave back nothing counts against it only if the other thread opened the
\* test's file in the middle of the test.
TfTestTruthful ==
  \A t \in Thread : Done(t) /\ Func[cur[t]] = "TestTfcardHandle" =>
    LET failed == \E i \in DOMAIN trace[t] : ~trace[t][i].ok IN
      /\ Result(t) = "success" => ~failed /\ got[t] = "magic"
      /\ Result(t) = "fail" => failed \/ got[t] = "other"
      /\ got[t] = "end" => t \in disturbed

\* The rows for old products: a tool that writes with their words gets
\* "success" when no call fails.
LegacyWritesSucceed ==
  \A t \in Thread :
    /\ Done(t)
    /\ \E i \in DOMAIN LegacyRows : Dispatch(Line(cur[t])) = i
    /\ \A i \in DOMAIN trace[t] : trace[t][i].ok
    => Result(t) = "success"
=============================================================================
