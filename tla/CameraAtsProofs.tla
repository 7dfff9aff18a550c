-------------------------- MODULE CameraAtsProofs ---------------------------
(***************************************************************************)
(* What the camera promises, for any peers and commands, over overlapping  *)
(* commands of both threads and restarts.                                  *)
(*                                                                         *)
(* Nothing it says of a command goes to a peer that did not send it.  All  *)
(* threads answer through AT_RSP, which takes the address of the UDP peer  *)
(* from one global.  The global changes only while the UDP thread is at    *)
(* recvfrom, and that thread comes back there only with its verdict said;  *)
(* so between a command and its verdict the global has the sender.         *)
(*                                                                         *)
(* The two places of the MAC address agree after a write that ran alone:   *)
(* the thread between its two writes is the only one there, and the chip   *)
(* has its address.  That only three rests of programs end in a write of   *)
(* one of these places is a fact about all the handlers of the table.      *)
(*                                                                         *)
(* The verdict on the memory card is true: in the middle of the test every *)
(* operation has succeeded so far, and the file holds what was written or  *)
(* the other thread opened it.                                             *)
(*                                                                         *)
(* The verdict is earned: what a handler has made and what it has still to *)
(* make are its program, so it is at the end of it when it says "success". *)
(***************************************************************************)
EXTENDS CameraAts, SequenceLemmas

Places == {"none", "ended", "recv", "dispatch", "handler", "status", "explained", "not_found"}

\* Between a command and its verdict.
Working(t) == at[t] \in {"dispatch", "handler", "status", "explained", "not_found"}

Shape ==
  /\ at \in [Thread -> Places]
  /\ DOMAIN cur = Thread
  /\ DOMAIN trace = Thread
  /\ \A t \in Thread : Len(trace[t]) \in Nat /\ DOMAIN trace[t] = 1 .. Len(trace[t])

\* A thread that works for a peer finds the peer's address.
Addressed == \A t \in Thread : Working(t) => Dest(t) = cur[t].from

IInv == Shape /\ Addressed /\ RepliesToRequester

-----------------------------------------------------------------------------
(* What a thread adds to its trace *)

\* Thread t has gone on with its command and may have added entries for its
\* peer or for the board; nothing else has changed of what IInv is about.
GoesOn(t) ==
  /\ \E place \in Places : at' = [at EXCEPT ![t] = place]
  /\ UNCHANGED <<cur, srvAddr>>
  /\ \/ UNCHANGED trace
     \/ /\ Working(t)
        /\ \E s : /\ Len(s) \in Nat /\ DOMAIN s = 1 .. Len(s)
                  /\ \A i \in DOMAIN s : s[i].to \in {"board", Dest(t)}
                  /\ trace' = [trace EXCEPT ![t] = @ \o s]

LEMMA GoingOnKeeps ==
  ASSUME IInv, NEW t \in Thread, GoesOn(t), Working(t)' => Working(t)
  PROVE  IInv'
<1>1. PICK place \in Places : at' = [at EXCEPT ![t] = place] BY DEF GoesOn
<1>2. at \in [Thread -> Places] /\ at' \in [Thread -> Places] /\ \A u \in Thread : u # t => at'[u] = at[u]
  BY <1>1 DEF IInv, Shape
<1>3. UNCHANGED <<cur, srvAddr>> BY DEF GoesOn
<1>4. Addressed'
  <2> SUFFICES ASSUME NEW u \in Thread, Working(u)' PROVE Dest(u)' = cur'[u].from
    BY DEF Addressed
  <2>1. Working(u) BY <1>2 DEF Working
  <2>. QED BY <1>3, <2>1 DEF IInv, Addressed, Dest
<1>5. CASE UNCHANGED trace
  BY <1>2, <1>3, <1>4, <1>5 DEF IInv, Shape, RepliesToRequester
<1>6. CASE ~UNCHANGED trace
  <2>1. Working(t) BY <1>6 DEF GoesOn
  <2>2. PICK s : /\ Len(s) \in Nat /\ DOMAIN s = 1 .. Len(s)
                 /\ \A i \in DOMAIN s : s[i].to \in {"board", Dest(t)}
                 /\ trace' = [trace EXCEPT ![t] = @ \o s]
    BY <1>6 DEF GoesOn
  <2>3. Dest(t) = cur[t].from BY <2>1 DEF IInv, Addressed
  <2> DEFINE old == trace[t]
             new == old \o s
  <2>4. Len(old) \in Nat /\ DOMAIN old = 1 .. Len(old) BY DEF IInv, Shape
  <2>5. new = [i \in 1 .. (Len(old) + Len(s)) |-> IF i <= Len(old) THEN old[i] ELSE s[i - Len(old)]]
    OBVIOUS
  <2>6. Len(new) = Len(old) + Len(s) /\ DOMAIN new = 1 .. Len(new) /\ Len(new) \in Nat
    BY <2>2, <2>4, <2>5
  <2>7. \A i \in DOMAIN new : new[i].to \in {"board", cur[t].from}
    <3> SUFFICES ASSUME NEW i \in DOMAIN new PROVE new[i].to \in {"board", cur[t].from}
      OBVIOUS
    <3>1. CASE i <= Len(old)
      <4>1. i \in DOMAIN old /\ new[i] = old[i] BY <2>2, <2>4, <2>5, <2>6, <3>1
      <4>. QED BY <4>1 DEF IInv, RepliesToRequester
    <3>2. CASE ~(i <= Len(old))
      <4>1. i - Len(old) \in DOMAIN s /\ new[i] = s[i - Len(old)] BY <2>2, <2>4, <2>5, <2>6, <3>2
      <4>. QED BY <2>2, <2>3, <4>1
    <3>. QED BY <3>1, <3>2
  <2>. HIDE DEF new, old
  <2>8. trace' = [trace EXCEPT ![t] = new] BY <2>2 DEF new, old
  <2>9. /\ DOMAIN trace' = Thread /\ trace'[t] = new
        /\ \A u \in Thread : u # t => trace'[u] = trace[u]
    BY <2>8 DEF IInv, Shape
  <2>10. Shape' BY <1>2, <1>3, <2>6, <2>9 DEF IInv, Shape
  <2>11. RepliesToRequester' BY <1>3, <2>7, <2>9 DEF IInv, RepliesToRequester
  <2>. QED BY <1>4, <2>10, <2>11 DEF IInv
<1>. QED BY <1>5, <1>6

LEMMA NoteGoesOn ==
  ASSUME IInv, NEW t \in Thread, at[t] = "handler", NEW what, NEW good,
         NEW to \in {"board", Dest(t)}, Note(t, what, to, good),
         NEW place \in {"handler", "status"}, at' = [at EXCEPT ![t] = place],
         UNCHANGED <<cur, srvAddr>>
  PROVE  IInv'
<1> DEFINE s == <<[what |-> what, to |-> to, ok |-> good]>>
<1>1. trace' = [trace EXCEPT ![t] = Append(@, [what |-> what, to |-> to, ok |-> good])] BY DEF Note
<1>2. Len(s) \in Nat /\ DOMAIN s = 1 .. Len(s) /\ \A i \in DOMAIN s : s[i].to \in {"board", Dest(t)}
  OBVIOUS
<1>3. Append(trace[t], [what |-> what, to |-> to, ok |-> good]) = trace[t] \o s OBVIOUS
<1>. HIDE DEF s
<1>4. trace' = [trace EXCEPT ![t] = @ \o s] BY <1>1, <1>3
<1>5. Working(t) /\ place \in Places BY DEF Working, Places
<1>6. GoesOn(t) BY <1>2, <1>4, <1>5 DEF GoesOn
<1>. QED BY <1>5, <1>6, GoingOnKeeps

LEMMA ProceedsOrAborts ==
  ASSUME IInv, NEW t \in Thread, NEW do, Next1(t, do), Proceed(t) \/ Abort(t)
  PROVE  at[t] = "handler" /\ \E place \in {"handler", "status"} : at' = [at EXCEPT ![t] = place]
<1>1. at[t] = "handler" BY DEF Next1
<1>2. at = [at EXCEPT ![t] = "handler"] BY <1>1 DEF IInv, Shape
<1>. QED BY <1>1, <1>2 DEF Proceed, Abort

LEMMA SaidKeeps ==
  ASSUME IInv, NEW t \in Thread, Working(t), NEW line, Said(t, <<line>>),
         NEW place \in Places, at' = [at EXCEPT ![t] = place],
         UNCHANGED <<cur, srvAddr>>
  PROVE  IInv'
<1> DEFINE s == [i \in DOMAIN <<line>> |-> [what |-> <<line>>[i], to |-> Dest(t), ok |-> TRUE]]
<1>1. Len(s) \in Nat /\ DOMAIN s = 1 .. Len(s) /\ \A i \in DOMAIN s : s[i].to \in {"board", Dest(t)}
  OBVIOUS
<1>2. trace' = [trace EXCEPT ![t] = @ \o s] BY DEF Said
<1>. HIDE DEF s
<1>3. GoesOn(t) BY <1>1, <1>2 DEF GoesOn
<1>. QED BY <1>3, GoingOnKeeps

-----------------------------------------------------------------------------
(* The invariant *)

LEMMA Initially == Init => IInv
<1> SUFFICES ASSUME Init PROVE IInv OBVIOUS
<1>1. Shape BY DEF Init, Started, Shape, Places
<1>2. \A t \in Thread : ~Working(t) BY DEF Init, Started, Working
<1>3. Addressed BY <1>2 DEF Addressed
<1>4. RepliesToRequester BY DEF Init, RepliesToRequester
<1>. QED BY <1>1, <1>3, <1>4 DEF IInv

LEMMA HandleKeeps ==
  ASSUME IInv, NEW t \in Thread, Handle(t)
  PROVE  IInv'
<1>1. CASE StartThread(t)
  <2>1. PICK place \in {"recv", "ended"} : at' = [at EXCEPT ![t] = place]
    BY <1>1 DEF StartThread, Goto
  <2>2. GoesOn(t) BY <1>1, <2>1 DEF GoesOn, StartThread, Places
  <2>3. ~Working(t)' BY <2>1 DEF Working, IInv, Shape
  <2>. QED BY <2>2, <2>3, GoingOnKeeps
<1>2. CASE CmdProcessHandle(t)
  <2>1. PICK place \in {"not_found", "status", "handler"} : at' = [at EXCEPT ![t] = place]
    BY <1>2 DEF CmdProcessHandle
  <2>2. GoesOn(t) /\ Working(t) BY <1>2, <2>1 DEF GoesOn, CmdProcessHandle, Places, Working
  <2>. QED BY <2>2, GoingOnKeeps
<1>3. CASE HandlerReturns(t)
  <2>1. GoesOn(t) /\ Working(t) BY <1>3 DEF GoesOn, HandlerReturns, Goto, Places, Working
  <2>. QED BY <2>1, GoingOnKeeps
<1>4. CASE DoCall(t)
  <2>1. PICK good : Note(t, Head(todo[t]).what, "board", good) BY <1>4 DEF DoCall
  <2>2. UNCHANGED <<cur, srvAddr>> BY <1>4 DEF DoCall
  <2>3. (Next1(t, "call") \/ Next1(t, "explain")) /\ (Proceed(t) \/ Abort(t)) BY <1>4 DEF DoCall
  <2>4. at[t] = "handler" /\ \E place \in {"handler", "status"} : at' = [at EXCEPT ![t] = place]
    BY <2>3, ProceedsOrAborts
  <2>. QED BY <2>1, <2>2, <2>4, NoteGoesOn
<1>5. CASE DoTry(t)
  <2>1. at[t] = "handler" /\ \E place \in {"handler", "status"} : at' = [at EXCEPT ![t] = place]
    BY <1>5, ProceedsOrAborts DEF DoTry
  <2>. QED BY <1>5, <2>1, NoteGoesOn DEF DoTry
<1>6. CASE DoSay(t)
  <2>1. at[t] = "handler" /\ \E place \in {"handler", "status"} : at' = [at EXCEPT ![t] = place]
    BY <1>6, ProceedsOrAborts DEF DoSay
  <2>. QED BY <1>6, <2>1, NoteGoesOn DEF DoSay
<1>7. CASE DoWrite(t)
  <2>1. PICK good : Note(t, Head(todo[t]).what, "board", good) BY <1>7 DEF DoWrite
  <2>2. UNCHANGED <<cur, srvAddr>> BY <1>7 DEF DoWrite
  <2>3. Next1(t, "write") /\ (Proceed(t) \/ Abort(t)) BY <1>7 DEF DoWrite
  <2>4. at[t] = "handler" /\ \E place \in {"handler", "status"} : at' = [at EXCEPT ![t] = place]
    BY <2>3, ProceedsOrAborts
  <2>. QED BY <2>1, <2>2, <2>4, NoteGoesOn
<1>8. CASE DoReboot(t)
  <2>1. at[t] = "handler" /\ \E place \in {"handler", "status"} : at' = [at EXCEPT ![t] = place]
    BY <1>8, ProceedsOrAborts DEF DoReboot
  <2>. QED BY <1>8, <2>1, NoteGoesOn DEF DoReboot
<1>9. CASE CardOpen(t) \/ CardWrite(t) \/ CardRead(t)
  <2>1. PICK what, good : Note(t, what, "board", good) BY <1>9 DEF CardOpen, CardWrite, CardRead
  <2>2. UNCHANGED <<cur, srvAddr>> BY <1>9 DEF CardOpen, CardWrite, CardRead
  <2>3. Next1(t, "card") /\ (Proceed(t) \/ Abort(t)) BY <1>9 DEF CardOpen, CardWrite, CardRead
  <2>4. at[t] = "handler" /\ \E place \in {"handler", "status"} : at' = [at EXCEPT ![t] = place]
    BY <2>3, ProceedsOrAborts
  <2>. QED BY <2>1, <2>2, <2>4, NoteGoesOn
<1>10. CASE Explain1(t)
  <2>1. Working(t) /\ "explained" \in Places BY <1>10 DEF Explain1, Working, Places
  <2>2. at' = [at EXCEPT ![t] = "explained"] /\ Said(t, <<"explanation">>) /\ UNCHANGED <<cur, srvAddr>>
    BY <1>10 DEF Explain1, Goto
  <2>. QED BY <2>1, <2>2, SaidKeeps
<1>11. CASE Answer(t)
  <2>1. Working(t) /\ "recv" \in Places BY <1>11 DEF Answer, Working, Places
  <2>2. at' = [at EXCEPT ![t] = "recv"] /\ Said(t, <<Verdict(t)>>) /\ UNCHANGED <<cur, srvAddr>>
    BY <1>11 DEF Answer
  <2>. QED BY <2>1, <2>2, SaidKeeps
<1>. QED
  BY <1>1, <1>2, <1>3, <1>4, <1>5, <1>6, <1>7, <1>8, <1>9, <1>10, <1>11 DEF Handle

LEMMA TakeKeeps ==
  ASSUME IInv, NEW r \in Request, UartRecv(r) \/ UdpRecv(r)
  PROVE  IInv'
<1>1. PICK t \in Thread : /\ Take(t, r)
                          /\ t = "uart" => r.from = "uart" /\ srvAddr' = srvAddr
                          /\ t = "udp" => srvAddr' = r.from
  BY DEF UartRecv, UdpRecv, Thread
<1>2. /\ at[t] = "recv" /\ at' = [at EXCEPT ![t] = "dispatch"]
      /\ cur' = [cur EXCEPT ![t] = r]
      /\ trace' = [trace EXCEPT ![t] = <<>>]
  BY <1>1 DEF Take, Goto
<1>3. /\ DOMAIN cur' = Thread /\ cur'[t] = r /\ \A u \in Thread : u # t => cur'[u] = cur[u]
      /\ DOMAIN trace' = Thread /\ trace'[t] = <<>> /\ \A u \in Thread : u # t => trace'[u] = trace[u]
      /\ at' \in [Thread -> Places] /\ at'[t] = "dispatch" /\ \A u \in Thread : u # t => at'[u] = at[u]
  BY <1>2 DEF IInv, Shape, Places
<1>4. Shape' BY <1>3 DEF IInv, Shape
<1>5. RepliesToRequester' BY <1>3 DEF IInv, RepliesToRequester
<1>6. Dest(t)' = r.from BY <1>1 DEF Dest, Thread
<1>7. \A u \in Thread : u # t => Dest(u)' = Dest(u) BY <1>1 DEF Dest, Thread
<1>8. Addressed' BY <1>3, <1>6, <1>7 DEF IInv, Addressed, Working
<1>. QED BY <1>4, <1>5, <1>8 DEF IInv

LEMMA Inductive == IInv /\ [Next]_vars => IInv'
<1> SUFFICES ASSUME IInv, [Next]_vars PROVE IInv' OBVIOUS
<1>1. CASE UNCHANGED vars
  BY <1>1 DEF IInv, Shape, Addressed, RepliesToRequester, Working, Dest, vars, work
<1>2. ASSUME NEW t \in Thread, Handle(t) PROVE IInv' BY <1>2, HandleKeeps
<1>3. ASSUME NEW r \in Request, UartRecv(r) \/ UdpRecv(r) PROVE IInv' BY <1>3, TakeKeeps
<1>4. ASSUME NEW c \in Client, UdpIgnore(c) PROVE IInv'
  <2>1. at["udp"] = "recv" /\ UNCHANGED <<at, cur, trace>> BY <1>4 DEF UdpIgnore, work
  <2>2. ~Working("udp") BY <2>1 DEF Working
  <2>3. \A t \in Thread : t # "udp" => Dest(t)' = Dest(t) BY DEF Dest
  <2>4. Addressed' BY <2>1, <2>2, <2>3 DEF IInv, Addressed, Working
  <2>. QED BY <2>1, <2>4 DEF IInv, Shape, RepliesToRequester
<1>5. CASE Restart
  <2>1. /\ at' = Started /\ cur' = [t \in Thread |-> NULL] /\ trace' = [t \in Thread |-> <<>>]
    BY <1>5 DEF Restart
  <2>2. Shape' BY <2>1 DEF Started, Shape, Places
  <2>3. \A t \in Thread : ~Working(t)' BY <2>1 DEF Started, Working
  <2>4. Addressed' BY <2>3 DEF Addressed
  <2>5. RepliesToRequester' BY <2>1 DEF RepliesToRequester
  <2>. QED BY <2>2, <2>4, <2>5 DEF IInv
<1>. QED BY <1>1, <1>2, <1>3, <1>4, <1>5 DEF Next

\* Whatever is said about a command goes to the peer that sent it, for any
\* number of peers and any commands.
THEOREM NothingGoesAstray == Spec => []RepliesToRequester
<1>1. IInv => RepliesToRequester BY DEF IInv
<1>. QED BY <1>1, Initially, Inductive, PTL DEF Spec

-----------------------------------------------------------------------------
(* The programs of the table *)

\* The test of the memory card, and what is left of it.
CardRead1 == <<Step("card", "fread")>>
CardWrite1 == <<Step("card", "fwrite"), Step("card", "fread")>>
CardProg == <<Step("card", "fopen"), Step("card", "fwrite"), Step("card", "fread")>>
CardRests == {CardProg, CardWrite1, CardRead1, <<>>}

\* The two writes of the MAC address, and the second of them.
MacProg == <<Write("chip_mac"), Write("did_mac")>>
DidProg == <<Write("did_mac")>>

\* All other steps leave the MAC address and the card alone.
Harmless(s) == s.do # "card" /\ (s.do = "write" => s.what \notin {"chip_mac", "did_mac"})
IsHarmless(p) == \E S : p \in Seq(S) /\ \A s \in S : Harmless(s)

Calm(p) == p \in CardRests \/ IsHarmless(p)
Whole(p) == p = MacProg \/ Calm(p)
Known(p) == Whole(p) \/ p = DidProg

LEMMA ShortPrograms ==
  /\ \A a : Harmless(a) => Whole(<<a>>)
  /\ \A a, b : Harmless(a) /\ Harmless(b) => Whole(<<a, b>>)
  /\ \A a, b, c : Harmless(a) /\ Harmless(b) /\ Harmless(c) => Whole(<<a, b, c>>)
  /\ \A a, b, c, d :
       Harmless(a) /\ Harmless(b) /\ Harmless(c) /\ Harmless(d) => Whole(<<a, b, c, d>>)
<1>1. ASSUME NEW a, Harmless(a) PROVE Whole(<<a>>)
  <2> DEFINE S == {a}
  <2>1. <<a>> \in Seq(S) /\ \A s \in S : Harmless(s) BY <1>1
  <2> HIDE DEF S
  <2>. QED BY <2>1 DEF IsHarmless, Calm, Whole
<1>2. ASSUME NEW a, NEW b, Harmless(a), Harmless(b) PROVE Whole(<<a, b>>)
  <2> DEFINE S == {a, b}
  <2>1. <<a, b>> \in Seq(S) /\ \A s \in S : Harmless(s) BY <1>2
  <2> HIDE DEF S
  <2>. QED BY <2>1 DEF IsHarmless, Calm, Whole
<1>3. ASSUME NEW a, NEW b, NEW c, Harmless(a), Harmless(b), Harmless(c)
      PROVE  Whole(<<a, b, c>>)
  <2> DEFINE S == {a, b, c}
  <2>1. <<a, b, c>> \in Seq(S) /\ \A s \in S : Harmless(s) BY <1>3
  <2> HIDE DEF S
  <2>. QED BY <2>1 DEF IsHarmless, Calm, Whole
<1>4. ASSUME NEW a, NEW b, NEW c, NEW d, Harmless(a), Harmless(b), Harmless(c), Harmless(d)
      PROVE  Whole(<<a, b, c, d>>)
  <2> DEFINE S == {a, b, c, d}
  <2>1. <<a, b, c, d>> \in Seq(S) /\ \A s \in S : Harmless(s) BY <1>4
  <2> HIDE DEF S
  <2>. QED BY <2>1 DEF IsHarmless, Calm, Whole
<1>. QED BY <1>1, <1>2, <1>3, <1>4

LEMMA HarmlessSteps ==
  /\ \A f : Harmless(Call(f)) /\ Harmless(Say(f)) /\ Harmless(Try(f)) /\ Harmless(Explain(f))
  /\ \A k \in Key \ {"chip_mac", "did_mac"} : Harmless(Write(k))
  /\ \A x : Harmless(Step("reboot", x))
BY DEF Harmless, Call, Say, Try, Explain, Step, Write

LEMMA GroupsWhole == \A g \in HandlerGroups : \A f \in DOMAIN g : Whole(g[f].prog)
<1>1. Whole(MacProg) /\ Whole(CardProg) BY DEF Whole, Calm, CardRests
<1>2. Key = {"chip_mac", "did_mac", "did_sn", "did", "did_license", "pcb_sn", "wifi_cc"} BY DEF Key
<1>3. \A f \in DOMAIN VersionHandlers : Whole(VersionHandlers[f].prog)
  BY ShortPrograms, HarmlessSteps DEF VersionHandlers, Handler
<1>4. \A f \in DOMAIN SnHandlers : Whole(SnHandlers[f].prog)
  BY <1>2, ShortPrograms, HarmlessSteps DEF SnHandlers, Handler
<1>5. \A f \in DOMAIN WifiHandlers : Whole(WifiHandlers[f].prog)
  BY <1>2, ShortPrograms, HarmlessSteps DEF WifiHandlers, Handler
<1>6. \A f \in DOMAIN WifiTestHandlers : Whole(WifiTestHandlers[f].prog)
  BY ShortPrograms, HarmlessSteps DEF WifiTestHandlers, Handler
<1>7. \A f \in DOMAIN PtzHandlers : Whole(PtzHandlers[f].prog)
  BY ShortPrograms, HarmlessSteps DEF PtzHandlers, Handler
<1>8. \A f \in DOMAIN FlagHandlers : Whole(FlagHandlers[f].prog)
  BY ShortPrograms, HarmlessSteps DEF FlagHandlers, Handler
<1>9. \A f \in DOMAIN LightHandlers : Whole(LightHandlers[f].prog)
  BY ShortPrograms, HarmlessSteps DEF LightHandlers, Handler
<1>10. \A f \in DOMAIN IdentityHandlers : Whole(IdentityHandlers[f].prog)
  BY <1>1, <1>2, ShortPrograms, HarmlessSteps DEF IdentityHandlers, Handler, MacProg
<1>11. \A f \in DOMAIN AudioHandlers : Whole(AudioHandlers[f].prog)
  BY ShortPrograms, HarmlessSteps DEF AudioHandlers, Handler
<1>12. \A f \in DOMAIN NetHandlers : Whole(NetHandlers[f].prog)
  BY ShortPrograms, HarmlessSteps DEF NetHandlers, Handler
<1>13. \A f \in DOMAIN HardwareHandlers : Whole(HardwareHandlers[f].prog)
  BY <1>1, ShortPrograms, HarmlessSteps DEF HardwareHandlers, Handler, CardProg
<1>14. \A f \in DOMAIN MaintenanceHandlers : Whole(MaintenanceHandlers[f].prog)
  BY <1>2, ShortPrograms, HarmlessSteps DEF MaintenanceHandlers, Handler
<1>15. \A f \in DOMAIN OldHandlers : Whole(OldHandlers[f].prog)
  BY ShortPrograms, HarmlessSteps DEF OldHandlers, Handler
<1>. QED BY <1>3, <1>4, <1>5, <1>6, <1>7, <1>8, <1>9, <1>10, <1>11, <1>12, <1>13, <1>14, <1>15
         DEF HandlerGroups

LEMMA HandlersWhole == \A f \in DOMAIN Handlers : Whole(Handlers[f].prog)
<1>1. \A f \in DOMAIN Handlers :
        LET g == CHOOSE g \in HandlerGroups : f \in DOMAIN g
        IN  g \in HandlerGroups /\ f \in DOMAIN g /\ Handlers[f] = g[f]
  BY DEF Handlers
<1>. QED BY <1>1, GroupsWhole

\* Every row of the table has a handler.
LEMMA HandlerNames ==
  /\ DOMAIN Handlers = UNION {DOMAIN g : g \in HandlerGroups}
  /\ DOMAIN VersionHandlers = {"GetFwVerHandle", "GetHwVerHandle", "GetAtsVerHandle"}
  /\ DOMAIN SnHandlers =
       {"PcbSnReadHandle", "PcbSnWriteHandle", "SnReadHandle", "SnWriteHandle"}
  /\ DOMAIN WifiHandlers =
       {"WifiMacReadHandle", "WifiCCWriteHandle", "WifiCCReadHandle", "WifiScanHandle"}
  /\ DOMAIN WifiTestHandlers =
       {"WifiRxStartHandle", "WifiRxStopHandle", "WifiTxStartHandle", "WifiTxStopHandle",
        "WifiAteModeHandle"}
  /\ DOMAIN PtzHandlers = {"PtzDirHandle", "PtzPosReadHandle", "PtzPosWriteHandle"}
  /\ DOMAIN FlagHandlers =
       {"OldFlagReadHandle", "AudioFlagWriteHandle", "AudioFlagReadHandle", "VolumeHandle"}
  /\ DOMAIN LightHandlers = {"IRCutCtrlHandle", "IrLedCtrlHandle", "LedCtrlHandle"}
  /\ DOMAIN IdentityHandlers =
       {"DidReadHandle", "DidWriteHandle", "WifiMacWriteHandle", "KeyTestHandle"}
  /\ DOMAIN AudioHandlers =
       {"RecordStartHandle", "RecordStopHandle", "PlayStartHandle", "PlayStopHandle",
        "GetRecordFileHandle", "DelRecordFileHandle"}
  /\ DOMAIN NetHandlers =
       {"WifiConnectHandle", "WifiIPReadHandle", "AtsEnableHandle", "AtsDisableHandle",
        "AutoNightVisionHandle", "AutoPlayRecordHandle", "PushAudioFileHandle"}
  /\ DOMAIN HardwareHandlers =
       {"GetSensorIdHandle", "TestTfcardHandle", "FreqDeviWriteHandle", "FreqDeviReadHandle"}
  /\ DOMAIN MaintenanceHandlers =
       {"ResetHandle", "CpuIdReadHandle", "AILicenseReadHandle", "AILicenseWriteHandle",
        "UartEnableHandle"}
  /\ DOMAIN OldHandlers = {"old"}
<1>1. DOMAIN Handlers = UNION {DOMAIN g : g \in HandlerGroups} BY DEF Handlers
<1>2. DOMAIN VersionHandlers = {"GetFwVerHandle", "GetHwVerHandle", "GetAtsVerHandle"}
  BY DEF VersionHandlers
<1>. QED
  BY <1>1, <1>2 DEF SnHandlers, WifiHandlers, WifiTestHandlers, PtzHandlers, FlagHandlers,
     LightHandlers, IdentityHandlers, AudioHandlers, NetHandlers, HardwareHandlers,
     MaintenanceHandlers, OldHandlers

LEMMA RowsHaveHandlers ==
  /\ DOMAIN g_cmd_handles = 1 .. 91
  /\ \A i \in DOMAIN g_cmd_handles : g_cmd_handles[i].func \in DOMAIN Handlers
<1>1. \A w, f : Row(w, f).func = f BY DEF Row
<1>2. \A g \in HandlerGroups : \A f \in DOMAIN g : f \in DOMAIN Handlers BY HandlerNames
<1> DEFINE Old == {"old", "WifiMacReadHandle", "GetSensorIdHandle", "WifiMacWriteHandle",
                   "PcbSnWriteHandle", "PcbSnReadHandle", "OldFlagReadHandle"}
<1>3. Len(LegacyRows) = 39 /\ \A i \in 1 .. 39 : LegacyRows[i].func \in Old
  BY <1>1 DEF LegacyRows
<1>4. \A f \in Old : f \in DOMAIN Handlers BY <1>2, HandlerNames DEF HandlerGroups
<1> DEFINE Std ==
      {"GetFwVerHandle", "GetHwVerHandle", "GetAtsVerHandle", "PcbSnWriteHandle",
        "PcbSnReadHandle", "SnWriteHandle", "SnReadHandle", "AudioFlagWriteHandle",
        "AudioFlagReadHandle", "DidWriteHandle", "DidReadHandle", "LedCtrlHandle",
        "IrLedCtrlHandle", "IRCutCtrlHandle", "OldFlagReadHandle", "VolumeHandle",
        "RecordStartHandle", "RecordStopHandle", "PlayStartHandle", "PlayStopHandle",
        "GetRecordFileHandle", "DelRecordFileHandle", "KeyTestHandle",
        "WifiMacWriteHandle", "WifiMacReadHandle", "WifiCCWriteHandle",
        "WifiCCReadHandle", "WifiConnectHandle", "WifiScanHandle", "WifiRxStartHandle",
        "WifiRxStopHandle", "WifiTxStartHandle", "WifiTxStopHandle", "WifiAteModeHandle",
        "PtzDirHandle", "PtzPosReadHandle", "PtzPosWriteHandle", "PushAudioFileHandle",
        "GetSensorIdHandle", "TestTfcardHandle", "FreqDeviWriteHandle",
        "FreqDeviReadHandle", "ResetHandle", "CpuIdReadHandle", "AILicenseWriteHandle",
        "AILicenseReadHandle", "WifiIPReadHandle", "AtsEnableHandle", "AtsDisableHandle",
        "AutoNightVisionHandle", "AutoPlayRecordHandle", "UartEnableHandle"}
<1>5. Len(StandardRows) = 52 /\ \A i \in 1 .. 52 : StandardRows[i].func \in Std
  BY <1>1 DEF StandardRows
<1>6. \A f \in Std : f \in DOMAIN Handlers BY <1>2, HandlerNames DEF HandlerGroups
<1> HIDE DEF Old, Std
<1>7. /\ DOMAIN g_cmd_handles = 1 .. 91
      /\ \A i \in 1 .. 91 : g_cmd_handles[i] = IF i <= 39 THEN LegacyRows[i]
                                               ELSE StandardRows[i - 39]
  <2> DEFINE T == {LegacyRows[i] : i \in 1 .. 39} \cup {StandardRows[i] : i \in 1 .. 52}
  <2>1. \A i \in 1 .. 39 : LegacyRows[i] \in T OBVIOUS
  <2>2. \A i \in 1 .. 52 : StandardRows[i] \in T OBVIOUS
  <2> HIDE DEF T
  <2>3. LegacyRows \in Seq(T) BY <2>1 DEF LegacyRows
  <2>4. StandardRows \in Seq(T) BY <2>2 DEF StandardRows
  <2> DEFINE g == LegacyRows \o StandardRows
  <2>5. /\ g \in Seq(T) /\ Len(g) = Len(LegacyRows) + Len(StandardRows)
        /\ \A i \in 1 .. Len(LegacyRows) + Len(StandardRows) :
             g[i] = IF i <= Len(LegacyRows) THEN LegacyRows[i]
                    ELSE StandardRows[i - Len(LegacyRows)]
    BY <2>3, <2>4, ConcatProperties
  <2>6. g_cmd_handles = g BY DEF g_cmd_handles
  <2> HIDE DEF g
  <2>7. DOMAIN g = 1 .. 91 BY <1>3, <1>5, <2>5, LenProperties
  <2>. QED BY <1>3, <1>5, <2>5, <2>6, <2>7
<1>8. ASSUME NEW i \in 1 .. 91 PROVE g_cmd_handles[i].func \in DOMAIN Handlers
  <2>1. CASE i <= 39
    <3>1. i \in 1 .. 39 BY <2>1
    <3>. QED BY <1>3, <1>4, <1>7, <2>1, <3>1
  <2>2. CASE ~(i <= 39)
    <3>1. i - 39 \in 1 .. 52 BY <2>2
    <3>. QED BY <1>5, <1>6, <1>7, <2>2, <3>1
  <2>. QED BY <2>1, <2>2
<1>. QED BY <1>7, <1>8

\* The dispatch finds the function of a row, unless no row matches.
LEMMA FuncIs ==
  ASSUME NEW r \in Request
  PROVE  /\ Matches(Line(r)) = {} => Func[r] = NULL
         /\ Matches(Line(r)) # {} =>
              \E i \in DOMAIN g_cmd_handles : Func[r] = g_cmd_handles[i].func
<1> DEFINE l == Line(r)
           d == Dispatch(l)
           M == Matches(l)
<1> HIDE DEF l
<1>1. Func[r] = IF d = 0 THEN NULL ELSE g_cmd_handles[d].func BY DEF Func, l
<1>2. M \subseteq DOMAIN g_cmd_handles BY DEF Matches
<1>3. DOMAIN g_cmd_handles = 1 .. 91 BY RowsHaveHandlers
<1>4. M # {} => d \in M
  <2> HIDE DEF M
  <2>1. M \in SUBSET Nat BY <1>2, <1>3
  <2>2. M # {} => \E m \in M : \A n \in M : m <= n BY <2>1, Least
  <2>3. d = IF M = {} THEN 0 ELSE CHOOSE i \in M : \A j \in M : i <= j BY DEF Dispatch, M
  <2> HIDE DEF d
  <2>. QED BY <2>2, <2>3
<1>5. M = {} => d = 0 BY DEF Dispatch
<1> HIDE DEF d, M
<1>6. M # {} => d \in DOMAIN g_cmd_handles /\ d # 0 BY <1>2, <1>3, <1>4
<1>. QED BY <1>1, <1>5, <1>6 DEF M, l

LEMMA FuncHasHandler ==
  ASSUME NEW r \in Request, Func[r] # NULL
  PROVE  Func[r] \in DOMAIN Handlers /\ Whole(Handlers[Func[r]].prog)
BY FuncIs, RowsHaveHandlers, HandlersWhole

LEMMA CardHandler ==
  /\ Handlers["TestTfcardHandle"].prog = CardProg
  /\ \A r \in Request : Accepts("TestTfcardHandle", r.head, r.args)
<1> DEFINE f == "TestTfcardHandle"
           g == CHOOSE g \in HandlerGroups : f \in DOMAIN g
<1>1. f \in DOMAIN HardwareHandlers /\ HardwareHandlers \in HandlerGroups
  BY HandlerNames DEF HandlerGroups
<1>2. g \in HandlerGroups /\ f \in DOMAIN g BY <1>1
<1>3. g = HardwareHandlers
  <2> HIDE DEF g
  <2>. QED BY <1>2, HandlerNames DEF HandlerGroups
<1>4. Handlers[f] = g[f] BY <1>1 DEF Handlers
<1>5. Handlers[f] = Handler(AnyHead, 0, CardProg)
  <2>1. HardwareHandlers[f] = Handler(AnyHead, 0, CardProg) BY DEF HardwareHandlers, CardProg
  <2>. QED BY <1>3, <1>4, <2>1
<1> HIDE DEF g
<1>6. \A r \in Request : Len(r.args) \in Nat
  <2>1. \A r \in Request : r.args \in Seq(STRING) BY RequestAssumption
  <2>. QED BY <2>1, LenProperties
<1>7. ASSUME NEW r \in Request PROVE Accepts(f, r.head, r.args)
  <2>1. AcceptsValues(f, r.args) BY DEF AcceptsValues
  <2>2. Handlers[f].head \in {AnyHead, r.head} BY <1>5 DEF Handler
  <2>3. Handlers[f].argc <= Len(r.args) BY <1>5, <1>6 DEF Handler
  <2>. QED BY <2>1, <2>2, <2>3 DEF Accepts
<1>. QED BY <1>5, <1>7 DEF Handler

-----------------------------------------------------------------------------
(* What is left of a program *)

MacKeys == {"chip_mac", "did_mac"}

LEMMA CalmRest ==
  ASSUME NEW p, Calm(p)
  PROVE  /\ p # MacProg /\ p # DidProg
         /\ p # <<>> => /\ Calm(Tail(p))
                        /\ ~(Head(p).do = "write" /\ Head(p).what \in MacKeys)
<1>1. CASE p \in CardRests
  <2>1. \A s : Step("card", s).do = "card" BY DEF Step
  <2>2. \A k : Write(k).do = "write" BY DEF Write, Step
  <2>3. p # MacProg /\ p # DidProg
    <3>1. MacProg[1].do = "write" /\ DidProg[1].do = "write" BY <2>2 DEF MacProg, DidProg
    <3>2. MacProg # <<>> /\ DidProg # <<>> BY DEF MacProg, DidProg
    <3>3. CardProg[1].do = "card" /\ CardWrite1[1].do = "card" /\ CardRead1[1].do = "card"
      BY <2>1 DEF CardProg, CardWrite1, CardRead1
    <3>. QED BY <1>1, <3>1, <3>2, <3>3 DEF CardRests
  <2>4. p # <<>> => Tail(p) \in CardRests
    <3>1. Tail(CardProg) = CardWrite1 /\ Tail(CardWrite1) = CardRead1 /\ Tail(CardRead1) = <<>>
      BY DEF CardProg, CardWrite1, CardRead1
    <3>. QED BY <1>1, <3>1 DEF CardRests
  <2>5. p # <<>> => Head(p).do = "card"
    <3>1. Head(CardProg).do = "card" /\ Head(CardWrite1).do = "card" /\ Head(CardRead1).do = "card"
      BY <2>1 DEF CardProg, CardWrite1, CardRead1
    <3>. QED BY <1>1, <3>1 DEF CardRests
  <2>. QED BY <2>3, <2>4, <2>5 DEF Calm
<1>2. CASE IsHarmless(p)
  <2>1. PICK S : p \in Seq(S) /\ \A s \in S : Harmless(s) BY <1>2 DEF IsHarmless
  <2>2. p # <<>> => Head(p) \in S /\ Tail(p) \in Seq(S) BY <2>1, HeadTailProperties
  <2>3. p # <<>> => Calm(Tail(p)) BY <2>1, <2>2 DEF Calm, IsHarmless
  <2>4. p # <<>> => ~(Head(p).do = "write" /\ Head(p).what \in MacKeys)
    BY <2>1, <2>2 DEF Harmless, MacKeys
  <2>5. \A k \in MacKeys : Write(k).do = "write" /\ Write(k).what \in MacKeys
    BY DEF Write, Step, MacKeys
  <2>6. Head(MacProg) = Write("chip_mac") /\ Head(DidProg) = Write("did_mac")
    BY DEF MacProg, DidProg
  <2>7. MacProg # <<>> /\ DidProg # <<>> BY DEF MacProg, DidProg
  <2>8. "chip_mac" \in MacKeys /\ "did_mac" \in MacKeys BY DEF MacKeys
  <2>. QED BY <2>3, <2>4, <2>5, <2>6, <2>7, <2>8
<1>. QED BY <1>1, <1>2 DEF Calm

LEMMA MacRest ==
  /\ MacProg # DidProg /\ MacProg # <<>> /\ DidProg # <<>>
  /\ Head(MacProg) = Write("chip_mac") /\ Tail(MacProg) = DidProg
  /\ Head(DidProg) = Write("did_mac") /\ Tail(DidProg) = <<>>
  /\ \A k : Write(k).do = "write" /\ Write(k).what = k
<1>1. Len(MacProg) = 2 /\ Len(DidProg) = 1 BY DEF MacProg, DidProg
<1>2. /\ Head(MacProg) = Write("chip_mac") /\ Tail(MacProg) = DidProg
      /\ Head(DidProg) = Write("did_mac") /\ Tail(DidProg) = <<>>
  BY DEF MacProg, DidProg
<1>3. \A k : Write(k).do = "write" /\ Write(k).what = k BY DEF Write, Step
<1>. QED BY <1>1, <1>2, <1>3

-----------------------------------------------------------------------------
(* The MAC address *)

WorkShape ==
  /\ at \in [Thread -> Places]
  /\ DOMAIN cur = Thread
  /\ DOMAIN todo = Thread
  /\ DOMAIN store = Key
  /\ \A t \in Thread : at[t] = "dispatch" => cur[t] \in Request
  /\ \A t \in Thread : at[t] = "handler" => Known(todo[t])

\* Only while the MAC address is half written, or after two writes of it have
\* met, is there a thread between the two writes; when it is half written there
\* is one such thread at most, and the chip has its address.
MacInv ==
  /\ mac \in {"unwritten", "half", "failed", "written", "mixed"}
  /\ mac \notin {"half", "mixed"} => \A t \in Thread : ~HalfWritten(t)
  /\ mac = "half" =>
       \A t \in Thread : HalfWritten(t) =>
         /\ store["chip_mac"] = cur[t].args[1]
         /\ \A u \in Thread \ {t} : ~HalfWritten(u)
  /\ MacsAgree

WorkInv == WorkShape /\ MacInv

LEMMA WorkInit == Init => WorkInv
<1>. SUFFICES ASSUME Init PROVE WorkInv OBVIOUS
<1>1. /\ at = Started /\ cur = [t \in Thread |-> NULL] /\ todo = [t \in Thread |-> <<>>]
      /\ store = [k \in Key |-> NULL] /\ mac = "unwritten"
  BY DEF Init
<1>2. WorkShape BY <1>1 DEF WorkShape, Started, Places
<1>3. \A t \in Thread : ~HalfWritten(t) BY <1>1 DEF HalfWritten, Started
<1>. QED BY <1>1, <1>2, <1>3 DEF WorkInv, MacInv, MacsAgree

\* No thread comes between the two writes, and what the camera keeps stays.
LEMMA MacKept ==
  ASSUME MacInv, mac' = mac, store'["chip_mac"] = store["chip_mac"],
         store'["did_mac"] = store["did_mac"],
         \A u \in Thread : HalfWritten(u)' => HalfWritten(u) /\ cur'[u] = cur[u]
  PROVE  MacInv'
BY DEF MacInv, MacsAgree

\* Thread t leaves its handler, or goes on with it, without a write.
LEMMA WithoutWrite ==
  ASSUME WorkInv, NEW t \in Thread, NEW place \in Places,
         at' = [at EXCEPT ![t] = place], cur' = cur,
         \A u \in Thread \ {t} : todo'[u] = todo[u],
         DOMAIN todo' = Thread,
         place = "dispatch" => cur[t] \in Request,
         place = "handler" => Known(todo'[t]) /\ todo'[t] # DidProg,
         UNCHANGED <<store, mac>>
  PROVE  WorkInv'
<1>1. /\ at' \in [Thread -> Places] /\ at'[t] = place
      /\ \A u \in Thread \ {t} : at'[u] = at[u]
  BY DEF WorkInv, WorkShape
<1>2. WorkShape' BY <1>1 DEF WorkInv, WorkShape
<1>3. ~HalfWritten(t)' BY <1>1 DEF HalfWritten, DidProg
<1>4. \A u \in Thread \ {t} : HalfWritten(u)' <=> HalfWritten(u) BY <1>1 DEF HalfWritten
<1>5. \A u \in Thread : HalfWritten(u)' => HalfWritten(u) /\ cur'[u] = cur[u] BY <1>3, <1>4
<1>6. MacInv' BY <1>5, MacKept DEF WorkInv
<1>. QED BY <1>2, <1>6 DEF WorkInv

\* The step that a handler makes which is not a write.
LEMMA NextStepNoWrite ==
  ASSUME WorkInv, NEW t \in Thread, NEW do, Next1(t, do), do # "write",
         Proceed(t) \/ Abort(t), cur' = cur, UNCHANGED <<store, mac>>
  PROVE  WorkInv'
<1>1. at[t] = "handler" /\ todo[t] # <<>> /\ Head(todo[t]).do # "write" /\ Known(todo[t])
  BY DEF Next1, WorkInv, WorkShape
<1>2. Calm(todo[t]) BY <1>1, MacRest DEF Known, Whole
<1>3. CASE Proceed(t)
  <2>1. at' = [at EXCEPT ![t] = "handler"] BY <1>1, <1>3 DEF Proceed, WorkInv, WorkShape
  <2>2. DOMAIN todo' = Thread /\ todo'[t] = Tail(todo[t])
        /\ \A u \in Thread \ {t} : todo'[u] = todo[u]
    BY <1>3 DEF Proceed, WorkInv, WorkShape
  <2>3. Calm(todo'[t]) BY <1>1, <1>2, <2>2, CalmRest
  <2>4. Known(todo'[t]) /\ todo'[t] # DidProg BY <2>3, CalmRest DEF Known, Whole
  <2>5. "handler" \in Places BY DEF Places
  <2>. QED BY <2>1, <2>2, <2>4, <2>5, WithoutWrite
<1>4. CASE Abort(t)
  <2>1. at' = [at EXCEPT ![t] = "status"] BY <1>4 DEF Abort
  <2>2. DOMAIN todo' = Thread /\ \A u \in Thread \ {t} : todo'[u] = todo[u]
    BY <1>4 DEF Abort, WorkInv, WorkShape
  <2>3. "status" \in Places BY DEF Places
  <2>. QED BY <2>1, <2>2, <2>3, WithoutWrite
<1>. QED BY <1>3, <1>4

\* How MacStep goes on, without its Boolean argument.
LEMMA MacStepIs ==
  ASSUME NEW t \in Thread, NEW key, NEW good \in BOOLEAN, MacStep(t, key, good)
  PROVE  /\ key = "chip_mac" /\ (\E u \in Thread \ {t} : HalfWritten(u)) => mac' = "mixed"
         /\ key = "chip_mac" /\ (\A u \in Thread \ {t} : ~HalfWritten(u)) =>
              /\ good => mac' = "half"
              /\ ~good => mac' = "failed"
         /\ key = "did_mac" /\ mac = "half" =>
              /\ good => mac' = "written"
              /\ ~good => mac' = "failed"
         /\ key # "chip_mac" /\ ~(key = "did_mac" /\ mac = "half") => mac' = mac
BY DEF MacStep

LEMMA WriteGood ==
  ASSUME WorkInv, NEW t \in Thread, Next1(t, "write"), NEW key, key = Head(todo[t]).what,
         store' = [store EXCEPT ![key] = cur[t].args[1]], Proceed(t), cur' = cur,
         NEW good \in BOOLEAN, good, MacStep(t, key, good)
  PROVE  WorkInv'
<1>1. /\ at[t] = "handler" /\ todo[t] # <<>> /\ Head(todo[t]).do = "write"
      /\ Known(todo[t]) /\ at' = at
      /\ DOMAIN store = Key /\ DOMAIN store' = Key
      /\ DOMAIN todo' = Thread /\ todo'[t] = Tail(todo[t])
      /\ \A u \in Thread \ {t} : todo'[u] = todo[u]
  BY DEF Next1, Proceed, WorkInv, WorkShape
<1>2. "chip_mac" \in Key /\ "did_mac" \in Key BY DEF Key
<1>3. \A u \in Thread \ {t} : HalfWritten(u)' <=> HalfWritten(u) BY <1>1 DEF HalfWritten
<1>4. HalfWritten(t)' <=> todo'[t] = DidProg BY <1>1 DEF HalfWritten, DidProg
<1>5. HalfWritten(t) <=> todo[t] = DidProg BY <1>1 DEF HalfWritten, DidProg
<1>6. Known(todo'[t]) => WorkShape' BY <1>1 DEF WorkInv, WorkShape
<1>7. CASE todo[t] = MacProg
  <2>1. key = "chip_mac" /\ todo'[t] = DidProg BY <1>1, <1>7, MacRest
  <2>2. WorkShape' BY <1>6, <2>1 DEF Known, Whole
  <2>3. mac' \in {"half", "mixed"} /\ (mac' = "half" => \A u \in Thread \ {t} : ~HalfWritten(u))
    BY <2>1, MacStepIs
  <2>4. store'["chip_mac"] = cur'[t].args[1] BY <1>1, <1>2, <2>1
  <2>5. mac' = "half" => \A u \in Thread : HalfWritten(u)' =>
          /\ store'["chip_mac"] = cur'[u].args[1]
          /\ \A v \in Thread \ {u} : ~HalfWritten(v)'
    BY <1>3, <2>3, <2>4
  <2>6. MacInv' BY <2>3, <2>5 DEF MacInv, MacsAgree
  <2>. QED BY <2>2, <2>6 DEF WorkInv
<1>8. CASE todo[t] = DidProg
  <2>1. key = "did_mac" /\ todo'[t] = <<>> BY <1>1, <1>8, MacRest
  <2>2. Known(todo'[t]) /\ todo'[t] # DidProg BY <2>1, MacRest DEF Known, Whole, Calm, CardRests
  <2>3. WorkShape' BY <1>6, <2>2
  <2>4. ~HalfWritten(t)' BY <1>4, <2>2
  <2>5. HalfWritten(t) /\ mac \in {"half", "mixed"} BY <1>5, <1>8 DEF WorkInv, MacInv
  <2>6. CASE mac = "half"
    <3>1. mac' = "written" BY <2>1, <2>6, MacStepIs
    <3>2. store["chip_mac"] = cur[t].args[1] /\ \A u \in Thread \ {t} : ~HalfWritten(u)
      BY <2>5, <2>6 DEF WorkInv, MacInv
    <3>3. \A u \in Thread : ~HalfWritten(u)' BY <1>3, <2>4, <3>2
    <3>4. store'["chip_mac"] = store'["did_mac"] BY <1>1, <1>2, <2>1, <3>2
    <3>5. MacInv' BY <3>1, <3>3, <3>4 DEF MacInv, MacsAgree
    <3>. QED BY <2>3, <3>5 DEF WorkInv
  <2>7. CASE mac = "mixed"
    <3>1. mac' = "mixed" BY <2>1, <2>7, MacStepIs
    <3>2. MacInv' BY <3>1 DEF MacInv, MacsAgree
    <3>. QED BY <2>3, <3>2 DEF WorkInv
  <2>. QED BY <2>5, <2>6, <2>7
<1>9. CASE Calm(todo[t])
  <2>1. key \notin MacKeys BY <1>1, <1>9, CalmRest
  <2>2. key # "chip_mac" /\ key # "did_mac" BY <2>1 DEF MacKeys
  <2>3. Calm(todo'[t]) BY <1>1, <1>9, CalmRest
  <2>4. Known(todo'[t]) /\ ~HalfWritten(t)' BY <1>4, <2>3, CalmRest DEF Known, Whole
  <2>5. mac' = mac BY <2>2, MacStepIs
  <2>6. store'["chip_mac"] = store["chip_mac"] /\ store'["did_mac"] = store["did_mac"]
    BY <1>1, <1>2, <2>2
  <2>7. \A u \in Thread : HalfWritten(u)' => HalfWritten(u) /\ cur'[u] = cur[u]
    BY <1>3, <2>4
  <2>8. MacInv' BY <2>5, <2>6, <2>7, MacKept DEF WorkInv
  <2>. QED BY <1>6, <2>4, <2>8 DEF WorkInv
<1>. QED BY <1>1, <1>7, <1>8, <1>9 DEF Known, Whole

LEMMA WriteBad ==
  ASSUME WorkInv, NEW t \in Thread, Next1(t, "write"), NEW key, key = Head(todo[t]).what,
         store' = store, Abort(t), cur' = cur,
         NEW good \in BOOLEAN, ~good, MacStep(t, key, good)
  PROVE  WorkInv'
<1>1. /\ at[t] = "handler" /\ todo[t] # <<>> /\ Head(todo[t]).do = "write"
      /\ Known(todo[t])
      /\ at' \in [Thread -> Places] /\ at'[t] = "status"
      /\ \A u \in Thread \ {t} : at'[u] = at[u]
      /\ DOMAIN todo' = Thread /\ \A u \in Thread \ {t} : todo'[u] = todo[u]
  BY DEF Next1, Abort, WorkInv, WorkShape, Places
<1>2. WorkShape' BY <1>1 DEF WorkInv, WorkShape
<1>3. \A u \in Thread \ {t} : HalfWritten(u)' <=> HalfWritten(u) BY <1>1 DEF HalfWritten
<1>4. ~HalfWritten(t)' BY <1>1 DEF HalfWritten
<1>5. CASE mac' = mac
  <2>1. \A u \in Thread : HalfWritten(u)' => HalfWritten(u) /\ cur'[u] = cur[u]
    BY <1>3, <1>4
  <2>2. MacInv' BY <1>5, <2>1, MacKept DEF WorkInv
  <2>. QED BY <1>2, <2>2 DEF WorkInv
<1>6. CASE mac' = "mixed"
  <2>1. MacInv' BY <1>6 DEF MacInv, MacsAgree
  <2>. QED BY <1>2, <2>1 DEF WorkInv
<1>7. CASE mac' = "failed" /\ \A u \in Thread \ {t} : ~HalfWritten(u)
  <2>1. MacInv' BY <1>3, <1>4, <1>7 DEF MacInv, MacsAgree
  <2>. QED BY <1>2, <2>1 DEF WorkInv
<1>8. CASE key = "did_mac" /\ mac = "half" /\ mac' = "failed"
  <2>1. todo[t] = DidProg
    <3>1. ~Calm(todo[t]) BY <1>1, <1>8, CalmRest DEF MacKeys
    <3>2. todo[t] # MacProg BY <1>8, MacRest
    <3>. QED BY <1>1, <3>1, <3>2 DEF Known, Whole
  <2>2. HalfWritten(t) BY <1>1, <2>1 DEF HalfWritten, DidProg
  <2>3. \A u \in Thread \ {t} : ~HalfWritten(u) BY <1>8, <2>2 DEF WorkInv, MacInv
  <2>. QED BY <1>7, <1>8, <2>3
<1>. QED BY <1>5, <1>6, <1>7, <1>8, MacStepIs

LEMMA WriteKeeps ==
  ASSUME WorkInv, NEW t \in Thread, DoWrite(t)
  PROVE  WorkInv'
<1> DEFINE key == Head(todo[t]).what
<1>1. Next1(t, "write") /\ cur' = cur BY DEF DoWrite
<1>2. \/ /\ store' = [store EXCEPT ![key] = cur[t].args[1]] /\ Proceed(t)
         /\ \E good \in BOOLEAN : good /\ MacStep(t, key, good)
      \/ /\ store' = store /\ Abort(t)
         /\ \E good \in BOOLEAN : ~good /\ MacStep(t, key, good)
  BY Zenon DEF DoWrite
<1> HIDE DEF key
<1>. QED BY <1>1, <1>2, WriteGood, WriteBad DEF key

LEMMA WorkHandle ==
  ASSUME WorkInv, NEW t \in Thread, Handle(t)
  PROVE  WorkInv'
<1>0. DOMAIN todo = Thread /\ at \in [Thread -> Places] BY DEF WorkInv, WorkShape
<1>1. CASE StartThread(t) \/ HandlerReturns(t) \/ Explain1(t) \/ Answer(t)
  <2>1. PICK place \in {"recv", "ended", "status", "explained"} : at' = [at EXCEPT ![t] = place]
    BY <1>1 DEF StartThread, HandlerReturns, Explain1, Answer, Goto
  <2>2. cur' = cur /\ todo' = todo /\ UNCHANGED <<store, mac>>
    BY <1>1 DEF StartThread, HandlerReturns, Explain1, Answer, camera
  <2>3. place \in Places /\ place # "dispatch" /\ place # "handler" BY DEF Places
  <2>. QED BY <1>0, <2>1, <2>2, <2>3, WithoutWrite
<1>2. CASE CmdProcessHandle(t)
  <2> DEFINE f == Func[cur[t]]
  <2>1. at[t] = "dispatch" /\ cur' = cur /\ UNCHANGED <<store, mac>>
    BY <1>2 DEF CmdProcessHandle, camera
  <2>2. cur[t] \in Request BY <2>1 DEF WorkInv, WorkShape
  <2>3. \/ \E place \in {"not_found", "status"} :
             at' = [at EXCEPT ![t] = place] /\ todo' = todo
        \/ /\ f # NULL /\ at' = [at EXCEPT ![t] = "handler"]
           /\ todo' = [todo EXCEPT ![t] = Handlers[f].prog]
    BY <1>2 DEF CmdProcessHandle
  <2>4. CASE \E place \in {"not_found", "status"} :
               at' = [at EXCEPT ![t] = place] /\ todo' = todo
    <3>1. PICK place \in {"not_found", "status"} :
            at' = [at EXCEPT ![t] = place] /\ todo' = todo
      BY <2>4
    <3>2. place \in Places /\ place # "dispatch" /\ place # "handler" BY DEF Places
    <3>. QED BY <1>0, <2>1, <3>1, <3>2, WithoutWrite
  <2>5. CASE f # NULL /\ at' = [at EXCEPT ![t] = "handler"]
             /\ todo' = [todo EXCEPT ![t] = Handlers[f].prog]
    <3>1. Whole(Handlers[f].prog) BY <2>2, <2>5, FuncHasHandler
    <3>2. Handlers[f].prog # DidProg BY <3>1, MacRest, CalmRest DEF Whole
    <3> HIDE DEF f
    <3>3. /\ DOMAIN todo' = Thread /\ todo'[t] = Handlers[f].prog
          /\ \A u \in Thread \ {t} : todo'[u] = todo[u]
      BY <1>0, <2>5
    <3>4. "handler" \in Places BY DEF Places
    <3>5. Known(Handlers[f].prog) BY <3>1 DEF Known
    <3>. QED BY <2>1, <2>5, <3>5, <3>2, <3>3, <3>4, WithoutWrite
  <2>. QED BY <2>3, <2>4, <2>5
<1>3. CASE DoCall(t)
  <2>1. PICK do \in {"call", "explain"} : Next1(t, do) BY <1>3 DEF DoCall
  <2>2. (Proceed(t) \/ Abort(t)) /\ cur' = cur /\ UNCHANGED <<store, mac>>
    BY <1>3 DEF DoCall, camera
  <2>. QED BY <2>1, <2>2, NextStepNoWrite
<1>4. CASE DoTry(t)
  <2>1. Next1(t, "try") /\ Proceed(t) /\ cur' = cur /\ UNCHANGED <<store, mac>>
    BY <1>4 DEF DoTry, camera
  <2>. QED BY <2>1, NextStepNoWrite
<1>5. CASE DoSay(t)
  <2>1. Next1(t, "say") /\ Proceed(t) /\ cur' = cur /\ UNCHANGED <<store, mac>>
    BY <1>5 DEF DoSay, camera
  <2>. QED BY <2>1, NextStepNoWrite
<1>6. CASE DoReboot(t)
  <2>1. Next1(t, "reboot") /\ Proceed(t) /\ cur' = cur /\ UNCHANGED <<store, mac>>
    BY <1>6 DEF DoReboot
  <2>. QED BY <2>1, NextStepNoWrite
<1>7. CASE CardOpen(t) \/ CardWrite(t) \/ CardRead(t)
  <2>1. Next1(t, "card") /\ (Proceed(t) \/ Abort(t)) /\ cur' = cur /\ UNCHANGED <<store, mac>>
    BY <1>7 DEF CardOpen, CardWrite, CardRead, camera
  <2>. QED BY <2>1, NextStepNoWrite
<1>8. CASE DoWrite(t) BY <1>8, WriteKeeps
<1>. QED BY <1>1, <1>2, <1>3, <1>4, <1>5, <1>6, <1>7, <1>8 DEF Handle

LEMMA WorkStep == WorkInv /\ [Next]_vars => WorkInv'
<1> SUFFICES ASSUME WorkInv, [Next]_vars PROVE WorkInv' OBVIOUS
<1>0. DOMAIN todo = Thread /\ DOMAIN cur = Thread /\ at \in [Thread -> Places]
  BY DEF WorkInv, WorkShape
<1>1. ASSUME UNCHANGED <<at, cur, todo, store, mac>> PROVE WorkInv'
  BY <1>1 DEF WorkInv, WorkShape, MacInv, MacsAgree, HalfWritten
<1>2. CASE UNCHANGED vars BY <1>1, <1>2 DEF vars, work, camera
<1>3. ASSUME NEW t \in Thread, Handle(t) PROVE WorkInv' BY <1>3, WorkHandle
<1>4. ASSUME NEW r \in Request, UartRecv(r) \/ UdpRecv(r) PROVE WorkInv'
  <2>1. PICK t \in Thread : Take(t, r) BY <1>4 DEF UartRecv, UdpRecv, Thread
  <2>2. /\ at' = [at EXCEPT ![t] = "dispatch"] /\ cur' = [cur EXCEPT ![t] = r]
        /\ todo' = todo /\ UNCHANGED <<store, mac>>
    BY <2>1 DEF Take, Goto
  <2>3. /\ at' \in [Thread -> Places] /\ at'[t] = "dispatch"
        /\ \A u \in Thread \ {t} : at'[u] = at[u] /\ cur'[u] = cur[u]
        /\ DOMAIN cur' = Thread /\ cur'[t] = r
    BY <1>0, <2>2 DEF Places
  <2>4. WorkShape' BY <2>2, <2>3 DEF WorkInv, WorkShape
  <2>5. \A u \in Thread : HalfWritten(u)' => HalfWritten(u) /\ cur'[u] = cur[u]
    BY <2>2, <2>3 DEF HalfWritten
  <2>6. MacInv' BY <2>2, <2>5, MacKept DEF WorkInv
  <2>. QED BY <2>4, <2>6 DEF WorkInv
<1>5. ASSUME NEW c \in Client, UdpIgnore(c) PROVE WorkInv'
  BY <1>1, <1>5 DEF UdpIgnore, work, camera
<1>6. CASE Restart
  <2>1. /\ at' = Started /\ cur' = [t \in Thread |-> NULL] /\ todo' = [t \in Thread |-> <<>>]
        /\ UNCHANGED <<store, mac>>
    BY <1>6 DEF Restart
  <2>2. WorkShape' BY <2>1 DEF WorkInv, WorkShape, Started, Places
  <2>3. \A u \in Thread : ~HalfWritten(u)' BY <2>1 DEF HalfWritten, Started
  <2>4. MacInv' BY <2>1, <2>3, MacKept DEF WorkInv
  <2>. QED BY <2>2, <2>4 DEF WorkInv
<1>. QED BY <1>2, <1>3, <1>4, <1>5, <1>6 DEF Next

\* For any commands, overlapping in the two threads and cut short by restarts:
\* when the last write of the MAC address ran through alone, the chip and the
\* DID partition hold the same address (WifiMacWriteHandle).
THEOREM MacAddressesAgree == Spec => []MacsAgree
<1>1. WorkInv => MacsAgree BY DEF WorkInv, MacInv
<1>. QED BY WorkInit, WorkStep, <1>1, PTL DEF Spec

-----------------------------------------------------------------------------
(* The test of the memory card *)

AllGood(s) == \A i \in DOMAIN s : s[i].ok

Card(t) == Func[cur[t]] = "TestTfcardHandle"

\* A thread in the middle of the test has what it wrote in the file, unless
\* another thread opened the file since; and a thread that is through with it
\* has read it back, or has an error or other bytes to report, exactly as it
\* will say.
CardOf(t) ==
  /\ at[t] = "none" => cur[t] = NULL
  /\ at[t] = "dispatch" => trace[t] = <<>> /\ ok[t] /\ got[t] = "unread"
  /\ at[t] = "not_found" => got[t] = "unread"
  /\ at[t] = "handler" /\ Card(t) =>
       /\ todo[t] \in CardRests
       /\ ok[t] /\ AllGood(trace[t])
       /\ todo[t] = CardRead1 => file = "magic" \/ t \in disturbed
       /\ got[t] = IF todo[t] = <<>> THEN "magic" ELSE "unread"
  /\ at[t] \in {"status", "explained"} /\ Card(t) =>
       /\ ok[t] => AllGood(trace[t]) /\ got[t] = "magic"
       /\ ~ok[t] => ~AllGood(trace[t]) \/ got[t] = "other"
       /\ got[t] = "end" => t \in disturbed
  /\ Done(t) /\ Card(t) =>
       /\ Result(t) = "success" => AllGood(trace[t]) /\ got[t] = "magic"
       /\ Result(t) = "fail" => ~AllGood(trace[t]) \/ got[t] = "other"
       /\ got[t] = "end" => t \in disturbed

CardInv ==
  /\ ok \in [Thread -> BOOLEAN]
  /\ DOMAIN got = Thread
  /\ \A t \in Thread : CardOf(t)

\* What a step of another thread leaves of it.
LEMMA OthersStay ==
  ASSUME NEW u, CardOf(u),
         at'[u] = at[u], cur'[u] = cur[u], todo'[u] = todo[u], ok'[u] = ok[u],
         trace'[u] = trace[u], got'[u] = got[u], u \in disturbed => u \in disturbed',
         file = "magic" /\ at[u] = "handler" /\ todo[u] = CardRead1 =>
           file' = "magic" \/ u \in disturbed'
  PROVE  CardOf(u)'
<1>1. Card(u)' <=> Card(u)
  <2>1. Func' = Func BY DEF Func
  <2>. QED BY <2>1 DEF Card
<1>2. Result(u)' = Result(u) BY DEF Result, Last
<1>3. Done(u)' <=> Done(u) BY DEF Done
<1>4. AllGood(trace[u])' <=> AllGood(trace[u]) BY DEF AllGood
<1>. QED BY <1>1, <1>2, <1>3, <1>4 DEF CardOf

LEMMA CardStays ==
  ASSUME NEW t, cur'[t] = cur[t]
  PROVE  Card(t)' <=> Card(t)
<1>1. Func' = Func BY DEF Func
<1>. QED BY <1>1 DEF Card

\* A step that adds one entry to the trace.
LEMMA NoteAdds ==
  ASSUME IInv, NEW t \in Thread, NEW what, NEW to, NEW good \in BOOLEAN,
         Note(t, what, to, good)
  PROVE  /\ Len(trace[t]) \in Nat /\ Len(trace'[t]) = Len(trace[t]) + 1
         /\ DOMAIN trace[t] = 1 .. Len(trace[t]) /\ DOMAIN trace'[t] = 1 .. Len(trace'[t])
         /\ \A i \in 1 .. Len(trace[t]) : trace'[t][i] = trace[t][i]
         /\ trace'[t][Len(trace'[t])].what = what
         /\ trace'[t][Len(trace'[t])].ok <=> good
         /\ \A u \in Thread \ {t} : trace'[u] = trace[u]
<1> DEFINE old == trace[t]
           e == [what |-> what, to |-> to, ok |-> good]
           new == Append(old, e)
<1>1. trace' = [trace EXCEPT ![t] = new] BY DEF Note
<1>2. Len(old) \in Nat /\ DOMAIN old = 1 .. Len(old) /\ DOMAIN trace = Thread
  BY DEF IInv, Shape
<1>3. e.ok = good /\ e.what = what OBVIOUS
<1> HIDE DEF e, old
<1>4. /\ Len(new) = Len(old) + 1 /\ DOMAIN new = 1 .. Len(old) + 1
      /\ \A i \in 1 .. Len(old) : new[i] = old[i]
      /\ new[Len(old) + 1] = e
  BY <1>2
<1> HIDE DEF new
<1>5. trace'[t] = new /\ \A u \in Thread \ {t} : trace'[u] = trace[u] BY <1>1, <1>2
<1>. QED BY <1>2, <1>3, <1>4, <1>5 DEF old

LEMMA SaidAdds ==
  ASSUME IInv, NEW t \in Thread, NEW line, Said(t, <<line>>)
  PROVE  /\ Len(trace[t]) \in Nat /\ Len(trace'[t]) = Len(trace[t]) + 1
         /\ DOMAIN trace[t] = 1 .. Len(trace[t]) /\ DOMAIN trace'[t] = 1 .. Len(trace'[t])
         /\ \A i \in 1 .. Len(trace[t]) : trace'[t][i] = trace[t][i]
         /\ trace'[t][Len(trace'[t])].what = line
         /\ trace'[t][Len(trace'[t])].ok
         /\ \A u \in Thread \ {t} : trace'[u] = trace[u]
<1> DEFINE old == trace[t]
           s == [i \in DOMAIN <<line>> |-> [what |-> <<line>>[i], to |-> Dest(t), ok |-> TRUE]]
           new == old \o s
<1>1. trace' = [trace EXCEPT ![t] = new] BY DEF Said
<1>2. Len(old) \in Nat /\ DOMAIN old = 1 .. Len(old) /\ DOMAIN trace = Thread
  BY DEF IInv, Shape
<1>3. Len(s) = 1 /\ DOMAIN s = 1 .. 1 /\ s[1].what = line /\ s[1].ok OBVIOUS
<1> HIDE DEF s
<1>4. new = [i \in 1 .. (Len(old) + Len(s)) |-> IF i <= Len(old) THEN old[i] ELSE s[i - Len(old)]]
  OBVIOUS
<1> HIDE DEF old
<1>5. /\ Len(new) = Len(old) + 1 /\ DOMAIN new = 1 .. Len(old) + 1
      /\ \A i \in 1 .. Len(old) : new[i] = old[i]
      /\ new[Len(old) + 1] = s[1]
  BY <1>2, <1>3, <1>4
<1> HIDE DEF new
<1>6. trace'[t] = new /\ \A u \in Thread \ {t} : trace'[u] = trace[u] BY <1>1, <1>2
<1>. QED BY <1>2, <1>3, <1>5, <1>6 DEF old

LEMMA NoteIs ==
  ASSUME IInv, NEW t \in Thread, NEW what, NEW to, NEW good \in BOOLEAN,
         Note(t, what, to, good)
  PROVE  /\ AllGood(trace'[t]) <=> AllGood(trace[t]) /\ good
         /\ \A u \in Thread \ {t} : trace'[u] = trace[u]
<1> DEFINE k == Len(trace[t])
<1>1. k \in Nat /\ Len(trace'[t]) = k + 1 BY NoteAdds
<1>2. \A i \in 1 .. k + 1 : i \in 1 .. k \/ i = k + 1 BY <1>1
<1>3. \A i \in 1 .. k : i \in 1 .. k + 1 BY <1>1
<1>4. k + 1 \in 1 .. k + 1 BY <1>1
<1>. QED BY <1>1, <1>2, <1>3, <1>4, NoteAdds DEF AllGood

LEMMA SaidIs ==
  ASSUME IInv, NEW t \in Thread, NEW line, Said(t, <<line>>)
  PROVE  /\ AllGood(trace'[t]) <=> AllGood(trace[t])
         /\ \A u \in Thread \ {t} : trace'[u] = trace[u]
         /\ Last(trace'[t]).what = line
<1> DEFINE k == Len(trace[t])
<1>1. k \in Nat /\ Len(trace'[t]) = k + 1 BY SaidAdds
<1>2. \A i \in 1 .. k + 1 : i \in 1 .. k \/ i = k + 1 BY <1>1
<1>3. \A i \in 1 .. k : i \in 1 .. k + 1 BY <1>1
<1>4. AllGood(trace'[t]) <=> AllGood(trace[t]) BY <1>1, <1>2, <1>3, SaidAdds DEF AllGood
<1>. QED BY <1>4, SaidAdds DEF Last

LEMMA CardInit == Init => CardInv
BY DEF Init, Started, CardInv, CardOf, Done

\* Everybody but t stays as it is; what is left to show is about t.
LEMMA OnlyOne ==
  ASSUME WorkInv, CardInv, NEW t \in Thread, NEW place, NEW value \in BOOLEAN,
         at' = [at EXCEPT ![t] = place], cur' = cur,
         \A u \in Thread \ {t} : todo'[u] = todo[u] /\ trace'[u] = trace[u],
         ok' = [ok EXCEPT ![t] = value],
         DOMAIN got' = Thread, \A u \in Thread \ {t} : got'[u] = got[u],
         \A u \in Thread : u \in disturbed => u \in disturbed',
         \A u \in Thread \ {t} : file = "magic" /\ at[u] = "handler" /\ todo[u] = CardRead1 =>
           file' = "magic" \/ u \in disturbed',
         at'[t] = place /\ ok'[t] = value => CardOf(t)'
  PROVE  CardInv'
<1>1. at \in [Thread -> Places] /\ ok \in [Thread -> BOOLEAN] BY DEF WorkInv, WorkShape, CardInv
<1>2. at'[t] = place /\ ok'[t] = value /\ ok' \in [Thread -> BOOLEAN] BY <1>1
<1>3. ASSUME NEW u \in Thread \ {t} PROVE CardOf(u)'
  <2>1. at'[u] = at[u] /\ ok'[u] = ok[u] /\ cur'[u] = cur[u] BY <1>1
  <2>2. CardOf(u) BY DEF CardInv
  <2>. QED BY <2>1, <2>2, OthersStay
<1>. QED BY <1>2, <1>3 DEF CardInv

\* A handler whose next step is not one of the test is not the test's.
LEMMA NotTheCard ==
  ASSUME CardInv, NEW t \in Thread, at[t] = "handler", todo[t] # <<>>, Head(todo[t]).do # "card"
  PROVE  ~Card(t)
<1>1. \A s : Step("card", s).do = "card" BY DEF Step
<1>2. Head(CardProg).do = "card" /\ Head(CardWrite1).do = "card" /\ Head(CardRead1).do = "card"
  BY <1>1 DEF CardProg, CardWrite1, CardRead1
<1>3. Card(t) => todo[t] \in CardRests BY DEF CardInv, CardOf
<1>. QED BY <1>2, <1>3 DEF CardRests

LEMMA CardRestsFacts ==
  /\ CardProg # <<>> /\ CardWrite1 # <<>> /\ CardRead1 # <<>>
  /\ CardProg # CardRead1 /\ CardWrite1 # CardRead1
  /\ Tail(CardProg) = CardWrite1 /\ Tail(CardWrite1) = CardRead1 /\ Tail(CardRead1) = <<>>
  /\ Head(CardProg).do = "card" /\ Head(CardProg).what = "fopen"
  /\ Head(CardWrite1).do = "card" /\ Head(CardWrite1).what = "fwrite"
  /\ Head(CardRead1).do = "card" /\ Head(CardRead1).what = "fread"
<1>1. Len(CardProg) = 3 /\ Len(CardWrite1) = 2 /\ Len(CardRead1) = 1
  BY DEF CardProg, CardWrite1, CardRead1
<1>2. Tail(CardProg) = CardWrite1 /\ Tail(CardWrite1) = CardRead1 /\ Tail(CardRead1) = <<>>
  BY DEF CardProg, CardWrite1, CardRead1
<1>3. \A s : Step("card", s).do = "card" /\ Step("card", s).what = s BY DEF Step
<1>4. /\ Head(CardProg) = Step("card", "fopen") /\ Head(CardWrite1) = Step("card", "fwrite")
      /\ Head(CardRead1) = Step("card", "fread")
  BY DEF CardProg, CardWrite1, CardRead1
<1>5. Len(<<>>) = 0 OBVIOUS
<1> DEFINE p == CardProg
           w == CardWrite1
           r == CardRead1
<1>6. p # <<>> /\ w # <<>> /\ r # <<>> /\ p # r /\ w # r BY <1>1, <1>5
<1>. QED BY <1>2, <1>3, <1>4, <1>6

\* A step of a handler that has nothing to do with the card.
LEMMA OtherStep ==
  ASSUME IInv, WorkInv, CardInv, NEW t \in Thread, NEW do, Next1(t, do), do # "card",
         Proceed(t) \/ Abort(t), cur' = cur, file' = file, disturbed' = disturbed, got' = got,
         NEW what, NEW to, NEW good \in BOOLEAN, Note(t, what, to, good)
  PROVE  CardInv'
<1>1. at[t] = "handler" /\ todo[t] # <<>> /\ Head(todo[t]).do # "card" BY DEF Next1
<1>2. ~Card(t)' BY <1>1, NotTheCard, CardStays
<1>3. \A u \in Thread \ {t} : trace'[u] = trace[u] BY NoteIs
<1>4. /\ DOMAIN todo = Thread /\ at \in [Thread -> Places] /\ ok \in [Thread -> BOOLEAN]
      /\ DOMAIN got' = Thread /\ \A u \in Thread \ {t} : got'[u] = got[u]
  BY DEF WorkInv, WorkShape, CardInv
<1>5. CASE Proceed(t)
  <2>0. at = [at EXCEPT ![t] = at[t]] /\ ok = [ok EXCEPT ![t] = ok[t]] /\ ok[t] \in BOOLEAN
    BY <1>4
  <2>1. at' = [at EXCEPT ![t] = "handler"] /\ ok' = [ok EXCEPT ![t] = ok[t]]
    BY <1>1, <1>5, <2>0 DEF Proceed
  <2>2. \A u \in Thread \ {t} : todo'[u] = todo[u] BY <1>4, <1>5 DEF Proceed
  <2>3. at'[t] = "handler" => CardOf(t)' BY <1>2 DEF CardOf, Done
  <2>. QED BY <1>3, <1>4, <2>0, <2>1, <2>2, <2>3, OnlyOne
<1>6. CASE Abort(t)
  <2>1. at' = [at EXCEPT ![t] = "status"] /\ \E b \in BOOLEAN : ~b /\ ok' = [ok EXCEPT ![t] = b]
    BY <1>6, Zenon DEF Abort
  <2>2. \A u \in Thread \ {t} : todo'[u] = todo[u] BY <1>4, <1>6 DEF Abort
  <2>3. at'[t] = "status" => CardOf(t)' BY <1>2 DEF CardOf, Done
  <2>. QED BY <1>3, <1>4, <2>1, <2>2, <2>3, OnlyOne
<1>. QED BY <1>5, <1>6

\* The three operations of the test: a failing one ends the test with an error.
LEMMA CardFails ==
  ASSUME IInv, WorkInv, CardInv, NEW t \in Thread, at[t] = "handler", Abort(t),
         cur' = cur, file' = file, disturbed' = disturbed,
         DOMAIN got' = Thread, \A u \in Thread \ {t} : got'[u] = got[u],
         NEW what, NEW to, NEW good \in BOOLEAN, Note(t, what, to, good),
         Card(t) /\ good => got'[t] = "other",
         Card(t) /\ got'[t] = "end" => t \in disturbed
  PROVE  CardInv'
<1>1. \A u \in Thread \ {t} : trace'[u] = trace[u] BY NoteIs
<1>2. AllGood(trace'[t]) => good BY NoteIs
<1>3. DOMAIN todo = Thread /\ at \in [Thread -> Places] /\ ok \in [Thread -> BOOLEAN]
  BY DEF WorkInv, WorkShape, CardInv
<1>4. PICK b \in BOOLEAN : ~b /\ ok' = [ok EXCEPT ![t] = b] BY Zenon DEF Abort
<1>5. at' = [at EXCEPT ![t] = "status"] /\ \A u \in Thread \ {t} : todo'[u] = todo[u]
  BY <1>3 DEF Abort
<1>6. at'[t] = "status" /\ ok'[t] = b => CardOf(t)'
  <2>1. Card(t)' <=> Card(t) BY CardStays
  <2>2. at'[t] = "status" /\ ok'[t] = b =>
          /\ ~ok'[t]
          /\ Card(t)' => ~AllGood(trace'[t]) \/ got'[t] = "other"
          /\ Card(t)' /\ got'[t] = "end" => t \in disturbed'
    BY <1>2, <1>4, <2>1
  <2>. QED BY <2>2 DEF CardOf, Done, AllGood
<1>. QED BY <1>1, <1>4, <1>5, <1>6, OnlyOne

\* One that succeeds goes on with the test.
LEMMA CardGoesOn ==
  ASSUME IInv, WorkInv, CardInv, NEW t \in Thread, at[t] = "handler", todo[t] # <<>>,
         Proceed(t), cur' = cur,
         NEW what, NEW to, NEW good \in BOOLEAN, good, Note(t, what, to, good),
         \A u \in Thread : u \in disturbed => u \in disturbed',
         \A u \in Thread \ {t} : file = "magic" /\ at[u] = "handler" /\ todo[u] = CardRead1 =>
           file' = "magic" \/ u \in disturbed',
         DOMAIN got' = Thread, \A u \in Thread \ {t} : got'[u] = got[u],
         Card(t) => got'[t] = IF todo[t] = CardRead1 THEN "magic" ELSE got[t],
         Card(t) /\ todo[t] = CardWrite1 => file' = "magic"
  PROVE  CardInv'
<1>0. AllGood(trace'[t]) <=> AllGood(trace[t]) /\ good BY NoteIs
<1>2. \A u \in Thread \ {t} : trace'[u] = trace[u]
  <2>1. DOMAIN trace = Thread BY DEF IInv, Shape
  <2>. QED BY <2>1 DEF Note
<1>1. (\A u \in Thread \ {t} : trace'[u] = trace[u]) /\ (AllGood(trace[t]) => AllGood(trace'[t]))
  BY <1>0, <1>2
<1>3. DOMAIN todo = Thread /\ at \in [Thread -> Places] /\ ok \in [Thread -> BOOLEAN]
  BY DEF WorkInv, WorkShape, CardInv
<1>4. at = [at EXCEPT ![t] = at[t]] /\ ok = [ok EXCEPT ![t] = ok[t]] /\ ok[t] \in BOOLEAN
  BY <1>3
<1>5. at' = [at EXCEPT ![t] = "handler"] /\ ok' = [ok EXCEPT ![t] = ok[t]]
  BY <1>4 DEF Proceed
<1>6. todo'[t] = Tail(todo[t]) /\ \A u \in Thread \ {t} : todo'[u] = todo[u]
  BY <1>3 DEF Proceed
<1>7. at'[t] = "handler" /\ ok'[t] = ok[t] => CardOf(t)'
  <2>1. Card(t)' <=> Card(t) BY CardStays
  <2>2. Card(t) => todo[t] \in CardRests /\ ok[t] /\ AllGood(trace[t]) BY DEF CardInv, CardOf
  <2>3. Card(t) => todo'[t] \in CardRests /\ (todo'[t] = CardRead1 => todo[t] = CardWrite1)
    BY <1>6, <2>2, CardRestsFacts DEF CardRests
  <2>4. Card(t) => todo'[t] \in CardRests /\ (todo'[t] = CardRead1 => file' = "magic")
    BY <2>3
  <2>5. Card(t) => got[t] = "unread" BY DEF CardInv, CardOf
  <2>6. Card(t) => (todo'[t] = <<>> <=> todo[t] = CardRead1)
    BY <1>6, <2>2, CardRestsFacts DEF CardRests
  <2>7. Card(t) => got'[t] = IF todo'[t] = <<>> THEN "magic" ELSE "unread" BY <2>5, <2>6
  <2>. QED BY <1>1, <2>1, <2>2, <2>4, <2>7 DEF CardOf, Done, AllGood
<1>. QED BY <1>1, <1>4, <1>5, <1>6, <1>7, OnlyOne

LEMMA CardSteps ==
  ASSUME IInv, WorkInv, CardInv, NEW t \in Thread, CardOpen(t) \/ CardWrite(t) \/ CardRead(t)
  PROVE  CardInv'
<1>1. at[t] = "handler" /\ todo[t] # <<>> /\ cur' = cur
  BY DEF CardOpen, CardWrite, CardRead, Next1
<1>2. Card(t) => todo[t] \in CardRests /\ got[t] = "unread" BY <1>1 DEF CardInv, CardOf
<1>0. DOMAIN got = Thread BY DEF CardInv
<1>3. CASE CardOpen(t)
  <2>1. /\ Head(todo[t]).what = "fopen" /\ got' = got
        /\ \/ /\ file' = "empty" /\ Proceed(t)
              /\ disturbed' = disturbed \cup
                   {u \in Thread \ {t} : InCardTest(u) /\ Head(todo[u]).what # "fopen"}
              /\ \E good \in BOOLEAN : good /\ Note(t, "fopen", "board", good)
           \/ /\ UNCHANGED <<file, disturbed>> /\ Abort(t)
              /\ \E good \in BOOLEAN : ~good /\ Note(t, "fopen", "board", good)
    BY <1>3, Zenon DEF CardOpen
  <2>2. Card(t) => todo[t] # CardWrite1 /\ todo[t] # CardRead1 BY <2>1, CardRestsFacts
  <2>3. \A u \in Thread : at[u] = "handler" /\ todo[u] = CardRead1 =>
          InCardTest(u) /\ Head(todo[u]).what # "fopen"
    BY CardRestsFacts DEF InCardTest
  <2>. QED BY <1>0, <1>1, <1>2, <2>1, <2>2, <2>3, CardFails, CardGoesOn
<1>4. CASE CardWrite(t)
  <2>1. /\ Head(todo[t]).what = "fwrite" /\ disturbed' = disturbed /\ got' = got
        /\ \/ /\ file' = "magic" /\ Proceed(t)
              /\ \E good \in BOOLEAN : good /\ Note(t, "fwrite", "board", good)
           \/ /\ file' = file /\ Abort(t)
              /\ \E good \in BOOLEAN : ~good /\ Note(t, "fwrite", "board", good)
    BY <1>4, Zenon DEF CardWrite
  <2>2. Card(t) => todo[t] # CardRead1 BY <2>1, CardRestsFacts
  <2>. QED BY <1>0, <1>1, <1>2, <2>1, <2>2, CardFails, CardGoesOn
<1>5. CASE CardRead(t)
  <2>1. /\ Head(todo[t]).what = "fread" /\ file' = file /\ disturbed' = disturbed
    BY <1>5 DEF CardRead
  <2>2. PICK bytes \in FreadGives :
             /\ got' = [got EXCEPT ![t] = bytes]
             /\ IF bytes = "magic" THEN Proceed(t) ELSE Abort(t)
             /\ Note(t, "fread", "board", bytes \in ReadInFull)
    BY <1>5 DEF CardRead
  <2>3. PICK good \in BOOLEAN : (good <=> bytes \in ReadInFull) /\ Note(t, "fread", "board", good)
    <3>1. (bytes \in ReadInFull) \in BOOLEAN OBVIOUS
    <3>. QED BY <2>2, <3>1, Zenon
  <2>4. Card(t) => todo[t] = CardRead1 BY <1>1, <1>2, <2>1, CardRestsFacts DEF CardRests
  <2>5. Card(t) /\ file # "magic" => t \in disturbed BY <1>1, <2>4 DEF CardInv, CardOf
  <2>6. Card(t) => todo[t] # CardWrite1 BY <2>4, CardRestsFacts
  <2>7. /\ DOMAIN got' = Thread /\ got'[t] = bytes
        /\ \A u \in Thread \ {t} : got'[u] = got[u]
    BY <1>0, <2>2
  <2>8. CASE bytes = "magic"
    <3>1. Proceed(t) /\ good BY <2>2, <2>3, <2>8 DEF ReadInFull
    <3>. QED BY <1>1, <2>1, <2>3, <2>4, <2>6, <2>7, <2>8, <3>1, CardGoesOn
  <2>9. CASE bytes # "magic"
    <3>1. Abort(t) BY <2>2, <2>9
    <3>2. good => bytes = "other" BY <2>3, <2>9 DEF ReadInFull
    <3>3. bytes = "end" => file # "magic" BY DEF FreadGives
    <3>. QED BY <1>1, <2>1, <2>3, <2>5, <2>7, <3>1, <3>2, <3>3, CardFails
  <2>. QED BY <2>8, <2>9
<1>. QED BY <1>3, <1>4, <1>5

LEMMA CardProcess ==
  ASSUME IInv, WorkInv, CardInv, NEW t \in Thread, CmdProcessHandle(t)
  PROVE  CardInv'
<1> DEFINE f == Func[cur[t]]
<1>1. /\ at[t] = "dispatch" /\ cur' = cur /\ trace' = trace /\ UNCHANGED <<file, disturbed, got>>
      /\ cur[t] \in Request
  BY DEF CmdProcessHandle, camera, WorkInv, WorkShape
<1>2. DOMAIN todo = Thread /\ at \in [Thread -> Places] /\ ok \in [Thread -> BOOLEAN]
  BY DEF WorkInv, WorkShape, CardInv
<1>3. trace[t] = <<>> /\ ok[t] /\ got'[t] = "unread" BY <1>1 DEF CardInv, CardOf
<1>0. DOMAIN got' = Thread BY <1>1 DEF CardInv
<1>4. AllGood(trace'[t])
  <2>1. DOMAIN trace'[t] = {} BY <1>1, <1>3
  <2>. QED BY <2>1 DEF AllGood
<1>5. Card(t)' <=> f = "TestTfcardHandle" BY <1>1, CardStays DEF Card
<1>6. ok = [ok EXCEPT ![t] = ok[t]] /\ ok[t] \in BOOLEAN BY <1>2
<1>7. CASE f = NULL /\ at' = [at EXCEPT ![t] = "not_found"] /\ UNCHANGED <<todo, ok>>
  <2>1. at'[t] = "not_found" => CardOf(t)' BY <1>3 DEF CardOf, Done
  <2>. QED BY <1>0, <1>1, <1>6, <1>7, <2>1, OnlyOne
<1>8. CASE ~Accepts(f, cur[t].head, cur[t].args) /\ at' = [at EXCEPT ![t] = "status"]
           /\ ok' = [ok EXCEPT ![t] = FALSE] /\ UNCHANGED todo
  <2>1. f # "TestTfcardHandle" BY <1>1, <1>8, CardHandler
  <2>2. PICK b \in BOOLEAN : ok' = [ok EXCEPT ![t] = b] BY <1>8, Zenon
  <2> HIDE DEF f
  <2>3. at'[t] = "status" => CardOf(t)' BY <1>5, <2>1 DEF CardOf, Done
  <2>. QED BY <1>0, <1>1, <1>8, <2>2, <2>3, OnlyOne
<1>9. CASE at' = [at EXCEPT ![t] = "handler"] /\ UNCHANGED ok
           /\ todo' = [todo EXCEPT ![t] = Handlers[f].prog]
  <2>1. f = "TestTfcardHandle" => Handlers[f].prog = CardProg BY CardHandler
  <2> HIDE DEF f
  <2>2. todo'[t] = Handlers[f].prog /\ \A u \in Thread \ {t} : todo'[u] = todo[u]
    BY <1>2, <1>9
  <2>3. Card(t)' => todo'[t] \in CardRests /\ todo'[t] # CardRead1 /\ todo'[t] # <<>>
    BY <1>5, <2>1, <2>2, CardRestsFacts DEF CardRests
  <2>4. ok' = [ok EXCEPT ![t] = ok[t]] BY <1>6, <1>9
  <2>5. at'[t] = "handler" /\ ok'[t] = ok[t] => CardOf(t)'
    BY <1>3, <1>4, <2>3 DEF CardOf, Done, AllGood
  <2>. QED BY <1>0, <1>1, <1>6, <1>9, <2>2, <2>4, <2>5, OnlyOne
<1>. QED BY <1>7, <1>8, <1>9 DEF CmdProcessHandle

\* Said and done: the verdict is "success" exactly when the handler returned
\* RET_OK.
LEMMA CardAnswer ==
  ASSUME IInv, WorkInv, CardInv, NEW t \in Thread, Explain1(t) \/ Answer(t)
  PROVE  CardInv'
<1>1. cur' = cur /\ todo' = todo /\ ok' = ok /\ UNCHANGED <<file, disturbed, got>>
  BY DEF Explain1, Answer, camera
<1>2. at \in [Thread -> Places] /\ ok \in [Thread -> BOOLEAN] /\ DOMAIN got = Thread
  BY DEF WorkInv, WorkShape, CardInv
<1>3. ok' = [ok EXCEPT ![t] = ok[t]] /\ ok[t] \in BOOLEAN BY <1>1, <1>2
<1>4. Card(t)' <=> Card(t) BY <1>1, CardStays
<1>5. at[t] \in {"status", "explained"} /\ Card(t) =>
        /\ ok[t] => AllGood(trace[t]) /\ got[t] = "magic"
        /\ ~ok[t] => ~AllGood(trace[t]) \/ got[t] = "other"
        /\ got[t] = "end" => t \in disturbed
  BY DEF CardInv, CardOf
<1>8. at[t] = "not_found" => got[t] = "unread" BY DEF CardInv, CardOf
<1>6. CASE Explain1(t)
  <2>1. /\ at[t] = "status" /\ at' = [at EXCEPT ![t] = "explained"]
        /\ Said(t, <<"explanation">>)
    BY <1>6 DEF Explain1, Goto
  <2>2. (\A u \in Thread \ {t} : trace'[u] = trace[u]) /\ (AllGood(trace'[t]) <=> AllGood(trace[t]))
    BY <2>1, SaidIs
  <2>3. at'[t] = "explained" => CardOf(t)'
    BY <1>1, <1>4, <1>5, <2>1, <2>2 DEF CardOf, Done, AllGood
  <2>. QED BY <1>1, <1>2, <1>3, <2>1, <2>2, <2>3, OnlyOne
<1>7. CASE Answer(t)
  <2> DEFINE line == Verdict(t)
  <2>1. /\ at[t] \in {"status", "explained", "not_found"}
        /\ at' = [at EXCEPT ![t] = "recv"] /\ Said(t, <<line>>)
    BY <1>7 DEF Answer
  <2>2. /\ line = "success" => at[t] # "not_found" /\ ok[t]
        /\ line = "fail" => at[t] # "not_found" /\ ~ok[t]
    BY DEF Verdict
  <2> HIDE DEF line
  <2>3. /\ \A u \in Thread \ {t} : trace'[u] = trace[u]
        /\ AllGood(trace'[t]) <=> AllGood(trace[t])
        /\ Last(trace'[t]).what = line
    BY <2>1, SaidIs
  <2>4. Result(t)' = line BY <2>3 DEF Result, Last
  <2>5. AllGood(trace[t])' <=> AllGood(trace[t]) BY <2>3 DEF AllGood
  <2>6. at'[t] = "recv" => CardOf(t)'
    <3>1. Card(t)' => /\ line = "success" => AllGood(trace[t])' /\ got'[t] = "magic"
                      /\ line = "fail" => ~AllGood(trace[t])' \/ got'[t] = "other"
                      /\ got'[t] = "end" => t \in disturbed'
      BY <1>1, <1>4, <1>5, <1>8, <2>1, <2>2, <2>5
    <3>. QED BY <2>4, <3>1 DEF CardOf
  <2>. QED BY <1>1, <1>2, <1>3, <2>1, <2>3, <2>6, OnlyOne
<1>. QED BY <1>6, <1>7

LEMMA CardHandle ==
  ASSUME IInv, WorkInv, CardInv, NEW t \in Thread, Handle(t)
  PROVE  CardInv'
<1>0. /\ DOMAIN todo = Thread /\ at \in [Thread -> Places]
      /\ ok = [ok EXCEPT ![t] = ok[t]] /\ ok[t] \in BOOLEAN /\ DOMAIN got = Thread
  BY DEF WorkInv, WorkShape, CardInv
<1>1. CASE StartThread(t)
  <2>1. at[t] = "none" /\ UNCHANGED <<cur, todo, ok, trace, file, disturbed, got>>
    BY <1>1 DEF StartThread, Goto, camera
  <2>2. PICK place \in {"recv", "ended"} : at' = [at EXCEPT ![t] = place]
    BY <1>1 DEF StartThread, Goto
  <2>3. cur'[t] = NULL BY <2>1 DEF CardInv, CardOf
  <2>4. at'[t] = place => CardOf(t)' BY <2>3 DEF CardOf, Done
  <2>. QED BY <1>0, <2>1, <2>2, <2>4, OnlyOne
<1>2. CASE HandlerReturns(t)
  <2>1. /\ at[t] = "handler" /\ at' = [at EXCEPT ![t] = "status"]
        /\ UNCHANGED <<cur, todo, ok, trace, file, disturbed, got>>
    BY <1>2 DEF HandlerReturns, Goto, camera
  <2>2. Card(t)' <=> Card(t) BY <2>1, CardStays
  <2>3. Card(t) => ok[t] /\ AllGood(trace[t]) /\ got[t] = "magic"
    BY <1>2, <2>1 DEF CardInv, CardOf, HandlerReturns
  <2>4. at'[t] = "status" => CardOf(t)' BY <2>1, <2>2, <2>3 DEF CardOf, Done, AllGood
  <2>. QED BY <1>0, <2>1, <2>4, OnlyOne
<1>3. CASE DoCall(t)
  <2>1. PICK good \in BOOLEAN : Note(t, Head(todo[t]).what, "board", good)
    BY <1>3, Zenon DEF DoCall
  <2>2. PICK do \in {"call", "explain"} : Next1(t, do) BY <1>3 DEF DoCall
  <2>3. (Proceed(t) \/ Abort(t)) /\ UNCHANGED <<cur, file, disturbed, got>> BY <1>3 DEF DoCall, camera
  <2>. QED BY <2>1, <2>2, <2>3, OtherStep
<1>4. CASE DoTry(t) \/ DoSay(t) \/ DoReboot(t)
  <2>1. PICK what, to : \E good \in BOOLEAN : Note(t, what, to, good)
    BY <1>4, Zenon DEF DoTry, DoSay, DoReboot
  <2>2. PICK good \in BOOLEAN : Note(t, what, to, good) BY <2>1
  <2>3. PICK do \in {"try", "say", "reboot"} : Next1(t, do) BY <1>4 DEF DoTry, DoSay, DoReboot
  <2>4. Proceed(t) /\ UNCHANGED <<cur, file, disturbed, got>> BY <1>4 DEF DoTry, DoSay, DoReboot, camera
  <2>. QED BY <2>2, <2>3, <2>4, OtherStep
<1>5. CASE DoWrite(t)
  <2>1. PICK good \in BOOLEAN : Note(t, Head(todo[t]).what, "board", good)
    BY <1>5, Zenon DEF DoWrite
  <2>2. Next1(t, "write") /\ (Proceed(t) \/ Abort(t)) /\ UNCHANGED <<cur, file, disturbed, got>>
    BY <1>5 DEF DoWrite
  <2>. QED BY <2>1, <2>2, OtherStep
<1>. QED BY <1>1, <1>2, <1>3, <1>4, <1>5, CardProcess, CardSteps, CardAnswer DEF Handle

LEMMA CardStep == IInv /\ WorkInv /\ CardInv /\ [Next]_vars => CardInv'
<1> SUFFICES ASSUME IInv, WorkInv, CardInv, [Next]_vars PROVE CardInv' OBVIOUS
<1>0. DOMAIN todo = Thread /\ DOMAIN cur = Thread /\ at \in [Thread -> Places]
      /\ ok \in [Thread -> BOOLEAN] /\ DOMAIN trace = Thread /\ DOMAIN got = Thread
  BY DEF IInv, Shape, WorkInv, WorkShape, CardInv
<1>1. ASSUME UNCHANGED <<work, camera>> PROVE CardInv'
  <2>1. UNCHANGED <<at, cur, todo, ok, trace, file, disturbed, got>> BY <1>1 DEF work, camera
  <2>2. ASSUME NEW u \in Thread PROVE CardOf(u)'
    <3>1. CardOf(u) BY DEF CardInv
    <3>. QED BY <2>1, <3>1, OthersStay
  <2>. QED BY <1>0, <2>1, <2>2 DEF CardInv
<1>2. CASE UNCHANGED vars BY <1>1, <1>2 DEF vars
<1>3. ASSUME NEW t \in Thread, Handle(t) PROVE CardInv' BY <1>3, CardHandle
<1>4. ASSUME NEW r \in Request, UartRecv(r) \/ UdpRecv(r) PROVE CardInv'
  <2>1. PICK t \in Thread : Take(t, r) BY <1>4 DEF UartRecv, UdpRecv, Thread
  <2>2. /\ at' = [at EXCEPT ![t] = "dispatch"] /\ cur' = [cur EXCEPT ![t] = r]
        /\ trace' = [trace EXCEPT ![t] = <<>>] /\ ok' = [ok EXCEPT ![t] = TRUE]
        /\ disturbed' = disturbed \ {t} /\ got' = [got EXCEPT ![t] = "unread"]
        /\ UNCHANGED <<todo, file>>
    BY <2>1 DEF Take, Goto
  <2>3. \A u \in Thread \ {t} : /\ at'[u] = at[u] /\ cur'[u] = cur[u] /\ ok'[u] = ok[u]
                                /\ trace'[u] = trace[u] /\ got'[u] = got[u]
                                /\ (u \in disturbed => u \in disturbed')
    BY <1>0, <2>2
  <2>4. /\ at'[t] = "dispatch" /\ trace'[t] = <<>> /\ ok'[t] /\ got'[t] = "unread"
        /\ ok' \in [Thread -> BOOLEAN] /\ DOMAIN got' = Thread
    BY <1>0, <2>2
  <2>5. CardOf(t)' BY <2>4 DEF CardOf, Done
  <2>6. ASSUME NEW u \in Thread \ {t} PROVE CardOf(u)'
    <3>1. CardOf(u) BY DEF CardInv
    <3>. QED BY <2>2, <2>3, <3>1, OthersStay
  <2>. QED BY <2>4, <2>5, <2>6 DEF CardInv
<1>5. ASSUME NEW c \in Client, UdpIgnore(c) PROVE CardInv'
  BY <1>1, <1>5 DEF UdpIgnore
<1>6. CASE Restart
  <2>1. /\ at' = Started /\ cur' = [t \in Thread |-> NULL] /\ ok' = [t \in Thread |-> TRUE]
        /\ got' = [t \in Thread |-> "unread"]
    BY <1>6 DEF Restart
  <2>. QED BY <2>1 DEF Started, CardInv, CardOf, Done
<1>. QED BY <1>2, <1>3, <1>4, <1>5, <1>6 DEF Next

\* For any commands, overlapping in the two threads and cut short by restarts:
\* the verdict on the memory card is "success" only when each operation of the
\* test succeeded and the card gave back what was written, and "fail" only when
\* an operation failed or the card gave back other bytes; that it gave back
\* nothing counts only against a test in the middle of which the other thread
\* opened the file (TestTfcardHandle).
THEOREM CardVerdictIsTrue == Spec => []TfTestTruthful
<1>1. CardInv => TfTestTruthful
  <2> SUFFICES ASSUME CardInv, NEW t \in Thread, Done(t), Func[cur[t]] = "TestTfcardHandle"
               PROVE  LET failed == \E i \in DOMAIN trace[t] : ~trace[t][i].ok IN
                        /\ Result(t) = "success" => ~failed /\ got[t] = "magic"
                        /\ Result(t) = "fail" => failed \/ got[t] = "other"
                        /\ got[t] = "end" => t \in disturbed
    BY DEF TfTestTruthful
  <2>1. CardOf(t) /\ Card(t) BY DEF CardInv, Card
  <2>. QED BY <2>1 DEF CardOf, AllGood
<1>. QED BY Initially, Inductive, WorkInit, WorkStep, CardInit, CardStep, <1>1, PTL DEF Spec

-----------------------------------------------------------------------------
(* The verdict *)

Spoken == Verdicts \cup {"explanation"}

\* No step of p is named like something that is said about the command.
Quiet(s) == s.what \notin Spoken
IsQuiet(p) == \E S : p \in Seq(S) /\ \A s \in S : Quiet(s)

LEMMA ShortQuiet ==
  /\ \A a : Quiet(a) => IsQuiet(<<a>>)
  /\ \A a, b : Quiet(a) /\ Quiet(b) => IsQuiet(<<a, b>>)
  /\ \A a, b, c : Quiet(a) /\ Quiet(b) /\ Quiet(c) => IsQuiet(<<a, b, c>>)
  /\ \A a, b, c, d :
       Quiet(a) /\ Quiet(b) /\ Quiet(c) /\ Quiet(d) => IsQuiet(<<a, b, c, d>>)
<1>1. ASSUME NEW a, NEW b, NEW c, NEW d, Quiet(a), Quiet(b), Quiet(c), Quiet(d)
      PROVE  IsQuiet(<<a>>) /\ IsQuiet(<<a, b>>) /\ IsQuiet(<<a, b, c>>) /\ IsQuiet(<<a, b, c, d>>)
  <2> DEFINE S == {a, b, c, d}
  <2>1. /\ \A s \in S : Quiet(s)
        /\ <<a>> \in Seq(S) /\ <<a, b>> \in Seq(S) /\ <<a, b, c>> \in Seq(S)
        /\ <<a, b, c, d>> \in Seq(S)
    BY <1>1
  <2> HIDE DEF S
  <2>. QED BY <2>1 DEF IsQuiet
<1>. QED BY <1>1

LEMMA StepsAreQuiet ==
  \A w : w \notin Spoken =>
    /\ Quiet(Call(w)) /\ Quiet(Try(w)) /\ Quiet(Write(w)) /\ Quiet(Say(w)) /\ Quiet(Explain(w))
    /\ Quiet(Step("card", w)) /\ Quiet(Step("reboot", w))
BY DEF Quiet, Call, Try, Write, Say, Explain, Step

LEMMA GroupsQuiet ==
  \A g \in HandlerGroups : \A f \in DOMAIN g : IsQuiet(g[f].prog)
<1>1. Spoken = {"success", "fail", "cmd_not_found", "explanation"} BY DEF Spoken, Verdicts
<1>2. \A f \in DOMAIN VersionHandlers : IsQuiet(VersionHandlers[f].prog)
  BY <1>1, ShortQuiet, StepsAreQuiet DEF VersionHandlers, Handler
<1>3. \A f \in DOMAIN SnHandlers : IsQuiet(SnHandlers[f].prog)
  BY <1>1, ShortQuiet, StepsAreQuiet DEF SnHandlers, Handler
<1>4. \A f \in DOMAIN WifiHandlers : IsQuiet(WifiHandlers[f].prog)
  BY <1>1, ShortQuiet, StepsAreQuiet DEF WifiHandlers, Handler
<1>5. \A f \in DOMAIN WifiTestHandlers : IsQuiet(WifiTestHandlers[f].prog)
  BY <1>1, ShortQuiet, StepsAreQuiet DEF WifiTestHandlers, Handler
<1>6. \A f \in DOMAIN PtzHandlers : IsQuiet(PtzHandlers[f].prog)
  BY <1>1, ShortQuiet, StepsAreQuiet DEF PtzHandlers, Handler
<1>7. \A f \in DOMAIN FlagHandlers : IsQuiet(FlagHandlers[f].prog)
  BY <1>1, ShortQuiet, StepsAreQuiet DEF FlagHandlers, Handler
<1>8. \A f \in DOMAIN LightHandlers : IsQuiet(LightHandlers[f].prog)
  BY <1>1, ShortQuiet, StepsAreQuiet DEF LightHandlers, Handler
<1>9. \A f \in DOMAIN IdentityHandlers : IsQuiet(IdentityHandlers[f].prog)
  BY <1>1, ShortQuiet, StepsAreQuiet DEF IdentityHandlers, Handler
<1>10. \A f \in DOMAIN AudioHandlers : IsQuiet(AudioHandlers[f].prog)
  BY <1>1, ShortQuiet, StepsAreQuiet DEF AudioHandlers, Handler
<1>11. \A f \in DOMAIN NetHandlers : IsQuiet(NetHandlers[f].prog)
  BY <1>1, ShortQuiet, StepsAreQuiet DEF NetHandlers, Handler
<1>12. \A f \in DOMAIN HardwareHandlers : IsQuiet(HardwareHandlers[f].prog)
  BY <1>1, ShortQuiet, StepsAreQuiet DEF HardwareHandlers, Handler
<1>13. \A f \in DOMAIN MaintenanceHandlers : IsQuiet(MaintenanceHandlers[f].prog)
  BY <1>1, ShortQuiet, StepsAreQuiet DEF MaintenanceHandlers, Handler
<1>14. \A f \in DOMAIN OldHandlers : IsQuiet(OldHandlers[f].prog)
  BY <1>1, ShortQuiet, StepsAreQuiet DEF OldHandlers, Handler
<1>. QED BY <1>2, <1>3, <1>4, <1>5, <1>6, <1>7, <1>8, <1>9, <1>10, <1>11, <1>12, <1>13, <1>14
         DEF HandlerGroups

LEMMA HandlersQuiet == \A f \in DOMAIN Handlers : IsQuiet(Handlers[f].prog)
<1>1. \A f \in DOMAIN Handlers :
        LET g == CHOOSE g \in HandlerGroups : f \in DOMAIN g
        IN  g \in HandlerGroups /\ f \in DOMAIN g /\ Handlers[f] = g[f]
  BY DEF Handlers
<1>. QED BY <1>1, GroupsQuiet

LEMMA Constantly ==
  ASSUME NEW t, cur'[t] = cur[t]
  PROVE  /\ Func[cur[t]]' = Func[cur[t]]
         /\ Handlers[Func[cur[t]]]' = Handlers[Func[cur[t]]]
         /\ Accepted(t)' <=> Accepted(t)
         /\ Begun(Line(cur[t]))' <=> Begun(Line(cur[t]))
<1>1. Func[cur[t]]' = Func[cur[t]] OBVIOUS
<1>2. Handlers[Func[cur[t]]]' = Handlers[Func[cur[t]]] BY <1>1
<1>3. Accepted(t)' <=> Accepted(t) BY <1>1 DEF Accepted
<1>4. Begun(Line(cur[t]))' <=> Begun(Line(cur[t])) OBVIOUS
<1>. QED BY <1>1, <1>2, <1>3, <1>4
-----------------------------------------------------------------------------

Prog(t) == Handlers[Func[cur[t]]].prog

\* How the handler ended that is answered next: its n steps are those of its
\* program, and what it returns says how they went.
Ended(t, n) ==
  /\ cur[t] \in Request /\ Func[cur[t]] # NULL
  /\ Made(t, n)
  /\ ok[t] => Succeeded(t, n)
  /\ ~ok[t] => Failed(t, n)

Answered(t) ==
  \E n \in 0 .. Len(trace[t]) - 1 :
    /\ Made(t, n)
    /\ \A i \in n + 1 .. Len(trace[t]) - 1 : trace[t][i].what = "explanation"
    /\ Result(t) \in Verdicts
    /\ (Result(t) = "cmd_not_found") <=> ~Begun(Line(cur[t]))
    /\ Result(t) = "success" => Succeeded(t, n)
    /\ Result(t) = "fail" => Failed(t, n)

\* What a handler has made and what it has still to make are its program, and
\* nothing failed so far.
Running(t) ==
  /\ cur[t] \in Request /\ Func[cur[t]] # NULL /\ Accepted(t) /\ ok[t]
  /\ IsQuiet(todo[t])
  /\ Made(t, Len(trace[t])) /\ AllGood(trace[t])
  /\ Len(Prog(t)) = Len(trace[t]) + Len(todo[t])
  /\ \A i \in 1 .. Len(todo[t]) : todo[t][i].what = Prog(t)[Len(trace[t]) + i].what

VerdictOf(t) ==
  /\ at[t] = "handler" => Running(t)
  /\ at[t] = "status" => Ended(t, Len(trace[t]))
  /\ at[t] = "explained" =>
       /\ Len(trace[t]) > 0 /\ trace[t][Len(trace[t])].what = "explanation"
       /\ Ended(t, Len(trace[t]) - 1)
  /\ at[t] = "not_found" =>
       cur[t] \in Request /\ Func[cur[t]] = NULL /\ trace[t] = <<>>
  /\ Done(t) => Answered(t)

VerdictInv == \A t \in Thread : VerdictOf(t)

LEMMA VerdictInit == Init => VerdictInv
BY DEF Init, Started, VerdictInv, VerdictOf, Done

LEMMA VerdictStays ==
  ASSUME NEW u, VerdictOf(u), at'[u] = at[u], cur'[u] = cur[u], todo'[u] = todo[u],
         ok'[u] = ok[u], trace'[u] = trace[u]
  PROVE  VerdictOf(u)'
<1>1. /\ Func[cur[u]]' = Func[cur[u]] /\ (Accepted(u)' <=> Accepted(u))
      /\ (Begun(Line(cur[u]))' <=> Begun(Line(cur[u])))
      /\ Handlers[Func[cur[u]]]' = Handlers[Func[cur[u]]]
  BY Constantly
<1>2. Prog(u)' = Prog(u) BY <1>1 DEF Prog
<1>3. \A n : Made(u, n)' <=> Made(u, n) BY <1>1 DEF Made
<1>4. \A n : Succeeded(u, n)' <=> Succeeded(u, n) BY <1>1 DEF Succeeded
<1>5. \A n : Failed(u, n)' <=> Failed(u, n) BY <1>1 DEF Failed
<1>6. \A n : Ended(u, n)' <=> Ended(u, n) BY <1>1, <1>3, <1>4, <1>5 DEF Ended
<1>7. Result(u)' = Result(u) /\ (Done(u)' <=> Done(u)) BY DEF Result, Last, Done
<1>8. Answered(u)' <=> Answered(u) BY <1>1, <1>3, <1>4, <1>5, <1>7 DEF Answered
<1>9. Running(u)' <=> Running(u) BY <1>1, <1>2, <1>3 DEF Running, AllGood
<1>. QED BY <1>1, <1>6, <1>7, <1>8, <1>9 DEF VerdictOf

\* A step of a handler: what it did is noted under the step's name, and it
\* goes on unless the step failed, or what the card held was something else.
StepMade(t) ==
  /\ at[t] = "handler" /\ todo[t] # <<>> /\ cur' = cur
  /\ \E to : \E good \in BOOLEAN :
       /\ Note(t, Head(todo[t]).what, to, good)
       /\ \/ good /\ Proceed(t)
          \/ (~good \/ Head(todo[t]).what = "fread") /\ Abort(t)

HandlerStep(t) ==
  \/ DoCall(t) \/ DoTry(t) \/ DoSay(t) \/ DoWrite(t) \/ DoReboot(t)
  \/ CardOpen(t) \/ CardWrite(t) \/ CardRead(t)

LEMMA StepsAreMade ==
  ASSUME NEW t \in Thread, HandlerStep(t)
  PROVE  StepMade(t)
<1> DEFINE what == Head(todo[t]).what
           Good == \E to : \E good \in BOOLEAN : good /\ Note(t, what, to, good)
           Bad == \E to : \E good \in BOOLEAN : ~good /\ Note(t, what, to, good)
           Some == \E to : \E good \in BOOLEAN : Note(t, what, to, good)
<1>1. at[t] = "handler" /\ todo[t] # <<>> /\ cur' = cur
  BY DEF HandlerStep, DoCall, DoTry, DoSay, DoWrite, DoReboot, CardOpen, CardWrite, CardRead, Next1
<1>2. \/ Good /\ Proceed(t)
      \/ Bad /\ Abort(t)
      \/ what = "fread" /\ Some /\ Abort(t)
  <2>1. CASE DoCall(t) BY <2>1, Zenon DEF DoCall
  <2>2. CASE DoTry(t) BY <2>2, Zenon DEF DoTry
  <2>3. CASE DoSay(t) BY <2>3, Zenon DEF DoSay
  <2>4. CASE DoWrite(t) BY <2>4, Zenon DEF DoWrite
  <2>5. CASE DoReboot(t) BY <2>5, Zenon DEF DoReboot
  <2>6. CASE CardOpen(t)
    <3>1. what = "fopen" BY <2>6 DEF CardOpen
    <3>. QED BY <2>6, <3>1, Zenon DEF CardOpen
  <2>7. CASE CardWrite(t)
    <3>1. what = "fwrite" BY <2>7 DEF CardWrite
    <3>. QED BY <2>7, <3>1, Zenon DEF CardWrite
  <2>8. CASE CardRead(t)
    <3>1. what = "fread" BY <2>8 DEF CardRead
    <3>2. PICK bytes \in FreadGives :
            /\ IF bytes = "magic" THEN Proceed(t) ELSE Abort(t)
            /\ Note(t, what, "board", bytes \in ReadInFull)
      BY <2>8, <3>1 DEF CardRead
    <3>3. (bytes \in ReadInFull) \in BOOLEAN /\ (bytes = "magic" => bytes \in ReadInFull)
      BY DEF ReadInFull
    <3>4. Some BY <3>2, <3>3, Zenon
    <3>5. bytes = "magic" => Good BY <3>2, <3>3, Zenon
    <3>. QED BY <3>1, <3>2, <3>4, <3>5
  <2>. QED BY <2>1, <2>2, <2>3, <2>4, <2>5, <2>6, <2>7, <2>8 DEF HandlerStep
<1>. QED BY <1>1, <1>2 DEF StepMade

\* The first step of the rest, and what is left behind it.
LEMMA QuietRest ==
  ASSUME NEW p, IsQuiet(p), p # <<>>
  PROVE  /\ Len(p) \in Nat /\ Len(p) > 0 /\ Head(p) = p[1] /\ Quiet(Head(p))
         /\ IsQuiet(Tail(p)) /\ Len(Tail(p)) = Len(p) - 1
         /\ \A i \in 1 .. Len(p) - 1 : Tail(p)[i] = p[i + 1]
<1>1. PICK S : p \in Seq(S) /\ \A s \in S : Quiet(s) BY DEF IsQuiet
<1>2. Len(p) \in Nat /\ Len(p) > 0 BY <1>1
<1>3. Head(p) = p[1] /\ Head(p) \in S BY <1>1, HeadTailProperties
<1>4. Tail(p) \in Seq(S) /\ Len(Tail(p)) = Len(p) - 1
      /\ \A i \in 1 .. Len(p) - 1 : Tail(p)[i] = p[i + 1]
  BY <1>1
<1>. QED BY <1>1, <1>2, <1>3, <1>4 DEF IsQuiet

\* After one more step of the handler.
LEMMA MadeOneMore ==
  ASSUME IInv, NEW t \in Thread, Running(t), StepMade(t)
  PROVE  /\ Len(trace[t]) \in Nat /\ Len(trace'[t]) = Len(trace[t]) + 1
         /\ Made(t, Len(trace[t]))'
         /\ \A u \in Thread \ {t} : trace'[u] = trace[u]
<1> DEFINE k == Len(trace[t])
           p == todo[t]
<1>0. PICK to : \E good \in BOOLEAN : Note(t, Head(p).what, to, good) BY Zenon DEF StepMade
<1>1. PICK good \in BOOLEAN : Note(t, Head(p).what, to, good) BY <1>0
<1>2. /\ k \in Nat /\ Len(trace'[t]) = k + 1
      /\ \A i \in 1 .. k : trace'[t][i] = trace[t][i]
      /\ trace'[t][k + 1].what = Head(p).what
      /\ \A u \in Thread \ {t} : trace'[u] = trace[u]
  BY <1>1, NoteAdds
<1>3. Head(p).what \notin Spoken /\ Head(p).what = Prog(t)[k + 1].what
  <2>1. p # <<>> /\ IsQuiet(p) BY DEF Running, StepMade
  <2>2. Len(p) \in Nat /\ Len(p) > 0 /\ Head(p) = p[1] /\ Quiet(Head(p)) BY <2>1, QuietRest
  <2>3. 1 \in 1 .. Len(p) BY <2>2
  <2>4. p[1].what = Prog(t)[k + 1].what BY <2>3 DEF Running
  <2>. QED BY <2>2, <2>4 DEF Quiet
<1>4. cur'[t] = cur[t] /\ Handlers[Func[cur[t]]]' = Handlers[Func[cur[t]]]
  BY Constantly DEF StepMade
<1>5. ASSUME NEW i \in 1 .. k + 1
      PROVE  trace'[t][i].what \notin Spoken /\ trace'[t][i].what = Prog(t)[i].what
  <2>1. CASE i = k + 1 BY <1>2, <1>3, <2>1
  <2>2. CASE i # k + 1
    <3>1. i \in 1 .. k BY <1>2, <2>2
    <3>. QED BY <1>2, <3>1 DEF Running, Made, Prog, Spoken
  <2>. QED BY <2>1, <2>2
<1>6. Made(t, Len(trace[t]))' BY <1>2, <1>4, <1>5 DEF Made, Prog, Spoken
<1>. QED BY <1>2, <1>6

LEMMA StepKeepsVerdict ==
  ASSUME IInv, WorkInv, CardInv, VerdictInv, NEW t \in Thread, HandlerStep(t)
  PROVE  VerdictInv'
<1> DEFINE k == Len(trace[t])
           p == todo[t]
<1>1. StepMade(t) BY StepsAreMade
<1>2. Running(t) BY <1>1 DEF StepMade, VerdictInv, VerdictOf
<1>3. /\ k \in Nat /\ Len(trace'[t]) = k + 1 /\ Made(t, Len(trace[t]))'
      /\ \A u \in Thread \ {t} : trace'[u] = trace[u]
  BY <1>1, <1>2, MadeOneMore
<1>4. cur' = cur BY <1>1 DEF StepMade
<1>5. /\ Func[cur[t]]' = Func[cur[t]] /\ (Accepted(t)' <=> Accepted(t))
      /\ Handlers[Func[cur[t]]]' = Handlers[Func[cur[t]]]
  BY <1>4, Constantly
<1>6. Prog(t)' = Prog(t) BY <1>5 DEF Prog
<1>7. /\ at \in [Thread -> Places] /\ DOMAIN todo = Thread /\ ok \in [Thread -> BOOLEAN]
  BY DEF WorkInv, WorkShape, CardInv
<1>8. PICK to : \E good \in BOOLEAN :
        /\ Note(t, Head(p).what, to, good)
        /\ \/ good /\ Proceed(t)
           \/ (~good \/ Head(p).what = "fread") /\ Abort(t)
  BY <1>1, Zenon DEF StepMade
<1>9. PICK good \in BOOLEAN :
        /\ Note(t, Head(p).what, to, good)
        /\ \/ good /\ Proceed(t)
           \/ (~good \/ Head(p).what = "fread") /\ Abort(t)
  BY <1>8
<1>10. /\ trace'[t][k + 1].what = Head(p).what /\ (trace'[t][k + 1].ok <=> good)
       /\ (AllGood(trace'[t]) <=> AllGood(trace[t]) /\ good)
  BY <1>3, <1>9, NoteAdds, NoteIs
<1>11. ASSUME \A u \in Thread \ {t} : at'[u] = at[u] /\ todo'[u] = todo[u] /\ ok'[u] = ok[u],
              VerdictOf(t)'
       PROVE  VerdictInv'
  <2>1. ASSUME NEW u \in Thread \ {t} PROVE VerdictOf(u)'
    BY <1>3, <1>4, <1>11, VerdictStays DEF VerdictInv
  <2>. QED BY <1>11, <2>1 DEF VerdictInv
<1>12. CASE good /\ Proceed(t)
  <2>1. /\ at' = at /\ ok' = ok /\ todo'[t] = Tail(p) /\ at[t] = "handler" /\ p # <<>>
        /\ \A u \in Thread \ {t} : todo'[u] = todo[u]
    BY <1>1, <1>7, <1>12 DEF Proceed, StepMade
  <2>2. /\ Len(p) \in Nat /\ Len(p) > 0 /\ IsQuiet(Tail(p)) /\ Len(Tail(p)) = Len(p) - 1
        /\ \A i \in 1 .. Len(p) - 1 : Tail(p)[i] = p[i + 1]
    BY <1>2, <2>1, QuietRest DEF Running
  <2>3. Len(Prog(t)) = (k + 1) + Len(Tail(p))
    <3> DEFINE x == Len(p)
               y == Len(Tail(p))
               z == Len(Prog(t))
    <3>1. z = k + x BY <1>2 DEF Running
    <3>2. x \in Nat /\ y = x - 1 BY <2>2
    <3>3. k \in Nat BY <1>3
    <3> HIDE DEF k, x, y, z
    <3>4. z = (k + 1) + y BY <3>1, <3>2, <3>3
    <3>. QED BY <3>4 DEF y, z
  <2>4. ASSUME NEW i \in 1 .. Len(p) - 1
        PROVE  Tail(p)[i].what = Prog(t)[(k + 1) + i].what
    <3>1. i + 1 \in 1 .. Len(p) /\ k + (i + 1) = (k + 1) + i
      <4> HIDE DEF k, p
      <4>. QED BY <1>3, <2>2
    <3>. QED BY <1>2, <2>2, <3>1 DEF Running
  <2>5. AllGood(trace[t])'
    <3>1. AllGood(trace'[t]) BY <1>2, <1>10, <1>12 DEF Running
    <3>. QED BY <3>1 DEF AllGood
  <2>6. Running(t)'
    BY <1>2, <1>3, <1>4, <1>5, <1>6, <2>1, <2>2, <2>3, <2>4, <2>5 DEF Running
  <2>7. VerdictOf(t)' BY <2>1, <2>6 DEF VerdictOf, Done
  <2>. QED BY <1>11, <2>1, <2>7
<1>13. CASE (~good \/ Head(p).what = "fread") /\ Abort(t)
  <2>1. PICK b \in BOOLEAN : ~b /\ ok' = [ok EXCEPT ![t] = b] BY <1>13, Zenon DEF Abort
  <2>2. /\ at'[t] = "status" /\ ~ok'[t]
        /\ \A u \in Thread \ {t} : at'[u] = at[u] /\ todo'[u] = todo[u] /\ ok'[u] = ok[u]
    BY <1>7, <1>13, <2>1 DEF Abort
  <2>3. Failed(t, Len(trace[t]))' BY <1>2, <1>3, <1>5, <1>10, <1>13 DEF Failed, Running
  <2>4. Ended(t, Len(trace[t]))' BY <1>2, <1>3, <1>4, <1>5, <2>2, <2>3 DEF Ended, Running
  <2>5. VerdictOf(t)' BY <2>2, <2>4 DEF VerdictOf, Done
  <2>. QED BY <1>11, <2>2, <2>5
<1>. QED BY <1>9, <1>12, <1>13

\* The dispatch says "not found" exactly for a text that no row begins.
LEMMA FoundIfBegun ==
  ASSUME NEW r \in Request
  PROVE  Func[r] # NULL <=> Begun(Line(r))
<1>1. Matches(Line(r)) # {} <=> Begun(Line(r)) BY ToolAssumption
<1>. QED BY <1>1, FuncIs, RowsHaveHandlers, NullAssumption

LEMMA ProcessKeepsVerdict ==
  ASSUME IInv, WorkInv, CardInv, VerdictInv, NEW t \in Thread, CmdProcessHandle(t)
  PROVE  VerdictInv'
<1> DEFINE f == Func[cur[t]]
<1>1. at[t] = "dispatch" /\ cur' = cur /\ trace' = trace BY DEF CmdProcessHandle
<1>2. /\ cur[t] \in Request /\ trace[t] = <<>> /\ ok[t]
      /\ at \in [Thread -> Places] /\ DOMAIN todo = Thread /\ ok \in [Thread -> BOOLEAN]
  BY <1>1 DEF WorkInv, WorkShape, CardInv, CardOf
<1>3. /\ Func[cur[t]]' = Func[cur[t]] /\ (Accepted(t)' <=> Accepted(t))
      /\ Handlers[Func[cur[t]]]' = Handlers[Func[cur[t]]]
  BY <1>1, Constantly
<1>4. Len(trace[t]) = 0 /\ Len(trace'[t]) = 0 /\ DOMAIN trace'[t] = {} BY <1>1, <1>2
<1>5. ASSUME \A u \in Thread \ {t} : at'[u] = at[u] /\ todo'[u] = todo[u] /\ ok'[u] = ok[u],
             VerdictOf(t)'
      PROVE  VerdictInv'
  <2>1. ASSUME NEW u \in Thread \ {t} PROVE VerdictOf(u)'
    BY <1>1, <1>5, VerdictStays DEF VerdictInv
  <2>. QED BY <1>5, <2>1 DEF VerdictInv
<1>6. Made(t, Len(trace[t]))' BY <1>4 DEF Made
<1>7. CASE f = NULL /\ at' = [at EXCEPT ![t] = "not_found"] /\ UNCHANGED <<todo, ok>>
  <2>1. at'[t] = "not_found" /\ \A u \in Thread \ {t} : at'[u] = at[u] BY <1>2, <1>7
  <2>2. VerdictOf(t)' BY <1>1, <1>2, <1>3, <1>7, <2>1 DEF VerdictOf, Done
  <2>. QED BY <1>5, <1>7, <2>1, <2>2
<1>8. CASE /\ f # NULL /\ ~Accepted(t) /\ at' = [at EXCEPT ![t] = "status"]
           /\ (\E b \in BOOLEAN : ~b /\ ok' = [ok EXCEPT ![t] = b]) /\ UNCHANGED todo
  <2>1. /\ at'[t] = "status" /\ ~ok'[t]
        /\ \A u \in Thread \ {t} : at'[u] = at[u] /\ ok'[u] = ok[u]
    BY <1>2, <1>8
  <2>2. Failed(t, Len(trace[t]))' BY <1>3, <1>4, <1>8 DEF Failed
  <2>3. Ended(t, Len(trace[t]))' BY <1>1, <1>2, <1>3, <1>6, <1>8, <2>1, <2>2 DEF Ended
  <2>4. VerdictOf(t)' BY <2>1, <2>3 DEF VerdictOf, Done
  <2>. QED BY <1>5, <1>8, <2>1, <2>4
<1>9. CASE /\ f # NULL /\ Accepted(t) /\ at' = [at EXCEPT ![t] = "handler"]
           /\ todo' = [todo EXCEPT ![t] = Handlers[f].prog] /\ UNCHANGED ok
  <2>1. f \in DOMAIN Handlers BY <1>2, <1>9, FuncHasHandler
  <2>2. IsQuiet(Handlers[f].prog) BY <2>1, HandlersQuiet
  <2>3. Prog(t)' = Handlers[f].prog BY <1>3 DEF Prog
  <2> HIDE DEF f
  <2>4. /\ at'[t] = "handler" /\ todo'[t] = Handlers[f].prog
        /\ \A u \in Thread \ {t} : at'[u] = at[u] /\ todo'[u] = todo[u]
    BY <1>2, <1>9
  <2>5. Len(Prog(t)') \in Nat
    <3>1. PICK S : Handlers[f].prog \in Seq(S) BY <2>2 DEF IsQuiet
    <3>. QED BY <2>3, <3>1
  <2>6. /\ Len(Prog(t)') = Len(trace'[t]) + Len(todo'[t])
        /\ \A i \in 1 .. Len(todo'[t]) : Len(trace'[t]) + i = i
    BY <1>4, <2>3, <2>4, <2>5
  <2>7. AllGood(trace[t])' BY <1>4 DEF AllGood
  <2>8. Running(t)'
    BY <1>1, <1>2, <1>3, <1>6, <1>9, <2>2, <2>3, <2>4, <2>6, <2>7 DEF Running, f
  <2>9. VerdictOf(t)' BY <2>4, <2>8 DEF VerdictOf, Done
  <2>. QED BY <1>5, <1>9, <2>4, <2>9
<1>10. \/ f = NULL /\ at' = [at EXCEPT ![t] = "not_found"] /\ UNCHANGED <<todo, ok>>
       \/ /\ f # NULL /\ ~Accepted(t) /\ at' = [at EXCEPT ![t] = "status"]
          /\ (\E b \in BOOLEAN : ~b /\ ok' = [ok EXCEPT ![t] = b]) /\ UNCHANGED todo
       \/ /\ f # NULL /\ Accepted(t) /\ at' = [at EXCEPT ![t] = "handler"]
          /\ todo' = [todo EXCEPT ![t] = Handlers[f].prog] /\ UNCHANGED ok
  BY Zenon DEF CmdProcessHandle, Accepted
<1>. QED BY <1>7, <1>8, <1>9, <1>10

LEMMA AnswerKeepsVerdict ==
  ASSUME IInv, WorkInv, CardInv, VerdictInv, NEW t \in Thread, Explain1(t) \/ Answer(t)
  PROVE  VerdictInv'
<1> DEFINE k == Len(trace[t])
<1>1. cur' = cur /\ todo' = todo /\ ok' = ok BY DEF Explain1, Answer
<1>2. at \in [Thread -> Places] BY DEF WorkInv, WorkShape
<1>3. /\ Func[cur[t]]' = Func[cur[t]] /\ (Accepted(t)' <=> Accepted(t))
      /\ Handlers[Func[cur[t]]]' = Handlers[Func[cur[t]]]
      /\ Begun(Line(cur[t]))' <=> Begun(Line(cur[t]))
  BY <1>1, Constantly
<1>4. VerdictOf(t) BY DEF VerdictInv
<1>5. ASSUME \A u \in Thread \ {t} : at'[u] = at[u] /\ trace'[u] = trace[u], VerdictOf(t)'
      PROVE  VerdictInv'
  <2>1. ASSUME NEW u \in Thread \ {t} PROVE VerdictOf(u)'
    BY <1>1, <1>5, VerdictStays DEF VerdictInv
  <2>. QED BY <1>5, <2>1 DEF VerdictInv
\* What is said changes nothing of what was done.
<1>6. ASSUME k \in Nat, \A i \in 1 .. k : trace'[t][i] = trace[t][i], NEW n \in 0 .. k
      PROVE  /\ Made(t, n) => Made(t, n)'
             /\ Succeeded(t, n) => Succeeded(t, n)'
             /\ Failed(t, n) => Failed(t, n)'
  <2>1. \A i \in 1 .. n : trace'[t][i] = trace[t][i] BY <1>6
  <2>2. Made(t, n) => Made(t, n)' BY <1>3, <2>1 DEF Made
  <2>3. Succeeded(t, n) => Succeeded(t, n)' BY <1>3, <2>1 DEF Succeeded
  <2>4. n > 0 => n \in 1 .. n BY <1>6
  <2>5. Failed(t, n) => Failed(t, n)' BY <1>3, <2>1, <2>4 DEF Failed
  <2>. QED BY <2>2, <2>3, <2>5
<1>7. CASE Explain1(t)
  <2>1. /\ at[t] = "status" /\ at' = [at EXCEPT ![t] = "explained"]
        /\ Said(t, <<"explanation">>)
    BY <1>7 DEF Explain1, Goto
  <2>2. /\ k \in Nat /\ Len(trace'[t]) = k + 1
        /\ \A i \in 1 .. k : trace'[t][i] = trace[t][i]
        /\ trace'[t][Len(trace'[t])].what = "explanation"
        /\ \A u \in Thread \ {t} : trace'[u] = trace[u]
    BY <2>1, SaidAdds
  <2>3. Ended(t, k) BY <1>4, <2>1 DEF VerdictOf
  <2>4. PICK n \in Nat : n = k BY <2>2
  <2>5. Ended(t, n)' BY <1>1, <1>3, <1>6, <2>2, <2>3, <2>4 DEF Ended
  <2>6. Len(trace'[t]) > 0 /\ Len(trace'[t]) - 1 = n BY <2>2, <2>4
  <2>7. Ended(t, Len(trace[t]) - 1)' BY <2>5, <2>6
  <2>8. at'[t] = "explained" /\ \A u \in Thread \ {t} : at'[u] = at[u] BY <1>2, <2>1
  <2>9. VerdictOf(t)' BY <2>2, <2>6, <2>7, <2>8 DEF VerdictOf, Done
  <2>. QED BY <1>5, <2>2, <2>8, <2>9
<1>8. CASE Answer(t)
  <2> DEFINE line == Verdict(t)
  <2>1. /\ at[t] \in {"status", "explained", "not_found"}
        /\ at' = [at EXCEPT ![t] = "recv"] /\ Said(t, <<line>>)
    BY <1>8 DEF Answer
  <2>2. /\ line \in Verdicts
        /\ line = "cmd_not_found" <=> at[t] = "not_found"
        /\ line = "success" => at[t] # "not_found" /\ ok[t]
        /\ line = "fail" => at[t] # "not_found" /\ ~ok[t]
    BY DEF Verdict, Verdicts
  <2> HIDE DEF line
  <2>3. /\ k \in Nat /\ Len(trace'[t]) = k + 1
        /\ \A i \in 1 .. k : trace'[t][i] = trace[t][i]
        /\ \A u \in Thread \ {t} : trace'[u] = trace[u]
        /\ Last(trace'[t]).what = line
    BY <2>1, SaidAdds, SaidIs
  <2>4. Result(t)' = line BY <2>3 DEF Result, Last
  <2>5. at'[t] = "recv" /\ \A u \in Thread \ {t} : at'[u] = at[u] BY <1>2, <2>1
  <2>6. cur[t] \in Request /\ (at[t] = "not_found" <=> Func[cur[t]] = NULL)
    BY <1>4, <2>1 DEF VerdictOf, Ended
  <2>7. Begun(Line(cur[t]))' <=> line # "cmd_not_found" BY <1>3, <2>2, <2>6, FoundIfBegun
  <2>8. \E n \in 0 .. k :
          /\ Made(t, n)
          /\ \A i \in n + 1 .. k : trace[t][i].what = "explanation"
          /\ line = "success" => Succeeded(t, n)
          /\ line = "fail" => Failed(t, n)
    <3>1. CASE at[t] = "status"
      <4>1. Ended(t, k) BY <1>4, <3>1 DEF VerdictOf
      <4>2. k \in 0 .. k /\ \A i \in k + 1 .. k : FALSE BY <2>3
      <4>. QED BY <2>2, <4>1, <4>2 DEF Ended
    <3>2. CASE at[t] = "explained"
      <4>1. k > 0 /\ trace[t][k].what = "explanation" /\ Ended(t, k - 1)
        BY <1>4, <3>2 DEF VerdictOf
      <4>2. k - 1 \in 0 .. k /\ \A i \in (k - 1) + 1 .. k : i = k BY <2>3, <4>1
      <4>. QED BY <2>2, <4>1, <4>2 DEF Ended
    <3>3. CASE at[t] = "not_found"
      <4>1. k = 0 BY <1>4, <3>3 DEF VerdictOf
      <4>2. 0 \in 0 .. k /\ Made(t, 0) /\ \A i \in 0 + 1 .. k : FALSE BY <4>1 DEF Made
      <4>. QED BY <2>2, <3>3, <4>2
    <3>. QED BY <2>1, <3>1, <3>2, <3>3
  <2>9. PICK n \in 0 .. k :
          /\ Made(t, n)
          /\ \A i \in n + 1 .. k : trace[t][i].what = "explanation"
          /\ line = "success" => Succeeded(t, n)
          /\ line = "fail" => Failed(t, n)
    BY <2>8
  <2>10. /\ Made(t, n)'
         /\ line = "success" => Succeeded(t, n)'
         /\ line = "fail" => Failed(t, n)'
    BY <1>6, <2>3, <2>9
  <2>11. n \in 0 .. Len(trace'[t]) - 1 /\ Len(trace'[t]) - 1 = k BY <2>3
  <2>12. \A i \in n + 1 .. Len(trace'[t]) - 1 : trace'[t][i].what = "explanation"
    <3>1. \A i \in n + 1 .. k : i \in 1 .. k BY <2>3
    <3>. QED BY <2>3, <2>9, <2>11, <3>1
  <2>13. Answered(t)'
    BY <2>2, <2>4, <2>7, <2>10, <2>11, <2>12 DEF Answered
  <2>14. VerdictOf(t)' BY <2>5, <2>13 DEF VerdictOf
  <2>. QED BY <1>5, <2>3, <2>5, <2>14
<1>. QED BY <1>7, <1>8

LEMMA VerdictHandle ==
  ASSUME IInv, WorkInv, CardInv, VerdictInv, NEW t \in Thread, Handle(t)
  PROVE  VerdictInv'
<1>0. at \in [Thread -> Places] BY DEF WorkInv, WorkShape
<1>1. CASE StartThread(t)
  <2>1. at[t] = "none" /\ UNCHANGED <<cur, todo, ok, trace>> BY <1>1 DEF StartThread, Goto
  <2>2. PICK place \in {"recv", "ended"} : at' = [at EXCEPT ![t] = place]
    BY <1>1 DEF StartThread, Goto
  <2>3. at'[t] = place /\ \A u \in Thread \ {t} : at'[u] = at[u] BY <1>0, <2>2
  <2>4. cur'[t] = NULL BY <2>1 DEF CardInv, CardOf
  <2>5. VerdictOf(t)' BY <2>3, <2>4 DEF VerdictOf, Done
  <2>. QED BY <2>1, <2>3, <2>5, VerdictStays DEF VerdictInv
<1>2. CASE HandlerReturns(t)
  <2>1. /\ at[t] = "handler" /\ todo[t] = <<>> /\ at' = [at EXCEPT ![t] = "status"]
        /\ UNCHANGED <<cur, todo, ok, trace>>
    BY <1>2 DEF HandlerReturns, Goto
  <2>2. at'[t] = "status" /\ \A u \in Thread \ {t} : at'[u] = at[u] BY <1>0, <2>1
  <2>3. Running(t) BY <2>1 DEF VerdictInv, VerdictOf
  <2>4. Len(trace[t]) \in Nat /\ DOMAIN trace[t] = 1 .. Len(trace[t]) BY DEF IInv, Shape
  <2>5. Len(Prog(t)) = Len(trace[t]) BY <2>1, <2>3, <2>4 DEF Running
  <2>6. Succeeded(t, Len(trace[t])) BY <2>3, <2>4, <2>5 DEF Succeeded, Running, AllGood, Prog
  <2>7. Ended(t, Len(trace[t])) BY <2>3, <2>6 DEF Ended, Running
  <2>8. PICK n \in Nat : n = Len(trace[t]) BY <2>4
  <2>9. Ended(t, n)'
    <3>1. /\ Func[cur[t]]' = Func[cur[t]] /\ (Accepted(t)' <=> Accepted(t))
          /\ Handlers[Func[cur[t]]]' = Handlers[Func[cur[t]]]
      BY <2>1, Constantly
    <3>. QED BY <2>1, <2>7, <2>8, <3>1 DEF Ended, Made, Succeeded, Failed
  <2>10. VerdictOf(t)' BY <2>1, <2>2, <2>8, <2>9 DEF VerdictOf, Done
  <2>. QED BY <2>1, <2>2, <2>10, VerdictStays DEF VerdictInv
<1>3. CASE HandlerStep(t) BY <1>3, StepKeepsVerdict
<1>. QED BY <1>1, <1>2, <1>3, ProcessKeepsVerdict, AnswerKeepsVerdict DEF Handle, HandlerStep

LEMMA VerdictStep == IInv /\ WorkInv /\ CardInv /\ VerdictInv /\ [Next]_vars => VerdictInv'
<1> SUFFICES ASSUME IInv, WorkInv, CardInv, VerdictInv, [Next]_vars PROVE VerdictInv' OBVIOUS
<1>0. /\ DOMAIN cur = Thread /\ at \in [Thread -> Places] /\ ok \in [Thread -> BOOLEAN]
      /\ DOMAIN trace = Thread
  BY DEF IInv, Shape, WorkInv, WorkShape, CardInv
<1>1. ASSUME UNCHANGED work PROVE VerdictInv'
  <2>1. UNCHANGED <<at, cur, todo, ok, trace>> BY <1>1 DEF work
  <2>. QED BY <2>1, VerdictStays DEF VerdictInv
<1>2. CASE UNCHANGED vars BY <1>1, <1>2 DEF vars
<1>3. ASSUME NEW t \in Thread, Handle(t) PROVE VerdictInv' BY <1>3, VerdictHandle
<1>4. ASSUME NEW r \in Request, UartRecv(r) \/ UdpRecv(r) PROVE VerdictInv'
  <2>1. PICK t \in Thread : Take(t, r) BY <1>4 DEF UartRecv, UdpRecv, Thread
  <2>2. \E b \in BOOLEAN : ok' = [ok EXCEPT ![t] = b] BY <2>1, Zenon DEF Take
  <2>3. /\ at' = [at EXCEPT ![t] = "dispatch"] /\ cur' = [cur EXCEPT ![t] = r]
        /\ trace' = [trace EXCEPT ![t] = <<>>] /\ UNCHANGED todo
    BY <2>1 DEF Take, Goto
  <2>4. /\ at'[t] = "dispatch"
        /\ \A u \in Thread \ {t} : /\ at'[u] = at[u] /\ cur'[u] = cur[u] /\ todo'[u] = todo[u]
                                   /\ ok'[u] = ok[u] /\ trace'[u] = trace[u]
    BY <1>0, <2>2, <2>3
  <2>5. VerdictOf(t)' BY <2>4 DEF VerdictOf, Done
  <2>. QED BY <2>4, <2>5, VerdictStays DEF VerdictInv
<1>5. ASSUME NEW c \in Client, UdpIgnore(c) PROVE VerdictInv' BY <1>1, <1>5 DEF UdpIgnore
<1>6. CASE Restart
  <2>1. at' = Started /\ cur' = [t \in Thread |-> NULL] BY <1>6 DEF Restart
  <2>. QED BY <2>1 DEF Started, VerdictInv, VerdictOf, Done
<1>. QED BY <1>2, <1>3, <1>4, <1>5, <1>6 DEF Next

\* For any commands with a word in front and none behind it, overlapping in the
\* two threads and cut short by restarts: the tool reads one verdict for each,
\* and it is "success" only when the handler made all its steps, "fail" only
\* when its parameters were refused or its last call failed, and "cmd not
\* found" exactly for a word of no row (cmd_process_handle and its handlers).
THEOREM VerdictsAreEarned == Spec => []VerdictIsEarned
<1>1. VerdictInv => VerdictIsEarned BY DEF VerdictInv, VerdictOf, Answered, VerdictIsEarned
<1>. QED BY Initially, Inductive, WorkInit, WorkStep, CardInit, CardStep, VerdictInit, VerdictStep,
            <1>1, PTL DEF Spec
=============================================================================
