------------------------------- MODULE BleAts --------------------------------
(***************************************************************************)
(* The factory test of the BLE sensor ("1.ATS.c"): the event handler       *)
(* SimplePeripheral_processATSCmdEvt, its peer, and the properties it      *)
(* keeps in flash.                                                         *)
(*                                                                         *)
(* Commands and answers share one characteristic, SIMPLEATS_CHAR1.  The    *)
(* BLE stack puts what the peer writes there, notes its length in          *)
(* CurATSCharLength and queues an event; the handler takes the value when  *)
(* the event's turn comes, asks for the length after that, and puts its    *)
(* answer where the command was.  The stack has a task of its own: the     *)
(* peer may write between any two of these steps.                          *)
(*                                                                         *)
(* The stack, the sensors, the ADC and the flash driver are not part of    *)
(* the repository: they are modelled from the handler's calls.             *)
(***************************************************************************)
EXTENDS Naturals, Sequences

CONSTANTS
  Ids,        \* the three-byte values of WP_sensor_ID a peer writes
  FactoryId,  \* what WP_sensor_ID is before
  Junk,       \* WP_sensor_ID taken from bytes that no peer has written there
  MaxEvents   \* bound: events of the queue

ASSUME EventsAssumption == MaxEvents \in Nat \ {0}

\* pdata[0] and pdata[1]: the commands of length SIMPLEATS_NORMAL_LEN, by row
\* 0x90 00 to 03 and 0x50 01 to 06, 00; the longer ones 0x80 00 and 06; the rest.
Normal == {"enter", "exit", "ver", "mac",
           "temp", "hum", "light", "bat", "cap", "sn", "date"}
Long == {"setId", "setSn"}
Codes == Normal \cup Long \cup {"other"}

\* A serial number is the position of its first character that is no digit, 0
\* for none: at both ends of the tested and of the stored characters.
Sns == {0, 3, 9, 10}

\* A value of the characteristic.  The bytes 3 to 5 as an identity, 3 to 10 as a
\* serial number: a set, because bytes nobody has written may be anything.
Values == [code: Codes, id: Ids \cup {Junk}, sn: SUBSET Sns]

\* What a peer writes: no parameter, an identity, a serial number, or a
\* parameter cut short.
PeerValues ==
  {v \in Values :
     IF v.code = "setId" THEN v.sn = {3}
     ELSE IF v.code = "setSn" THEN v.id = Junk /\ v.sn \in {{n} : n \in Sns} \cup {Sns}
     ELSE v.id = Junk /\ v.sn = {3}}

Served(code, normal) == IF normal THEN code \in Normal ELSE code \in Long

\* notify[3], the number of data bytes, and the length given to
\* SimpleATS_SetParameter, for an answer of success.
Count == [enter |-> 0, exit |-> 0, ver |-> 4, mac |-> 6, temp |-> 2, hum |-> 2, light |-> 2,
          bat |-> 2, cap |-> 2, sn |-> 8, date |-> 3, setId |-> 0, setSn |-> 0]
\* LengthShort is a mutant: the third byte of the identity is not counted.
LengthShort == [enter |-> 4, exit |-> 4, ver |-> 8, mac |-> 10, temp |-> 6, hum |-> 6, light |-> 6,
                bat |-> 6, cap |-> 6, sn |-> 12, date |-> 6, setId |-> 4, setSn |-> 4]
Length == [enter |-> 4, exit |-> 4, ver |-> 8, mac |-> 10, temp |-> 6, hum |-> 6, light |-> 6,
           bat |-> 6, cap |-> 6, sn |-> 12, date |-> 7, setId |-> 4, setSn |-> 4]

VARIABLES
  char,      \* the value of the characteristic
  normal,    \* CurATSCharLength = SIMPLEATS_NORMAL_LEN
  events,    \* queued events
  pc,        \* "idle", or the handler: "got" the value, "reply" to be sent
  pdata, notify,   \* its locals
  property,  \* device_property: flag (ats_flag = 0xBB) and id (WP_sensor_ID)
  flash,     \* the saved property, and the serial number sn
  factory,   \* clocks stopped, ADCs and light sensor on
  peer       \* what the peer knows, for the properties

vars == <<char, normal, events, pc, pdata, notify, property, flash, factory, peer>>
device == <<property, flash, factory>>

Empty == [code |-> "other", id |-> Junk, sn |-> {3}]
Success(code, data) == [code |-> code, ok |-> TRUE, n |-> Count[code], len |-> Length[code], data |-> data]
Failure(code) == [code |-> code, ok |-> FALSE, n |-> 0, len |-> 4, data |-> Junk]

Newcomer == [orderly |-> TRUE, sent |-> FALSE, cmd |-> Empty, normal |-> TRUE, got |-> <<>>,
             acked |-> FactoryId, asked |-> {}, sn |-> {0}, exited |-> FALSE]

\* Until the peer writes before the handler is done, or a parameter that is too
\* short, it is orderly.  cmd is the last command it has sent since the device
\* started, and got the answers to it.  asked has the identities written since
\* the last answer of success, acked; sn is the serial number answered with
\* success, or the one found in flash after a restart cut its answer off.
Init ==
  /\ char = Empty /\ normal = TRUE /\ events = 0
  /\ pc = "idle" /\ pdata = Empty /\ notify = Failure("other")
  /\ property = [flag |-> FALSE, id |-> FactoryId]
  /\ flash = [flag |-> FALSE, id |-> FactoryId, sn |-> 0]
  /\ factory = FALSE
  /\ peer = Newcomer

Busy == events > 0 \/ pc # "idle"

-----------------------------------------------------------------------------
(* The peer and the stack *)

Short(v, isNormal) == Served(v.code, isNormal) /\ \/ v.code = "setId" /\ v.id = Junk
                                                  \/ v.code = "setSn" /\ v.sn = Sns

Write(v, isNormal) ==
  /\ events < MaxEvents
  /\ char' = v /\ normal' = isNormal /\ events' = events + 1
  /\ peer' = IF peer.orderly /\ ~Busy /\ ~Short(v, isNormal)
             THEN [peer EXCEPT
                    !.sent = TRUE, !.cmd = v, !.normal = isNormal, !.got = <<>>,
                    !.asked = @ \cup IF v.code = "setId" /\ ~isNormal THEN {v.id} ELSE {}]
             ELSE [Newcomer EXCEPT !.orderly = FALSE, !.exited = peer.exited]
  /\ UNCHANGED <<pc, pdata, notify, device>>

-----------------------------------------------------------------------------
(* The flash driver *)

\* DeviceProperty_writeToFlash of prop, and its result
PropertyWrite(prop, ok) == flash' = IF ok THEN [flash EXCEPT !.flag = prop.flag, !.id = prop.id] ELSE flash

\* DeviceProperty_readFromFlash, from the flash f
PropertyRead(f) == property' = [flag |-> f.flag, id |-> f.id]

-----------------------------------------------------------------------------
(* The handler *)

\* Mutant: the event stays in the queue.
ReceiveKeeps ==
  /\ pc = "idle" /\ events > 0
  /\ pdata' = char /\ pc' = "got"
  /\ UNCHANGED <<char, normal, events, notify, device, peer>>

\* SimpleATS_GetParameter
Receive ==
  /\ pc = "idle" /\ events > 0
  /\ events' = events - 1 /\ pdata' = char /\ pc' = "got"
  /\ UNCHANGED <<char, normal, notify, device, peer>>

\* The handler has run command code up to its SetParameter.
Ran(code, answer) ==
  /\ pc = "got" /\ pdata.code = code /\ Served(code, normal)
  /\ notify' = answer /\ pc' = "reply"
  /\ UNCHANGED <<char, normal, events, pdata, peer>>

\* The locals are gone.
Return == pc' = "idle" /\ pdata' = Empty /\ notify' = Failure("other")

Ignore ==
  /\ pc = "got" /\ ~Served(pdata.code, normal)
  /\ Return
  /\ UNCHANGED <<char, normal, events, device, peer>>

EnterFactory ==
  /\ Ran("enter", Success("enter", Junk))
  /\ factory' = TRUE
  /\ UNCHANGED <<property, flash>>

\* Mutant: the answer is given without reading the flash back.
ExitFactoryUnread(ok) ==
  /\ Ran("exit", Success("exit", Junk))
  /\ PropertyWrite([property EXCEPT !.flag = TRUE], ok)
  /\ property' = [property EXCEPT !.flag = TRUE]
  /\ UNCHANGED factory

\* What was written is read back, and the flag found decides the answer.
ExitFactory(ok) ==
  /\ PropertyWrite([property EXCEPT !.flag = TRUE], ok)
  /\ PropertyRead(flash')
  /\ Ran("exit", IF flash'.flag THEN Success("exit", Junk) ELSE Failure("exit"))
  /\ UNCHANGED factory

ReportVersion ==
  /\ Ran("ver", Success("ver", Junk))
  /\ UNCHANGED device

\* What the driver asked reports, or its failure.
Measured(code, ok) ==
  /\ Ran(code, IF ok THEN Success(code, Junk) ELSE Failure(code))
  /\ UNCHANGED device

\* GAPRole_GetParameter
ReportMac(ok) == Measured("mac", ok)

\* getTHValue, one measurement for each of the two commands
ReportClimate(code, ok) == code \in {"temp", "hum"} /\ Measured(code, ok)

\* ALS_GetValue
ReportLight(ok) == Measured("light", ok)

\* ReadVoltageFromAdc of the battery and of the capacitor
ReportVoltage(code, ok) == code \in {"bat", "cap"} /\ Measured(code, ok)

\* DeviceData_readFromFlash
ReportSn ==
  /\ Ran("sn", Success("sn", Junk))
  /\ UNCHANGED device

\* Mutant: the identity in memory is reported.
ReportDateUnread ==
  /\ Ran("date", Success("date", property.id))
  /\ UNCHANGED device

ReportDate ==
  /\ PropertyRead(flash)
  /\ Ran("date", Success("date", property'.id))
  /\ UNCHANGED <<flash, factory>>

\* Mutant: the result of the write is not asked for.
WriteIdUnchecked(ok) ==
  /\ property' = [property EXCEPT !.id = pdata.id]
  /\ PropertyWrite(property', ok)
  /\ Ran("setId", Success("setId", Junk))
  /\ UNCHANGED factory

\* A failed write leaves the new identity in memory.
WriteId(ok) ==
  /\ property' = [property EXCEPT !.id = pdata.id]
  /\ PropertyWrite(property', ok)
  /\ Ran("setId", IF ok THEN Success("setId", Junk) ELSE Failure("setId"))
  /\ UNCHANGED factory

\* pdata[3] to pdata[9] are digits.
Digits(n) == n \notin 3 .. 9

\* Mutant: the number is stored before its characters are tested.
WriteSnFirst(n, ok) ==
  /\ n \in pdata.sn
  /\ Ran("setSn", IF Digits(n) /\ ok THEN Success("setSn", Junk) ELSE Failure("setSn"))
  /\ flash' = IF ok THEN [flash EXCEPT !.sn = n] ELSE flash
  /\ UNCHANGED <<property, factory>>

\* DeviceData_writeToFlash of the characters 3 to 10, if 3 to 9 are digits.
WriteSn(n, ok) ==
  /\ n \in pdata.sn
  /\ Ran("setSn", IF Digits(n) /\ ok THEN Success("setSn", Junk) ELSE Failure("setSn"))
  /\ flash' = IF Digits(n) /\ ok THEN [flash EXCEPT !.sn = n] ELSE flash
  /\ UNCHANGED <<property, factory>>

Execute ==
  \/ Ignore \/ EnterFactory \/ ReportVersion \/ ReportSn \/ ReportDate
  \/ \E ok \in BOOLEAN :
       \/ ExitFactory(ok) \/ ReportMac(ok) \/ ReportLight(ok) \/ WriteId(ok)
       \/ \E code \in Normal : ReportClimate(code, ok) \/ ReportVoltage(code, ok)
       \/ \E n \in Sns : WriteSn(n, ok)

\* SimpleATS_SetParameter: the answer takes the place of the command, and is
\* sent to the peer.
Reply ==
  /\ pc = "reply"
  /\ char' = [code |-> notify.code, id |-> Junk, sn |-> {3}]
  /\ LET stored == peer.orderly /\ notify.ok /\ notify.code = "setId"
         numbered == peer.orderly /\ notify.ok /\ notify.code = "setSn"
     IN
       peer' = [peer EXCEPT
         !.got = IF peer.orderly THEN Append(@, notify) ELSE <<notify>>,
         !.acked = IF stored THEN pdata.id ELSE @,
         !.asked = IF stored THEN {} ELSE @,
         !.sn = IF numbered THEN pdata.sn ELSE @,
         !.exited = @ \/ (notify.ok /\ notify.code = "exit")]
  /\ Return
  /\ UNCHANGED <<normal, events, device>>

Handle == Receive \/ Execute \/ Reply

-----------------------------------------------------------------------------
\* The serial number of the command that is not done.
SnUnderway == IF Busy /\ peer.cmd.code = "setSn" /\ ~peer.normal THEN peer.cmd.sn ELSE {}

\* The device loses power and starts again with what the flash has.
Restart ==
  /\ char' = Empty /\ normal' = TRUE /\ events' = 0
  /\ Return
  /\ PropertyRead(flash)
  /\ factory' = FALSE
  /\ peer' = [peer EXCEPT !.sent = FALSE, !.cmd = Empty, !.normal = TRUE, !.got = <<>>,
                            !.sn = IF flash.sn \in SnUnderway THEN {flash.sn} ELSE @]
  /\ UNCHANGED flash

Next ==
  \/ \E v \in PeerValues, isNormal \in BOOLEAN : Write(v, isNormal)
  \/ Handle
  \/ Restart

\* The task that runs the handler goes on while it has an event.
Spec == Init /\ [][Next]_vars /\ WF_vars(Handle)

-----------------------------------------------------------------------------
(* Properties *)

Identities == Ids \cup {FactoryId, Junk}

Answers == [code: Codes, ok: BOOLEAN, n: 0 .. 8, len: 4 .. 12, data: Identities]

Peers == [orderly: BOOLEAN, sent: BOOLEAN, cmd: Values, normal: BOOLEAN, got: Seq(Answers),
          acked: Identities, asked: SUBSET Identities, sn: SUBSET Sns, exited: BOOLEAN]

\* The variables keep their types.
TypeOK ==
  /\ char \in Values /\ normal \in BOOLEAN /\ events \in 0 .. MaxEvents
  /\ pc \in {"idle", "got", "reply"} /\ pdata \in Values /\ notify \in Answers
  /\ property \in [flag: BOOLEAN, id: Identities]
  /\ flash \in [flag: BOOLEAN, id: Identities, sn: Sns]
  /\ factory \in BOOLEAN
  /\ peer \in Peers

\* An orderly peer gets one answer to a command that is known, with the
\* command's code, and none to any other: neither to a code that is not known,
\* nor to a known one with the wrong length.  The answer is true when it arrives:
\* an identity or a serial number answered with success is the one in flash,
\* and the identity reported is the one in flash.
AnsweredOnce ==
  peer.orderly /\ ~Busy /\ peer.sent =>
    IF Served(peer.cmd.code, peer.normal)
    THEN /\ Len(peer.got) = 1
         /\ LET answer == peer.got[1] IN
              /\ answer.code = peer.cmd.code
              /\ answer.ok =>
                   /\ answer.code = "date" => answer.data = flash.id
                   /\ answer.code = "setId" => flash.id = peer.cmd.id
                   /\ answer.code = "setSn" => flash.sn \in peer.cmd.sn
    ELSE peer.got = <<>>

\* Through failed writes and restarts, the identity in flash is the last one
\* answered with success, or one the peer has written after that: a write that
\* failed may still reach the flash, with the next command that saves the
\* properties.  Nothing the peer has not written gets there, or into the memory,
\* which differs from the flash only by an identity whose write failed.
IdIsThePeers ==
  peer.orderly =>
    /\ flash.id \in {peer.acked} \cup peer.asked
    /\ property.id \in {flash.id} \cup peer.asked

\* Once the exit command is answered with success, the flag it set is in flash
\* and in memory, and stays: each later command that saves the properties
\* writes the whole of them, a write may fail, and a restart may come anywhere.
\* The enter command starts the factory test again at any time, but leaves the
\* flag.
FlagStays == peer.exited => flash.flag /\ property.flag

\* Through failed writes and restarts, the serial number in flash is the one
\* last answered with success, or stored since by a command whose answer a
\* restart has cut off, or the one of the command that is not done: one that is
\* answered with a failure, for its characters or its write, never gets there.
SnIsThePeers == peer.orderly => flash.sn \in peer.sn \cup SnUnderway

\* An answer has the data bytes it announces, and fits the twelve bytes of
\* notify and of the characteristic.
AnswersAreWhole ==
  \A i \in DOMAIN peer.got : peer.got[i].len = 4 + peer.got[i].n /\ peer.got[i].len <= 12

\* The device gets done with every command of a peer that waits.
PeerIsServed == peer.orderly /\ Busy ~> ~peer.orderly \/ ~Busy
=============================================================================
