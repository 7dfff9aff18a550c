---------------------------- MODULE BleAtsProofs ----------------------------
(***************************************************************************)
(* The safety properties of BleAts, for any identities, any length of the  *)
(* queue, and whatever the peer writes, fails or is cut off.               *)
(*                                                                         *)
(* All commands but the unknown are alike: they put an answer into notify  *)
(* and may change the memory or the flash.  The lemma ExecuteRuns says     *)
(* what every one of them promises; the invariants follow from it.         *)
(***************************************************************************)
EXTENDS BleAts, TLAPS

(* The inductive invariant *)

\* The flag is never set in memory only; it is in flash when the exit command
\* is answered with success.
FlagKept ==
  /\ property.flag = flash.flag
  /\ peer.exited => flash.flag
  /\ pc = "reply" /\ notify.ok /\ notify.code = "exit" => flash.flag

Whole(answer) == answer.len = 4 + answer.n /\ answer.len <= 12

\* What an answer of success claims of the flash f is so; cmd is the command.
TrueOf(answer, cmd, f) ==
  answer.ok =>
    /\ answer.code = "date" => answer.data = f.id
    /\ answer.code = "setId" => f.id = cmd.id
    /\ answer.code = "setSn" => f.sn \in cmd.sn

\* A command of an orderly peer is in the characteristic, in the handler, or
\* answered; it is nowhere else, and nothing is beside it.
Conversation ==
  peer.orderly =>
    /\ events > 0 => /\ events = 1 /\ pc = "idle" /\ char = peer.cmd
    /\ pc # "idle" => pdata = peer.cmd
    /\ Busy => normal = peer.normal /\ peer.got = <<>>
    /\ pc = "reply" => /\ Served(peer.cmd.code, peer.normal)
                       /\ notify.code = peer.cmd.code
                       /\ TrueOf(notify, peer.cmd, flash)

\* The identity that is on its way, and those in memory and in flash.
Identity ==
  peer.orderly =>
    /\ Busy /\ peer.cmd.code = "setId" /\ ~peer.normal => peer.cmd.id \in peer.asked
    /\ flash.id \in {peer.acked} \cup peer.asked
    /\ property.id \in {flash.id} \cup peer.asked
    /\ pc = "reply" /\ notify.ok /\ notify.code = "setId" => property.id = flash.id

\* The serial number in flash was answered with success or is about to be.
Serial ==
  peer.orderly /\ ~(pc = "reply" /\ notify.ok /\ notify.code = "setSn") => flash.sn \in peer.sn

Safe == AnsweredOnce /\ AnswersAreWhole /\ (pc = "reply" => Whole(notify))

IInv == TypeOK /\ FlagKept /\ Conversation /\ Identity /\ Serial /\ Safe

-----------------------------------------------------------------------------
(* Values *)

LEMMA EmptyValue == Empty \in Values
BY DEF Empty, Values, Codes, Sns

LEMMA SuccessWhole ==
  ASSUME NEW code \in Normal \cup Long, NEW data \in Identities
  PROVE  /\ Success(code, data) \in Answers
         /\ Whole(Success(code, data))
         /\ Success(code, data).code = code /\ Success(code, data).ok
         /\ Success(code, data).data = data
BY DEF Success, Answers, Whole, Count, Length, Normal, Long, Codes

LEMMA FailureWhole ==
  ASSUME NEW code \in Codes
  PROVE  /\ Failure(code) \in Answers
         /\ Whole(Failure(code))
         /\ Failure(code).code = code /\ ~Failure(code).ok
BY DEF Failure, Answers, Whole, Identities

-----------------------------------------------------------------------------
(* One command *)

\* What every command promises: its answer, and how it changes the device.
Promise(code, answer) ==
  /\ Ran(code, answer)
  /\ answer \in Answers /\ Whole(answer) /\ answer.code = code
  /\ TrueOf(answer, pdata, flash')
  /\ property' \in [flag: BOOLEAN, id: Identities]
  /\ flash' \in [flag: BOOLEAN, id: Identities, sn: Sns]
  /\ factory' \in BOOLEAN
  /\ property.flag = flash.flag => property'.flag = flash'.flag
  /\ property.flag /\ flash.flag => flash'.flag
  /\ code = "exit" /\ answer.ok => flash'.flag
  /\ ~(code = "setSn" /\ answer.ok) => flash'.sn = flash.sn
  /\ IF code = "setId"
     THEN property'.id = pdata.id /\ flash'.id \in {flash.id, pdata.id}
     ELSE property'.id \in {property.id, flash'.id} /\ flash'.id \in {flash.id, property.id}
  /\ code = "setId" /\ answer.ok => property'.id = flash'.id

LEMMA MeasuredPromise ==
  ASSUME TypeOK, NEW code \in {"mac", "temp", "hum", "light", "bat", "cap"}, NEW ok \in BOOLEAN,
         Measured(code, ok)
  PROVE  \E answer : Promise(code, answer)
<1> DEFINE answer == IF ok THEN Success(code, Junk) ELSE Failure(code)
<1>1. code \in Normal \cup Long /\ code \in Codes /\ Junk \in Identities
  BY DEF Normal, Long, Codes, Identities
<1>2. answer \in Answers /\ Whole(answer) /\ answer.code = code
  BY <1>1, SuccessWhole, FailureWhole
<1>3. Ran(code, answer) /\ UNCHANGED <<property, flash, factory>>
  BY DEF Measured, device
<1>. HIDE DEF answer
<1>4. Promise(code, answer)
  BY <1>2, <1>3 DEF Promise, TrueOf, TypeOK
<1>. QED BY <1>4

LEMMA ExecuteRuns ==
  ASSUME TypeOK, Execute
  PROVE  Ignore \/ \E code \in Codes : \E answer : Promise(code, answer)
<1>a. Junk \in Identities BY DEF Identities
<1>b. pdata.id \in Identities /\ flash.id \in Identities /\ property.id \in Identities
  BY DEF TypeOK, Values, Identities
<1>c. \A code \in Normal \cup Long : code \in Codes BY DEF Codes
<1>1. CASE Ignore BY <1>1
<1>2. CASE EnterFactory
  <2>1. "enter" \in Normal BY DEF Normal
  <2>2. Promise("enter", Success("enter", Junk))
    BY <1>2, <2>1, <1>a, SuccessWhole DEF EnterFactory, Promise, TrueOf, TypeOK
  <2>. QED BY <2>1, <2>2, <1>c
<1>3. CASE ReportVersion
  <2>1. "ver" \in Normal BY DEF Normal
  <2>2. Promise("ver", Success("ver", Junk))
    BY <1>3, <2>1, <1>a, SuccessWhole DEF ReportVersion, Promise, TrueOf, TypeOK, device
  <2>. QED BY <2>1, <2>2, <1>c
<1>4. CASE ReportSn
  <2>1. "sn" \in Normal BY DEF Normal
  <2>2. Promise("sn", Success("sn", Junk))
    BY <1>4, <2>1, <1>a, SuccessWhole DEF ReportSn, Promise, TrueOf, TypeOK, device
  <2>. QED BY <2>1, <2>2, <1>c
<1>5. CASE ReportDate
  <2>1. "date" \in Normal BY DEF Normal
  <2>2. /\ property' = [flag |-> flash.flag, id |-> flash.id]
        /\ flash' = flash /\ factory' = factory
        /\ Ran("date", Success("date", property'.id))
    BY <1>5 DEF ReportDate, PropertyRead
  <2>3. property'.id = flash.id BY <2>2
  <2>4. Ran("date", Success("date", flash.id)) BY <2>2, <2>3
  <2>5. flash.flag \in BOOLEAN BY DEF TypeOK
  <2>6. Promise("date", Success("date", flash.id))
    BY <2>1, <2>2, <2>4, <2>5, <1>b, SuccessWhole DEF Promise, TrueOf, TypeOK
  <2>. QED BY <2>1, <2>6, <1>c
<1>6. ASSUME NEW ok \in BOOLEAN, ExitFactory(ok) PROVE \E code \in Codes : \E answer : Promise(code, answer)
  <2> DEFINE answer == IF flash'.flag THEN Success("exit", Junk) ELSE Failure("exit")
  <2>1. "exit" \in Normal BY DEF Normal
  <2>2. answer \in Answers /\ Whole(answer) /\ answer.code = "exit" /\ (answer.ok => flash'.flag)
    BY <2>1, <1>a, <1>c, SuccessWhole, FailureWhole
  <2>3. Ran("exit", answer) /\ factory' = factory BY <1>6 DEF ExitFactory
  <2>4. property' = [flag |-> flash'.flag, id |-> flash'.id]
    BY <1>6 DEF ExitFactory, PropertyRead
  <2>5. /\ flash' \in [flag: BOOLEAN, id: Identities, sn: Sns]
        /\ flash'.sn = flash.sn
        /\ flash'.id \in {flash.id, property.id}
        /\ flash.flag => flash'.flag
    BY <1>6, <1>b DEF ExitFactory, PropertyWrite, TypeOK
  <2>6. property' \in [flag: BOOLEAN, id: Identities] BY <2>4, <2>5
  <2>. HIDE DEF answer
  <2>7. Promise("exit", answer)
    BY <2>2, <2>3, <2>4, <2>5, <2>6 DEF Promise, TrueOf, TypeOK
  <2>. QED BY <2>1, <2>7, <1>c
<1>7. ASSUME NEW ok \in BOOLEAN, WriteId(ok) PROVE \E code \in Codes : \E answer : Promise(code, answer)
  <2> DEFINE answer == IF ok THEN Success("setId", Junk) ELSE Failure("setId")
  <2>1. "setId" \in Long BY DEF Long
  <2>2. answer \in Answers /\ Whole(answer) /\ answer.code = "setId" /\ (answer.ok => ok)
    BY <2>1, <1>a, <1>c, SuccessWhole, FailureWhole
  <2>3. Ran("setId", answer) /\ factory' = factory BY <1>7 DEF WriteId
  <2>4. property' = [property EXCEPT !.id = pdata.id] BY <1>7 DEF WriteId
  <2>5. /\ property' \in [flag: BOOLEAN, id: Identities]
        /\ property'.id = pdata.id /\ property'.flag = property.flag
    BY <2>4, <1>b DEF TypeOK
  <2>6. flash' = IF ok THEN [flash EXCEPT !.flag = property'.flag, !.id = property'.id] ELSE flash
    BY <1>7 DEF WriteId, PropertyWrite
  <2>7. /\ flash' \in [flag: BOOLEAN, id: Identities, sn: Sns]
        /\ flash'.sn = flash.sn
        /\ IF ok THEN flash'.id = pdata.id /\ flash'.flag = property.flag ELSE flash' = flash
    BY <2>5, <2>6 DEF TypeOK
  <2>. HIDE DEF answer
  <2>8. TrueOf(answer, pdata, flash') BY <2>2, <2>7 DEF TrueOf
  <2>9. answer.ok => property'.id = flash'.id BY <2>2, <2>5, <2>7
  <2>10. flash'.id = flash.id \/ flash'.id = pdata.id BY <2>7
  <2>11. property.flag = flash.flag => property'.flag = flash'.flag BY <2>5, <2>7
  <2>13. property.flag /\ flash.flag => flash'.flag BY <2>5, <2>7
  <2>12. Promise("setId", answer)
    BY <2>2, <2>3, <2>5, <2>7, <2>8, <2>9, <2>10, <2>11, <2>13 DEF Promise, TypeOK
  <2>. QED BY <2>1, <2>12, <1>c
<1>8. ASSUME NEW ok \in BOOLEAN, NEW n \in Sns, WriteSn(n, ok)
      PROVE \E code \in Codes : \E answer : Promise(code, answer)
  <2> DEFINE answer == IF Digits(n) /\ ok THEN Success("setSn", Junk) ELSE Failure("setSn")
  <2>1. "setSn" \in Long BY DEF Long
  <2>2. answer \in Answers /\ Whole(answer) /\ answer.code = "setSn" /\ (answer.ok <=> Digits(n) /\ ok)
    BY <2>1, <1>a, <1>c, SuccessWhole, FailureWhole
  <2>3. Ran("setSn", answer) /\ property' = property /\ factory' = factory /\ n \in pdata.sn
    BY <1>8 DEF WriteSn
  <2>4. flash' = IF Digits(n) /\ ok THEN [flash EXCEPT !.sn = n] ELSE flash BY <1>8 DEF WriteSn
  <2>5. /\ flash' \in [flag: BOOLEAN, id: Identities, sn: Sns]
        /\ flash'.id = flash.id /\ flash'.flag = flash.flag
        /\ IF Digits(n) /\ ok THEN flash'.sn = n ELSE flash' = flash
    BY <2>4 DEF TypeOK
  <2>6. ~answer.ok => flash'.sn = flash.sn BY <2>2, <2>5
  <2>. HIDE DEF answer
  <2>7. TrueOf(answer, pdata, flash') BY <2>2, <2>3, <2>5 DEF TrueOf
  <2>8. Promise("setSn", answer)
    BY <2>2, <2>3, <2>5, <2>6, <2>7 DEF Promise, TypeOK
  <2>. QED BY <2>1, <2>8, <1>c
<1>9. ASSUME NEW ok \in BOOLEAN, NEW code \in {"mac", "temp", "hum", "light", "bat", "cap"}, Measured(code, ok)
      PROVE \E c \in Codes : \E answer : Promise(c, answer)
  <2>1. code \in Codes BY DEF Codes, Normal
  <2>. QED BY <2>1, <1>9, MeasuredPromise
<1>10. ASSUME NEW ok \in BOOLEAN, ReportMac(ok) \/ ReportLight(ok)
       PROVE \E c \in Codes : \E answer : Promise(c, answer)
  BY <1>9, <1>10 DEF ReportMac, ReportLight
<1>11. ASSUME NEW ok \in BOOLEAN, NEW code \in Normal, ReportClimate(code, ok) \/ ReportVoltage(code, ok)
       PROVE \E c \in Codes : \E answer : Promise(c, answer)
  BY <1>9, <1>11 DEF ReportClimate, ReportVoltage
<1>. QED
  BY <1>1, <1>2, <1>3, <1>4, <1>5, <1>6, <1>7, <1>8, <1>10, <1>11 DEF Execute

-----------------------------------------------------------------------------
(* The invariant *)

LEMMA Initially == Init => IInv
<1> SUFFICES ASSUME Init PROVE IInv OBVIOUS
<1>1. Failure("other") \in Answers /\ ~Failure("other").ok BY FailureWhole DEF Codes
<1>2. Newcomer \in Peers
  BY EmptyValue DEF Newcomer, Peers, Identities, Sns
<1>3. peer.orderly /\ ~peer.sent /\ peer.sn = {0} /\ ~peer.exited /\ peer.cmd = Empty /\ peer.got = <<>> /\ peer.acked = FactoryId
  BY DEF Init, Newcomer
<1>4. /\ property \in [flag: BOOLEAN, id: Identities] /\ property.flag = flash.flag
      /\ flash \in [flag: BOOLEAN, id: Identities, sn: Sns] /\ flash.sn = 0
      /\ flash.id = FactoryId /\ property.id = FactoryId
  BY DEF Init, Identities, Sns
<1>z. 0 \in 0 .. MaxEvents BY EventsAssumption
<1>5. TypeOK BY <1>1, <1>2, <1>4, <1>z, EmptyValue DEF TypeOK, Init
<1>6. ~Busy /\ pc = "idle" /\ events = 0 BY DEF Init, Busy
<1>7. FlagKept BY <1>3, <1>4, <1>6 DEF FlagKept
<1>8. Conversation /\ Identity BY <1>3, <1>4, <1>6 DEF Conversation, Identity
<1>9. Safe BY <1>3, <1>4, <1>6 DEF Safe, AnsweredOnce, AnswersAreWhole
<1>10. Serial BY <1>3, <1>4 DEF Serial
<1>. QED BY <1>5, <1>7, <1>8, <1>9, <1>10 DEF IInv

LEMMA WriteKeeps ==
  ASSUME IInv, NEW v \in PeerValues, NEW isNormal \in BOOLEAN, Write(v, isNormal)
  PROVE  IInv'
<1> DEFINE fits == peer.orderly /\ ~Busy /\ ~Short(v, isNormal)
           ask == IF v.code = "setId" /\ ~isNormal THEN {v.id} ELSE {}
<1>t. TypeOK BY DEF IInv
<1>v. v \in Values /\ v.id \in Identities BY DEF PeerValues, Values, Identities
<1>1. /\ events \in Nat /\ events < MaxEvents /\ char' = v /\ normal' = isNormal /\ events' = events + 1
      /\ UNCHANGED <<pc, pdata, notify, property, flash, factory>>
  BY <1>t DEF Write, TypeOK, device
<1>2. CASE fits
  <2>1. peer' = [peer EXCEPT !.sent = TRUE, !.cmd = v, !.normal = isNormal, !.got = <<>>, !.asked = @ \cup ask]
    BY <1>2 DEF Write
  <2>2. ask \in SUBSET Identities BY <1>v
  <2>3. /\ peer' \in Peers
        /\ peer'.orderly = peer.orderly /\ peer'.cmd = v /\ peer'.normal = isNormal
        /\ peer'.got = <<>> /\ peer'.asked = peer.asked \cup ask
        /\ peer'.acked = peer.acked /\ peer'.exited = peer.exited /\ peer'.sn = peer.sn
    <3>. HIDE DEF ask
    <3>1. peer \in Peers BY <1>t DEF TypeOK
    <3>2. <<>> \in Seq(Answers) OBVIOUS
    <3>3. peer.asked \cup ask \in SUBSET Identities BY <2>2, <3>1 DEF Peers
    <3>. QED BY <2>1, <3>1, <3>2, <3>3, <1>v DEF Peers
  <2>4. events = 0 /\ pc = "idle" /\ events' = 1 /\ pc' = "idle" /\ Busy'
    BY <1>1, <1>2 DEF Busy
  <2>5. TypeOK' BY <1>t, <1>1, <1>v, <2>3, <2>4, EventsAssumption DEF TypeOK
  <2>6. FlagKept' BY <1>1, <2>3 DEF IInv, FlagKept
  <2>7. Conversation' BY <1>1, <2>3, <2>4 DEF Conversation
  <2>8. Identity' BY <1>1, <1>2, <2>3, <2>4 DEF IInv, Identity
  <2>9. Safe' BY <1>1, <2>3, <2>4 DEF IInv, Safe, AnsweredOnce, AnswersAreWhole
  <2>10. Serial' BY <1>1, <2>3, <2>4 DEF IInv, Serial
  <2>. QED BY <2>5, <2>6, <2>7, <2>8, <2>9, <2>10 DEF IInv
<1>3. CASE ~fits
  <2>1. peer' = [Newcomer EXCEPT !.orderly = FALSE, !.exited = peer.exited]
    BY <1>3 DEF Write
  <2>2. peer' \in Peers /\ ~peer'.orderly /\ peer'.exited = peer.exited /\ peer'.got = <<>>
    <3>1. peer \in Peers BY <1>t DEF TypeOK
    <3>2. Newcomer \in Peers /\ Newcomer.got = <<>> BY EmptyValue DEF Newcomer, Peers, Identities, Sns
    <3>. QED BY <2>1, <3>1, <3>2 DEF Peers
  <2>3. events' \in 0 .. MaxEvents BY <1>t, <1>1, EventsAssumption DEF TypeOK
  <2>4. TypeOK' BY <1>t, <1>1, <1>v, <2>2, <2>3 DEF TypeOK
  <2>5. FlagKept' BY <1>1, <2>2 DEF IInv, FlagKept
  <2>6. Conversation' /\ Identity' /\ Serial' BY <2>2 DEF Conversation, Identity, Serial
  <2>7. Safe' BY <1>1, <2>2 DEF IInv, Safe, AnsweredOnce, AnswersAreWhole
  <2>. QED BY <2>4, <2>5, <2>6, <2>7 DEF IInv
<1>. QED BY <1>2, <1>3

LEMMA ReceiptKeeps ==
  ASSUME IInv, Receive
  PROVE  IInv'
<1>t. TypeOK BY DEF IInv
<1>1. /\ pc = "idle" /\ events > 0 /\ events' = events - 1 /\ pdata' = char /\ pc' = "got"
      /\ UNCHANGED <<char, normal, notify, property, flash, factory, peer>>
  BY DEF Receive, device
<1>2. events' \in 0 .. MaxEvents /\ events \in Nat BY <1>t, <1>1, EventsAssumption DEF TypeOK
<1>3. TypeOK' BY <1>t, <1>1, <1>2 DEF TypeOK
<1>4. FlagKept' BY <1>1 DEF IInv, FlagKept
<1>5. Busy /\ Busy' BY <1>1 DEF Busy
<1>6. Conversation' BY <1>1, <1>2, <1>5 DEF IInv, Conversation
<1>7. Identity' BY <1>1, <1>5 DEF IInv, Identity
<1>8. Safe' BY <1>1, <1>5 DEF IInv, Safe, AnsweredOnce, AnswersAreWhole
<1>9. Serial' BY <1>1 DEF IInv, Serial
<1>. QED BY <1>3, <1>4, <1>6, <1>7, <1>8, <1>9 DEF IInv

LEMMA IgnoreKeeps ==
  ASSUME IInv, Ignore
  PROVE  IInv'
<1>t. TypeOK BY DEF IInv
<1>1. /\ pc = "got" /\ ~Served(pdata.code, normal)
      /\ pc' = "idle" /\ pdata' = Empty /\ notify' = Failure("other")
      /\ UNCHANGED <<char, normal, events, property, flash, factory, peer>>
  BY DEF Ignore, Return, device
<1>2. notify' \in Answers BY <1>1, FailureWhole DEF Codes
<1>3. TypeOK' BY <1>t, <1>1, <1>2, EmptyValue DEF TypeOK
<1>4. FlagKept' BY <1>1 DEF IInv, FlagKept
<1>5. Busy /\ (Busy' => events > 0) BY <1>1 DEF Busy
<1>6. peer.orderly => ~(events > 0) BY <1>1 DEF IInv, Conversation
<1>7. Conversation' BY <1>1, <1>5, <1>6 DEF IInv, Conversation
<1>8. Identity' BY <1>1, <1>5 DEF IInv, Identity
<1>9. peer.orderly => /\ pdata = peer.cmd /\ normal = peer.normal /\ peer.got = <<>>
  BY <1>1, <1>5 DEF IInv, Conversation
<1>10. AnsweredOnce' BY <1>1, <1>9 DEF AnsweredOnce
<1>11. Safe' BY <1>1, <1>10 DEF IInv, Safe, AnswersAreWhole
<1>12. Serial' BY <1>1 DEF IInv, Serial
<1>. QED BY <1>3, <1>4, <1>7, <1>8, <1>11, <1>12 DEF IInv

LEMMA PromiseKeeps ==
  ASSUME IInv, NEW code \in Codes, NEW answer, Promise(code, answer)
  PROVE  IInv'
<1>t. TypeOK BY DEF IInv
<1>1. /\ pc = "got" /\ pdata.code = code /\ Served(code, normal) /\ notify' = answer /\ pc' = "reply"
      /\ UNCHANGED <<char, normal, events, pdata, peer>>
  BY DEF Promise, Ran
<1>2. answer \in Answers /\ Whole(answer) /\ answer.code = code /\ TrueOf(answer, pdata, flash')
  BY DEF Promise
<1>3. TypeOK' BY <1>t, <1>1, <1>2 DEF TypeOK, Promise
<1>4. /\ property.flag = flash.flag /\ (peer.exited => flash.flag)
  BY DEF IInv, FlagKept
<1>5. /\ property'.flag = flash'.flag
      /\ flash.flag => flash'.flag
      /\ code = "exit" /\ answer.ok => flash'.flag
  BY <1>4 DEF Promise
<1>6. FlagKept' BY <1>1, <1>2, <1>4, <1>5 DEF FlagKept
<1>7. Busy /\ Busy' BY <1>1 DEF Busy
<1>8. peer.orderly => /\ ~(events > 0) /\ pdata = peer.cmd /\ normal = peer.normal /\ peer.got = <<>>
  BY <1>1, <1>7 DEF IInv, Conversation
<1>9. Conversation' BY <1>1, <1>2, <1>7, <1>8 DEF Conversation
<1>10. code = "setId" => ~normal
  <2>1. "setId" \notin Normal BY DEF Normal
  <2>. QED BY <1>1, <2>1 DEF Served
<1>11. Identity'
  <2> SUFFICES ASSUME peer.orderly PROVE Identity' BY <1>1 DEF Identity
  <2>1. code = "setId" => pdata.id \in peer.asked
    BY <1>1, <1>7, <1>8, <1>10 DEF IInv, Identity
  <2>2. /\ flash.id \in {peer.acked} \cup peer.asked
        /\ property.id \in {flash.id} \cup peer.asked
    BY DEF IInv, Identity
  <2>3. /\ IF code = "setId"
           THEN property'.id = pdata.id /\ flash'.id \in {flash.id, pdata.id}
           ELSE property'.id \in {property.id, flash'.id} /\ flash'.id \in {flash.id, property.id}
        /\ code = "setId" /\ answer.ok => property'.id = flash'.id
    BY DEF Promise
  <2>4. flash'.id \in {peer.acked} \cup peer.asked BY <2>1, <2>2, <2>3
  <2>5. property'.id \in {flash'.id} \cup peer.asked BY <2>1, <2>2, <2>3
  <2>6. (Busy /\ peer.cmd.code = "setId" /\ ~peer.normal => peer.cmd.id \in peer.asked)
    BY DEF IInv, Identity
  <2>. QED BY <1>1, <1>2, <1>7, <2>3, <2>4, <2>5, <2>6 DEF Identity
<1>12. Serial'
  <2> SUFFICES ASSUME peer.orderly PROVE Serial' BY <1>1 DEF Serial
  <2>1. flash.sn \in peer.sn BY <1>1 DEF IInv, Serial
  <2>2. ~(code = "setSn" /\ answer.ok) => flash'.sn = flash.sn BY DEF Promise
  <2>. QED BY <1>1, <1>2, <2>1, <2>2 DEF Serial
<1>13. Safe' BY <1>1, <1>2, <1>7 DEF IInv, Safe, AnsweredOnce, AnswersAreWhole
<1>. QED BY <1>3, <1>6, <1>9, <1>11, <1>12, <1>13 DEF IInv

LEMMA ReplyKeeps ==
  ASSUME IInv, Reply
  PROVE  IInv'
<1> DEFINE stored == peer.orderly /\ notify.ok /\ notify.code = "setId"
           numbered == peer.orderly /\ notify.ok /\ notify.code = "setSn"
           got == IF peer.orderly THEN Append(peer.got, notify) ELSE <<notify>>
<1>t. TypeOK BY DEF IInv
<1>1. /\ pc = "reply" /\ char' = [code |-> notify.code, id |-> Junk, sn |-> {3}]
      /\ pc' = "idle" /\ pdata' = Empty /\ notify' = Failure("other")
      /\ UNCHANGED <<normal, events, property, flash, factory>>
  BY DEF Reply, Return, device
<1>2. peer' = [peer EXCEPT !.got = got,
                           !.acked = IF stored THEN pdata.id ELSE @,
                           !.asked = IF stored THEN {} ELSE @,
                           !.sn = IF numbered THEN pdata.sn ELSE @,
                           !.exited = @ \/ (notify.ok /\ notify.code = "exit")]
  BY DEF Reply
<1>3. notify \in Answers /\ pdata \in Values /\ peer \in Peers BY <1>t DEF TypeOK
<1>4. got \in Seq(Answers) /\ pdata.id \in Identities /\ pdata.sn \in SUBSET Sns
  BY <1>3 DEF Peers, Values, Identities
<1>5. (notify.ok /\ notify.code = "exit") \in BOOLEAN OBVIOUS
<1>6. /\ peer' \in Peers
      /\ peer'.orderly = peer.orderly /\ peer'.cmd = peer.cmd /\ peer'.normal = peer.normal
      /\ peer'.got = got
      /\ peer'.acked = (IF stored THEN pdata.id ELSE peer.acked)
      /\ peer'.asked = (IF stored THEN {} ELSE peer.asked)
      /\ peer'.sn = (IF numbered THEN pdata.sn ELSE peer.sn)
      /\ peer'.exited = (peer.exited \/ (notify.ok /\ notify.code = "exit"))
  <2>. HIDE DEF got, stored, numbered
  <2>. QED BY <1>2, <1>3, <1>4, <1>5 DEF Peers
<1>7. char' \in Values BY <1>1, <1>3 DEF Values, Answers, Sns
<1>8. notify' \in Answers BY <1>1, FailureWhole DEF Codes
<1>9. TypeOK' BY <1>t, <1>1, <1>6, <1>7, <1>8, EmptyValue DEF TypeOK
<1>10. FlagKept' BY <1>1, <1>6 DEF IInv, FlagKept
<1>11. Busy BY <1>1 DEF Busy
<1>12. peer.orderly =>
         /\ ~(events > 0) /\ pdata = peer.cmd /\ normal = peer.normal /\ peer.got = <<>>
         /\ Served(peer.cmd.code, peer.normal)
         /\ notify.code = peer.cmd.code
         /\ TrueOf(notify, peer.cmd, flash)
  BY <1>1, <1>11 DEF IInv, Conversation
<1>13. peer.orderly => ~Busy' BY <1>1, <1>12 DEF Busy
<1>14. Conversation' BY <1>1, <1>6, <1>12, <1>13 DEF Conversation
<1>15. Identity'
  <2> SUFFICES ASSUME peer.orderly PROVE Identity' BY <1>6 DEF Identity
  <2>1. /\ flash.id \in {peer.acked} \cup peer.asked
        /\ property.id \in {flash.id} \cup peer.asked
        /\ stored => property.id = flash.id
    BY <1>1 DEF IInv, Identity
  <2>2. stored => flash.id = pdata.id BY <1>12 DEF TrueOf
  <2>3. flash'.id \in {peer'.acked} \cup peer'.asked BY <1>1, <1>6, <2>1, <2>2
  <2>4. property'.id \in {flash'.id} \cup peer'.asked BY <1>1, <1>6, <2>1
  <2>. QED BY <1>1, <1>13, <2>3, <2>4 DEF Identity
<1>16. peer.orderly => got = <<notify>>
  <2>1. Append(<<>>, notify) = <<notify>> BY <1>3
  <2>. QED BY <1>12, <2>1
<1>17. got = <<notify>> BY <1>16
<1>18. Len(got) = 1 /\ got[1] = notify /\ DOMAIN got = {1} BY <1>17
<1>19. AnsweredOnce'
  BY <1>1, <1>6, <1>12, <1>18 DEF AnsweredOnce, TrueOf
<1>20. Whole(notify) BY <1>1 DEF IInv, Safe
<1>21. AnswersAreWhole' BY <1>6, <1>18, <1>20 DEF AnswersAreWhole, Whole
<1>22. Safe' BY <1>1, <1>19, <1>21 DEF IInv, Safe
<1>23. Serial'
  <2> SUFFICES ASSUME peer.orderly PROVE Serial' BY <1>6 DEF Serial
  <2>1. numbered => flash.sn \in pdata.sn BY <1>12 DEF TrueOf
  <2>2. ~numbered => flash.sn \in peer.sn BY <1>1 DEF IInv, Serial
  <2>. QED BY <1>1, <1>6, <2>1, <2>2 DEF Serial
<1>. QED BY <1>9, <1>10, <1>14, <1>15, <1>22, <1>23 DEF IInv

\* The number that is about to be acknowledged is the one of the command.
LEMMA SerialIsThePeers == IInv => SnIsThePeers
<1> SUFFICES ASSUME IInv, peer.orderly, pc = "reply", notify.ok, notify.code = "setSn"
             PROVE  flash.sn \in SnUnderway
  BY DEF IInv, Serial, SnIsThePeers
<1>1. /\ Served(peer.cmd.code, peer.normal) /\ peer.cmd.code = "setSn"
      /\ TrueOf(notify, peer.cmd, flash)
  BY DEF IInv, Conversation
<1>2. flash.sn \in peer.cmd.sn BY <1>1 DEF TrueOf
<1>3. ~peer.normal BY <1>1 DEF Served, Normal
<1>. QED BY <1>1, <1>2, <1>3 DEF SnUnderway, Busy

LEMMA RestartKeeps ==
  ASSUME IInv, Restart
  PROVE  IInv'
<1>t. TypeOK BY DEF IInv
<1>1. /\ char' = Empty /\ normal' = TRUE /\ events' = 0
      /\ pc' = "idle" /\ pdata' = Empty /\ notify' = Failure("other")
      /\ property' = [flag |-> flash.flag, id |-> flash.id] /\ factory' = FALSE
      /\ peer' = [peer EXCEPT !.sent = FALSE, !.cmd = Empty, !.normal = TRUE, !.got = <<>>,
                                !.sn = IF flash.sn \in SnUnderway THEN {flash.sn} ELSE @]
      /\ flash' = flash
  BY DEF Restart, Return, PropertyRead
<1>2. /\ peer' \in Peers
      /\ peer'.orderly = peer.orderly /\ peer'.cmd = Empty /\ peer'.got = <<>> /\ ~peer'.sent
      /\ peer'.sn = (IF flash.sn \in SnUnderway THEN {flash.sn} ELSE peer.sn)
      /\ peer'.acked = peer.acked /\ peer'.asked = peer.asked /\ peer'.exited = peer.exited
  <2>1. peer \in Peers BY <1>t DEF TypeOK
  <2>2. <<>> \in Seq(Answers) OBVIOUS
  <2>3. flash.sn \in Sns BY <1>t DEF TypeOK
  <2>. QED BY <1>1, <2>1, <2>2, <2>3, EmptyValue DEF Peers
<1>3. /\ property' \in [flag: BOOLEAN, id: Identities]
      /\ property'.flag = flash.flag /\ property'.id = flash.id
  BY <1>t, <1>1 DEF TypeOK
<1>4. notify' \in Answers BY <1>1, FailureWhole DEF Codes
<1>z. 0 \in 0 .. MaxEvents BY EventsAssumption
<1>5. TypeOK' BY <1>t, <1>1, <1>2, <1>3, <1>4, <1>z, EmptyValue DEF TypeOK
<1>6. FlagKept' BY <1>1, <1>2, <1>3 DEF IInv, FlagKept
<1>7. ~Busy' BY <1>1 DEF Busy
<1>8. Conversation' BY <1>1, <1>7 DEF Conversation
<1>9. Identity' BY <1>1, <1>2, <1>3, <1>7 DEF IInv, Identity
<1>10. Safe' BY <1>1, <1>2 DEF IInv, Safe, AnsweredOnce, AnswersAreWhole
<1>11. SnIsThePeers BY SerialIsThePeers
<1>12. Serial' BY <1>1, <1>2, <1>11 DEF Serial, SnIsThePeers
<1>. QED BY <1>5, <1>6, <1>8, <1>9, <1>10, <1>12 DEF IInv

LEMMA Inductive == IInv /\ [Next]_vars => IInv'
<1> SUFFICES ASSUME IInv, [Next]_vars PROVE IInv' OBVIOUS
<1>1. CASE UNCHANGED vars
  BY <1>1 DEF IInv, TypeOK, FlagKept, Conversation, Identity, Serial, Safe, AnsweredOnce,
              AnswersAreWhole, Busy, vars, device
<1>2. ASSUME NEW v \in PeerValues, NEW isNormal \in BOOLEAN, Write(v, isNormal) PROVE IInv'
  BY <1>2, WriteKeeps
<1>3. CASE Receive BY <1>3, ReceiptKeeps
<1>4. CASE Execute
  <2>1. TypeOK BY DEF IInv
  <2>. QED BY <1>4, <2>1, ExecuteRuns, IgnoreKeeps, PromiseKeeps
<1>5. CASE Reply BY <1>5, ReplyKeeps
<1>6. CASE Restart BY <1>6, RestartKeeps
<1>. QED BY <1>1, <1>2, <1>3, <1>4, <1>5, <1>6 DEF Next, Handle

-----------------------------------------------------------------------------
(* The properties *)

\* In every state of the handler, the conversation with its peer, the memory
\* and the flash are in the relation IInv describes.
THEOREM Invariance == Spec => []IInv
BY Initially, Inductive, PTL DEF Spec

\* The variables keep their types, the lengths of the answers included.
THEOREM TypeCorrect == Spec => []TypeOK
<1>1. IInv => TypeOK BY DEF IInv
<1>. QED BY <1>1, Invariance, PTL

\* A peer that waits for its answers gets one true answer to each command that
\* is known and none to any other, be its code not known or its length wrong,
\* through failures and restarts.
THEOREM OneTrueAnswer == Spec => []AnsweredOnce
<1>1. IInv => AnsweredOnce BY DEF IInv, Safe
<1>. QED BY <1>1, Invariance, PTL

\* What WP_sensor_ID is in flash was answered with success, or was written by
\* the peer after that; in memory it may also be one whose write failed.
THEOREM IdentityIsThePeers == Spec => []IdIsThePeers
<1>1. IInv => IdIsThePeers BY DEF IInv, Identity, IdIsThePeers
<1>. QED BY <1>1, Invariance, PTL

\* Once the exit command is answered with success, ats_flag stays set in memory
\* and in flash, whatever is saved, fails or is cut off after that.
THEOREM FlagIsForGood == Spec => []FlagStays
<1>1. IInv => FlagStays BY DEF IInv, FlagKept, FlagStays
<1>. QED BY <1>1, Invariance, PTL

\* The serial number in flash is the one last acknowledged, or one whose answer
\* a restart has cut off or that is about to be given; one that is answered
\* with a failure never gets there.
THEOREM SerialNumberIsThePeers == Spec => []SnIsThePeers
BY SerialIsThePeers, Invariance, PTL

\* Every answer fits the characteristic and has the bytes it announces.
THEOREM AnswersFit == Spec => []AnswersAreWhole
<1>1. IInv => AnswersAreWhole BY DEF IInv, Safe
<1>. QED BY <1>1, Invariance, PTL
=============================================================================
