------------------------------ MODULE GpioI2c -------------------------------
(***************************************************************************)
(* The bit-banged I2C master of gpio_i2c.c, pin write by pin write, with   *)
(* one slave on the bus.                                                   *)
(*                                                                         *)
(* A public function calls i2c_choice, gpio_i2c_start, gpio_i2c_send_byte, *)
(* ... in an order that its arguments fix, and each of these is a fixed    *)
(* sequence of pin operations.  A step executes the next pin operation.    *)
(* Delays only give the slave time to react, so a step contains the        *)
(* reaction of the slave to the edge it makes.                             *)
(*                                                                         *)
(* The two lines are pulled up; a line is low when either side drives it   *)
(* low.  The slave, and the log of what an observer of the two lines       *)
(* decodes, are external: they follow the I2C protocol, not this code.     *)
(***************************************************************************)
EXTENDS Naturals, Sequences, SequencesExt

CONSTANTS
  Addr,       \* slave addresses passed by the callers, in 8-bit form
  Reg,        \* register addresses
  Data,       \* bytes written by the callers
  SlaveData,  \* bytes the slave answers a read with
  Lens,       \* lengths passed to gpio_i2c_read_data and _lcd_read_data
  MaxLen,     \* bound: longest buffer passed to gpio_i2c_write_data
  Fns         \* the functions the callers call

Byte == 0 .. 255

ASSUME ByteAssumption == Reg \cup Data \cup SlaveData \subseteq Byte
ASSUME AddrAssumption == \A a \in Addr : a \in Byte /\ a % 2 = 0
\* A length of 0 is the callers' to avoid: see the hazards.
ASSUME LenAssumption  == MaxLen \in Byte /\ Lens \subseteq Byte \ {0}

VARIABLES
  call,     \* the public function running, or the last one, with its arguments
  piece,    \* which of the functions it calls is running, 0 when it has returned
  op,       \* which pin operation of that one comes next
  pins,     \* output latches of the two pins, and the pins set as outputs
  data,     \* the local `data` of recv_byte
  pdata,    \* the bytes stored in the caller's buffer
  slave,    \* (external) role of the slave, the byte it sends, what it drives
  seen,     \* (external) the observer's count of clocked bits and their value
  bus       \* (external) what the observer has decoded since the call started

i2cVars == <<call, piece, op, pins, data, pdata, slave, seen, bus>>

-----------------------------------------------------------------------------
(* The pin operations of the functions a transfer is made of *)

i2c_choice == <<"SET_SCL_OUT", "SET_SDA_OUT">>

gpio_i2c_start == <<"SDA_SET_1", "SCL_SET_1", "SDA_SET_0", "SCL_SET_0">>

\* Mutant: SDA is not raised at the end.
StopHalf == <<"SCL_SET_0", "SDA_SET_0", "SCL_SET_1">>

gpio_i2c_stop == <<"SCL_SET_0", "SDA_SET_0", "SCL_SET_1", "SDA_SET_1">>

SetSda(level) == IF level = 0 THEN "SDA_SET_0" ELSE "SDA_SET_1"

gpio_i2c_send_ack(ack) == <<SetSda(ack), "SCL_SET_1">>

\* Bit i of a byte, counted from the most significant one.
Weight == <<128, 64, 32, 16, 8, 4, 2, 1>>
BitOf(b, i) == (b \div Weight[i]) % 2

\* The acknowledge of the slave is sampled and dropped.
SkipAck == <<"SCL_SET_0", "SET_SDA_IN", "SCL_SET_1", "SCL_SET_0", "SET_SDA_OUT">>

\* Mutant: the least significant bit goes first.
SendLsbFirst(b) ==
  [k \in 1 .. 24 |-> CASE k % 3 = 1 -> "SCL_SET_0"
                       [] k % 3 = 2 -> SetSda(BitOf(b, 9 - (k + 1) \div 3))
                       [] k % 3 = 0 -> "SCL_SET_1"] \o SkipAck

\* Eight times: SCL low, the bit, SCL high.
gpio_i2c_send_byte(b) ==
  [k \in 1 .. 24 |-> CASE k % 3 = 1 -> "SCL_SET_0"
                       [] k % 3 = 2 -> SetSda(BitOf(b, (k + 1) \div 3))
                       [] k % 3 = 0 -> "SCL_SET_1"] \o SkipAck

\* Mutant: SDA is sampled after SCL has fallen.
ReadBitsLate ==
  [k \in 1 .. 24 |-> CASE k % 3 = 1 -> "SCL_SET_1"
                       [] k % 3 = 2 -> "SCL_SET_0"
                       [] k % 3 = 0 -> "SDA_GET"]

\* Eight times: SCL high, the bit, SCL low.
ReadBits ==
  [k \in 1 .. 24 |-> CASE k % 3 = 1 -> "SCL_SET_1"
                       [] k % 3 = 2 -> "SDA_GET"
                       [] k % 3 = 0 -> "SCL_SET_0"]

\* Mutant: SDA stays an output while the slave sends.
RecvDriving == <<"SCL_SET_0", "SDA_SET_1">> \o ReadBits \o <<"STORE">>

\* STORE is the caller's: the byte returned goes into its buffer.
gpio_i2c_recv_byte ==
  <<"SCL_SET_0", "SDA_SET_1", "SET_SDA_IN">> \o ReadBits \o <<"SET_SDA_OUT", "STORE">>

\* The variant for the LCD leaves out the first SCL_SET_0.
gpio_i2c_lcd_recv_byte ==
  <<"SDA_SET_1", "SET_SDA_IN">> \o ReadBits \o <<"SET_SDA_OUT", "STORE">>

\* A call of one of these functions, and its pin operations.
Do(fn) == [fn |-> fn, arg |-> 0]
Send(b) == [fn |-> "send_byte", arg |-> b]
Ack(ack) == [fn |-> "send_ack", arg |-> ack]

Body(f) ==
  CASE f.fn = "i2c_choice"    -> i2c_choice
    [] f.fn = "start"         -> gpio_i2c_start
    [] f.fn = "send_byte"     -> gpio_i2c_send_byte(f.arg)
    [] f.fn = "recv_byte"     -> gpio_i2c_recv_byte
    [] f.fn = "lcd_recv_byte" -> gpio_i2c_lcd_recv_byte
    [] f.fn = "send_ack"      -> gpio_i2c_send_ack(f.arg)
    [] f.fn = "stop"          -> gpio_i2c_stop

-----------------------------------------------------------------------------
(* The functions a public function calls, in order *)

WriteAddr(a) == a                                   \* addr | 0x00
ReadAddr(a)  == IF a % 2 = 0 THEN a + 1 ELSE a      \* addr | 0x01

SendBytes(s) == [i \in DOMAIN s |-> Send(s[i])]

\* The loop of the functions that read len bytes acknowledges all but the last.
RecvBytes(recv, len) ==
  [i \in 1 .. 2 * len - 1 |-> IF i % 2 = 1 THEN Do(recv) ELSE Ack(0)] \o <<Ack(1)>>

Calls(c) ==
  CASE c.fn \in {"write_byte", "write_data"} ->
         <<Do("i2c_choice"), Do("start"), Send(WriteAddr(c.addr)), Send(c.reg)>>
           \o SendBytes(c.bytes) \o <<Do("stop")>>
    [] c.fn \in {"read_byte", "read_data"} ->
         <<Do("i2c_choice"), Do("start"), Send(WriteAddr(c.addr)), Send(c.reg),
           Do("start"), Send(ReadAddr(c.addr))>>
           \o RecvBytes("recv_byte", c.len) \o <<Do("stop")>>
    [] c.fn = "lcd_read_data" ->
         <<Do("i2c_choice"), Do("start"), Send(ReadAddr(c.addr)), Send(c.reg)>>
           \o RecvBytes("lcd_recv_byte", c.len) \o <<Do("stop")>>

-----------------------------------------------------------------------------
(* The lines *)

Scl(p) == IF "SCL" \in p.out THEN p.scl ELSE 1
Sda(p, s) == IF "SDA" \in p.out /\ p.sda = 0 THEN 0 ELSE s.sda

PinAfter(o) ==
  CASE o = "SCL_SET_0"   -> [pins EXCEPT !.scl = 0]
    [] o = "SCL_SET_1"   -> [pins EXCEPT !.scl = 1]
    [] o = "SDA_SET_0"   -> [pins EXCEPT !.sda = 0]
    [] o = "SDA_SET_1"   -> [pins EXCEPT !.sda = 1]
    [] o = "SET_SCL_OUT" -> [pins EXCEPT !.out = @ \cup {"SCL"}]
    [] o = "SET_SDA_OUT" -> [pins EXCEPT !.out = @ \cup {"SDA"}]
    [] o = "SET_SDA_IN"  -> [pins EXCEPT !.out = @ \ {"SDA"}]
    [] OTHER -> pins

-----------------------------------------------------------------------------
(* The slave and the observer (external).  Each operator is what they do   *)
(* after an edge made by the master; d is the level of SDA.                *)

Log(ev, byte, ack) == bus' = Append(bus, [ev |-> ev, byte |-> byte, ack |-> ack])

OnStart ==
  /\ Log("S", 0, 0)
  /\ seen' = [open |-> TRUE, n |-> 0, v |-> 0]
  /\ slave' = [slave EXCEPT !.role = "addr", !.sda = 1]

OnStop ==
  /\ Log("P", 0, 0)
  /\ seen' = [open |-> FALSE, n |-> 0, v |-> 0]
  /\ slave' = [slave EXCEPT !.role = "none", !.sda = 1]

\* SCL rises: a bit is read, the ninth one is the acknowledge.
OnRise(d) ==
  /\ \/ seen.open /\ seen.n < 8 /\ UNCHANGED bus
        /\ seen' = [seen EXCEPT !.n = @ + 1, !.v = 2 * @ + d]
     \/ seen.open /\ seen.n = 8 /\ Log("byte", seen.v, d)
        /\ seen' = [seen EXCEPT !.n = 9]
     \/ ~seen.open /\ UNCHANGED <<seen, bus>>
  /\ UNCHANGED slave

\* The slave starts to send a byte: it drives the first bit.
SendFirstBit ==
  \E b \in SlaveData :
    slave' = [slave EXCEPT !.role = "tx", !.byte = b, !.sda = BitOf(b, 1),
                           !.sent = Append(@, b)]

Released(role) == slave' = [slave EXCEPT !.role = role, !.sda = 1]

\* SCL falls: the slave may change SDA.
OnFall(d) ==
  /\ seen' = IF seen.n = 9 THEN [seen EXCEPT !.n = 0, !.v = 0] ELSE seen
  /\ \/ /\ slave.role \in {"addr", "rx"} /\ seen.n = 8
        /\ \E ack \in {0, 1} : slave' = [slave EXCEPT !.sda = ack]
     \/ /\ slave.role = "addr" /\ seen.n = 9 /\ slave.sda = 1
        /\ Released("none")
     \/ /\ slave.role = "addr" /\ seen.n = 9 /\ slave.sda = 0
        /\ IF seen.v % 2 = 1 THEN SendFirstBit ELSE Released("rx")
     \/ /\ slave.role = "rx" /\ seen.n = 9
        /\ Released("rx")
     \/ /\ slave.role = "tx" /\ seen.n < 8
        /\ slave' = [slave EXCEPT !.sda = BitOf(slave.byte, seen.n + 1)]
     \/ /\ slave.role = "tx" /\ seen.n = 8
        /\ Released("tx")
     \/ /\ slave.role = "tx" /\ seen.n = 9
        /\ IF d = 0 THEN SendFirstBit ELSE Released("none")
     \/ /\ slave.role = "none" \/ (slave.role \in {"addr", "rx"} /\ seen.n < 8)
        /\ UNCHANGED slave
  /\ UNCHANGED bus

-----------------------------------------------------------------------------
I2cInit ==
  /\ call = [fn |-> "none"]
  /\ piece = 0
  /\ op = 0
  \* Both latches have the same reset level; the pins are inputs.
  /\ \E level \in {0, 1} : pins = [scl |-> level, sda |-> level, out |-> {}]
  /\ data = 0
  /\ pdata = <<>>
  /\ slave = [role |-> "none", byte |-> 0, sda |-> 1, sent |-> <<>>]
  /\ seen = [open |-> FALSE, n |-> 0, v |-> 0]
  /\ bus = <<>>

Idle == piece = 0

Call(c) ==
  /\ c.fn \in Fns
  /\ call' = c
  /\ piece' = 1
  /\ op' = 1
  /\ data' = 0
  /\ pdata' = <<>>
  /\ bus' = <<>>
  /\ slave' = [slave EXCEPT !.sent = <<>>]
  /\ UNCHANGED <<pins, seen>>

WriteByte ==
  Idle /\ \E a \in Addr, r \in Reg, b \in Data :
    Call([fn |-> "write_byte", addr |-> a, reg |-> r, bytes |-> <<b>>, len |-> 0])

WriteData ==
  Idle /\ \E a \in Addr, r \in Reg, s \in BoundedSeq(Data, MaxLen) :
    Call([fn |-> "write_data", addr |-> a, reg |-> r, bytes |-> s, len |-> 0])

ReadByte ==
  Idle /\ \E a \in Addr, r \in Reg :
    Call([fn |-> "read_byte", addr |-> a, reg |-> r, bytes |-> <<>>, len |-> 1])

ReadData ==
  Idle /\ \E a \in Addr, r \in Reg, n \in Lens :
    Call([fn |-> "read_data", addr |-> a, reg |-> r, bytes |-> <<>>, len |-> n])

LcdReadData ==
  Idle /\ \E a \in Addr, r \in Reg, n \in Lens :
    Call([fn |-> "lcd_read_data", addr |-> a, reg |-> r, bytes |-> <<>>, len |-> n])

\* The pin operation that comes next, and the one behind it.
Running == Body(Calls(call)[piece])
Op == Running[op]

Advance ==
  \/ op < Len(Running) /\ op' = op + 1 /\ UNCHANGED piece
  \/ op = Len(Running) /\ piece < Len(Calls(call)) /\ piece' = piece + 1 /\ op' = 1
  \/ op = Len(Running) /\ piece = Len(Calls(call)) /\ piece' = 0 /\ op' = 0

\* A pin is written or configured; the slave and the observer see the edge.
Drive(o) ==
  /\ pins' = PinAfter(o)
  /\ LET c0 == Scl(pins)  d0 == Sda(pins, slave)
         c1 == Scl(pins') d1 == Sda(pins', slave)
     IN  \/ c0 = 1 /\ c1 = 1 /\ d0 = 1 /\ d1 = 0 /\ OnStart
         \/ c0 = 1 /\ c1 = 1 /\ d0 = 0 /\ d1 = 1 /\ OnStop
         \/ c0 = 0 /\ c1 = 1 /\ OnRise(d1)
         \/ c0 = 1 /\ c1 = 0 /\ OnFall(d0)
         \/ c0 = c1 /\ (c0 = 0 \/ d0 = d1) /\ UNCHANGED <<slave, seen, bus>>

DrivePins ==
  /\ ~Idle
  /\ Op \notin {"SDA_GET", "STORE"}
  /\ Drive(Op)
  /\ Advance
  /\ UNCHANGED <<call, data, pdata>>

\* data <<= 1 and the sampled bit, in an 8-bit variable.
SampleBit ==
  /\ ~Idle
  /\ Op = "SDA_GET"
  /\ data' = (2 * data + Sda(pins, slave)) % 256
  /\ Advance
  /\ UNCHANGED <<call, pins, pdata, slave, seen, bus>>

\* recv_byte returns; its caller stores the byte.
StoreByte ==
  /\ ~Idle
  /\ Op = "STORE"
  /\ pdata' = Append(pdata, data)
  /\ data' = 0
  /\ Advance
  /\ UNCHANGED <<call, pins, slave, seen, bus>>

I2cNext ==
  \/ WriteByte
  \/ WriteData
  \/ ReadByte
  \/ ReadData
  \/ LcdReadData
  \/ DrivePins
  \/ SampleBit
  \/ StoreByte

I2cSpec == I2cInit /\ [][I2cNext]_i2cVars

-----------------------------------------------------------------------------
(* Properties *)

I2cTypeOK ==
  /\ piece \in Nat /\ op \in Nat
  /\ bus \in Seq([ev: {"S", "P", "byte"}, byte: Byte, ack: {0, 1}])
  /\ pins \in [scl: {0, 1}, sda: {0, 1}, out: SUBSET {"SCL", "SDA"}]
  /\ data \in Byte
  /\ pdata \in Seq(Byte)
  /\ slave \in [role: {"none", "addr", "rx", "tx"}, byte: Byte, sda: {0, 1},
                sent: Seq(Byte)]
  /\ seen \in [open: BOOLEAN, n: 0 .. 9, v: Byte]

Returned == Idle /\ call.fn # "none"

\* The transfer a function is meant to make.  The slave may or may not
\* acknowledge a byte sent to it: the master looks at neither answer.
Clocked(b)     == [ev |-> "byte", byte |-> b, ack |-> {0, 1}]
Mark(ev)    == [ev |-> ev, byte |-> 0, ack |-> {0}]
Got(i, len) == [ev |-> "byte", byte |-> pdata[i], ack |-> {IF i < len THEN 0 ELSE 1}]

Transfer(c) ==
  <<Mark("S"), Clocked(c.addr), Clocked(c.reg)>> \o
  ( IF c.len = 0
    THEN [i \in DOMAIN c.bytes |-> Clocked(c.bytes[i])]
    ELSE <<Mark("S"), Clocked(c.addr + 1)>> \o [i \in 1 .. c.len |-> Got(i, c.len)] )
  \o <<Mark("P")>>

\* The LCD variant makes no standard transfer, and a standard slave is out of
\* step with it: of the properties below only BusIdleOnReturn is asked of it.
Standard == call.fn # "lcd_read_data"

\* The waveform of a call reads, to an observer of the two lines, as exactly
\* the intended transfer: the bytes with their bits in order, the start,
\* repeated start and stop conditions and no other one, every received byte
\* acknowledged except the last - whatever the slave answers.
BusShowsTransfer ==
  Returned /\ Standard =>
    LET t == Transfer(call) IN
      /\ Len(bus) = Len(t)
      /\ \A i \in DOMAIN t :
           /\ bus[i].ev = t[i].ev
           /\ bus[i].byte = t[i].byte
           /\ bus[i].ack \in t[i].ack

\* A read stores the bytes the slave sent, as many as asked for; when no slave
\* answers the address it stores 0xFF, and nothing tells the caller.
ReadStoresSlaveBytes ==
  Returned /\ Standard =>
    pdata = IF slave.sent = <<>> THEN [i \in 1 .. call.len |-> 255] ELSE slave.sent

\* While SCL is high the two sides do not drive SDA to different levels, so
\* the level a side samples is the one the other side means.
NoContention ==
  Standard /\ Scl(pins) = 1 /\ "SDA" \in pins.out /\ pins.sda = 1 => slave.sda = 1

\* A function leaves the bus idle for the next one: both lines high, no
\* transfer open, the slave released.
BusIdleOnReturn ==
  Returned =>
    /\ Scl(pins) = 1
    /\ Sda(pins, slave) = 1
    /\ ~seen.open
    /\ slave.role = "none"
=============================================================================
