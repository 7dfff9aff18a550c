# Verification of the factory-test and driver code

This directory holds TLA+ models of the programs in this repository, the TLC
configurations that check them, and proofs for the TLA+ proof system (TLAPS).
`PROJECT.json` is the index: the components, the runs, the lines of code each
definition models, the hazards the properties are aimed at, and the theorems.

Check a run with `tlc -config <cfg> <module>`, a proof with `tlapm <module>.tla`.

## 1. The system

The repository is a collection of programs and drivers of one hardware team.

| Part | Source | State it keeps | Operations |
|---|---|---|---|
| Command registry | `ats/src/ats.c`, `ats/module/*.c` | `g_moduleList`, `g_cmdList` | constructors and destructors of the module files, `AtCmdRegister`, `AtCmdUnregister`, `AtCmdInit`, `AtCmdDeInit` |
| Command parser | `ats/src/ats.c` | `buf`, `left`, `argv` of one call | `AtCmdExec` |
| Test daemon | `ats/src/main.c`, `ats/src/ats_chn.c` | `g_srvAddr`, `g_socket`, two threads | `main`, `StdInRecvThread`, `UdpRecvThread`, `UdpSendToPc` |
| Command handlers | `ats/module/*.c` | none of their own | one function per command |
| Linked list | `ats/utils/dlist.h` | `next` and `prev` of each node | the functions from `INIT_LIST_HEAD` to `list_splice_init`, the iteration macros |
| Software I2C | `软件iic/gpio_i2c.c` | pin latches and directions | five transfer functions |
| Light sensor | `光感IIC/ltr308.cpp` | `g_initDone`, the registers of the sensor | `AlsInit`, `AlsEnable`, `AlsDisable`, `AlsGetValue` |
| Camera test server | `UDP/cmd_handle.c`, `UDP/msg_manager.c` | `server_addr`, two threads, what is stored in the camera | `UartRecvThread`, `UdpRecvThread`, `cmd_process_handle` and its handlers |
| BLE factory test | `3、详细设计/.../1.ATS.c` | characteristic 1, `device_property`, flash | one event handler |
| GPS receiver | `3、详细设计/.../2.tonly_GSP.c` | `gps_data`, `spi_xfer_done` | `get_gps_data`, `gps_analyse` |

How they interact.  In `ats/` the constructors of the module files link their
tables into `g_moduleList` before `main`; `main` calls `AtCmdInit`, which fills
`g_cmdList`, and then starts two threads that never stop.  Each thread calls
`AtCmdExec` for every text that starts with `TL_`; `AtCmdExec` calls the
handler, which calls board functions and the send function of its channel.
There is no lock: the threads share `g_cmdList` (read only by then), the board,
and `g_srvAddr`, which `recvfrom` overwrites.  The camera server has the same
shape with a constant table, and a UART instead of the console.  The I2C code
and the LTR308 driver are libraries called from one thread.  The lists of the
registry are those of `dlist.h`, which checks nothing: its callers have to know
which calls are legal.  On the BLE sensor the stack's task puts what the peer
writes into a characteristic and queues an event; the handler's task reads the
characteristic later and puts the answer into the same one.  The GPS code
starts an SPI transfer and waits for a flag that the interrupt sets.

What is hard: the order of constructors and threads; one step of several
failing (registration, handler, I2C transaction); shared state overwritten
between a request and its answer; parsing with `strtok_r` through two
separators and a full `argv`; stale sensor data and a sensor that measures on
its own; a bus waveform that depends on direction changes in the right place;
pointers that have to be changed in the right order while a loop runs over
them; one characteristic for commands and answers, with a peer that may write
at any moment; flash writes that fail and restarts between a write and its
answer; a flag shared with an interrupt.
`PROJECT.json` lists these hazards at their lines.

## 2. Modules

| Module | Models | Checked by |
|---|---|---|
| `CmdTable` | abstract: the registry is a table name -> callback | `ats_registry` (refinement) |
| `AtsRegistry` | both lists of the registry and every function on them | `ats_registry` |
| `AtsRegistryProofs` | theorems about `AtsRegistry` | TLAPS |
| `DList` | the pointers of `dlist.h` and the lists they stand for, one action per function | `dlist` |
| `DListLoops` | the iteration macros over `DList`, with bodies that call its functions | `dlist` |
| `DListProofs` | theorems about `DList` and `DListLoops` | TLAPS |
| `Ranks` | the n-th element of a set of numbers | through `AtsParse` and `GpsSpi` |
| `SequenceLemmas` | facts about positions, ranks and `RemoveAt` that the proofs share | TLAPS |
| `AtsParse` | `AtCmdExec` as a parser | `ats_parse` |
| `AtsParseProofs` | theorems about `AtsParse` | TLAPS |
| `AtsCommands` | the real command tables, what each handler checks and calls | through `AtsDaemon` |
| `AtsService` | abstract: each request gets one answer | `ats_daemon` (refinement) |
| `AtsDaemon` | composes `AtsRegistry`, `AtsCommands`, `main` and the two threads | `ats_daemon` |
| `AtsDaemonProofs` | theorems about `AtsDaemon` and its refinement of `AtsService` | TLAPS |
| `GpioI2c` | the I2C master pin operation by pin operation, an external slave | `gpio_i2c` |
| `Ltr308` | the driver, one step per I2C transaction, an external sensor | `ltr308`, `ltr308_rate`, `ltr308_return` |
| `CameraCommands` | the command table of the camera and the program of each handler | through `CameraAts` |
| `CameraAts` | the camera's two threads, the dispatch, what the camera keeps | `camera`, `camera_legacy` |
| `CameraAtsProofs` | theorems about `CameraAts` and the programs of its handlers | TLAPS |
| `BleAts` | the event handler of `1.ATS.c`, the characteristic, the flash, an external peer | `ble_ats` |
| `BleAtsProofs` | theorems about `BleAts` | TLAPS |
| `GpsSpi` | `GPS_init`, `get_gps_data` and `gps_analyse`, an external receiver and its transfers | `gps_spi` |
| `DriverProofs` | theorems about `GpsSpi` and `GpioI2c` | TLAPS |

The `MC...` modules give the constants their values for TLC.  Operators whose
comment begins with "Mutant:" are wrong on purpose: each changes one definition
the way a plausible mistake in the code would, and `PROJECT.json` names the
property that then fails.  They play no part in the specifications.

### State and actions against the code

**AtsRegistry.**  `moduleList` and `cmdList` are the sequences of nodes that
`g_moduleList` and `g_cmdList` link; `mi` and `ci` are the positions of `pos`
and `i` in the nested loops, `ret` the last value returned.  `CmdsInit` and
`CmdsDeInit` are the constructor and destructor of a module file;
`AtCmdRegister` and `AtCmdUnregister` are whole calls; one iteration of the
loops of `AtCmdInit` or `AtCmdDeInit` is `InitStep` or `DeInitStep`, the end of
a module's table `NextModule`.  Other code may call the two exported functions
at any time the loops do not run.

**DList.**  `heap` is the `next` and `prev` of every structure; each action is one
call and computes the new pointers as the code does (`AddedBetween` is
`__list_add`, `Bridged` is `__list_del`, `Spliced` is `__list_splice`).  `lists`
is what the callers have put where, for the guards (which calls are legal) and
the properties.  `stale` are heads that `list_splice` emptied and, unlike
`list_splice_init`, did not initialise.

**DListLoops.**  `it` is the loop that runs: its kind, its `pos` and `n`, which
entries its body has had and which were there when it began.  `Begin`, `Visit`
and `End` are the three parts of the `for` statement, `Call` is a call of its
body: anything legal that leaves the walked list alone or, in a safe loop,
takes the current entry out.

**AtsParse.**  `buf` and `left` are the string that is being cut and the place
`strtok_r` keeps; `Enter`, `TakePrefix`, `LookUp`, `TakeParam` and `CallBack`
are the parts of `AtCmdExec` between two calls of `strtok_r`.  `StrTok` is
external: it does what the C standard says of it.  Characters are classes: line
end, NUL, the two separators, a letter.

**AtsDaemon.**  `at`, `cur`, `todo`, `ok`, `trace` are, for each thread, where
it is, the request in its buffer, the rest of the handler, what it will return,
and a history of the calls and messages; `srvAddr` is `g_srvAddr`.  The
registry variables are those of `AtsRegistry`, with the three tables of
`ats/module`.  `Take` is a read or `recvfrom`; `AtCmdExec` runs up to the
handler's first call, `DeviceCall` is one board call, `SendOutput` and
`SendStatus` are sends.  `CreateThread` fails as `pthread_create` may; then
`main` returns and the destructors run beside the console thread.

**GpioI2c.**  `Calls` is the sequence of functions a public function calls, as
its arguments fix it, and `Body` the pin operations of one of these
(`gpio_i2c_start`, `gpio_i2c_send_byte`, ... as in the code).  `piece` and `op`
are the program counter: which of the functions runs, and which operation of it
comes next.  `pins` holds the two output latches and which pins are outputs.
`WriteByte`, `ReadData`, ... make a call; `DrivePins`, `SampleBit` and
`StoreByte` execute one operation, and the slave reacts to the edge within the
step.

**Ltr308.**  A step is one I2C transaction.  `chip` is the sensor: its
registers, whether new data is ready, the settings the last measurement was
made with.  A light value is represented by the measurement it comes from.

**CameraAts, CameraCommands.**  `g_cmd_handles` is the table of `cmd_handle.c`,
row by row.  A handler is the word it wants in front, how many parameters it
needs, which values it takes, and its program: the calls whose failure ends it,
those whose result is ignored, what it writes, what it says.  `CmdProcessHandle`
is the dispatch with `strstr` and the checks of the handler, `DoCall`,
`DoWrite`, `DoSay`, ... execute the program, `Answer` sends the verdict.  `store`
and `file` survive `Restart`.

**BleAts.**  `pc` is where the handler is: `Receive` takes the value and the
length out of the stack, `Execute` is the whole switch up to the answer that is
ready in `notify`, `Reply` puts the answer into the characteristic and returns.
The peer's `Write` may come between any two of these steps, and before the event
of the value it overwrites.  A command is the name of its row, an identity or a
serial number stands for its bytes.  `flash` survives `Restart`, `property` is
`device_property`; `peer` is what the peer knows: what it asked for, the answers
it got, whether it has always waited for its answer (`orderly`).

**GpsSpi.**  `gps_data` is the buffer as the pieces between its commas, each with
its length, which is all `gps_analyse` looks at.  `GPS_init` may end in the fatal
error check of `timers_init`.  `Clear`, `Start` and `Wait` are
the steps of `get_gps_data`; `Event` is the interrupt, which may come at any
moment after `Start`; `Analyse` is `gps_analyse`.

## 3. Runs

A passing run finishes its whole state space.

| Run | Question | Instance | Why it is enough |
|---|---|---|---|
| `ats_registry` | Do names stay unique, do both loops complete and return, does the list implement a table? | three modules with seven entries, in any order; two names in two tables; an entry without callback, one without name; four commands from outside | each way a registration fails happens in each loop, first, in the middle and last, before and after calls from outside |
| `ats_parse` | Does every text reach the right callback with the right parameters? | all texts of up to 7 characters over 5 classes, `MAX_PARAM_CNT = 2` (32 in the code) | a name, both separators, empty pieces and one parameter too many fit in seven characters; the loop treats parameters alike, so only "full" and "not full" differ |
| `ats_daemon` | Is every answer earned and sent to the right peer, is the registry stable, does a thread answer while the other hangs? | the real tables; two UDP peers and the console; a request of each kind per peer | handlers differ in the number of calls, the checked values and their output only: one of each kind is there, accepted and refused |
| `gpio_i2c` | Does the waveform decode to the intended transfer? | one address, two registers, bytes with differing bits at both ends, up to 3 bytes to read and 2 to write, slave present or not | lengths 1, 2 and 3 have the last byte alone, with a first, and with one in the middle; every call may follow every other |
| `ltr308` | Is a value scaled with the settings it was measured with, are failures reported, does every call return? | any sequence of calls; a sensor that measures at any time; one bus that never fails and one that may fail at any transaction | there are no bounds: the state space is finite |
| `camera` | Does every word reach its row, is every verdict earned and sent to the right peer, what do the MAC addresses and the card test promise when both threads write and the camera restarts? | the full table of 91 rows; 16 requests, one for each form of handler program and each way to be refused; two peers and the UART; restarts; a card that fails at any operation or gives back other bytes | `EveryRowIsReached` looks at the word of every row; the other properties depend on the form of a program only; two threads are all there are, and every overlap of the writes and the card operations happens |
| `dlist` | Do `next` and `prev` of every list walk through the entries put there, does every loop visit all of them and end? | two heads, three entries, one loop at a time | a list with an entry before, at and behind the place that changes, beside a list that must not change; a splice of two lists that both have entries |
| `ble_ats` | Does a peer get one true answer per command and none to an unknown one, does what it was told is stored survive, can what was refused get into the flash? | two identities; one event behind the one that is handled (`MaxEvents = 1`) | one event that waits is enough for a value that is overwritten before it is read, and for one that is overwritten while it is handled; flash writes fail and restarts come at any step |
| `gps_spi` | Is what is sent a position the receiver has found, is a position in a documented sentence taken? Does the wait end? | two positions; three sentence forms, each with and without a position; a transfer reads any part of any two sentences in a row, its outer pieces whole or with 1, 10 or 11 characters left (`CutLengths`) | of a cut piece only whether it passes for a latitude (10) or a longitude (11) matters, and 1 stands for the other lengths; a third sentence adds nothing, since the fifth token is behind two sentences only when the third is a letter or a whole join, which is rejected; the theorems have every other length |

`TypeOK` is a property of the runs `ats_registry` and `dlist`, and is proved for
`AtsRegistry`, `DList`, `AtsParse`, `GpsSpi` and, as part of the inductive invariant,
`BleAts`.  In the
other modules it documents what the variables hold.

Three runs show a disagreement between the code and what is written beside it:
`ltr308_rate` (the settings `AlsInit` writes measure for 400 ms, the header
promises data every 100 ms), `ltr308_return` (the header promises a positive
number for a value, the code returns 0), `camera_legacy` (the write commands
kept for old products are refused by the handlers they are given to).  One more
is plain from the text and has no run: lines 29 and 30 of `2.tonly_GSP.c` give the
longitude ten characters and the latitude eleven, where the code and the sentence
on line 34 have it the other way round; `Lat` and `Lon` follow the latter.

What the runs show beyond the plain reading of the code:

- `AtCmdInit` registers everything it can although calls fail in the middle;
  of two entries with one name the first in constructor order wins.
  `AtCmdDeInit` leaves none of the names, although a call may remove another
  module's node and a later call then fails.
- `g_srvAddr` and `server_addr` may be overwritten only between two commands,
  because one thread receives and answers in turn; datagrams that are no
  commands overwrite it as well, and that is harmless for the same reason.
- `MacsAgree` is limited, on purpose, to writes that ran alone.  With two
  overlapping writes the chip and the DID partition can differ and both
  requests be answered with success: the code does not prevent it, and nothing
  in the repository says it should.
- The card test of one thread may find nothing to read because the other thread
  truncated its file.  It succeeds only when no operation failed and the card
  gave back what was written, and it fails only when an operation failed or
  other bytes came back (`TfTestTruthful`).
- The LCD variant of the I2C read makes no standard transfer, so only
  `BusIdleOnReturn` is asked of it: a standard slave and the master can even
  drive SDA against each other, which says nothing of the LCD it is meant for.
- A safe loop is safe for more than removal: its body may free the entry or move
  it to another list.  After `list_splice` only `INIT_LIST_HEAD` is legal on the
  emptied head.
- A peer of the BLE sensor that writes before its answer has come can have an
  answer taken as a command, since both use one characteristic; the bytes behind
  a command that was cut short are what an earlier value left there.
  `AnsweredOnce`, `IdIsThePeers` and `SnIsThePeers` are therefore about peers
  that wait and write whole parameters.  `FlagStays` and `AnswersAreWhole` are
  about every peer.
- The exit command sets a flag in flash that nothing takes back (`FlagStays`).
  The device can still be put into the factory test again: the enter command
  does so at any time, whatever the flag says.
- A serial number that was answered with a failure, for a character or for its
  write, is never stored; one that was stored just before a restart is, although
  no answer came (`SnIsThePeers`).  The command checks seven of the eight
  characters it stores; nothing in the repository says what the last one is.
- An identity that was answered with failure, because the flash refused it, is in
  memory all the same, and the exit command writes it to flash with the flag:
  `IdIsThePeers` allows what the peer has written after the last success.
- In `gps_analyse` the comparison of the sentence name never rejects a sentence:
  the buffer it compares with was cleared before.  The two lengths it checks are
  enough for the modelled forms, with one exception that `RealUnlessCut` names:
  a transfer that ends one character short of the name behind a GLL sentence
  leaves eleven characters of checksum and name, two tokens behind the ten
  characters of the time, and time and checksum are sent as a position.
- A position is taken when the transfer begins with a GGA sentence, the form the
  code documents (`DocumentedFixIsTaken`).  RMC and GLL sentences that are read
  from their name on are rejected, because their third token is a letter.
- `get_gps_data` ignores the result of starting the transfer.  A refused
  transfer brings no event, so the program waits for ever; `ReadEnds` is about
  transfers that were started.

### Fairness

- `AtsRegistry!FairSpec` has weak fairness of the loops' steps: nothing in them
  blocks.
- `AtsDaemon!Spec` has weak fairness of `main` and of the thread that is not
  `stuck`.  `stuck` is chosen at the start: it is the thread whose handler may
  hang in `system` or an `ioctl`.  No fairness is assumed of the arrival of
  requests.  So "answered" means: whatever the other thread does.
- `Ltr308!Spec` has weak fairness of the driver, whose transactions end with a
  result or an error, and of the sensor's measurements; the driver's delay
  after switching the sensor on is long enough for one measurement.
- `DListLoops!LoopSpec` has weak fairness of the loop itself: its body returns.
- `BleAts!Spec` has weak fairness of the handler, whose task runs while it has an
  event.  Nothing makes the peer write, and nothing in the device fails for ever.
- `GpsSpi!Spec` has weak fairness of the event of a running transfer and of the
  loop in `get_gps_data` that waits for it.
- `CameraAts!Spec` has none; only safety is checked there.

### What is taken from outside the repository

Modelled from how the code uses it, and marked external in `PROJECT.json`:
`strtok_r`, `strstr`, `atoi`; the board functions, which succeed or fail; a
standard I2C slave, with open-drain lines; the LTR308, which measures with the
settings in its registers, raises its data status with a measurement and clears
it when the first data byte is read; the handlers of `old_cmd.h`, which is not
in the repository; the BLE stack, which has the value of the characteristic
overwritten by `SimpleATS_SetParameter` as by the peer; the flash driver, whose
failed write changes nothing and whose reads are reliable; the SPI driver; the
GPS receiver, which sends sentences of the forms GGA, RMC and GLL (the code
documents GGA only), and whose text a transfer reads from any character to any
other; the card, which fails or gives back what was written or other bytes.  UDP loses, duplicates, delays and reorders datagrams: the
receiving threads take any request at any time.  Memory allocation succeeds.
Texts sent to the camera end with a line end.

## 4. What is proved

`AtsRegistryProofs` proves, for every set of modules, tables of any length,
names, callbacks and outside callers (the assumptions are `NullAssumption`,
`CmdsAssumption` and `ApiAssumption`: NULL is no name or callback, tables are
sequences of commands):

| Theorem | Statement |
|---|---|
| `Invariance` | `Spec => []IInv` |
| `TypeCorrect` | `Spec => []TypeOK` |
| `NamesAreUnique` | `Spec => []UniqueNames` |
| `InitRegistersAll` | `Spec => InitCompletes` |
| `DeInitUnregistersAll` | `Spec => DeInitCompletes` |
| `Refinement` | `Spec => ImplementsCmdTable` |

The inductive invariant is `IInv == TypeOK /\ UniqueNames /\ InitProgress /\
DeInitProgress`.  `UniqueNames` is inductive with `TypeOK`, because
`AtCmdRegister` scans before it appends and removal only takes nodes away.  The
two properties of the loops say something of the moment a loop returns only;
`InitProgress` says it of every moment on the way: the complete entries the loop
has passed have their names registered.  It survives a failing step because an
entry fails only if it is incomplete or its name is registered.
`DeInitProgress` says the passed entries have no node; here `UniqueNames` is
needed, because `AtCmdUnregister` removes one node only.  The refinement proof
shows that the first-match scan of a list with unique names is a function on
names, that `Append` extends it at one free name, and that `RemoveAt` clears it
at one name.

`DListProofs` is about any number of heads and entries
(`PointerAssumption`: heads, entries and the null pointer are different things):

| Theorem | Statement |
|---|---|
| `PointersRepresentLists` | `Spec => []Linked` |
| `TypeCorrect` | `Spec => []TypeOK` |
| `EveryEntryIsVisited` | `LoopSpec => []LoopsVisitAll` |
| `LoopsKeepListsLinked` | `LoopSpec => []Linked` |

The invariant of `DList` is `Good /\ LooseAreCut`: every usable list is a
ring in both directions, no entry is in two places, and an entry of no list
points nowhere or at itself; without the last part `list_del` of an entry that
`list_del_init` has cut could damage a list.  Each function is a composition of
three changes, and a lemma shows each of them once: a ring grows
(`RingGrows`), shrinks (`RingShrinks`), or takes in another ring (`RingsJoin`),
while all other rings stay (`RingKept`).  The invariant of the loops says that a
loop which has visited k entries stands on entry k + 1 of the list it began
with.  In a safe loop the list may have lost entries by then, but the rest
behind the loop is the same, only moved to the front (`SameRest`), so the
pointer looked up before the body is still right.

`BleAtsProofs` is about any identities and any length of the queue
(`EventsAssumption`):

| Theorem | Statement |
|---|---|
| `Invariance`, `TypeCorrect` | `Spec => []IInv`, `Spec => []TypeOK` |
| `OneTrueAnswer` | `Spec => []AnsweredOnce` |
| `IdentityIsThePeers` | `Spec => []IdIsThePeers` |
| `FlagIsForGood` | `Spec => []FlagStays` |
| `SerialNumberIsThePeers` | `Spec => []SnIsThePeers` |
| `AnswersFit` | `Spec => []AnswersAreWhole` |

The invariant is `TypeOK /\ FlagKept /\ Conversation /\ Identity /\ Serial /\
Safe`.
`Conversation` follows the command of a peer that waits from the characteristic
to the handler's buffer and its answer back; `FlagKept` says the flag in memory
is the one in flash or is about to be written there; `Identity` relates the
identity in memory, in flash and in the peer's knowledge, and `Serial` the serial
number in flash with what was answered and what is under way.  Every command of
the handler gives one promise (`ExecuteRuns`), so the proof that `Execute` keeps
the invariant has no case per command.

`AtsParseProofs` is about texts over any characters, any registered names and
any room for parameters.  `ParamAssumption` (there is room for one) and
`NamesAssumption` (a name is not empty and has no `=`, line end or NUL) say what
the code needs; `MaxTextAssumption` says the bound of the texts is a number.

| Theorem | Statement |
|---|---|
| `EveryLineIsParsed` | `Spec => []ParsesTheLine` |
| `NothingBehindArgv` | `Spec => []ArgvFits` |
| `ParamsAreClean` | `Spec => []TypeOK` |

`Params`, what the parameters of a line are, knows nothing of `strtok_r`: the n-th
parameter is the piece at the n-th position where one starts.  The invariant
`Progress` relates it to the place `strtok_r` keeps: the parameters in `argv`,
followed by those of what is `left`, are those of the line, and when `argv` is
full nothing is left.  The lemma behind it (`ParamsStep`) says that one call of
`strtok_r` takes the first parameter off and leaves the others: it counts the
starts in front of a position, before and after the cut.  That a least position
exists is `Least`, that an element of each rank exists is `NthExists`, both in
`SequenceLemmas`; they come from the well-founded order of
the numbers, so no induction over the text is needed.

`AtsDaemonProofs` is about any peers and requests (`RequestAssumption` says what a
request is, `NullAssumption` that NULL is no name or callback); which calls fail, the order of the constructors and of the
threads, and when `main` returns are choices of the model:

| Theorem | Statement |
|---|---|
| `NothingGoesAstray` | `Spec => []RepliesToRequester` |
| `ListIsStable` | `Spec => RegistryStable` |
| `EveryStatusIsEarned` | `Spec => []StatusIsEarned` |
| `Refinement` | `Spec => ImplementsAtsService` |

The invariant is `DaemonInv == IInv /\ RegistryInv /\ WorkInv`.  `IInv` has
`Addressed`: between a command and its answer the global address is that of the
sender, because it is overwritten only while the UDP thread receives.
`RegistryInv` says how far `AtCmdInit` has got, and that no thread exists before
it is through.  `WorkInv` says that what a handler has done is the part of its
program in front of what it has still to do, and that nothing failed so far; at
the status, that everything was done or the last call failed.  It needs
`RegistryInv`, since `AtCmdExec` looks the command up in a list that must have
all of them, each once.  The refinement needs `DaemonInv` at one step only, the
status; all others take a request or stutter.  That no two entries of the three
real tables share a name (`NamesDiffer`) is proved from the tables.

`CameraAtsProofs` is about any peers and commands, over overlapping
commands and restarts.  `RequestAssumption` says what a command is,
`NullAssumption` that NULL is no handler; `ToolAssumption`, that a text with a
command word in it has one in front, is what the tool has to keep to, and only the
last part of `VerdictIsEarned`, about "cmd not found", needs it.

| Theorem | Statement |
|---|---|
| `NothingGoesAstray` | `Spec => []RepliesToRequester` |
| `MacAddressesAgree` | `Spec => []MacsAgree` |
| `CardVerdictIsTrue` | `Spec => []TfTestTruthful` |
| `VerdictsAreEarned` | `Spec => []VerdictIsEarned` |

`MacInv` strengthens `MacsAgree`: while a write is half done and alone, the thread
between its two parts is the only one there and the chip has its address.
`CardInv` strengthens `TfTestTruthful`: a thread in the middle of the test has had
no failure, and the file holds what it wrote or the other thread opened it; behind
`fread` it holds what that gave.
`VerdictInv` strengthens `VerdictIsEarned`: in a handler, the steps that were made
followed by those still to be made are its program, and all went well so far; at
the answer, all were made or the last failed.  Every step of every handler is of
one form (`StepMade`): it is noted under its name, and goes on if it went well.
All need to know which programs there are: that every row of the 91 has a handler
(`RowsHaveHandlers`), that no handler but one writes the address in the chip, with
the DID partition next (`GroupsWhole`), and that no step is named like a verdict
(`GroupsQuiet`).  These lemmas go through the tables of `CameraCommands` row by
row.

The first part of `DriverProofs` is about the GPS receiver, for any positions it
finds and any lengths of what is left of a cut piece (`CutAssumption`: numbers
above zero).  Its text is any two of the modelled sentences in a row; other
forms, and a size of the buffer, are not in the model.

| Theorem | Statement |
|---|---|
| `PositionsAreRealUnlessCut` | `Spec => []RealUnlessCut` |
| `BufferIsComplete` | `Spec => []DataIsComplete` |
| `DocumentedFormIsTaken` | `Spec => []DocumentedFixIsTaken` |
| `TypeCorrect` | `Spec => []TypeOK` |

The invariant is `GpsInv == Handshake /\ Analysed`.  `Handshake` says that a
transfer runs only while `get_gps_data` waits, and that the flag is up only
behind its end.  `Analysed` says that what was kept is what the last accepted
buffer gave.  The two lemmas behind it are about every part of every text: two
tokens of the two lengths are a position or the exception (`AcceptedIsFix`), and
a position in a GGA sentence at the beginning is accepted (`FixIsAccepted`).  The
first looks at each piece of eleven characters or more: the token before the one
before it is the latitude of a longitude, or has not ten characters, or is the
time of a GLL sentence in front of a join of twelve (`Preceded`, for one sentence
`Fenced`, for a text `TextFacts`).  A cut changes the outer two pieces only
(`WindowFacts`).  The n-th token is the solid piece of rank n, so leaving out the
empty pieces is counting: when only one token is between a piece and the fifth
token, that piece is the third (`ThirdOfFive`).

The second part is about the I2C master, for any addresses, registers, bytes and
lengths, and any answers of the slave.  Assumed are `ByteAssumption`,
`AddrAssumption` and `LenAssumption`: what is sent is a byte, an address leaves
the read bit free, and a read has at least one byte.

| Theorem | Statement |
|---|---|
| `BusShowsTheTransfer` | `I2cSpec => []BusShowsTransfer` |
| `ReadsStoreWhatIsSent` | `I2cSpec => []ReadStoresSlaveBytes` |
| `NeverContention` | `I2cSpec => []NoContention` |
| `BusIdle` | `I2cSpec => []BusIdleOnReturn` |
| `I2cTypeCorrect` | `I2cSpec => []I2cTypeOK` |
| `I2cInvariance` | `I2cSpec => []I2cInv` |

`I2cInv` is a proof outline: a condition in front of every pin operation of every
function (`ChoiceAt`, `StartAt`, `SendAt`, `RecvAt`, `AckAt`, `StopAt`), which has
the levels and directions of the pins, what the slave drives, how many bits of the
byte have been clocked and the value of these bits (`Top`).  In a byte sent these
are the first bits of the argument, in a byte received those of the slave's byte,
and `data` has the same.  Two counts tie a function to its call (`StandardAt`):
the events the observer has seen when the j-th function begins (`EventsBefore`),
each of them the one the transfer has there (`EventOf`), and the bytes stored
(`StoredBefore`).  The argument has three levels.  Every operation leads from its
condition to the next one (`StandardStep`, by a lemma per function).  The
condition at the end of a function is the one at the beginning of the next
(`HandOver`), for any two functions that `Calls` puts side by side (`Pairs`).  At
the end of the last one the bus is at rest and the transfer complete (`Ending`).
The variant for the LCD has weaker conditions of its own (`LcdAt`): a slave that
follows the standard is out of step with it, but lets go of the bus behind the
register at the latest, whose acknowledge nobody pulls low, and so the bus is
idle at the end.

Only model-checked, and why:

- All liveness (`LoopsReturn`, `OtherThreadAnswers`, `CallsReturn`, `LoopsEnd`,
  `PeerIsServed`, `ReadEnds`): the prover has no rules for fairness that apply
  to these modules, since it cannot reason about ENABLED.
- `EveryRowIsReached` looks for words in texts character by character; the prover
  knows strings as values only.  It is about the constant table, and the run
  looks at every row of it.
- The LTR308 driver has no constants, so its run is exhaustive.

## 5. Not modelled

- `gpio_i2c_deinit`: it only calls vendor functions.
- A read of no bytes over I2C: no use of the library asks for one.
- That `AtsRegistry` runs on the pointers of `DList`: it uses the sequences that
  `DListProofs` shows the pointers to represent.
- Memory that runs out: `AtCmdRegister` does not check `calloc`.
- `list_del` of an entry that is in no list: it follows null pointers.
- The gain codes of the LTR308 that the driver does not know, and values of the
  BLE sensor's measurements: numbers are not told apart.
- What `dmesg | tail -5` prints in the camera's WiFi test: it is a call that
  succeeds or fails.  The first matching line is taken, which may be an old one.
- After the exit command of the BLE sensor its clocks stay stopped until the
  restart; clocks are not modelled.
- A buffer of the GPS code without a NUL at its end, when all 150 bytes are
  filled, and how old a position is that is sent again.
- Logging, formatting and the assertion macros; the early returns the macros
  make are part of the modelled functions.
- Buffer lengths: a console line longer than the 256 bytes `scanf` writes to, a
  text without line end that fills the copy `cmd_process_handle` makes.
- `1.cpp`, `2.cpp`, `3.cpp`: exercises.

## 6. Plan

Done: the registry, the parser, the daemon, the I2C master, the light sensor,
the camera server, the linked list with its loops, the BLE factory test and the
GPS receiver; proofs for the registry, the parser, the daemon with its
refinement, the list and its loops, the BLE test, the GPS receiver and the I2C
master, and for what the camera says, stores and reports of its card.

Left, in this order:

1. Proofs: the safety properties of the light sensor, whose run is exhaustive
   already.
2. A module, not yet written, in which the registry on the pointers of `DList`
   implements `AtsRegistry`: a composition of two modules that are both proved.
3. The board state that concurrent hardware tests share, once the repository
   says what they promise.
