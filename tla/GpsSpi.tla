------------------------------- MODULE GpsSpi --------------------------------
(***************************************************************************)
(* The GPS receiver over SPI ("2.tonly_GSP.c"): get_gps_data, which starts *)
(* a transfer and waits for its event, and gps_analyse, which takes the    *)
(* position out of what was read.                                          *)
(*                                                                         *)
(* The receiver sends one NMEA sentence after the other, and a transfer    *)
(* reads some of that text, from any character on to any other.  The       *)
(* receiver, the SPI driver and the loop that calls the two functions in   *)
(* turn are not part of the repository.                                    *)
(***************************************************************************)
EXTENDS Naturals, Sequences, SequencesExt, Ranks

CONSTANTS
  Fixes,      \* positions the receiver finds
  NoFix,      \* of a piece that is no part of a position
  CutLengths  \* what may be left of a piece that a transfer cuts

ASSUME CutAssumption == CutLengths \subseteq Nat \ {0}

-----------------------------------------------------------------------------
(* The receiver *)

\* A text between two commas: its length, what it is, and of which fix.
Piece(len, what) == [len |-> len, what |-> what, fix |-> NoFix]
None == Piece(0, "none")

\* The comments on the lines 29 and 30 have the two lengths the other way round;
\* these are those of the documented sentence on line 34, and of the code.
Lat(f) == [len |-> 10, what |-> "latitude", fix |-> f]
Lon(f) == [len |-> 11, what |-> "longitude", fix |-> f]
Tag == Piece(6, "tag")
Time == Piece(10, "time")
Letter == Piece(1, "letter")
Number == Piece(4, "number")
Date == Piece(6, "date")

\* Behind the last comma of a sentence: checksum and line end, of the given
\* length, and the name of the next sentence, since no comma is between them.
Join(tail) == Piece(tail + Tag.len, "join")

\* The sentences, from behind their name to the name of the next one.  The
\* code documents GGA with a position; the others are what such a receiver
\* sends besides.
GGA(lat, ns, lon, ew) ==
  <<Time, lat, ns, lon, ew,
    Letter, Number, Number, Number, Letter, Number, Letter, None, Join(5)>>
Found(f) ==
  {GGA(Lat(f), Letter, Lon(f), Letter),
   <<Time, Letter, Lat(f), Letter, Lon(f), Letter, Number, Number, Date, None, None, Join(6)>>, \* RMC
   <<Lat(f), Letter, Lon(f), Letter, Time, Letter, Join(6)>>}                                 \* GLL
NotFound ==
  {GGA(None, None, None, None),
   <<None, Letter, None, None, None, None, None, None, None, None, None, Join(6)>>,
   <<None, None, None, None, Time, Letter, Join(6)>>}
Sentences == NotFound \cup UNION {Found(f) : f \in Fixes}

\* Bound: two sentences, and the name of a third.  The fifth token is behind
\* them only when the third is a letter or a whole join, which gps_analyse
\* rejects.
Text(s, t) == <<Tag>> \o s \o t

\* What is left of a piece where a transfer begins or ends.
Cut(p) == {p} \cup {Piece(n, "cut") : n \in {l \in CutLengths : l < p.len}}

\* The pieces i to j of a text, the outer two perhaps cut.
CutFrom(P, i, j) ==
  {[SubSeq(P, i, j) EXCEPT ![1] = a, ![j - i + 1] = b] : a \in Cut(P[i]), b \in Cut(P[j])}

\* What a transfer may read: nothing, or any part of a text.
Windows ==
  {<<>>} \cup
  UNION {UNION {CutFrom(Text(s, t), i, j) : j \in i .. Len(Text(s, t))}
         : s, t \in Sentences, i \in 1 .. 15}

-----------------------------------------------------------------------------
VARIABLES
  pc,             \* "off", "idle", in get_gps_data "cleared" and "wait", then "read"
  spi_xfer_done,
  transfer,       \* the driver's: "none", "running", "refused"
  gps_data,       \* the pieces read
  send_gps_data,  \* the two pieces of the last position, which NB_gsp_data sends
  result          \* of the last gps_analyse: "none", 0 as "ok", -1 as "error"

vars == <<pc, spi_xfer_done, transfer, gps_data, send_gps_data, result>>

Init ==
  /\ pc = "off" /\ spi_xfer_done = FALSE /\ transfer = "none"
  /\ gps_data = <<>> /\ send_gps_data = <<None, None>> /\ result = "none"

\* Power on, then GPS_init.  app_timer_init may fail, which is fatal; the timer
\* that would call get_gps_data is not made, and the second check looks at the
\* same result again.
GPS_init ==
  /\ pc = "off"
  /\ pc' \in {"idle", "fault"}
  /\ UNCHANGED <<spi_xfer_done, transfer, gps_data, send_gps_data, result>>

\* Mutant: the flag of the transfer before is left set.
ClearNothing ==
  /\ pc = "idle"
  /\ pc' = "cleared"
  /\ UNCHANGED <<spi_xfer_done, transfer, gps_data, send_gps_data, result>>

Clear ==
  /\ pc = "idle"
  /\ spi_xfer_done' = FALSE /\ pc' = "cleared"
  /\ UNCHANGED <<transfer, gps_data, send_gps_data, result>>

\* Mutant: the flag is cleared behind the call that starts the transfer.
StartClears ==
  /\ pc = "cleared" /\ transfer # "running"
  /\ transfer' \in {"running", "refused", "none"}
  /\ gps_data' = <<>> /\ pc' = "wait" /\ spi_xfer_done' = FALSE
  /\ UNCHANGED <<send_gps_data, result>>

\* nrf_drv_spi_transfer, whose result is not asked for; what the buffer had is
\* of no use from now on.
Start ==
  /\ pc = "cleared"
  /\ transfer' \in {"running", "refused"}
  /\ gps_data' = <<>> /\ pc' = "wait"
  /\ UNCHANGED <<spi_xfer_done, send_gps_data, result>>

\* The end of the transfer, and its event: spi_event_handler.
Event ==
  /\ transfer = "running"
  /\ gps_data' \in Windows
  /\ transfer' = "none" /\ spi_xfer_done' = TRUE
  /\ UNCHANGED <<pc, send_gps_data, result>>

get_spi_flag == spi_xfer_done

\* get_gps_data returns.
Wait ==
  /\ pc = "wait" /\ get_spi_flag
  /\ pc' = "read"
  /\ UNCHANGED <<spi_xfer_done, transfer, gps_data, send_gps_data, result>>

-----------------------------------------------------------------------------
(* gps_analyse *)

\* strtok takes several commas for one: the n-th token is the n-th piece that
\* is not empty.
Solid(pieces) == {k \in DOMAIN pieces : pieces[k].len > 0}
Tokens(pieces) ==
  [n \in 1 .. Cardinality(Solid(pieces)) |-> pieces[Nth(Solid(pieces), n)]]

\* Mutant: the second length is not compared.
FixTokensNoLongitude(tok) == Len(tok) >= 5 /\ tok[3].len = 10
\* Mutant: the latitude has another length.
FixTokensLong(tok) == Len(tok) >= 5 /\ tok[3].len = 11 /\ tok[5].len = 11

\* The name of the sentence is compared with a cleared buffer, which always
\* differs: only the lengths of the third and the fifth token decide.
FixTokens(tok) == Len(tok) >= 5 /\ tok[3].len = 10 /\ tok[5].len = 11

\* strlen of a null pointer: nothing is left where a length is asked for.
NullRead(tok) == Len(tok) < 5 /\ (Len(tok) >= 3 => tok[3].len = 10)

\* A null read faults, or finds some length at address 0 that does not fit.
Analyse ==
  /\ pc = "read"
  /\ LET tok == Tokens(gps_data) IN
       \/ /\ FixTokens(tok)
          /\ send_gps_data' = <<tok[3], tok[5]>> /\ result' = "ok" /\ pc' = "idle"
       \/ /\ ~FixTokens(tok)
          /\ result' = "error" /\ pc' = "idle"
          /\ UNCHANGED send_gps_data
       \/ /\ NullRead(tok)
          /\ pc' = "fault"
          /\ UNCHANGED <<send_gps_data, result>>
  /\ UNCHANGED <<spi_xfer_done, transfer, gps_data>>

-----------------------------------------------------------------------------
\* A fault, or the power, starts the program again.
Reset ==
  /\ pc' = "off" /\ spi_xfer_done' = FALSE /\ transfer' = "none"
  /\ gps_data' = <<>> /\ send_gps_data' = <<None, None>> /\ result' = "none"

Next == GPS_init \/ Clear \/ Start \/ Event \/ Wait \/ Analyse \/ Reset

\* The event of a running transfer comes, and get_gps_data, which waits in a
\* loop, sees the flag.
Spec ==
  /\ Init /\ [][Next]_vars
  /\ WF_vars(Event) /\ WF_vars(Wait)

-----------------------------------------------------------------------------
(* Properties *)

Pieces == [len: 0 .. 12, fix: Fixes \cup {NoFix},
           what: {"none", "latitude", "longitude", "tag", "time", "letter", "number", "date", "join", "cut"}]

Positions == {<<None, None>>} \cup {<<Lat(f), Lon(f)>> : f \in Fixes}

\* The variables keep their types; a position has the 21 characters that fit
\* send_gps_data and that the frame of NB_gsp_data is made for.
TypeOK ==
  /\ pc \in {"off", "idle", "cleared", "wait", "read", "fault"}
  /\ spi_xfer_done \in BOOLEAN
  /\ transfer \in {"none", "running", "refused"}
  /\ gps_data \in Seq(Pieces) /\ send_gps_data \in Seq(Pieces)
  /\ send_gps_data[1].len + send_gps_data[2].len \in {0, 21}
  /\ result \in {"none", "ok", "error"}

\* What is sent is the latitude and the longitude of one fix, wherever in the
\* receiver's text the transfer begins and ends: although no sentence is
\* rejected by its name and empty fields move the others up, the two lengths
\* are enough - but for one text.  When a transfer ends one character short of
\* the name behind a GLL sentence, eleven characters of checksum and name are
\* left, with the ten of the time two tokens in front of them, and these pass
\* for a position.
RealUnlessCut == send_gps_data \in Positions \cup {<<Time, Piece(11, "cut")>>}

\* gps_analyse runs on what the transfer just started has read, not while it
\* is still running.
DataIsComplete == pc = "read" => transfer = "none" /\ spi_xfer_done

\* A transfer that begins with a sentence of the documented form and a position
\* is never rejected, whatever comes behind the position.  (Of the other forms a
\* position is rejected when the transfer begins with the sentence's name.)
DocumentedFixIsTaken ==
  pc = "idle" /\ result # "none" /\ gps_data # <<>> =>
    \A f \in Fixes :
      IsPrefix(<<Tag, Time, Lat(f), Letter, Lon(f)>>, gps_data) =>
        result = "ok" /\ send_gps_data = <<Lat(f), Lon(f)>>

\* get_gps_data returns from every transfer the driver has accepted, also if
\* the event comes before the loop begins to wait.
ReadEnds == pc = "wait" /\ transfer # "refused" ~> pc # "wait"
=============================================================================
