----------------------------- MODULE WireControl -----------------------------
(***************************************************************************)
(* The connects and polls of links on the wire.  CConnectData and          *)
(* CPollData are laid out by one gateway and read by another with          *)
(* the same code (src/Common/ConnectData.cpp, PollData.cpp).  No packet    *)
(* says what it is: the reader goes by its length (readPackets of the      *)
(* protocol handlers), and by a word or a blank in it.                     *)
(*                                                                         *)
(* A place is a callsign of seven characters and a module letter.          *)
(***************************************************************************)
EXTENDS Naturals, Sequences

CONSTANTS Names, Letters, Blank, NoName, PollKinds, ConnectKinds

ASSUME SortsAssumption ==
  /\ PollKinds = {"OUT", "IN"}
  /\ ConnectKinds = {"LINK1", "LINK2", "UNLINK", "ACK", "NAK"}
\* A blank in the place of a module means that there is none.
ASSUME BlankAssumption == Blank \notin Letters

VARIABLES written, got, phase

controlVars == <<written, got, phase>>

Place == [name: Names, letter: Letters]
Nowhere == [name |-> NoName, letter |-> Blank]
Only(letter) == [name |-> NoName, letter |-> letter]   \* blanks but for the module
Only7(name) == [name |-> name, letter |-> Blank]

(* What a gateway sends: the login of D-Plus has two steps and names no    *)
(* reflector, DExtra and DCS link in one; only DCS polls name a direction. *)
Message == [protocol: {"DExtra", "DCS", "DPlus"}, sort: ConnectKinds \cup PollKinds,
            repeater: Place, reflector: Place]
Sent(m) ==
    /\ m.sort = "LINK2" => m.protocol = "DPlus"
    /\ m.sort = "IN" => m.protocol = "DCS"

-----------------------------------------------------------------------------
(* Laying out: the length, then what the reader looks at; the word of a    *)
(* poll may be a zero byte in the ninth place.                             *)
Bytes(len, place, letter, name, word) ==
  [length |-> len, place |-> place, letter |-> letter, name |-> name, word |-> word]

DExtraBytes(m) ==
  CASE m.sort = "OUT" -> Bytes(9, m.repeater, Blank, NoName, "0")
    [] m.sort = "LINK1" -> Bytes(11, m.repeater, m.reflector.letter, NoName, "none")
    [] m.sort = "UNLINK" -> Bytes(11, m.repeater, Blank, NoName, "none")
    [] m.sort \in {"ACK", "NAK"} -> Bytes(14, m.repeater, m.reflector.letter, NoName, m.sort)

DCSControlBytes(m) ==
  CASE m.sort = "OUT" -> Bytes(17, m.repeater, m.reflector.letter, m.reflector.name, "ZeroAt8")
    [] m.sort = "IN" -> Bytes(22, m.repeater, m.reflector.letter, m.reflector.name, "none")
    [] m.sort = "LINK1" -> Bytes(519, m.repeater, m.reflector.letter, m.reflector.name, "none")
    [] m.sort = "UNLINK" -> Bytes(19, m.repeater, Blank, m.reflector.name, "none")
    [] m.sort = "ACK" -> Bytes(14, m.repeater, m.reflector.letter, NoName, "ACK")
    [] m.sort = "NAK" -> Bytes(14, m.repeater, Blank, NoName, "NAK")

DPlusBytes(m) ==
  CASE m.sort = "OUT" -> Bytes(3, Nowhere, Blank, NoName, "none")
    [] m.sort = "LINK1" -> Bytes(5, Nowhere, Blank, NoName, "1")
    [] m.sort = "UNLINK" -> Bytes(5, Nowhere, Blank, NoName, "0")
    [] m.sort = "LINK2" -> Bytes(28, Only7(m.repeater.name), Blank, NoName, "DV019999")
    [] m.sort = "ACK" -> Bytes(8, Nowhere, Blank, NoName, "OKRW")
    [] m.sort = "NAK" -> Bytes(8, Nowhere, Blank, NoName, "BUSY")

Laid(m) == CASE m.protocol = "DExtra" -> DExtraBytes(m)
             [] m.protocol = "DCS" -> DCSControlBytes(m)
             [] m.protocol = "DPlus" -> DPlusBytes(m)

-----------------------------------------------------------------------------
(* Reading: readPackets takes the length for the kind of packet, the       *)
(* set...Data methods find out the rest.                                   *)
PollLengths(p) == [DExtra |-> {9}, DCS |-> {17, 22}, DPlus |-> {3}][p]
ConnectLengths(p) == [DExtra |-> {11, 14}, DCS |-> {14, 19, 519}, DPlus |-> {5, 8, 28}][p]

Reading(sort, repeater, reflector) ==
  [sort |-> sort, repeater |-> repeater, reflector |-> reflector]
Module(b) == [name |-> b.name, letter |-> b.letter]
Unread == Reading("NONE", Nowhere, Nowhere)    \* read and thrown away
Thrown == Reading("THROWN", Nowhere, Nowhere)  \* std::out_of_range

(* CPollData::setDCSData makes a string of the packet first, which ends at *)
(* the zero byte: substr(9) of eight characters throws, and the exception  *)
(* ends the gateway's thread.                                              *)
PollRead(p, b) ==
  CASE p = "DExtra" -> Reading("OUT", b.place, Nowhere)
    [] p = "DCS" /\ b.length = 17 -> IF b.word = "ZeroAt8" THEN Thrown
                                     ELSE Reading("IN", b.place, Module(b))
    [] p = "DCS" /\ b.length = 22 -> Reading("OUT", b.place, Module(b))
    [] p = "DPlus" -> Reading("OUT", Nowhere, Nowhere)

Answer(b, reflector) ==
  IF b.word \in {"ACK", "NAK"} THEN Reading(b.word, b.place, reflector) ELSE Unread

ConnectRead(p, b) ==
  CASE p = "DExtra" /\ b.length = 11 ->
         Reading(IF b.letter = Blank THEN "UNLINK" ELSE "LINK1", b.place, Only(b.letter))
    [] p = "DExtra" /\ b.length = 14 -> Answer(b, Only(b.letter))
    [] p = "DCS" /\ b.length = 519 -> Reading("LINK1", b.place, Module(b))
    [] p = "DCS" /\ b.length = 19 -> Reading("UNLINK", b.place, Module(b))
    [] p = "DCS" /\ b.length = 14 -> Answer(b, Nowhere)
    [] p = "DPlus" /\ b.length = 5 ->
         Reading(IF b.word = "1" THEN "LINK1" ELSE "UNLINK", Nowhere, Nowhere)
    [] p = "DPlus" /\ b.length = 8 ->
         Reading(IF b.word = "OKRW" THEN "ACK" ELSE "NAK", Nowhere, Nowhere)
    [] p = "DPlus" /\ b.length = 28 -> Reading("LINK2", b.place, Nowhere)

Read(p, b) == IF b.length \in PollLengths(p) THEN PollRead(p, b)
              ELSE IF b.length \in ConnectLengths(p) THEN ConnectRead(p, b) ELSE Unread

-----------------------------------------------------------------------------
ControlInit ==
    /\ written \in {m \in Message : Sent(m)} /\ got = Unread /\ phase = "sent"

Crosses ==
    /\ phase = "sent"
    /\ got' = Read(written.protocol, Laid(written))
    /\ phase' = IF got'.sort = "THROWN" THEN "stopped" ELSE "read"
    /\ UNCHANGED written

(* A gateway that has read a DCS poll of a link it made answers it in the  *)
(* words of the poll (CDCSHandler::process(CPollData&)).                   *)
AnswerPoll ==
    /\ phase = "read" /\ written.protocol = "DCS" /\ got.sort = "OUT"
    /\ written' = [written EXCEPT !.sort = "OUT", !.repeater = got.reflector,
                                  !.reflector = got.repeater]
    /\ got' = Unread /\ phase' = "sent"

ControlNext == Crosses \/ AnswerPoll
ControlSpec == ControlInit /\ [][ControlNext]_controlVars

-----------------------------------------------------------------------------
(* A message that is read means at the far end what it meant at the near   *)
(* one, though nothing in it says so: the same step of the link's life,    *)
(* from the same module, to the same module wherever the protocol names    *)
(* one.  No two messages of a protocol share a reading.                    *)
ReadAsMeant ==
  phase = "read" =>
    LET m == written IN
    /\ got.sort = m.sort \/ (m.protocol = "DCS" /\ {got.sort, m.sort} = PollKinds)
    /\ m.protocol # "DPlus" => got.repeater = m.repeater
    /\ got.sort \in {"LINK1", "ACK"} /\ m.protocol = "DExtra"
         => got.reflector.letter = m.reflector.letter
    /\ got.sort = "LINK1" /\ m.protocol = "DCS" => got.reflector = m.reflector
    /\ got.sort = "LINK2" => got.repeater.name = m.repeater.name

(* What one gateway sends, another survives reading.                       *)
EveryMessageIsRead == phase # "stopped"
=============================================================================
