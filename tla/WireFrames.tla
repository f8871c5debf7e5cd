----------------------------- MODULE WireFrames -----------------------------
(***************************************************************************)
(* The frames of a stream as the protocols carry them.  CHeaderData and    *)
(* CAMBEData hold a header and a voice frame in memory; for each protocol  *)
(* a get...Data method lays them out in bytes and a set...Data method      *)
(* reads them back (src/DStarBase/HeaderData.cpp, AMBEData.cpp).  Gateways *)
(* run the same code at both ends, and a stream crosses several of them:   *)
(* repeater, gateway, reflector, gateway, repeater.  This module follows   *)
(* one header and one voice frame of a stream over any such path.          *)
(*                                                                         *)
(* A stream number takes two bytes of Base values each (256 in the code).  *)
(* Callsigns, flags, bands and the voice itself are single values: what    *)
(* counts is which protocol carries them and which drops them.             *)
(***************************************************************************)
EXTENDS Naturals

CONSTANTS Base, Calls, Flags, Bands, NoValue, Speech, EndPattern, MaxHops

ASSUME BaseAssumption == Base \in Nat \ {0, 1}
ASSUME HopsAssumption == MaxHops \in Nat

VARIABLES original,   \* [header, voice] as the first gateway holds them
          held,       \* [header, voice] as the gateway reached last holds them
          hops        \* how many gateways have passed them on

wireVars == <<original, held, hops>>

Wires == {"Icom", "HB", "G2", "DExtra", "DPlus", "DCS"}
Marks == (0..20) \cup (64..84)     \* CAMBEData::m_outSeq
HeaderMark == 128                  \* the byte of a header in its place
StreamNumbers == 1..(Base * Base - 1)    \* CHeaderData::createId never gives 0

IsEnd(mark) == (mark \div 64) % 2 = 1
High(n) == n \div Base
Low(n) == n % Base

-----------------------------------------------------------------------------
(* What the bytes of a frame say.                                          *)

(* The first byte in memory of the stream number, and the second.          *)
IdBytes(p, id) == IF p \in {"DExtra", "DPlus", "DCS"} THEN <<Low(id), High(id)>>
                                                      ELSE <<High(id), Low(id)>>
IdRead(p, b) == IF p = "DCS" THEN b[2] * Base + b[1] ELSE b[1] * Base + b[2]

Keeps(p) == [bands |-> p \in {"Icom", "G2", "DExtra", "DPlus"},
             flags |-> p \in {"Icom", "HB", "G2", "DCS"}]

(* The byte that tells a header from voice: the place of the sequence      *)
(* number in a DSVT frame, a length in D-Plus, a type in Homebrew; an Icom *)
(* header is told by the length alone.  DCS has voice only.                *)
Lead(p, mark) == CASE p = "DPlus" /\ mark = HeaderMark -> 58
                   [] p = "DPlus" /\ mark # HeaderMark -> IF IsEnd(mark) THEN 32 ELSE 29
                   [] p = "HB" -> IF mark = HeaderMark THEN 32 ELSE 33
                   [] p = "Icom" -> IF mark = HeaderMark THEN 58 ELSE 29
                   [] OTHER -> mark
SaysHeader(p, lead) == CASE p = "DPlus" -> lead = 58
                         [] p = "HB" -> lead = 32
                         [] p = "Icom" -> lead = 58
                         [] OTHER -> lead = HeaderMark

HeaderBytes(p, h) ==
  [lead |-> Lead(p, HeaderMark), id |-> IdBytes(p, h.id), calls |-> h.calls,
   flags |-> IF Keeps(p).flags THEN h.flags ELSE 0,
   bands |-> IF Keeps(p).bands THEN h.bands ELSE NoValue]

HeaderRead(p, b) ==
  [id |-> IdRead(p, b.id), calls |-> b.calls, flags |-> b.flags, bands |-> b.bands]

(* What of a voice frame is sent: D-Plus sends silence and the end pattern *)
(* for the last frame, and a longer one.                                   *)
Payload(p, v) == IF p = "DPlus" /\ IsEnd(v.mark) THEN EndPattern ELSE v.data

(* Variant: the stream number of a voice frame has its high byte first     *)
(* everywhere, as the repeaters and G2 have it.                            *)
VoiceBytesStraight(p, v) ==
  [lead |-> Lead(p, v.mark), id |-> IdBytes("G2", v.id), mark |-> v.mark, data |-> Payload(p, v),
   bands |-> IF Keeps(p).bands THEN v.bands ELSE NoValue]

VoiceBytes(p, v) ==
  [lead |-> Lead(p, v.mark), id |-> IdBytes(p, v.id), mark |-> v.mark, data |-> Payload(p, v),
   bands |-> IF Keeps(p).bands THEN v.bands ELSE NoValue]

(* Where the last frame may be longer the reader puts the end pattern in.  *)
DataRead(p, b) == IF p \in {"Icom", "HB", "DPlus"} /\ IsEnd(b.mark) THEN EndPattern ELSE b.data
VoiceRead(p, b) ==
  [id |-> IdRead(p, b.id), mark |-> b.mark, data |-> DataRead(p, b), bands |-> b.bands]

(* A DCS frame carries the header with the voice, and one stream number.   *)
DCSBytes(s) == [voice |-> VoiceBytes("DCS", s.voice), header |-> HeaderBytes("DCS", s.header)]
DCSRead(b) == [header |-> HeaderRead("DCS", [b.header EXCEPT !.id = b.voice.id]),
               voice |-> VoiceRead("DCS", b.voice)]

Passed(p, s) ==
  IF p = "DCS" THEN DCSRead(DCSBytes(s))
  ELSE [header |-> HeaderRead(p, HeaderBytes(p, s.header)),
        voice |-> VoiceRead(p, VoiceBytes(p, s.voice))]

(* The type each of the two is taken for decides which of the reading      *)
(* methods the gateway calls at all.                                       *)
TakenForWhatTheyAre(p, s) ==
  p = "DCS" \/ /\ SaysHeader(p, Lead(p, HeaderMark))
               /\ ~SaysHeader(p, Lead(p, s.voice.mark))

-----------------------------------------------------------------------------
WireInit ==
  /\ \E id \in StreamNumbers, mark \in Marks, calls \in Calls, flags \in Flags, bands \in Bands:
       original = [header |-> [id |-> id, calls |-> calls, flags |-> flags, bands |-> bands],
                   voice  |-> [id |-> id, mark |-> mark, data |-> Speech, bands |-> bands]]
  /\ held = original
  /\ hops = 0

(* One gateway writes what it holds, the next one reads it.                *)
Hop(p) ==
  /\ hops < MaxHops
  /\ TakenForWhatTheyAre(p, held)
  /\ held' = Passed(p, held)
  /\ hops' = hops + 1
  /\ UNCHANGED original

WireNext == \E p \in Wires: Hop(p)
WireSpec == WireInit /\ [][WireNext]_wireVars

-----------------------------------------------------------------------------
(* Header and voice of a stream keep one stream number, never 0, on every  *)
(* path, though DExtra and D-Plus turn its bytes round on each crossing:   *)
(* the handlers at the far end match voice to header by it and take 0 for  *)
(* "no stream" (DExtraHandler.cpp:570-704).  The end of the stream stays   *)
(* the end, its callsigns stay, nothing but the last frame loses speech,   *)
(* and every path can be gone on with.                                     *)
StreamArrives ==
  /\ held.header.id = held.voice.id
  /\ held.header.id # 0
  /\ held.header.calls = original.header.calls
  /\ held.voice.mark = original.voice.mark
  /\ ~IsEnd(original.voice.mark) => held.voice.data = Speech
  /\ \A p \in Wires: TakenForWhatTheyAre(p, held)
=============================================================================
