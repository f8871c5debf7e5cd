-------------------------------- MODULE DRats --------------------------------
(***************************************************************************)
(* D-RATS text over slow data (src/Common/DRATSServer.cpp).  A local       *)
(* program writes text into a TCP connection, each message ending in       *)
(* [EOB]; once a message is complete the server's thread sends all it has  *)
(* read, five characters to a pair of frames: a count and two characters   *)
(* in the first frame, three in the second, and a synchronising frame      *)
(* without text every Pairs pairs.  Its other half reads such frames as    *)
(* they come from the radio and writes the text to the program there.      *)
(* Built with LOOPBACK the server hears what it sends; so it is here.      *)
(*                                                                         *)
(* Characters are numbered in the order they are written; an [EOB] is one  *)
(* character.                                                              *)
(***************************************************************************)
EXTENDS Naturals, Sequences, SequencesExt

CONSTANTS Pairs,     \* between two synchronising frames: 10 in the code
          MaxText    \* bound: characters written

ASSUME DRatsAssumption == Pairs \in Nat \ {0} /\ MaxText \in Nat

VARIABLES
    given,       \* characters the program has written so far
    ends,        \* those that are an [EOB]
    readBuffer,  \* m_readBuffer, up to m_readLength
    readPos, readEnd, readState, sending, seqNo,
    rx,          \* the other half: [state, first, buffer], m_writeState, m_writeText, m_writeBuffer
    delivered,   \* what the program there has got
    torn         \* history: text was read between two frames, and the first did not count it

drVars == <<given, ends, readBuffer, readPos, readEnd, readState, sending, seqNo, rx, delivered,
            torn>>

Fill == 0
Left == Len(readBuffer) - readPos
Padded(n, text) == [i \in 1..n |-> IF i <= Len(text) THEN text[i] ELSE Fill]
NextSeq(n, by) == (n + by) % (2 * Pairs + 1)

DRatsInit ==
    /\ given = 0 /\ ends = {} /\ readBuffer = <<>> /\ readPos = 0
    /\ readEnd = FALSE /\ readState = "first" /\ sending = FALSE /\ seqNo = 0
    /\ rx = [state |-> "first", first |-> <<0, <<>>>>, buffer |-> <<>>]
    /\ delivered = <<>> /\ torn = FALSE

---------------------------------------------------------------------------
(* The receiving half: its state and what it has handed on *)

Flushed(r) == [now |-> [r.now EXCEPT !.buffer = <<>>], out |-> r.out \o r.now.buffer]

(* writeHeader *)
AfterHeader(r) == Flushed([r EXCEPT !.now.state = "first"])

(* writeData; an end in the place of a synchronising frame is one.         *)
AfterSync(r) == [r EXCEPT !.now.state = "first"]
AfterEnd(r, seq) == IF seq = 0 THEN AfterSync(r) ELSE Flushed(r)

AfterText(r, frame) ==
    IF r.now.state = "first" THEN [r EXCEPT !.now.first = frame, !.now.state = "second"]
    ELSE LET first == r.now.first
             text  == r.now.buffer \o SubSeq(first[2] \o frame[2], 1, first[1])
             cut   == CHOOSE i \in 0..Len(text) :
                          /\ i > 0 => text[i] \in ends
                          /\ \A j \in i + 1..Len(text) : text[j] \notin ends
         IN  [now |-> [state |-> "first", first |-> <<0, <<>>>>,
                       buffer |-> SubSeq(text, cut + 1, Len(text))],
              out |-> r.out \o SubSeq(text, 1, cut)]

Receiver == [now |-> rx, out |-> delivered]
Hears(r) == rx' = r.now /\ delivered' = r.out

---------------------------------------------------------------------------
(* serviceSocket: some text, which may complete a message *)
ReadText ==
    \E n \in 1..MaxText - given, es \in SUBSET (given + 1..MaxText) :
        /\ \A e \in es : e <= given + n
        /\ given' = given + n /\ ends' = ends \cup es
        /\ readBuffer' = readBuffer \o [i \in 1..n |-> given + i]
        /\ readEnd' = (readEnd \/ es # {} \/ \E i \in DOMAIN readBuffer : readBuffer[i] \in ends)
        /\ torn' = (torn \/ (sending /\ readState = "second" /\ Left < 3))
        /\ UNCHANGED <<readPos, readState, sending, seqNo, rx, delivered>>

(* Entry: a header before the first frame *)
Start ==
    /\ readEnd /\ ~sending
    /\ sending' = TRUE /\ readState' = "first" /\ readPos' = 0 /\ seqNo' = 0
    /\ Hears(AfterHeader(Receiver))
    /\ UNCHANGED <<given, ends, readBuffer, readEnd, torn>>

\* Variant: a first frame that takes all that is left is the last one.
ClosedEarly(r, state) == AfterEnd(r, NextSeq(seqNo, 1))

(* The end, after a second frame without text if one is due *)
Closed(r, state) ==
    IF state = "second" THEN AfterEnd(AfterText(r, <<0, Padded(3, <<>>)>>), NextSeq(seqNo, 2))
    ELSE AfterEnd(r, NextSeq(seqNo, 1))

(* Entry, one frame: it goes on, or it was the last one with text *)
Sends(r, pos, state) ==
    IF pos = Len(readBuffer)
    THEN /\ Hears(Closed(r, state))
         /\ readBuffer' = <<>> /\ readPos' = 0 /\ readEnd' = FALSE /\ sending' = FALSE
         /\ readState' = state /\ seqNo' = 0
    ELSE /\ Hears(r)
         /\ readPos' = pos /\ readState' = state /\ seqNo' = NextSeq(seqNo, 1)
         /\ UNCHANGED <<readBuffer, readEnd, sending>>

NextChars(n) == SubSeq(readBuffer, readPos + 1, readPos + (IF n < Left THEN n ELSE Left))

SendText ==
    /\ readEnd /\ sending
    /\ CASE seqNo = 0 -> Sends(AfterSync(Receiver), readPos, "first")
         [] seqNo # 0 /\ readState = "first" ->
                Sends(AfterText(Receiver, <<IF Left < 5 THEN Left ELSE 5, Padded(2, NextChars(2))>>),
                      readPos + Len(NextChars(2)), "second")
         [] OTHER ->
                Sends(AfterText(Receiver, <<0, Padded(3, NextChars(3))>>), readPos + Len(NextChars(3)), "first")
    /\ UNCHANGED <<given, ends, torn>>

DRatsNext == ReadText \/ Start \/ SendText

DRatsSpec == DRatsInit /\ [][DRatsNext]_drVars

---------------------------------------------------------------------------
DRatsTypeOK ==
    /\ given \in 0..MaxText /\ ends \subseteq 1..given
    /\ readBuffer \in Seq(1..given) /\ readPos \in 0..Len(readBuffer)
    /\ {readEnd, sending, torn} \subseteq BOOLEAN /\ readState \in {"first", "second"}
    /\ seqNo \in 0..2 * Pairs

(* What a first frame has brought of a pair *)
FirstChars == IF rx.state = "second"
         THEN SubSeq(rx.first[2], 1, IF rx.first[1] < 2 THEN rx.first[1] ELSE 2) ELSE <<>>

(* No character is lost, doubled or moved between the two programs, from   *)
(* one message to the next and through every synchronising frame, unless   *)
(* text is read between the two frames of a pair whose first has counted   *)
(* too few: those characters are sent and not taken.                       *)
TextArrives ==
    ~torn => delivered \o rx.buffer \o FirstChars \o SubSeq(readBuffer, readPos + 1, Len(readBuffer))
                 = [i \in 1..given |-> i]
=============================================================================
