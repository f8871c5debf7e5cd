------------------------------ MODULE IcomLink ------------------------------
(***************************************************************************)
(* CIcomRepeaterProtocolHandler: the gateway thread queues frames for an   *)
(* Icom repeater controller (RP2C) and takes what the controller sent; a   *)
(* thread of the handler sends the frames one at a time, each until it is  *)
(* acknowledged, and acknowledges what it receives.  The two threads share *)
(* two CRingBuffers (RingBuffer shows what those do).                      *)
(*                                                                         *)
(* The controller and the Ethernet between are the environment: datagrams  *)
(* keep their order, may be lost, and take their time unless prompt.       *)
(***************************************************************************)
EXTENDS Naturals, Sequences, FiniteSets

CONSTANTS
    QueueLength,  \* QUEUE_LENGTH, 50
    SeqSpace,     \* 2^16, the values of m_seqNo
    MaxWrites,    \* bound on the frames the gateway thread writes
    LateWrites,   \* the same, when answers may be late
    MaxItems,     \* bound on what the controller ever sends
    MaxFlight,    \* bound on the datagrams on their way, in each direction
    None          \* NULL

ASSUME IcomAssumption ==
    /\ QueueLength \in Nat \ {0} /\ SeqSpace \in Nat \ {0, 1}
    /\ MaxWrites \in Nat /\ LateWrites \in 0 .. MaxWrites /\ MaxItems \in Nat /\ MaxFlight \in Nat
    /\ None \notin Nat

VARIABLES
    prompt,       \* no answer takes longer than the retry timer, 200 ms
    over1,        \* m_over1: more than one repeater on this controller
    gwyQueue,     \* m_gwyQueue; a frame is the number of its addData call
    ackQueue,     \* m_ackQueue
    seqNo,        \* m_seqNo
    tries,        \* m_tries > 0
    timer,        \* m_retryTimer: "stopped", "running" or "expired"
    thread,       \* where the handler's thread is: "send", "read" or "reply"
    replies,      \* frames of a reply still to be queued, and its header
    rptrQueue,    \* m_rptrQueue
    type,         \* m_type, the answer of the last read()
    queued,       \* addData calls on m_gwyQueue so far
    writes,       \* those of the gateway thread
    sentItems,    \* what the controller has sent so far
    toRptr,       \* datagrams on their way to the controller
    toGwy,        \* datagrams on their way to the gateway
    lastSeq,      \* controller: sequence number of the last frame accepted
    accepted      \* controller: the frames accepted, in order

gwyVars  == <<gwyQueue, queued, writes>>
sendVars == <<ackQueue, seqNo, tries, timer>>
rptrVars == <<rptrQueue, type>>
ctlVars  == <<sentItems, lastSeq, accepted>>
site     == <<prompt, over1>>       \* as installed; never changes
moving   == <<gwyVars, sendVars, thread, replies, rptrVars, toRptr, toGwy, ctlVars>>
icomVars == <<site, moving>>

Last  == MaxWrites + 3 * MaxItems      \* frames, those of replies included
Seqs  == 0 .. SeqSpace - 1
Types == {"HEADER", "AMBE", "HEARD", "POLL", "DD"}

IcomTypeOK ==
    /\ prompt \in BOOLEAN /\ over1 \in BOOLEAN
    /\ gwyQueue \in Seq(1 .. queued) /\ queued \in 0 .. Last
    /\ writes \in 0 .. MaxWrites
    /\ ackQueue \in (1 .. queued) \cup {None}
    /\ seqNo \in Seqs /\ tries \in BOOLEAN
    /\ timer \in {"stopped", "running", "expired"}
    /\ thread \in {"send", "read", "reply"} /\ replies \in 0 .. 3
    /\ rptrQueue \in Seq(Types) /\ type \in Types \cup {"NONE"}
    /\ sentItems \in 0 .. MaxItems /\ lastSeq \in Seqs
    /\ accepted \in Seq(1 .. queued)
    /\ tries <=> timer # "stopped"

(* CRingBuffer::addData *)
Put(q, x) == IF Len(q) = QueueLength - 1 THEN <<>> ELSE Append(q, x)

(* The socket's write: the datagram may be lost at once. *)
Written(link, d) == IF Len(link) < MaxFlight THEN {link, Append(link, d)} ELSE {link}

\* open(): the reply to INIT holds the last number the controller has seen.
IcomInit ==
    /\ prompt \in BOOLEAN /\ over1 \in BOOLEAN
    /\ gwyQueue = <<>> /\ queued = 0 /\ writes = 0 /\ ackQueue = None
    /\ seqNo \in Seqs /\ lastSeq = (seqNo + SeqSpace - 1) % SeqSpace
    /\ tries = FALSE /\ timer = "stopped"
    /\ thread = "send" /\ replies = 0
    /\ rptrQueue = <<>> /\ type = "NONE"
    /\ toRptr = <<>> /\ toGwy = <<>>
    /\ sentItems = 0 /\ accepted = <<>>

---------------------------------------------------------------------------
(* The gateway thread *)

QueueFrame ==
    /\ queued' = queued + 1 /\ gwyQueue' = Put(gwyQueue, queued + 1)

(* writeHeader, writeAMBE, writeDD *)
Write ==
    /\ writes < (IF prompt THEN MaxWrites ELSE LateWrites) /\ writes' = writes + 1
    /\ QueueFrame
    /\ UNCHANGED <<sendVars, thread, replies, rptrVars, toRptr, toGwy, ctlVars>>

\* Variant: read() takes the item it looks at.
ReadTakes ==
    /\ type' = IF rptrQueue = <<>> THEN "NONE" ELSE Head(rptrQueue)
    /\ rptrQueue' = IF rptrQueue = <<>> THEN rptrQueue ELSE Tail(rptrQueue)
    /\ UNCHANGED <<gwyVars, sendVars, thread, replies, toRptr, toGwy, ctlVars>>

(* read(): the type of the item at the head of the queue *)
Read ==
    /\ type' = IF rptrQueue = <<>> THEN "NONE" ELSE Head(rptrQueue)
    /\ UNCHANGED <<rptrQueue, gwyVars, sendVars, thread, replies, toRptr, toGwy, ctlVars>>

(* readPoll, readHeader, readAMBE, readHeard, readDD: processRepeater      *)
(* calls the one for the type read() has told, then read() again.          *)
ReadItem ==
    /\ type # "NONE"
    /\ rptrQueue' = IF rptrQueue = <<>> THEN rptrQueue ELSE Tail(rptrQueue)
    /\ type' = "NONE"
    /\ UNCHANGED <<gwyVars, sendVars, thread, replies, toRptr, toGwy, ctlVars>>

---------------------------------------------------------------------------
(* The thread of the handler *)

(* sendGwyPackets sends a frame unless there is none or its ack is awaited.*)
(* empty() and getData() are two calls; what the gateway thread adds       *)
(* between them can only fill the ring, and the frame is not sent then, as *)
(* if empty() had been called later.                                       *)
MaySend == (gwyQueue # <<>> \/ ackQueue # None) /\ (tries => timer = "expired")

Frame == IF ackQueue = None THEN Head(gwyQueue) ELSE ackQueue

\* Variant: a number of its own for every try.
TransmitRenumbered(link) ==
    /\ MaySend
    /\ ackQueue' = Frame
    /\ gwyQueue' = IF ackQueue = None THEN Tail(gwyQueue) ELSE gwyQueue
    /\ toRptr' = link /\ seqNo' = (seqNo + 1) % SeqSpace
    /\ tries' = TRUE /\ timer' = "running"

\* Variant: no second try.
TransmitOnce(link) ==
    /\ MaySend /\ ~tries
    /\ ackQueue' = Frame
    /\ gwyQueue' = IF ackQueue = None THEN Tail(gwyQueue) ELSE gwyQueue
    /\ toRptr' = link
    /\ tries' = TRUE /\ timer' = "running" /\ UNCHANGED seqNo

Transmit(link) ==
    /\ MaySend
    /\ ackQueue' = Frame
    /\ gwyQueue' = IF ackQueue = None THEN Tail(gwyQueue) ELSE gwyQueue
    /\ toRptr' = link
    /\ tries' = TRUE /\ timer' = "running" /\ UNCHANGED seqNo

Datagram == [kind |-> "frame", seq |-> seqNo, frame |-> Frame]

SendGwyPackets ==
    /\ thread = "send" /\ thread' = "read"
    /\ \/ MaySend /\ \E link \in Written(toRptr, Datagram) : Transmit(link)
       \/ ~MaySend /\ UNCHANGED <<sendVars, gwyQueue, toRptr>>
    /\ UNCHANGED <<queued, writes, replies, rptrVars, toGwy, ctlVars>>

(* readIcomPackets: the socket is empty, the retry timer is clocked.  If   *)
(* prompt, no ack is on its way any more when it expires.                  *)
Quiet == prompt => toRptr = <<>> /\ toGwy = <<>>

ReadNothing ==
    /\ thread = "read" /\ toGwy = <<>> /\ thread' = "send"
    /\ timer' \in {timer} \cup (IF timer = "running" /\ Quiet THEN {"expired"} ELSE {})
    /\ UNCHANGED <<ackQueue, seqNo, tries, gwyVars, replies, rptrVars, toRptr, toGwy, ctlVars>>

\* Variant: the number does not move on.
ReadAckSameNumber ==
    /\ thread = "read" /\ toGwy # <<>> /\ Head(toGwy).kind = "ack"
    /\ toGwy' = Tail(toGwy)
    /\ seqNo' = Head(toGwy).seq
    /\ ackQueue' = None /\ tries' = FALSE /\ timer' = "stopped"
    /\ UNCHANGED <<gwyVars, thread, replies, rptrVars, toRptr, ctlVars>>

(* An ack: any number frees the frame, an unexpected one is adopted. *)
ReadAck ==
    /\ thread = "read" /\ toGwy # <<>> /\ Head(toGwy).kind = "ack"
    /\ toGwy' = Tail(toGwy)
    /\ seqNo' = IF Head(toGwy).seq = seqNo THEN (seqNo + 1) % SeqSpace ELSE Head(toGwy).seq
    /\ ackQueue' = None /\ tries' = FALSE /\ timer' = "stopped"
    /\ UNCHANGED <<gwyVars, thread, replies, rptrVars, toRptr, ctlVars>>

(* Anything else is acknowledged and queued; a header is first answered by *)
(* a header and one or two voice frames, queued from this thread.          *)
ReadData ==
    /\ thread = "read" /\ toGwy # <<>> /\ Head(toGwy).kind # "ack"
    /\ toGwy' = Tail(toGwy)
    /\ \E link \in Written(toRptr, [kind |-> "ack", seq |-> Head(toGwy).seq]) : toRptr' = link
    /\ IF Head(toGwy).kind = "HEADER"
       THEN /\ thread' = "reply" /\ replies' = IF over1 THEN 3 ELSE 2
            /\ UNCHANGED rptrQueue
       ELSE /\ rptrQueue' = Put(rptrQueue, Head(toGwy).kind)
            /\ UNCHANGED <<thread, replies>>
    /\ UNCHANGED <<gwyVars, sendVars, type, ctlVars>>

(* sendSingleReply, sendMultiReply: one addData at a time *)
Reply ==
    /\ thread = "reply" /\ replies > 0
    /\ QueueFrame /\ replies' = replies - 1
    /\ UNCHANGED <<writes, sendVars, thread, rptrVars, toRptr, toGwy, ctlVars>>

EndReply ==
    /\ thread = "reply" /\ replies = 0 /\ thread' = "read"
    /\ rptrQueue' = Put(rptrQueue, "HEADER")
    /\ UNCHANGED <<gwyVars, sendVars, replies, type, toRptr, toGwy, ctlVars>>

---------------------------------------------------------------------------
(* The controller: it acknowledges every frame with the frame's number and *)
(* knows a repeated frame by its number.                                   *)

RptrReceives(link) ==
    /\ toRptr # <<>> /\ Head(toRptr).kind = "frame"
    /\ toRptr' = Tail(toRptr) /\ toGwy' = link
    /\ IF Head(toRptr).seq = lastSeq THEN UNCHANGED <<lastSeq, accepted>>
       ELSE lastSeq' = Head(toRptr).seq /\ accepted' = Append(accepted, Head(toRptr).frame)
    /\ UNCHANGED <<sentItems, gwyVars, sendVars, thread, replies, rptrVars>>

AckOf(d) == [kind |-> "ack", seq |-> d.seq]

RptrReceivesFrame == toRptr # <<>> /\ \E link \in Written(toGwy, AckOf(Head(toRptr))) : RptrReceives(link)

RptrReceivesAck ==
    /\ toRptr # <<>> /\ Head(toRptr).kind = "ack"
    /\ toRptr' = Tail(toRptr)
    /\ UNCHANGED <<toGwy, ctlVars, gwyVars, sendVars, thread, replies, rptrVars>>

RptrSends(kind) ==
    /\ sentItems < MaxItems /\ sentItems' = sentItems + 1
    /\ \E link \in Written(toGwy, [kind |-> kind, seq |-> 0]) : toGwy' = link
    /\ UNCHANGED <<toRptr, lastSeq, accepted, gwyVars, sendVars, thread, replies, rptrVars>>

---------------------------------------------------------------------------
GatewayThread == Write \/ Read \/ ReadItem
HandlerThread == SendGwyPackets \/ ReadNothing \/ ReadAck \/ ReadData \/ Reply \/ EndReply
Controller    == RptrReceivesFrame \/ RptrReceivesAck \/ \E kind \in Types : RptrSends(kind)

IcomNext == (GatewayThread \/ HandlerThread \/ Controller) /\ UNCHANGED site

IcomSpec == IcomInit /\ [][IcomNext]_icomVars

(* The handler's thread runs, its retry timer expires, and of a frame sent *)
(* again and again not all copies nor all acks are lost.                   *)
IcomFairness ==
    /\ WF_moving(HandlerThread) /\ SF_moving(ReadNothing /\ timer' = "expired")
    /\ SF_moving(SendGwyPackets /\ toRptr' # toRptr)
    /\ WF_moving(Controller /\ toRptr' # toRptr)
    /\ SF_moving(RptrReceivesFrame /\ toGwy' # toGwy)

FairSpec == IcomSpec /\ IcomFairness

---------------------------------------------------------------------------
(* The frame in ackQueue is on its way until the controller accepts it;    *)
(* what is left of its time there is the ack's.                            *)
Delivered == \E k \in 1 .. Len(accepted) : accepted[k] = ackQueue

Channel == INSTANCE IcomChannel WITH
    Length <- QueueLength, Frames <- 1 .. Last, NoFrame <- None,
    waiting   <- IF prompt THEN gwyQueue ELSE <<>>,
    delivered <- IF prompt THEN accepted ELSE <<>>,
    sending   <- IF prompt /\ ~Delivered THEN ackQueue ELSE None

(* If answers beat the retry timer, lost frames and lost acks and the wrap *)
(* of m_seqNo lose no frame and double none (sendGwyPackets and the ack    *)
(* branch of readIcomPackets): what leaves the ring arrives before the     *)
(* next one leaves.                                                        *)
Reliable == Channel!Spec

(* Whatever the delays, and although a late ack frees the wrong frame and  *)
(* moves m_seqNo, the controller never takes a frame twice nor an older    *)
(* frame after a newer one: the number of a frame never changes while it   *)
(* is retried (sendGwyPackets sends m_ackQueue with m_seqNo).              *)
InOrderOnce == \A j, k \in 1 .. Len(accepted) : j < k => accepted[j] < accepted[k]

(* While the ring is not filled up, the item a read method of the gateway  *)
(* thread takes is there and is the one read() has told it of, whatever    *)
(* the handler's thread adds between the two calls (readHeader and its     *)
(* like log "Missing" or "Wrong DataQueue" otherwise).                     *)
TakesWhatItRead ==
    [][type # "NONE" /\ type' = "NONE" /\ MaxItems < QueueLength
         => rptrQueue # <<>> /\ rptrQueue = <<type>> \o rptrQueue']_icomVars

(* No frame stays in m_ackQueue for ever, however many copies and acks are *)
(* lost or late: the retries of sendGwyPackets end.                        *)
FrameLeaves == ackQueue # None ~> ackQueue = None
=============================================================================
