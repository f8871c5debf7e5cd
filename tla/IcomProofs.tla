----------------------------- MODULE IcomProofs -----------------------------
(***************************************************************************)
(* The driver of an Icom repeater, whatever its constants.  CRingBuffer is *)
(* the queue RingQueue describes: the initial states map to the empty      *)
(* queue, and every method to the step of the same name; the sequence the  *)
(* two indices enclose is compared item by item with the one the queue     *)
(* would hold.  The exchange with the controller keeps every frame in      *)
(* order, and is IcomChannel when answers beat the retry timer.            *)
(***************************************************************************)
EXTENDS MCIcom, SequenceTheorems, FiniteSetTheorems, FunctionTheorems, TLAPS

---------------------------------------------------------------------------
(* The ring *)

Values == Items \cup {NoItem}

LEMMA AdvanceType ==
    ASSUME NEW ptr \in Places
    PROVE  Advance(ptr) \in Places
BY BufferAssumption DEF Advance, Places

LEMMA InitType == Init => TypeOK
BY BufferAssumption DEF Init, TypeOK, Places

LEMMA NextType == TypeOK /\ [Next]_vars => TypeOK'
<1> SUFFICES ASSUME TypeOK, [Next]_vars PROVE TypeOK'
  OBVIOUS
<1>1. ASSUME NEW x \in Items, AddData(x) PROVE TypeOK'
  BY <1>1, AdvanceType DEF AddData, TypeOK
<1>2. CASE GetData
  BY <1>2, AdvanceType DEF GetData, TypeOK
<1>3. CASE Peek
  BY <1>3 DEF Peek, TypeOK
<1>4. CASE Clear
  BY <1>4, BufferAssumption DEF Clear, TypeOK, Places
<1>5. CASE UNCHANGED vars
  BY <1>5 DEF vars, TypeOK
<1>. QED BY <1>1, <1>2, <1>3, <1>4, <1>5 DEF Next

(* Both indices stay inside the array, whatever is added and taken.        *)
THEOREM RingTypeCorrect == Spec => []TypeOK
BY InitType, NextType, PTL DEF Spec

---------------------------------------------------------------------------
(* The items held, as a sequence *)

LEMMA HeldSequence ==
    ASSUME NEW b \in [Places -> Values], NEW i \in Places, NEW o \in Places
    PROVE  /\ Occupied(i, o) \in 0 .. Length - 1
           /\ HeldIn(b, i, o) \in Seq(Values)
           /\ Len(HeldIn(b, i, o)) = Occupied(i, o)
           /\ \A k \in 1 .. Occupied(i, o) : HeldIn(b, i, o)[k] = b[Place(o, k)]
<1>1. Occupied(i, o) \in 0 .. Length - 1
  BY BufferAssumption DEF Occupied, Places
<1>2. \A k \in 1 .. Occupied(i, o) : Place(o, k) \in Places
  BY BufferAssumption DEF Occupied, Place, Places
<1>3. HeldIn(b, i, o) \in [1 .. Occupied(i, o) -> Values]
  BY <1>2 DEF HeldIn
<1>4. HeldIn(b, i, o) \in Seq(Values)
  BY <1>1, <1>3, SeqDef
<1>. QED BY <1>1, <1>3, <1>4, LenProperties DEF HeldIn

LEMMA HeldEmpty ==
    ASSUME NEW b \in [Places -> Values], NEW i \in Places, NEW o \in Places
    PROVE  /\ i = o <=> HeldIn(b, i, o) = <<>>
           /\ i = o <=> Occupied(i, o) = 0
<1>1. i = o <=> Occupied(i, o) = 0
  BY BufferAssumption DEF Occupied, Places
<1>2. HeldIn(b, i, o) = <<>> => Occupied(i, o) = 0
  BY HeldSequence, EmptySeq
<1>3. Occupied(i, o) = 0 => HeldIn(b, i, o) = <<>>
  BY HeldSequence, EmptySeq
<1>. QED BY <1>1, <1>2, <1>3

(* addData appends, or empties a buffer of Length - 1 items. *)
LEMMA AddAppends ==
    ASSUME NEW b \in [Places -> Values], NEW i \in Places, NEW o \in Places, NEW x \in Items
    PROVE  HeldIn([b EXCEPT ![i] = x], Advance(i), o)
             = IF Len(HeldIn(b, i, o)) = Length - 1 THEN <<>> ELSE Append(HeldIn(b, i, o), x)
<1> DEFINE c == [b EXCEPT ![i] = x]
           h == HeldIn(b, i, o)
           g == HeldIn(c, Advance(i), o)
           n == Occupied(i, o)
<1>1. c \in [Places -> Values] /\ Advance(i) \in Places /\ x \in Values
  BY AdvanceType DEF Values
<1>2. /\ n \in 0 .. Length - 1 /\ h \in Seq(Values) /\ Len(h) = n
      /\ \A k \in 1 .. n : h[k] = b[Place(o, k)]
  BY HeldSequence
<1>3. /\ g \in Seq(Values) /\ Len(g) = Occupied(Advance(i), o)
      /\ \A k \in 1 .. Occupied(Advance(i), o) : g[k] = c[Place(o, k)]
  <2> HIDE DEF c
  <2>. QED BY <1>1, HeldSequence
<1>4. CASE n = Length - 1
  <2>1. Advance(i) = o
    BY <1>4, BufferAssumption DEF Occupied, Advance, Places
  <2>2. g = <<>>
    <3> HIDE DEF c
    <3>. QED BY <1>1, <2>1, HeldEmpty
  <2>. QED BY <1>2, <1>4, <2>2
<1>5. CASE n # Length - 1
  <2>1. Occupied(Advance(i), o) = n + 1
    BY <1>2, <1>5, BufferAssumption DEF Occupied, Advance, Places
  <2>2. Place(o, n + 1) = i
    BY <1>5, BufferAssumption DEF Occupied, Place, Places
  <2>3. \A k \in 1 .. n : Place(o, k) \in Places /\ Place(o, k) # i
    BY <1>5, BufferAssumption DEF Occupied, Place, Places
  <2>4. \A k \in 1 .. n + 1 : c[Place(o, k)] = IF k = n + 1 THEN x ELSE b[Place(o, k)]
    BY <1>2, <2>2, <2>3
  <2> HIDE DEF c, h, g, n
  <2>5. /\ Append(h, x) \in Seq(Values) /\ Len(Append(h, x)) = n + 1
        /\ \A k \in 1 .. n + 1 : Append(h, x)[k] = IF k = n + 1 THEN x ELSE h[k]
    BY <1>1, <1>2
  <2>6. \A k \in 1 .. n + 1 : g[k] = Append(h, x)[k]
    BY <1>2, <1>3, <2>1, <2>4, <2>5
  <2>7. g = Append(h, x)
    BY <1>3, <2>1, <2>5, <2>6, SeqEqual
  <2>. QED BY <1>2, <1>5, <2>7 DEF c, h, g, n
<1>. QED BY <1>4, <1>5

(* getData takes the first item, which is the one at m_oPtr. *)
LEMMA GetTakesFirst ==
    ASSUME NEW b \in [Places -> Values], NEW i \in Places, NEW o \in Places, i # o
    PROVE  /\ Head(HeldIn(b, i, o)) = b[o]
           /\ HeldIn(b, i, Advance(o)) = Tail(HeldIn(b, i, o))
<1> DEFINE h == HeldIn(b, i, o)
           g == HeldIn(b, i, Advance(o))
           n == Occupied(i, o)
<1>1. Advance(o) \in Places
  BY AdvanceType
<1>2. /\ n \in 1 .. Length - 1 /\ h \in Seq(Values) /\ Len(h) = n /\ h # <<>>
      /\ \A k \in 1 .. n : h[k] = b[Place(o, k)]
  <2>1. n # 0 /\ h # <<>>
    BY HeldEmpty
  <2>2. /\ n \in 0 .. Length - 1 /\ h \in Seq(Values) /\ Len(h) = n
        /\ \A k \in 1 .. n : h[k] = b[Place(o, k)]
    BY HeldSequence
  <2> HIDE DEF n, h
  <2>. QED BY <2>1, <2>2, BufferAssumption
<1>3. Occupied(i, Advance(o)) = n - 1 /\ Place(o, 1) = o
  BY BufferAssumption DEF Occupied, Advance, Places, Place
<1>4. /\ g \in Seq(Values) /\ Len(g) = n - 1
      /\ \A k \in 1 .. n - 1 : g[k] = b[Place(Advance(o), k)]
  <2> DEFINE o2 == Advance(o)
  <2>1. o2 \in Places
    BY <1>1
  <2> HIDE DEF o2
  <2>2. /\ HeldIn(b, i, o2) \in Seq(Values) /\ Len(HeldIn(b, i, o2)) = Occupied(i, o2)
        /\ \A k \in 1 .. Occupied(i, o2) : HeldIn(b, i, o2)[k] = b[Place(o2, k)]
    BY <2>1, HeldSequence
  <2>. QED BY <1>3, <2>2 DEF o2
<1>5. \A k \in 1 .. n - 1 : Place(Advance(o), k) = Place(o, k + 1)
  BY <1>2, BufferAssumption DEF Place, Advance, Places
<1> HIDE DEF h, g, n
<1>6. Head(h) = b[o]
  BY <1>2, <1>3
<1>7. /\ Tail(h) \in Seq(Values) /\ Len(Tail(h)) = n - 1
      /\ \A k \in 1 .. n - 1 : Tail(h)[k] = h[k + 1]
  BY <1>2, HeadTailProperties
<1>8. \A k \in 1 .. n - 1 : g[k] = Tail(h)[k]
  BY <1>2, <1>4, <1>5, <1>7
<1>9. g = Tail(h)
  BY <1>4, <1>7, <1>8, SeqEqual
<1>. QED BY <1>6, <1>9 DEF h, g

---------------------------------------------------------------------------
(* The refinement *)

LEMMA InitMaps == Init => Queue!Init
BY HeldEmpty, BufferAssumption DEF Init, Queue!Init, Held, Values, Places

LEMMA StepMaps == TypeOK /\ TypeOK' /\ [Next]_vars => [Queue!Next]_<<Held, returned>>
<1> SUFFICES ASSUME TypeOK, [Next]_vars PROVE [Queue!Next]_<<Held, returned>>
  OBVIOUS
<1>0. buffer \in [Places -> Values] /\ iPtr \in Places /\ oPtr \in Places
  BY DEF TypeOK, Values
<1>1. ASSUME NEW x \in Items, AddData(x) PROVE Queue!AddData(x)
  BY <1>0, <1>1, AddAppends DEF AddData, Queue!AddData, Queue!Put, Held
<1>2. ASSUME GetData PROVE Queue!GetData
  <2>1. CASE iPtr = oPtr
    BY <1>0, <1>2, <2>1, HeldEmpty DEF GetData, Queue!GetData, Queue!First, Held
  <2>2. CASE iPtr # oPtr
    <3>1. Held # <<>> /\ Head(Held) = buffer[oPtr] /\ HeldIn(buffer, iPtr, Advance(oPtr)) = Tail(Held)
      BY <1>0, <2>2, HeldEmpty, GetTakesFirst DEF Held
    <3>2. Held' = HeldIn(buffer, iPtr, Advance(oPtr)) /\ returned' = buffer[oPtr]
      BY <1>2, <2>2 DEF GetData, Held
    <3>. QED BY <3>1, <3>2 DEF Queue!GetData, Queue!First
  <2>. QED BY <2>1, <2>2
<1>3. ASSUME Peek PROVE Queue!Peek
  <2>1. Held' = Held
    BY <1>3 DEF Peek, Held
  <2>2. CASE iPtr = oPtr
    BY <1>0, <1>3, <2>1, <2>2, HeldEmpty DEF Peek, Queue!Peek, Queue!First, Held
  <2>3. CASE iPtr # oPtr
    <3>1. Held # <<>> /\ Head(Held) = buffer[oPtr] /\ returned' = buffer[oPtr]
      BY <1>0, <1>3, <2>3, HeldEmpty, GetTakesFirst DEF Peek, Held
    <3>. QED BY <2>1, <3>1 DEF Queue!Peek, Queue!First
  <2>. QED BY <2>2, <2>3
<1>4. ASSUME Clear PROVE Queue!Clear
  <2>1. [k \in Places |-> NoItem] \in [Places -> Values] /\ 0 \in Places
    BY BufferAssumption DEF Values, Places
  <2>2. Held' = HeldIn([k \in Places |-> NoItem], 0, 0)
    BY <1>4 DEF Clear, Held
  <2>. QED BY <1>4, <2>1, <2>2, HeldEmpty DEF Clear, Queue!Clear
<1>5. CASE UNCHANGED vars
  BY <1>5 DEF vars, Held
<1>. QED BY <1>1, <1>2, <1>3, <1>4, <1>5 DEF Next, Queue!Next

(* The ring hands out what was put in, in order and once, until the item   *)
(* that would fill it: for every length and every sequence of calls.       *)
THEOREM RingImplementsQueue == Spec => ImplementsQueue
<1>1. Init => Queue!Init
  BY InitMaps
<1>2. TypeOK /\ TypeOK' /\ [Next]_vars => [Queue!Next]_<<Held, returned>>
  BY StepMaps
<1>. QED BY <1>1, <1>2, RingTypeCorrect, PTL DEF Spec, ImplementsQueue, Queue!Spec

---------------------------------------------------------------------------
(* The exchange with the controller: what is on the wires *)

\* Datagrams to the controller, and to the gateway
Down == [kind : {"frame"}, seq : Seqs, frame : Nat] \cup [kind : {"ack"}, seq : Seqs]
Up   == [kind : Types \cup {"ack"}, seq : Seqs]

\* Where the frames are on a wire, where the acks, and where anything else
Carrying(w) == {i \in DOMAIN w : w[i].kind = "frame"}
AcksIn(w)   == {i \in DOMAIN w : w[i].kind = "ack"}
ItemsIn(w)  == {i \in DOMAIN w : w[i].kind # "ack"}

LEMMA TailOf ==
    ASSUME NEW S, NEW w \in Seq(S), w # <<>>
    PROVE  /\ Tail(w) \in Seq(S) /\ Len(Tail(w)) = Len(w) - 1 /\ Head(w) = w[1] /\ Head(w) \in S
           /\ 1 \in DOMAIN w /\ DOMAIN w = 1 .. Len(w)
           /\ \A i \in DOMAIN Tail(w) : i + 1 \in DOMAIN w /\ Tail(w)[i] = w[i + 1]
           /\ \A i \in DOMAIN w : i # 1 => i - 1 \in DOMAIN Tail(w) /\ Tail(w)[i - 1] = w[i]
BY HeadTailProperties, LenProperties, EmptySeq

LEMMA AppendOf ==
    ASSUME NEW S, NEW w \in Seq(S), NEW x \in S
    PROVE  /\ Append(w, x) \in Seq(S) /\ Len(Append(w, x)) = Len(w) + 1
           /\ DOMAIN Append(w, x) = DOMAIN w \cup {Len(w) + 1} /\ Len(w) + 1 \notin DOMAIN w
           /\ Append(w, x)[Len(w) + 1] = x /\ \A i \in DOMAIN w : Append(w, x)[i] = w[i]
BY AppendProperties, LenProperties

LEMMA WrittenOn ==
    ASSUME NEW w, NEW d, NEW v \in Written(w, d)
    PROVE  v = w \/ v = Append(w, d)
BY DEF Written

LEMMA ItemsFinite ==
    ASSUME NEW w \in Seq(Up)
    PROVE  IsFiniteSet(ItemsIn(w)) /\ Cardinality(ItemsIn(w)) \in Nat
<1>1. DOMAIN w = 1 .. Len(w) /\ Len(w) \in Nat
  BY LenProperties
<1>2. IsFiniteSet(1 .. Len(w))
  BY <1>1, FS_Interval
<1>. QED BY <1>1, <1>2, FS_Subset, FS_CardinalityType DEF ItemsIn

LEMMA ItemsAppend ==
    ASSUME NEW w \in Seq(Up), NEW d \in Up
    PROVE  Cardinality(ItemsIn(Append(w, d))) = Cardinality(ItemsIn(w)) + (IF d.kind = "ack" THEN 0 ELSE 1)
<1>1. ItemsIn(Append(w, d)) = IF d.kind = "ack" THEN ItemsIn(w) ELSE ItemsIn(w) \cup {Len(w) + 1}
  BY AppendOf DEF ItemsIn
<1>2. Len(w) + 1 \notin ItemsIn(w)
  BY AppendOf DEF ItemsIn
<1>3. IsFiniteSet(ItemsIn(w)) /\ Cardinality(ItemsIn(w)) \in Nat
  BY ItemsFinite
<1>4. Cardinality(ItemsIn(w) \cup {Len(w) + 1}) = Cardinality(ItemsIn(w)) + 1
  BY <1>2, <1>3, FS_AddElement
<1>. QED BY <1>1, <1>3, <1>4

LEMMA ItemsTail ==
    ASSUME NEW w \in Seq(Up), w # <<>>
    PROVE  Cardinality(ItemsIn(w)) = Cardinality(ItemsIn(Tail(w))) + (IF w[1].kind = "ack" THEN 0 ELSE 1)
<1> DEFINE A == ItemsIn(Tail(w))
           B == ItemsIn(w) \ {1}
           f == [i \in A |-> i + 1]
<1>1. A \subseteq Nat /\ B \subseteq Nat
  BY TailOf, LenProperties DEF ItemsIn
<1>2. \A i \in A : i + 1 \in B
  BY <1>1, TailOf, LenProperties DEF ItemsIn
<1>3. \A i \in B : i - 1 \in A
  BY <1>1, TailOf DEF ItemsIn
<1>4. f \in Bijection(A, B)
  <2> HIDE DEF A, B
  <2>1. f \in [A -> B]
    BY <1>2
  <2>2. \A i, j \in A : f[i] = f[j] => i = j
    BY <1>1
  <2>3. \A j \in B : \E i \in A : f[i] = j
    BY <1>1, <1>3
  <2>. QED BY <2>1, <2>2, <2>3, Fun_IsBij
<1>5. IsFiniteSet(A) /\ Cardinality(B) = Cardinality(A)
  <2>1. IsFiniteSet(A)
    BY TailOf, ItemsFinite
  <2> HIDE DEF A, B, f
  <2>. QED BY <1>4, <2>1, FS_Bijection DEF ExistsBijection
<1>6. 1 \in ItemsIn(w) <=> w[1].kind # "ack"
  BY TailOf DEF ItemsIn
<1>7. Cardinality(B) = IF 1 \in ItemsIn(w) THEN Cardinality(ItemsIn(w)) - 1 ELSE Cardinality(ItemsIn(w))
  BY ItemsFinite, FS_RemoveElement
<1>8. Cardinality(ItemsIn(w)) \in Nat /\ Cardinality(A) \in Nat
  BY TailOf, ItemsFinite
<1> HIDE DEF A, B
<1>9. Cardinality(ItemsIn(w)) = Cardinality(A) + (IF w[1].kind = "ack" THEN 0 ELSE 1)
  BY <1>5, <1>6, <1>7, <1>8
<1>. QED BY <1>9 DEF A

---------------------------------------------------------------------------
(* Types, and how many frames and items there can be *)

LinkTypes ==
    /\ IcomTypeOK /\ toRptr \in Seq(Down) /\ toGwy \in Seq(Up)
    /\ \A i \in Carrying(toRptr) : toRptr[i].frame \in 1 .. queued
    /\ ackQueue # None <=> tries

Replying == IF thread = "reply" THEN 1 ELSE 0

(* An item the controller sends makes at most one entry of the ring and    *)
(* three frames of a reply.                                                *)
LinkCounts ==
    /\ Len(rptrQueue) + Replying + Cardinality(ItemsIn(toGwy)) <= sentItems
    /\ queued + replies + 3 * Cardinality(ItemsIn(toGwy)) <= writes + 3 * sentItems

LEMMA PutOf ==
    ASSUME NEW S, NEW q \in Seq(S), NEW x \in S
    PROVE  Put(q, x) \in Seq(S) /\ Len(Put(q, x)) <= Len(q) + 1
<1>1. <<>> \in Seq(S) /\ Len(<<>>) = 0 /\ Len(q) \in Nat
  BY LenProperties
<1>. QED BY <1>1, AppendOf DEF Put

LEMMA WiderSeq ==
    ASSUME NEW S, NEW T, S \subseteq T, NEW q \in Seq(S)
    PROVE  q \in Seq(T)
<1>1. q \in [1 .. Len(q) -> S] /\ Len(q) \in Nat
  BY LenProperties
<1>2. q \in [1 .. Len(q) -> T]
  BY <1>1
<1>. QED BY <1>1, <1>2, SeqDef

LEMMA AckIsOne ==
    ASSUME NEW n \in Seqs
    PROVE  [kind |-> "ack", seq |-> n] \in Down /\ [kind |-> "ack", seq |-> n] \in Up
BY DEF Down, Up

\* One more frame in m_gwyQueue
LEMMA QueueFrameTypes ==
    ASSUME LinkTypes, QueueFrame, queued < Last,
           UNCHANGED <<sendVars, rptrVars, toRptr, toGwy, ctlVars, site>>,
           writes' \in 0 .. MaxWrites, thread' \in {"send", "read", "reply"}, replies' \in 0 .. 3
    PROVE  LinkTypes'
<1>1. queued \in Nat /\ Last \in Nat
  BY IcomAssumption DEF LinkTypes, IcomTypeOK, Last
<1>2. queued' \in 0 .. Last /\ 1 .. queued \subseteq 1 .. queued' /\ queued + 1 \in 1 .. queued'
  BY <1>1 DEF QueueFrame
<1>3. gwyQueue \in Seq(1 .. queued) /\ accepted \in Seq(1 .. queued) /\ ackQueue \in (1 .. queued) \cup {None}
  BY DEF LinkTypes, IcomTypeOK
<1>4. gwyQueue' \in Seq(1 .. queued')
  <2>1. gwyQueue \in Seq(1 .. queued')
    BY <1>2, <1>3, WiderSeq
  <2>2. Put(gwyQueue, queued + 1) \in Seq(1 .. queued')
    BY <1>2, <2>1, PutOf
  <2>. QED BY <2>2 DEF QueueFrame
<1>5. accepted' \in Seq(1 .. queued') /\ ackQueue' \in (1 .. queued') \cup {None}
  BY <1>2, <1>3, WiderSeq DEF sendVars, ctlVars
<1>6. \A i \in Carrying(toRptr)' : toRptr'[i].frame \in 1 .. queued'
  BY <1>2 DEF LinkTypes, Carrying
<1>. QED BY <1>2, <1>4, <1>5, <1>6 DEF LinkTypes, IcomTypeOK, sendVars, rptrVars, ctlVars, site

LEMMA WriteTypes ==
    ASSUME LinkTypes, LinkCounts, Write, UNCHANGED site
    PROVE  LinkTypes' /\ LinkCounts'
<1>1. /\ writes \in Nat /\ queued \in Nat /\ replies \in 0 .. 3 /\ sentItems \in 0 .. MaxItems
      /\ Cardinality(ItemsIn(toGwy)) \in Nat /\ thread \in {"send", "read", "reply"}
  BY ItemsFinite DEF LinkTypes, IcomTypeOK
<1>2. writes < MaxWrites
  BY <1>1, IcomAssumption DEF Write
<1>3. queued < Last
  BY <1>1, <1>2, IcomAssumption DEF LinkCounts, Last
<1>4. writes' \in 0 .. MaxWrites
  BY <1>1, <1>2, IcomAssumption DEF Write
<1>5. LinkTypes'
  BY <1>1, <1>3, <1>4, QueueFrameTypes DEF Write
<1>. QED BY <1>1, <1>5 DEF LinkCounts, Write, QueueFrame, Replying, rptrVars, ctlVars

LEMMA ReplyTypes ==
    ASSUME LinkTypes, LinkCounts, Reply, UNCHANGED site
    PROVE  LinkTypes' /\ LinkCounts'
<1>1. /\ writes \in 0 .. MaxWrites /\ queued \in Nat /\ replies \in 0 .. 3 /\ sentItems \in 0 .. MaxItems
      /\ Cardinality(ItemsIn(toGwy)) \in Nat /\ thread \in {"send", "read", "reply"}
  BY ItemsFinite DEF LinkTypes, IcomTypeOK
<1>2. queued < Last
  BY <1>1, IcomAssumption DEF LinkCounts, Last, Reply
<1>3. replies' \in 0 .. 3
  BY <1>1 DEF Reply
<1>4. LinkTypes'
  BY <1>1, <1>2, <1>3, QueueFrameTypes DEF Reply
<1>. QED BY <1>1, <1>4 DEF LinkCounts, Reply, QueueFrame, Replying, rptrVars, ctlVars

\* What the gateway thread takes
LEMMA ReadTypes ==
    ASSUME LinkTypes, LinkCounts, Read \/ ReadItem, UNCHANGED site
    PROVE  LinkTypes' /\ LinkCounts'
<1>1. /\ rptrQueue \in Seq(Types) /\ Len(rptrQueue) \in Nat /\ sentItems \in Nat
      /\ Cardinality(ItemsIn(toGwy)) \in Nat
  BY ItemsFinite, LenProperties DEF LinkTypes, IcomTypeOK
<1>2. rptrQueue' \in Seq(Types) /\ Len(rptrQueue') <= Len(rptrQueue) /\ type' \in Types \cup {"NONE"}
  <2>1. CASE Read
    BY <1>1, <2>1, TailOf DEF Read
  <2>2. CASE ReadItem
    BY <1>1, <2>2, TailOf DEF ReadItem
  <2>. QED BY <2>1, <2>2
<1>3. Len(rptrQueue') \in Nat
  BY <1>2, LenProperties
<1>4. UNCHANGED <<gwyVars, sendVars, thread, replies, toRptr, toGwy, ctlVars, site>>
  BY DEF Read, ReadItem
<1>5. LinkTypes'
  BY <1>2, <1>4 DEF LinkTypes, IcomTypeOK, gwyVars, sendVars, ctlVars, site
<1>. QED BY <1>1, <1>2, <1>3, <1>4, <1>5 DEF LinkCounts, Replying, gwyVars, sendVars, ctlVars

\* The frame the handler's thread would send
LEMMA FrameIs ==
    ASSUME LinkTypes, MaySend
    PROVE  /\ Frame \in 1 .. queued /\ Datagram \in Down /\ Datagram.kind = "frame"
           /\ Datagram.frame = Frame /\ Datagram.seq = seqNo
           /\ ackQueue = None => gwyQueue # <<>> /\ Frame = gwyQueue[1]
<1>1. gwyQueue \in Seq(1 .. queued) /\ ackQueue \in (1 .. queued) \cup {None} /\ seqNo \in Seqs /\ queued \in Nat
  BY DEF LinkTypes, IcomTypeOK
<1>2. Frame \in 1 .. queued /\ (ackQueue = None => gwyQueue # <<>> /\ Frame = gwyQueue[1])
  <2>1. CASE ackQueue = None
    BY <1>1, <2>1, TailOf DEF Frame, MaySend
  <2>2. CASE ackQueue # None
    BY <1>1, <2>2 DEF Frame
  <2>. QED BY <2>1, <2>2
<1>3. Frame \in Nat
  BY <1>1, <1>2
<1>. QED BY <1>1, <1>2, <1>3 DEF Datagram, Down

LEMMA CarryingAppend ==
    ASSUME NEW w \in Seq(Down), NEW d \in Down
    PROVE  Carrying(Append(w, d)) = IF d.kind = "frame" THEN Carrying(w) \cup {Len(w) + 1} ELSE Carrying(w)
BY AppendOf DEF Carrying

LEMMA CarryingTail ==
    ASSUME NEW w \in Seq(Down), w # <<>>
    PROVE  \A i \in Carrying(Tail(w)) : i + 1 \in Carrying(w) /\ Tail(w)[i] = w[i + 1]
BY TailOf DEF Carrying

LEMMA SendTypes ==
    ASSUME LinkTypes, LinkCounts, SendGwyPackets, UNCHANGED site
    PROVE  LinkTypes' /\ LinkCounts'
<1>1. UNCHANGED <<queued, writes, replies, rptrVars, toGwy, ctlVars, site>> /\ thread = "send" /\ thread' = "read"
  BY DEF SendGwyPackets
<1>2. LinkCounts'
  BY <1>1 DEF LinkCounts, Replying, rptrVars, ctlVars
<1>3. CASE ~MaySend
  <2>1. UNCHANGED <<sendVars, gwyQueue, toRptr>>
    BY <1>3 DEF SendGwyPackets
  <2>. QED BY <1>1, <1>2, <2>1 DEF LinkTypes, IcomTypeOK, sendVars, rptrVars, ctlVars, site
<1>4. CASE MaySend
  <2>1. PICK v \in Written(toRptr, Datagram) : Transmit(v)
    BY <1>4 DEF SendGwyPackets
  <2>2. /\ gwyQueue \in Seq(1 .. queued) /\ toRptr \in Seq(Down)
        /\ Frame \in 1 .. queued /\ Datagram \in Down /\ Datagram.frame = Frame
        /\ ackQueue = None => gwyQueue # <<>>
    BY <1>4, FrameIs DEF LinkTypes, IcomTypeOK
  <2>3. gwyQueue' \in Seq(1 .. queued)
    BY <2>1, <2>2, TailOf DEF Transmit
  <2>4. toRptr' \in Seq(Down) /\ \A i \in Carrying(toRptr)' : toRptr'[i].frame \in 1 .. queued
    <3>1. toRptr' = toRptr \/ toRptr' = Append(toRptr, Datagram)
      BY <2>1, WrittenOn DEF Transmit
    <3>2. \A i \in Carrying(toRptr) : toRptr[i].frame \in 1 .. queued
      BY DEF LinkTypes
    <3>3. CASE toRptr' = Append(toRptr, Datagram)
      BY <2>2, <3>2, <3>3, AppendOf DEF Carrying
    <3>. QED BY <2>2, <3>1, <3>2, <3>3
  <2>5. ackQueue' \in 1 .. queued /\ tries' = TRUE /\ timer' = "running" /\ seqNo' = seqNo
    BY <2>1, <2>2 DEF Transmit
  <2>6. ackQueue' # None
    BY <2>5, IcomAssumption
  <2>. QED BY <1>1, <1>2, <2>3, <2>4, <2>5, <2>6 DEF LinkTypes, IcomTypeOK, rptrVars, ctlVars, site
<1>. QED BY <1>3, <1>4

LEMMA NothingTypes ==
    ASSUME LinkTypes, LinkCounts, ReadNothing, UNCHANGED site
    PROVE  LinkTypes' /\ LinkCounts'
<1>1. /\ UNCHANGED <<ackQueue, seqNo, tries, gwyVars, replies, rptrVars, toRptr, toGwy, ctlVars, site>>
      /\ thread = "read" /\ thread' = "send"
      /\ timer' = timer \/ (timer = "running" /\ timer' = "expired")
  BY DEF ReadNothing
<1>. QED BY <1>1 DEF LinkTypes, IcomTypeOK, LinkCounts, Replying, gwyVars, rptrVars, ctlVars, site

\* Taking a datagram off the wire to the gateway
LEMMA UpTaken ==
    ASSUME LinkTypes, toGwy # <<>>, toGwy' = Tail(toGwy)
    PROVE  /\ toGwy' \in Seq(Up) /\ Head(toGwy) \in Up /\ Head(toGwy) = toGwy[1]
           /\ Cardinality(ItemsIn(toGwy)) \in Nat /\ Cardinality(ItemsIn(toGwy)') \in Nat
           /\ Cardinality(ItemsIn(toGwy)) = Cardinality(ItemsIn(toGwy)') + (IF Head(toGwy).kind = "ack" THEN 0 ELSE 1)
<1>1. toGwy \in Seq(Up)
  BY DEF LinkTypes
<1>2. toGwy' \in Seq(Up) /\ Head(toGwy) \in Up /\ Head(toGwy) = toGwy[1]
  BY <1>1, TailOf
<1>3. ItemsIn(toGwy)' = ItemsIn(Tail(toGwy))
  BY DEF ItemsIn
<1>4. Tail(toGwy) \in Seq(Up)
  BY <1>2
<1>. QED BY <1>1, <1>2, <1>3, <1>4, ItemsTail, ItemsFinite

LEMMA AckTypes ==
    ASSUME LinkTypes, LinkCounts, ReadAck, UNCHANGED site
    PROVE  LinkTypes' /\ LinkCounts'
<1>1. /\ toGwy' \in Seq(Up) /\ Head(toGwy) \in Up
      /\ Cardinality(ItemsIn(toGwy)') = Cardinality(ItemsIn(toGwy))
  BY UpTaken DEF ReadAck
<1>2. /\ UNCHANGED <<gwyVars, thread, replies, rptrVars, toRptr, ctlVars, site>>
      /\ ackQueue' = None /\ tries' = FALSE /\ timer' = "stopped"
  BY DEF ReadAck
<1>3. seqNo' \in Seqs
  <2>1. seqNo \in Seqs /\ Head(toGwy).seq \in Seqs
    BY <1>1 DEF LinkTypes, IcomTypeOK, Up
  <2>2. (seqNo + 1) % SeqSpace \in Seqs
    BY <2>1, IcomAssumption DEF Seqs
  <2>. QED BY <2>1, <2>2 DEF ReadAck
<1>4. LinkCounts'
  BY <1>1, <1>2 DEF LinkCounts, Replying, gwyVars, rptrVars, ctlVars
<1>. QED BY <1>1, <1>2, <1>3, <1>4 DEF LinkTypes, IcomTypeOK, gwyVars, rptrVars, ctlVars, site

LEMMA DataTypes ==
    ASSUME LinkTypes, LinkCounts, ReadData, UNCHANGED site
    PROVE  LinkTypes' /\ LinkCounts'
<1>1. /\ toGwy' \in Seq(Up) /\ Head(toGwy) \in Up
      /\ Cardinality(ItemsIn(toGwy)) = Cardinality(ItemsIn(toGwy)') + 1
      /\ Cardinality(ItemsIn(toGwy)') \in Nat
  BY UpTaken DEF ReadData
<1>2. Head(toGwy).kind \in Types /\ Head(toGwy).seq \in Seqs
  BY <1>1 DEF Up, ReadData
<1>3. /\ UNCHANGED <<gwyVars, sendVars, type, ctlVars, site>> /\ thread = "read"
      /\ \/ thread' = "reply" /\ replies' \in {2, 3} /\ UNCHANGED rptrQueue
         \/ rptrQueue' = Put(rptrQueue, Head(toGwy).kind) /\ UNCHANGED <<thread, replies>>
  BY DEF ReadData
<1>4. toRptr' \in Seq(Down) /\ \A i \in Carrying(toRptr)' : toRptr'[i].frame \in 1 .. queued
  <2>1. PICK d \in Down : d = [kind |-> "ack", seq |-> Head(toGwy).seq]
    BY <1>2, AckIsOne
  <2>2. toRptr' = toRptr \/ toRptr' = Append(toRptr, d)
    BY <2>1, WrittenOn DEF ReadData
  <2>3. toRptr \in Seq(Down) /\ \A i \in Carrying(toRptr) : toRptr[i].frame \in 1 .. queued
    BY DEF LinkTypes
  <2>4. d.kind # "frame"
    BY <2>1
  <2>. QED BY <2>2, <2>3, <2>4, AppendOf DEF Carrying
<1>5. rptrQueue \in Seq(Types) /\ Len(rptrQueue) \in Nat /\ replies \in 0 .. 3 /\ queued \in Nat
      /\ writes \in Nat /\ sentItems \in Nat
  BY LenProperties DEF LinkTypes, IcomTypeOK
<1>6. rptrQueue' \in Seq(Types) /\ Len(rptrQueue') + Replying' <= Len(rptrQueue) + Replying + 1
  <2>1. CASE thread' = "reply" /\ UNCHANGED rptrQueue
    BY <1>3, <1>5, <2>1 DEF Replying
  <2>2. CASE rptrQueue' = Put(rptrQueue, Head(toGwy).kind) /\ UNCHANGED <<thread, replies>>
    <3>1. rptrQueue' \in Seq(Types) /\ Len(rptrQueue') <= Len(rptrQueue) + 1
      BY <1>2, <1>5, <2>2, PutOf
    <3>2. Len(rptrQueue') \in Nat
      BY <3>1, LenProperties
    <3>. QED BY <1>3, <1>5, <2>2, <3>1, <3>2 DEF Replying
  <2>. QED BY <1>3, <2>1, <2>2
<1>7. replies' \in 0 .. 3 /\ replies' <= replies + 3
  BY <1>3, <1>5
<1>8. UNCHANGED <<queued, writes, sentItems>>
  BY <1>3 DEF gwyVars, ctlVars
<1>9. Replying \in Nat /\ Replying' \in Nat /\ Len(rptrQueue') \in Nat
  BY <1>6, LenProperties DEF Replying
<1>10. LinkCounts'
  <2>1. PICK c \in Nat : c = Cardinality(ItemsIn(toGwy))
    BY <1>1
  <2>2. PICK l \in Nat, r \in Nat : l = Len(rptrQueue) /\ r = Replying
    BY <1>5, <1>9
  <2>3. PICK l2 \in Nat, r2 \in Nat : l2 = Len(rptrQueue') /\ r2 = Replying'
    BY <1>9
  <2>4. Cardinality(ItemsIn(toGwy)') = c - 1 /\ c \in Nat \ {0}
    BY <1>1, <2>1
  <2>5. l + r + c <= sentItems /\ queued + replies + 3 * c <= writes + 3 * sentItems /\ l2 + r2 <= l + r + 1
    BY <1>6, <2>1, <2>2, <2>3 DEF LinkCounts
  <2>6. l2 + r2 + (c - 1) <= sentItems
    BY <1>5, <2>4, <2>5
  <2>7. queued + replies' + 3 * (c - 1) <= writes + 3 * sentItems
    <3>1. 3 * (c - 1) = 3 * c - 3
      BY <2>4
    <3>2. PICK m \in Nat : m = 3 * c
      BY <2>4
    <3>3. PICK n \in Nat : n = 3 * sentItems
      BY <1>5
    <3>4. queued + replies + m <= writes + n
      BY <2>5, <3>2, <3>3
    <3>5. queued + replies' + (m - 3) <= writes + n
      <4>1. PICK p \in 0 .. 3 : p = replies'
        BY <1>7
      <4>2. replies \in Nat /\ queued \in Nat /\ writes \in Nat
        BY <1>5
      <4>3. p <= replies + 3
        BY <1>7, <4>1
      <4>4. queued + p + (m - 3) <= writes + n
        BY <3>4, <4>2, <4>3
      <4>. QED BY <4>1, <4>4
    <3>. QED BY <3>1, <3>2, <3>3, <3>5
  <2>. QED BY <1>8, <2>3, <2>4, <2>6, <2>7 DEF LinkCounts
<1>. QED BY <1>1, <1>3, <1>4, <1>6, <1>7, <1>10 DEF LinkTypes, IcomTypeOK, gwyVars, sendVars, ctlVars, site

LEMMA EndReplyTypes ==
    ASSUME LinkTypes, LinkCounts, EndReply, UNCHANGED site
    PROVE  LinkTypes' /\ LinkCounts'
<1>1. /\ UNCHANGED <<gwyVars, sendVars, replies, type, toRptr, toGwy, ctlVars, site>>
      /\ thread = "reply" /\ thread' = "read" /\ rptrQueue' = Put(rptrQueue, "HEADER")
  BY DEF EndReply
<1>2. rptrQueue \in Seq(Types) /\ "HEADER" \in Types
  BY DEF LinkTypes, IcomTypeOK, Types
<1>3. rptrQueue' \in Seq(Types) /\ Len(rptrQueue') <= Len(rptrQueue) + 1
  BY <1>1, <1>2, PutOf
<1>4. Len(rptrQueue) \in Nat /\ Len(rptrQueue') \in Nat /\ Cardinality(ItemsIn(toGwy)) \in Nat /\ sentItems \in Nat
  BY <1>2, <1>3, LenProperties, ItemsFinite DEF LinkTypes, IcomTypeOK
<1>5. Len(rptrQueue') + Replying' <= Len(rptrQueue) + Replying
  BY <1>1, <1>3, <1>4 DEF Replying
<1>6. LinkCounts'
  <2>1. Replying = 1 /\ Replying' = 0
    BY <1>1 DEF Replying
  <2>. QED BY <1>1, <1>4, <1>5, <2>1 DEF LinkCounts, gwyVars, ctlVars
<1>. QED BY <1>1, <1>3, <1>6 DEF LinkTypes, IcomTypeOK, gwyVars, sendVars, ctlVars, site

\* Putting a datagram on the wire to the gateway
LEMMA UpWritten ==
    ASSUME LinkTypes, NEW d \in Up, toGwy' \in Written(toGwy, d)
    PROVE  /\ toGwy' \in Seq(Up) /\ Cardinality(ItemsIn(toGwy)) \in Nat /\ Cardinality(ItemsIn(toGwy)') \in Nat
           /\ Cardinality(ItemsIn(toGwy)') <= Cardinality(ItemsIn(toGwy)) + 1
           /\ d.kind = "ack" => Cardinality(ItemsIn(toGwy)') = Cardinality(ItemsIn(toGwy))
<1>1. toGwy \in Seq(Up) /\ Cardinality(ItemsIn(toGwy)) \in Nat
  BY ItemsFinite DEF LinkTypes
<1>2. CASE toGwy' = toGwy
  BY <1>1, <1>2 DEF ItemsIn
<1>3. CASE toGwy' = Append(toGwy, d)
  <2>1. ItemsIn(toGwy)' = ItemsIn(Append(toGwy, d)) /\ Append(toGwy, d) \in Seq(Up)
    BY <1>1, <1>3 DEF ItemsIn
  <2>2. Cardinality(ItemsIn(toGwy)') = Cardinality(ItemsIn(toGwy)) + (IF d.kind = "ack" THEN 0 ELSE 1)
    BY <1>1, <2>1, ItemsAppend
  <2>. QED BY <1>1, <1>3, <2>1, <2>2
<1>. QED BY <1>2, <1>3, WrittenOn

\* Taking a datagram off the wire to the controller
LEMMA DownTaken ==
    ASSUME LinkTypes, toRptr # <<>>, toRptr' = Tail(toRptr)
    PROVE  /\ toRptr' \in Seq(Down) /\ Head(toRptr) \in Down /\ Head(toRptr) = toRptr[1]
           /\ Head(toRptr).kind = "frame" => 1 \in Carrying(toRptr) /\ Head(toRptr).frame \in 1 .. queued
           /\ \A i \in Carrying(toRptr)' : i + 1 \in Carrying(toRptr) /\ toRptr'[i] = toRptr[i + 1]
           /\ \A i \in Carrying(toRptr)' : toRptr'[i].frame \in 1 .. queued
<1>1. toRptr \in Seq(Down)
  BY DEF LinkTypes
<1>2. /\ toRptr' \in Seq(Down) /\ Head(toRptr) \in Down /\ Head(toRptr) = toRptr[1] /\ 1 \in DOMAIN toRptr
  BY <1>1, TailOf
<1>3. \A i \in Carrying(toRptr)' : i + 1 \in Carrying(toRptr) /\ toRptr'[i] = toRptr[i + 1]
  <2>1. Carrying(toRptr)' = Carrying(Tail(toRptr))
    BY DEF Carrying
  <2>. QED BY <1>1, <2>1, CarryingTail
<1>4. \A i \in Carrying(toRptr) : toRptr[i].frame \in 1 .. queued
  BY DEF LinkTypes
<1>. QED BY <1>2, <1>3, <1>4 DEF Carrying

LEMMA ReceivesTypes ==
    ASSUME LinkTypes, LinkCounts, RptrReceivesFrame, UNCHANGED site
    PROVE  LinkTypes' /\ LinkCounts'
<1>1. PICK v \in Written(toGwy, AckOf(Head(toRptr))) : RptrReceives(v)
  BY DEF RptrReceivesFrame
<1>2. /\ UNCHANGED <<sentItems, gwyVars, sendVars, thread, replies, rptrVars, site>>
      /\ toRptr # <<>> /\ toRptr' = Tail(toRptr) /\ Head(toRptr).kind = "frame" /\ toGwy' = v
  BY <1>1 DEF RptrReceives
<1>3. /\ toRptr' \in Seq(Down) /\ Head(toRptr) \in Down /\ Head(toRptr).frame \in 1 .. queued
      /\ \A i \in Carrying(toRptr)' : toRptr'[i].frame \in 1 .. queued
  BY <1>2, DownTaken
<1>4. Head(toRptr).seq \in Seqs
  BY <1>3 DEF Down
<1>5. /\ toGwy' \in Seq(Up) /\ Cardinality(ItemsIn(toGwy)') = Cardinality(ItemsIn(toGwy))
  <2>1. AckOf(Head(toRptr)) \in Up /\ AckOf(Head(toRptr)).kind = "ack"
    BY <1>4, AckIsOne DEF AckOf
  <2>. QED BY <1>1, <1>2, <2>1, UpWritten
<1>6. lastSeq' \in Seqs /\ accepted' \in Seq(1 .. queued)
  <2>1. accepted \in Seq(1 .. queued) /\ lastSeq \in Seqs
    BY DEF LinkTypes, IcomTypeOK
  <2>2. Append(accepted, Head(toRptr).frame) \in Seq(1 .. queued)
    BY <1>3, <2>1, AppendOf
  <2>. QED BY <1>1, <1>4, <2>1, <2>2 DEF RptrReceives
<1>7. LinkCounts'
  BY <1>2, <1>5 DEF LinkCounts, Replying, gwyVars, rptrVars
<1>. QED BY <1>2, <1>3, <1>5, <1>6, <1>7 DEF LinkTypes, IcomTypeOK, gwyVars, sendVars, rptrVars, site

LEMMA TakesAckTypes ==
    ASSUME LinkTypes, LinkCounts, RptrReceivesAck, UNCHANGED site
    PROVE  LinkTypes' /\ LinkCounts'
<1>1. toRptr' \in Seq(Down) /\ \A i \in Carrying(toRptr)' : toRptr'[i].frame \in 1 .. queued
  BY DownTaken DEF RptrReceivesAck
<1>2. UNCHANGED <<toGwy, ctlVars, gwyVars, sendVars, thread, replies, rptrVars, site>>
  BY DEF RptrReceivesAck
<1>. QED BY <1>1, <1>2 DEF LinkTypes, IcomTypeOK, LinkCounts, Replying, gwyVars, sendVars, rptrVars, ctlVars, site

LEMMA RptrSendsTypes ==
    ASSUME LinkTypes, LinkCounts, NEW k \in Types, RptrSends(k), UNCHANGED site
    PROVE  LinkTypes' /\ LinkCounts'
<1>1. /\ UNCHANGED <<toRptr, lastSeq, accepted, gwyVars, sendVars, thread, replies, rptrVars, site>>
      /\ sentItems < MaxItems /\ sentItems' = sentItems + 1
      /\ toGwy' \in Written(toGwy, [kind |-> k, seq |-> 0])
  BY DEF RptrSends
<1>2. [kind |-> k, seq |-> 0] \in Up
  BY IcomAssumption DEF Up, Seqs
<1>3. /\ toGwy' \in Seq(Up) /\ Cardinality(ItemsIn(toGwy)) \in Nat /\ Cardinality(ItemsIn(toGwy)') \in Nat
      /\ Cardinality(ItemsIn(toGwy)') <= Cardinality(ItemsIn(toGwy)) + 1
  BY <1>1, <1>2, UpWritten
<1>4. sentItems \in Nat /\ MaxItems \in Nat /\ sentItems' \in 0 .. MaxItems /\ Len(rptrQueue) \in Nat
      /\ queued \in Nat /\ writes \in Nat /\ replies \in Nat
  BY <1>1, IcomAssumption, LenProperties DEF LinkTypes, IcomTypeOK
<1>5. LinkCounts'
  <2>1. PICK l \in Nat, r \in Nat : l = Len(rptrQueue) /\ r = Replying
    BY <1>4 DEF Replying
  <2>2. PICK c \in Nat, d \in Nat : c = Cardinality(ItemsIn(toGwy)) /\ d = Cardinality(ItemsIn(toGwy)')
    BY <1>3
  <2>3. l + r + c <= sentItems /\ queued + replies + 3 * c <= writes + 3 * sentItems /\ d <= c + 1
    BY <1>3, <2>1, <2>2 DEF LinkCounts
  <2>4. l + r + d <= sentItems + 1 /\ queued + replies + 3 * d <= writes + 3 * (sentItems + 1)
    BY <1>4, <2>3
  <2>5. Len(rptrQueue') = l /\ Replying' = r
    BY <1>1, <2>1 DEF Replying, rptrVars
  <2>. QED BY <1>1, <2>2, <2>4, <2>5 DEF LinkCounts, gwyVars
<1>. QED BY <1>1, <1>3, <1>4, <1>5 DEF LinkTypes, IcomTypeOK, gwyVars, sendVars, rptrVars, site

LEMMA LinkTypesInit == IcomInit => LinkTypes /\ LinkCounts
<1>. SUFFICES ASSUME IcomInit PROVE LinkTypes /\ LinkCounts
  OBVIOUS
<1>1. \A S : <<>> \in Seq(S)
  OBVIOUS
<1>2. /\ gwyQueue = <<>> /\ rptrQueue = <<>> /\ toRptr = <<>> /\ toGwy = <<>> /\ accepted = <<>>
      /\ queued = 0 /\ writes = 0 /\ replies = 0 /\ sentItems = 0 /\ ackQueue = None /\ thread = "send"
      /\ tries = FALSE /\ timer = "stopped" /\ type = "NONE" /\ prompt \in BOOLEAN /\ over1 \in BOOLEAN
      /\ seqNo \in Seqs /\ lastSeq = (seqNo + SeqSpace - 1) % SeqSpace
  BY DEF IcomInit
<1>3. lastSeq \in Seqs
  BY <1>2, IcomAssumption DEF Seqs
<1>4. 0 \in 0 .. Last /\ 0 \in 0 .. MaxWrites /\ 0 \in 0 .. MaxItems
  BY IcomAssumption DEF Last
<1>5. IcomTypeOK
  <2>1. /\ gwyQueue \in Seq(1 .. queued) /\ rptrQueue \in Seq(Types) /\ accepted \in Seq(1 .. queued)
        /\ ackQueue \in (1 .. queued) \cup {None} /\ replies \in 0 .. 3
    BY <1>1, <1>2
  <2>2. /\ queued \in 0 .. Last /\ writes \in 0 .. MaxWrites /\ sentItems \in 0 .. MaxItems
        /\ thread \in {"send", "read", "reply"} /\ type \in Types \cup {"NONE"}
    BY <1>2, <1>4
  <2>3. tries \in BOOLEAN /\ timer \in {"stopped", "running", "expired"} /\ (tries <=> timer # "stopped")
    BY <1>2
  <2>. QED BY <1>2, <1>3, <2>1, <2>2, <2>3 DEF IcomTypeOK
<1>6. Carrying(toRptr) = {} /\ ItemsIn(toGwy) = {}
  BY <1>2 DEF Carrying, ItemsIn
<1>7. Cardinality(ItemsIn(toGwy)) = 0
  BY <1>6, FS_EmptySet
<1>8. LinkCounts
  BY <1>2, <1>7 DEF LinkCounts, Replying
<1>. QED BY <1>1, <1>2, <1>5, <1>6, <1>8 DEF LinkTypes

LEMMA LinkTypesStep == LinkTypes /\ LinkCounts /\ [IcomNext]_icomVars => LinkTypes' /\ LinkCounts'
<1>. SUFFICES ASSUME LinkTypes, LinkCounts, [IcomNext]_icomVars PROVE LinkTypes' /\ LinkCounts'
  OBVIOUS
<1>1. CASE UNCHANGED icomVars
  BY <1>1 DEF LinkTypes, IcomTypeOK, LinkCounts, Replying, Carrying, ItemsIn, icomVars, moving, gwyVars, sendVars,
              rptrVars, ctlVars, site
<1>. QED BY <1>1, WriteTypes, ReadTypes, SendTypes, NothingTypes, AckTypes, DataTypes, ReplyTypes, EndReplyTypes,
            ReceivesTypes, TakesAckTypes, RptrSendsTypes
     DEF IcomNext, GatewayThread, HandlerThread, Controller

(* Whatever the controller sends and whatever is lost, and whichever of    *)
(* its two parts moves, the driver keeps its indices inside the ring, its  *)
(* queues and numbers in their ranges, and a retry timer that runs while,  *)
(* and only while, a frame is being tried.                                 *)
THEOREM DriverTypesHold == DriverSpec => []DriverTypeOK
<1>1. DriverInit => TypeOK /\ LinkTypes /\ LinkCounts
  <2>1. RingIdle => TypeOK
    BY BufferAssumption DEF RingIdle, TypeOK, Places
  <2>. QED BY <2>1, InitType, LinkTypesInit DEF DriverInit, LinkIdle
<1>2. TypeOK /\ LinkTypes /\ LinkCounts /\ [DriverNext /\ UNCHANGED part]_<<part, vars, icomVars>>
        => (TypeOK /\ LinkTypes /\ LinkCounts)'
  <2>. SUFFICES ASSUME TypeOK, LinkTypes, LinkCounts, [DriverNext /\ UNCHANGED part]_<<part, vars, icomVars>>
                PROVE  (TypeOK /\ LinkTypes /\ LinkCounts)'
    OBVIOUS
  <2>1. [Next]_vars /\ [IcomNext]_icomVars
    BY DEF DriverNext
  <2>. QED BY <2>1, NextType, LinkTypesStep
<1>3. TypeOK /\ LinkTypes => DriverTypeOK
  BY DEF LinkTypes, DriverTypeOK
<1>. QED BY <1>1, <1>2, <1>3, PTL DEF DriverSpec

---------------------------------------------------------------------------
(* What read() has told is what is taken *)

StillThere == MaxItems < QueueLength /\ type # "NONE" => rptrQueue # <<>> /\ Head(rptrQueue) = type

\* The item in hand finds room: the ring does not start anew.
LEMMA RoomLeft ==
    ASSUME LinkTypes, LinkCounts, MaxItems < QueueLength, ReadData \/ EndReply
    PROVE  Len(rptrQueue) # QueueLength - 1
<1>1. PICK l \in Nat, c \in Nat : l = Len(rptrQueue) /\ c = Cardinality(ItemsIn(toGwy))
  BY ItemsFinite, LenProperties DEF LinkTypes, IcomTypeOK
<1>2. sentItems \in 0 .. MaxItems /\ MaxItems \in Nat /\ QueueLength \in Nat
  BY IcomAssumption DEF LinkTypes, IcomTypeOK
<1>3. c + Replying >= 1
  <2>1. CASE ReadData
    <3>1. c >= 1
      <4>1. /\ Cardinality(ItemsIn(toGwy)) = Cardinality(ItemsIn(toGwy)') + 1
            /\ Cardinality(ItemsIn(toGwy)') \in Nat
        BY <2>1, UpTaken DEF ReadData
      <4>. QED BY <1>1, <4>1
    <3>. QED BY <1>1, <3>1 DEF Replying
  <2>2. CASE EndReply
    BY <1>1, <2>2 DEF EndReply, Replying
  <2>. QED BY <2>1, <2>2
<1>4. l + Replying + c <= MaxItems
  BY <1>1, <1>2 DEF LinkCounts, Replying
<1>5. Replying \in Nat
  BY DEF Replying
<1>. QED BY <1>1, <1>2, <1>3, <1>4, <1>5

LEMMA StillThereStep == LinkTypes /\ LinkCounts /\ StillThere /\ [IcomNext]_icomVars => StillThere'
<1>. SUFFICES ASSUME LinkTypes, LinkCounts, StillThere, [IcomNext]_icomVars, MaxItems < QueueLength, type' # "NONE"
              PROVE  rptrQueue' # <<>> /\ Head(rptrQueue') = type'
  BY DEF StillThere
<1>1. rptrQueue \in Seq(Types)
  BY DEF LinkTypes, IcomTypeOK
<1>2. ASSUME NEW k \in Types, rptrQueue' = Put(rptrQueue, k), type' = type, ReadData \/ EndReply
      PROVE  rptrQueue' # <<>> /\ Head(rptrQueue') = type'
  <2>1. rptrQueue # <<>> /\ Head(rptrQueue) = type
    BY <1>2 DEF StillThere
  <2>2. rptrQueue' = Append(rptrQueue, k)
    BY <1>2, RoomLeft DEF Put
  <2>3. Head(Append(rptrQueue, k)) = Head(rptrQueue) /\ Append(rptrQueue, k) # <<>>
    <3>1. Append(rptrQueue, k) \in Seq(Types) /\ Append(rptrQueue, k) # <<>> /\ Append(rptrQueue, k)[1] = rptrQueue[1]
      BY <1>1, <2>1, AppendOf, TailOf, EmptySeq
    <3>. QED BY <1>1, <2>1, <3>1, TailOf
  <2>. QED BY <1>2, <2>1, <2>2, <2>3
<1>3. CASE ReadData
  <2>1. UNCHANGED type /\ (rptrQueue' = rptrQueue \/ rptrQueue' = Put(rptrQueue, Head(toGwy).kind))
    BY <1>3 DEF ReadData
  <2>2. Head(toGwy).kind \in Types
    <3>1. Head(toGwy) \in Up /\ Head(toGwy).kind # "ack"
      BY <1>3, UpTaken DEF ReadData
    <3>. QED BY <3>1 DEF Up
  <2>. QED BY <1>2, <1>3, <2>1, <2>2 DEF StillThere
<1>4. CASE EndReply
  <2>1. UNCHANGED type /\ rptrQueue' = Put(rptrQueue, "HEADER") /\ "HEADER" \in Types
    BY <1>4 DEF EndReply, Types
  <2>. QED BY <1>2, <1>4, <2>1
<1>5. CASE Read
  BY <1>5 DEF Read
<1>6. CASE ReadItem
  BY <1>6 DEF ReadItem
<1>7. CASE UNCHANGED rptrVars
  BY <1>7 DEF rptrVars, StillThere
<1>8. \/ ReadData \/ EndReply \/ Read \/ ReadItem \/ UNCHANGED rptrVars
  BY DEF IcomNext, GatewayThread, HandlerThread, Controller, Write, SendGwyPackets, ReadNothing, ReadAck, Reply,
         RptrReceivesFrame, RptrReceives, RptrReceivesAck, RptrSends, icomVars, moving
<1>. QED BY <1>3, <1>4, <1>5, <1>6, <1>7, <1>8

(* Whatever the thread of the handler adds between read() and the read     *)
(* method for the type it has told, that method finds an item of that type *)
(* at the head of the ring and takes it: for every length of the rings,    *)
(* while the controller sends fewer items than one holds.                  *)
THEOREM ItemsTakenAsTold == IcomSpec => TakesWhatItRead
<1>1. IcomInit => LinkTypes /\ LinkCounts /\ StillThere
  BY LinkTypesInit DEF IcomInit, StillThere
<1>2. LinkTypes /\ LinkCounts /\ StillThere /\ [IcomNext]_icomVars => (LinkTypes /\ LinkCounts /\ StillThere)'
  BY LinkTypesStep, StillThereStep
<1>3. LinkTypes /\ StillThere /\ [IcomNext]_icomVars
        => [type # "NONE" /\ type' = "NONE" /\ MaxItems < QueueLength
              => rptrQueue # <<>> /\ rptrQueue = <<type>> \o rptrQueue']_icomVars
  <2>. SUFFICES ASSUME LinkTypes, StillThere, [IcomNext]_icomVars, type # "NONE", type' = "NONE", MaxItems < QueueLength
                PROVE  rptrQueue # <<>> /\ rptrQueue = <<type>> \o rptrQueue'
    OBVIOUS
  <2>1. rptrQueue \in Seq(Types) /\ rptrQueue # <<>> /\ Head(rptrQueue) = type /\ type \in Types
    BY DEF LinkTypes, IcomTypeOK, StillThere
  <2>2. CASE ReadItem
    <3>1. rptrQueue' = Tail(rptrQueue)
      BY <2>1, <2>2 DEF ReadItem
    <3>2. rptrQueue = <<type>> \o Tail(rptrQueue)
      BY <2>1
    <3>. QED BY <2>1, <3>1, <3>2
  <2>3. CASE Read
    BY <2>1, <2>3 DEF Read, Types
  <2>4. ReadItem \/ Read
    BY DEF IcomNext, GatewayThread, HandlerThread, Controller, Write, SendGwyPackets, ReadNothing, ReadAck, ReadData,
           Reply, EndReply, RptrReceivesFrame, RptrReceives, RptrReceivesAck, RptrSends, icomVars, moving, rptrVars
  <2>. QED BY <2>2, <2>3, <2>4
<1>. QED BY <1>1, <1>2, <1>3, PTL DEF IcomSpec, TakesWhatItRead

---------------------------------------------------------------------------
(* In order and once, whatever the delays *)

\* Frame f with number s may come before frame g with number t: it is older,
\* or the same one with the same number.
NotAfter(f, s, g, t) == f <= g /\ (f = g => s = t)

\* Frame f is older than all that wait.
Left(f) == \A k \in DOMAIN gwyQueue : f < gwyQueue[k]

QueueAscends == \A j, k \in DOMAIN gwyQueue : j < k => gwyQueue[j] < gwyQueue[k]

AllLeft ==
    /\ \A i \in Carrying(toRptr) : Left(toRptr[i].frame)
    /\ \A k \in DOMAIN accepted : Left(accepted[k])
    /\ ackQueue # None => Left(ackQueue)

\* Along the wire, then the frame being tried
WireAscends ==
    /\ \A i, j \in Carrying(toRptr) :
          i < j => NotAfter(toRptr[i].frame, toRptr[i].seq, toRptr[j].frame, toRptr[j].seq)
    /\ ackQueue # None =>
          \A i \in Carrying(toRptr) : NotAfter(toRptr[i].frame, toRptr[i].seq, ackQueue, seqNo)

\* Accepted before both
AcceptedFirst ==
    \A k \in DOMAIN accepted :
        /\ \A i \in Carrying(toRptr) : NotAfter(accepted[k], lastSeq, toRptr[i].frame, toRptr[i].seq)
        /\ ackQueue # None => NotAfter(accepted[k], lastSeq, ackQueue, seqNo)

OrderInv == QueueAscends /\ AllLeft /\ WireAscends /\ AcceptedFirst /\ InOrderOnce

LEMMA OrderTypes ==
    ASSUME LinkTypes
    PROVE  /\ queued \in Nat /\ gwyQueue \in Seq(1 .. queued) /\ accepted \in Seq(1 .. queued)
           /\ toRptr \in Seq(Down) /\ ackQueue \in (1 .. queued) \cup {None} /\ seqNo \in Seqs /\ lastSeq \in Seqs
           /\ \A k \in DOMAIN gwyQueue : gwyQueue[k] \in 1 .. queued
           /\ \A k \in DOMAIN accepted : accepted[k] \in 1 .. queued
           /\ \A i \in Carrying(toRptr) : toRptr[i].frame \in 1 .. queued /\ toRptr[i].seq \in Seqs
           /\ DOMAIN accepted = 1 .. Len(accepted)
<1>1. /\ queued \in Nat /\ gwyQueue \in Seq(1 .. queued) /\ accepted \in Seq(1 .. queued)
      /\ toRptr \in Seq(Down) /\ ackQueue \in (1 .. queued) \cup {None} /\ seqNo \in Seqs /\ lastSeq \in Seqs
      /\ \A i \in Carrying(toRptr) : toRptr[i].frame \in 1 .. queued
  BY DEF LinkTypes, IcomTypeOK
<1>2. \A i \in Carrying(toRptr) : toRptr[i] \in Down
  BY <1>1, LenProperties DEF Carrying
<1>3. \A i \in Carrying(toRptr) : toRptr[i].seq \in Seqs
  BY <1>2 DEF Down
<1>. QED BY <1>1, <1>3, LenProperties

\* Only the frames that wait change.
LEMMA QueueFrameOrder ==
    ASSUME LinkTypes, OrderInv, QueueFrame, UNCHANGED <<toRptr, accepted, ackQueue, seqNo, lastSeq>>
    PROVE  OrderInv'
<1>1. gwyQueue' = <<>> \/ gwyQueue' = Append(gwyQueue, queued + 1)
  BY DEF QueueFrame, Put
<1>2. WireAscends' /\ AcceptedFirst' /\ InOrderOnce'
  BY DEF OrderInv, WireAscends, AcceptedFirst, InOrderOnce, Carrying
<1>3. CASE gwyQueue' = <<>>
  <2>1. DOMAIN gwyQueue' = {}
    BY <1>3
  <2>. QED BY <1>2, <2>1 DEF OrderInv, QueueAscends, AllLeft, Left
<1>4. CASE gwyQueue' = Append(gwyQueue, queued + 1)
  <2>1. /\ DOMAIN gwyQueue' = DOMAIN gwyQueue \cup {Len(gwyQueue) + 1}
        /\ gwyQueue'[Len(gwyQueue) + 1] = queued + 1
        /\ \A k \in DOMAIN gwyQueue : gwyQueue'[k] = gwyQueue[k] /\ k < Len(gwyQueue) + 1
    <3>1. gwyQueue \in Seq(Nat) /\ queued + 1 \in Nat
      BY OrderTypes, WiderSeq
    <3>. QED BY <1>4, <3>1, AppendOf, LenProperties
  <2>2. \A f \in 1 .. queued : Left(f) => Left(f)'
    BY <2>1, OrderTypes DEF Left
  <2>3. AllLeft'
    <3>1. (\A i \in Carrying(toRptr) : Left(toRptr[i].frame)') /\ (\A k \in DOMAIN accepted : Left(accepted[k])')
          /\ (ackQueue # None => Left(ackQueue)')
      BY <2>2, OrderTypes DEF OrderInv, AllLeft
    <3>. QED BY <3>1 DEF AllLeft, Left, Carrying
  <2>4. QueueAscends'
    <3>1. \A j \in DOMAIN gwyQueue : gwyQueue'[j] < gwyQueue'[Len(gwyQueue) + 1]
      BY <2>1, OrderTypes
    <3>2. \A j \in DOMAIN gwyQueue : ~(Len(gwyQueue) + 1 < j)
      BY OrderTypes, LenProperties
    <3>. QED BY <2>1, <3>1, <3>2, OrderTypes DEF OrderInv, QueueAscends
  <2>. QED BY <1>2, <2>3, <2>4 DEF OrderInv
<1>. QED BY <1>1, <1>3, <1>4

\* The next frame is tried, or the same one again.
LEMMA NextFrame ==
    ASSUME LinkTypes, OrderInv, MaySend, NEW v, Transmit(v), NEW x \in 1 .. queued, x = Frame
    PROVE  /\ QueueAscends' /\ Left(x)' /\ \A f \in 1 .. queued : Left(f) => Left(f)'
           /\ \A i \in Carrying(toRptr) : NotAfter(toRptr[i].frame, toRptr[i].seq, x, seqNo)
           /\ \A k \in DOMAIN accepted : NotAfter(accepted[k], lastSeq, x, seqNo)
<1>1. CASE ackQueue # None
  <2>1. x = ackQueue /\ gwyQueue' = gwyQueue
    BY <1>1 DEF Frame, Transmit
  <2>. QED BY <1>1, <2>1 DEF OrderInv, QueueAscends, AllLeft, Left, WireAscends, AcceptedFirst
<1>2. CASE ackQueue = None
  <2>1. gwyQueue # <<>> /\ x = gwyQueue[1] /\ gwyQueue' = Tail(gwyQueue)
    BY <1>2, FrameIs DEF Transmit
  <2>2. /\ 1 \in DOMAIN gwyQueue
        /\ \A k \in DOMAIN gwyQueue' : k \in Nat \ {0} /\ k + 1 \in DOMAIN gwyQueue /\ gwyQueue'[k] = gwyQueue[k + 1]
    BY <2>1, OrderTypes, TailOf, LenProperties
  <2>3. QueueAscends' /\ Left(x)'
    BY <2>1, <2>2 DEF OrderInv, QueueAscends, Left
  <2>4. \A f \in 1 .. queued : Left(f) => Left(f)'
    BY <2>2 DEF Left
  <2>5. \A i \in Carrying(toRptr) : toRptr[i].frame < x
    BY <2>1, <2>2 DEF OrderInv, AllLeft, Left
  <2>6. \A k \in DOMAIN accepted : accepted[k] < x
    BY <2>1, <2>2 DEF OrderInv, AllLeft, Left
  <2>. QED BY <2>1, <2>3, <2>4, <2>5, <2>6, OrderTypes DEF NotAfter
<1>. QED BY <1>1, <1>2

LEMMA SendOrder ==
    ASSUME LinkTypes, OrderInv, SendGwyPackets
    PROVE  OrderInv'
<1>1. UNCHANGED <<queued, accepted, lastSeq>>
  BY DEF SendGwyPackets, ctlVars
<1>2. CASE ~MaySend
  <2>1. UNCHANGED <<gwyQueue, toRptr, ackQueue, seqNo>>
    BY <1>2 DEF SendGwyPackets, sendVars
  <2>. QED BY <1>1, <2>1 DEF OrderInv, QueueAscends, AllLeft, Left, WireAscends, AcceptedFirst, InOrderOnce, Carrying
<1>3. CASE MaySend
  <2>1. PICK v \in Written(toRptr, Datagram) : Transmit(v)
    BY <1>3 DEF SendGwyPackets
  <2>2. PICK f \in 1 .. queued : f = Frame
    BY <1>3, FrameIs
  <2>3. ackQueue' = f /\ seqNo' = seqNo /\ toRptr' = v
    BY <2>1, <2>2 DEF Transmit
  <2>4. /\ QueueAscends' /\ Left(f)' /\ \A g \in 1 .. queued : Left(g) => Left(g)'
        /\ \A i \in Carrying(toRptr) : NotAfter(toRptr[i].frame, toRptr[i].seq, f, seqNo)
        /\ \A k \in DOMAIN accepted : NotAfter(accepted[k], lastSeq, f, seqNo)
    BY <1>3, <2>1, <2>2, NextFrame
  <2>5. \A i \in Carrying(toRptr)' : i \in Nat /\
           \/ i \in Carrying(toRptr) /\ toRptr'[i] = toRptr[i]
           \/ toRptr'[i].frame = f /\ toRptr'[i].seq = seqNo /\ \A j \in Carrying(toRptr)' : j <= i
    <3>1. PICK d \in Down : d = Datagram
      BY <1>3, FrameIs
    <3>2. d.kind = "frame" /\ d.frame = f /\ d.seq = seqNo
      BY <1>3, <2>2, <3>1, FrameIs
    <3>3. CASE toRptr' = toRptr
      BY <3>3, OrderTypes, LenProperties DEF Carrying
    <3>4. CASE toRptr' = Append(toRptr, d)
      <4>1. Carrying(toRptr)' = Carrying(toRptr) \cup {Len(toRptr) + 1}
        BY <3>2, <3>4, OrderTypes, AppendOf DEF Carrying
      <4>2. \A j \in Carrying(toRptr) : j \in 1 .. Len(toRptr) /\ toRptr'[j] = toRptr[j]
        BY <3>4, OrderTypes, AppendOf, LenProperties DEF Carrying
      <4>3. toRptr'[Len(toRptr) + 1] = d /\ Len(toRptr) \in Nat
        BY <3>4, OrderTypes, AppendOf, LenProperties
      <4>. QED BY <3>2, <4>1, <4>2, <4>3
    <3>. QED BY <2>1, <2>3, <3>1, <3>3, <3>4, WrittenOn
  <2>6. ackQueue' # None
    BY <2>3, IcomAssumption
  <2>7. AllLeft'
    <3>1. \A i \in Carrying(toRptr)' : \E g \in 1 .. queued : g = toRptr'[i].frame /\ Left(g)'
      <4>1. \A i \in Carrying(toRptr) : toRptr[i].frame \in 1 .. queued /\ Left(toRptr[i].frame)
        BY OrderTypes DEF OrderInv, AllLeft
      <4>. QED BY <2>4, <2>5, <4>1
    <3>2. \A k \in DOMAIN accepted : \E g \in 1 .. queued : g = accepted[k] /\ Left(g)'
      BY <2>4, OrderTypes DEF OrderInv, AllLeft
    <3>. QED BY <1>1, <2>3, <2>4, <3>1, <3>2 DEF AllLeft, Left
  <2>8. WireAscends'
    <3>1. \A i \in Carrying(toRptr)' : NotAfter(toRptr'[i].frame, toRptr'[i].seq, f, seqNo)
      BY <2>4, <2>5 DEF NotAfter
    <3>2. \A i, j \in Carrying(toRptr)' :
             i < j => NotAfter(toRptr'[i].frame, toRptr'[i].seq, toRptr'[j].frame, toRptr'[j].seq)
      <4>1. SUFFICES ASSUME NEW i \in Carrying(toRptr)', NEW j \in Carrying(toRptr)', i < j
                     PROVE  NotAfter(toRptr'[i].frame, toRptr'[i].seq, toRptr'[j].frame, toRptr'[j].seq)
        OBVIOUS
      <4>2. i \in Nat /\ j \in Nat
        BY <2>5
      <4>3. i \in Carrying(toRptr) /\ toRptr'[i] = toRptr[i]
        BY <2>5, <4>1, <4>2
      <4>. QED BY <2>5, <3>1, <4>1, <4>3 DEF OrderInv, WireAscends
    <3>. QED BY <2>3, <3>1, <3>2 DEF WireAscends
  <2>9. AcceptedFirst'
    <3>1. \A k \in DOMAIN accepted, i \in Carrying(toRptr)' :
             NotAfter(accepted[k], lastSeq, toRptr'[i].frame, toRptr'[i].seq)
      BY <2>4, <2>5 DEF OrderInv, AcceptedFirst
    <3>. QED BY <1>1, <2>3, <2>4, <3>1 DEF AcceptedFirst
  <2>. QED BY <1>1, <2>4, <2>7, <2>8, <2>9 DEF OrderInv, InOrderOnce
<1>. QED BY <1>2, <1>3

LEMMA AckOrder ==
    ASSUME LinkTypes, OrderInv, ReadAck
    PROVE  OrderInv'
BY DEF ReadAck, OrderInv, QueueAscends, AllLeft, Left, WireAscends, AcceptedFirst, InOrderOnce, Carrying, gwyVars,
       ctlVars

\* An ack joins the frames on the wire.
LEMMA DataOnWire ==
    ASSUME LinkTypes, ReadData
    PROVE  Carrying(toRptr)' = Carrying(toRptr) /\ \A i \in Carrying(toRptr) : toRptr'[i] = toRptr[i]
<1>1. PICK d \in Down : d.kind = "ack" /\ toRptr' \in Written(toRptr, d)
  <2>1. Head(toGwy) \in Up
    BY UpTaken DEF ReadData
  <2>2. Head(toGwy).seq \in Seqs
    BY <2>1 DEF Up
  <2>. QED BY <2>2, AckIsOne DEF ReadData
<1>2. CASE toRptr' = toRptr
  BY <1>2 DEF Carrying
<1>3. CASE toRptr' = Append(toRptr, d)
  BY <1>1, <1>3, OrderTypes, AppendOf DEF Carrying
<1>. QED BY <1>1, <1>2, <1>3, WrittenOn

LEMMA DataOrder ==
    ASSUME LinkTypes, OrderInv, ReadData
    PROVE  OrderInv'
<1>1. UNCHANGED <<gwyQueue, accepted, ackQueue, seqNo, lastSeq>>
  BY DEF ReadData, gwyVars, sendVars, ctlVars
<1>. QED BY <1>1, DataOnWire DEF OrderInv, QueueAscends, AllLeft, Left, WireAscends, AcceptedFirst, InOrderOnce

\* What is left on the wire was behind what has been taken.
LEMMA TakenOrder ==
    ASSUME LinkTypes, OrderInv, toRptr # <<>>, toRptr' = Tail(toRptr), UNCHANGED <<gwyQueue, ackQueue, seqNo>>
    PROVE  /\ QueueAscends' /\ WireAscends'
           /\ \A i \in Carrying(toRptr)' : /\ i + 1 \in Carrying(toRptr) /\ i \in Nat \ {0}
                                           /\ toRptr'[i] = toRptr[i + 1] /\ Left(toRptr[i + 1].frame)
<1>1. \A i \in Carrying(toRptr)' : i + 1 \in Carrying(toRptr) /\ i \in Nat \ {0} /\ toRptr'[i] = toRptr[i + 1]
  <2>1. \A i \in Carrying(toRptr)' : i + 1 \in Carrying(toRptr) /\ toRptr'[i] = toRptr[i + 1]
    BY DownTaken
  <2>2. toRptr' \in Seq(Down)
    BY DownTaken
  <2>. QED BY <2>1, <2>2, LenProperties DEF Carrying
<1>2. \A i \in Carrying(toRptr) : Left(toRptr[i].frame)
  BY DEF OrderInv, AllLeft
<1>3. QueueAscends'
  BY DEF OrderInv, QueueAscends
<1>4. WireAscends'
  <2>1. \A i, j \in Carrying(toRptr)' : i < j => i + 1 < j + 1
    BY <1>1
  <2>2. \A i, j \in Carrying(toRptr)' :
           i < j => NotAfter(toRptr'[i].frame, toRptr'[i].seq, toRptr'[j].frame, toRptr'[j].seq)
    BY <1>1, <2>1 DEF OrderInv, WireAscends
  <2>3. ackQueue # None =>
           \A i \in Carrying(toRptr)' : NotAfter(toRptr'[i].frame, toRptr'[i].seq, ackQueue, seqNo)
    BY <1>1 DEF OrderInv, WireAscends
  <2>. QED BY <2>2, <2>3 DEF WireAscends
<1>. QED BY <1>1, <1>2, <1>3, <1>4

LEMMA TakesAckOrder ==
    ASSUME LinkTypes, OrderInv, RptrReceivesAck
    PROVE  OrderInv'
<1>1. UNCHANGED <<gwyQueue, accepted, ackQueue, seqNo, lastSeq>> /\ toRptr # <<>> /\ toRptr' = Tail(toRptr)
  BY DEF RptrReceivesAck, gwyVars, sendVars, ctlVars
<1>2. /\ QueueAscends' /\ WireAscends'
      /\ \A i \in Carrying(toRptr)' : /\ i + 1 \in Carrying(toRptr)
                                      /\ toRptr'[i] = toRptr[i + 1] /\ Left(toRptr[i + 1].frame)
  BY <1>1, TakenOrder
<1>3. AllLeft'
  BY <1>1, <1>2 DEF OrderInv, AllLeft, Left
<1>4. AcceptedFirst'
  BY <1>1, <1>2 DEF OrderInv, AcceptedFirst
<1>. QED BY <1>1, <1>2, <1>3, <1>4 DEF OrderInv, InOrderOnce

\* The frame at the head is not before any that was accepted, and is a new
\* one if its number is: all that comes after it is not before it.
LEMMA ReceivesOrder ==
    ASSUME LinkTypes, OrderInv, NEW v, RptrReceives(v)
    PROVE  OrderInv'
<1>1. /\ UNCHANGED <<gwyQueue, ackQueue, seqNo>> /\ toRptr # <<>> /\ toRptr' = Tail(toRptr)
      /\ Head(toRptr).kind = "frame"
  BY DEF RptrReceives, gwyVars, sendVars
<1>2. /\ QueueAscends' /\ WireAscends'
      /\ \A i \in Carrying(toRptr)' : /\ i + 1 \in Carrying(toRptr) /\ i \in Nat \ {0}
                                      /\ toRptr'[i] = toRptr[i + 1] /\ Left(toRptr[i + 1].frame)
  BY <1>1, TakenOrder
<1>3. PICK f \in 1 .. queued, s \in Seqs : f = toRptr[1].frame /\ s = toRptr[1].seq /\ 1 \in Carrying(toRptr)
                                           /\ Head(toRptr) = toRptr[1]
  BY <1>1, DownTaken, OrderTypes
<1>4. /\ Left(f) /\ \A i \in Carrying(toRptr)' : NotAfter(f, s, toRptr'[i].frame, toRptr'[i].seq)
      /\ ackQueue # None => NotAfter(f, s, ackQueue, seqNo)
      /\ \A k \in DOMAIN accepted : NotAfter(accepted[k], lastSeq, f, s)
  <2>1. \A i \in Carrying(toRptr)' : 1 < i + 1
    BY <1>2
  <2>. QED BY <1>2, <1>3, <2>1 DEF OrderInv, AllLeft, WireAscends, AcceptedFirst
<1>5. \A i \in Carrying(toRptr)' : toRptr'[i].frame \in Nat
  <2>1. \A i \in Carrying(toRptr) : toRptr[i].frame \in 1 .. queued
    BY OrderTypes
  <2>2. \A i \in Carrying(toRptr) : toRptr[i].frame \in Nat
    BY <2>1, OrderTypes
  <2>. QED BY <1>2, <2>2
<1>6. CASE s = lastSeq
  <2>1. UNCHANGED <<accepted, lastSeq>>
    BY <1>3, <1>6 DEF RptrReceives
  <2>2. AllLeft'
    BY <1>1, <1>2, <2>1 DEF OrderInv, AllLeft, Left
  <2>3. AcceptedFirst'
    BY <1>1, <1>2, <2>1 DEF OrderInv, AcceptedFirst
  <2>. QED BY <1>2, <2>1, <2>2, <2>3 DEF OrderInv, InOrderOnce
<1>7. CASE s # lastSeq
  <2>1. accepted' = Append(accepted, f) /\ lastSeq' = s
    BY <1>3, <1>7 DEF RptrReceives
  <2>2. /\ DOMAIN accepted' = DOMAIN accepted \cup {Len(accepted) + 1} /\ accepted'[Len(accepted) + 1] = f
        /\ DOMAIN accepted = 1 .. Len(accepted) /\ Len(accepted) \in Nat /\ Len(accepted') = Len(accepted) + 1
        /\ \A k \in DOMAIN accepted : accepted'[k] = accepted[k] /\ accepted[k] \in Nat
    BY <2>1, OrderTypes, AppendOf, LenProperties
  <2>3. \A k \in DOMAIN accepted : accepted[k] < f
    BY <1>4, <1>7, <2>2 DEF NotAfter
  <2>4. AllLeft'
    BY <1>1, <1>2, <1>4, <2>2 DEF OrderInv, AllLeft, Left
  <2>5. AcceptedFirst'
    <3>1. \A k \in DOMAIN accepted, i \in Carrying(toRptr)' : accepted[k] < toRptr'[i].frame
      <4>1. \A i \in Carrying(toRptr)' : f <= toRptr'[i].frame
        BY <1>4 DEF NotAfter
      <4>. QED BY <1>5, <2>2, <2>3, <4>1
    <3>2. ackQueue # None => \A k \in DOMAIN accepted : accepted[k] < ackQueue
      <4>1. ackQueue # None => ackQueue \in Nat /\ f <= ackQueue
        BY <1>4, OrderTypes DEF NotAfter
      <4>. QED BY <2>2, <2>3, <4>1
    <3>3. \A k \in DOMAIN accepted, i \in Carrying(toRptr)' : NotAfter(accepted[k], s, toRptr'[i].frame, toRptr'[i].seq)
      <4>1. SUFFICES ASSUME NEW k \in DOMAIN accepted, NEW i \in Carrying(toRptr)'
                     PROVE  NotAfter(accepted[k], s, toRptr'[i].frame, toRptr'[i].seq)
        OBVIOUS
      <4>2. accepted[k] \in Nat /\ toRptr'[i].frame \in Nat /\ accepted[k] < toRptr'[i].frame
        BY <1>5, <2>2, <3>1
      <4>. QED BY <4>2 DEF NotAfter
    <3>4. ackQueue # None => \A k \in DOMAIN accepted : NotAfter(accepted[k], s, ackQueue, seqNo)
      BY <2>2, <3>2, OrderTypes DEF NotAfter
    <3>. QED BY <1>1, <1>4, <2>1, <2>2, <3>3, <3>4 DEF AcceptedFirst
  <2>6. InOrderOnce'
    BY <2>2, <2>3 DEF OrderInv, InOrderOnce
  <2>. QED BY <1>2, <2>4, <2>5, <2>6 DEF OrderInv
<1>. QED BY <1>6, <1>7

LEMMA OrderStep == LinkTypes /\ OrderInv /\ [IcomNext]_icomVars => OrderInv'
<1>. SUFFICES ASSUME LinkTypes, OrderInv, [IcomNext]_icomVars PROVE OrderInv'
  OBVIOUS
<1>1. CASE Write \/ Reply
  <2>1. QueueFrame /\ UNCHANGED <<toRptr, accepted, ackQueue, seqNo, lastSeq>>
    BY <1>1 DEF Write, Reply, sendVars, ctlVars
  <2>. QED BY <2>1, QueueFrameOrder
<1>2. CASE SendGwyPackets \/ ReadAck \/ ReadData \/ RptrReceivesAck
  BY <1>2, SendOrder, AckOrder, DataOrder, TakesAckOrder
<1>3. CASE RptrReceivesFrame
  BY <1>3, ReceivesOrder DEF RptrReceivesFrame
<1>4. CASE UNCHANGED <<gwyQueue, toRptr, accepted, ackQueue, seqNo, lastSeq>>
  BY <1>4 DEF OrderInv, QueueAscends, AllLeft, Left, WireAscends, AcceptedFirst, InOrderOnce, Carrying
<1>5. \/ Write \/ Reply \/ SendGwyPackets \/ ReadAck \/ ReadData \/ RptrReceivesAck \/ RptrReceivesFrame
      \/ UNCHANGED <<gwyQueue, toRptr, accepted, ackQueue, seqNo, lastSeq>>
  BY DEF IcomNext, GatewayThread, HandlerThread, Controller, Read, ReadItem, ReadNothing, EndReply, RptrSends, icomVars,
         moving, gwyVars, sendVars, ctlVars
<1>. QED BY <1>1, <1>2, <1>3, <1>4, <1>5

LEMMA OrderInit == IcomInit => OrderInv
<1>. SUFFICES ASSUME IcomInit PROVE OrderInv
  OBVIOUS
<1>1. gwyQueue = <<>> /\ toRptr = <<>> /\ accepted = <<>> /\ ackQueue = None
  BY DEF IcomInit
<1>2. DOMAIN gwyQueue = {} /\ DOMAIN accepted = {} /\ Carrying(toRptr) = {} /\ Len(accepted) = 0
  BY <1>1 DEF Carrying
<1>. QED BY <1>1, <1>2 DEF OrderInv, QueueAscends, AllLeft, WireAscends, AcceptedFirst, InOrderOnce

(* The controller never takes a frame twice, nor an older one after a      *)
(* newer one, for any delays and losses and any number of values m_seqNo   *)
(* can have: what tells a repeated frame from the one after it is that its *)
(* number stays while it is retried, not that numbers differ for long.     *)
THEOREM FramesInOrderOnce == IcomSpec => []InOrderOnce
<1>1. IcomInit => LinkTypes /\ LinkCounts /\ OrderInv
  BY LinkTypesInit, OrderInit
<1>2. LinkTypes /\ LinkCounts /\ OrderInv /\ [IcomNext]_icomVars => (LinkTypes /\ LinkCounts /\ OrderInv)'
  BY LinkTypesStep, OrderStep
<1>3. OrderInv => InOrderOnce
  BY DEF OrderInv
<1>. QED BY <1>1, <1>2, <1>3, PTL DEF IcomSpec

---------------------------------------------------------------------------
(* The abstract channel, when answers beat the retry timer *)

\* One datagram of an exchange at a time: the frame being tried, or its ack
OneAtATime ==
    /\ \A i \in Carrying(toRptr) :
          toRptr[i].frame = ackQueue /\ toRptr[i].seq = seqNo /\ AcksIn(toGwy) = {}
    /\ \A i \in AcksIn(toGwy) : ackQueue # None /\ Delivered /\ toGwy[i].seq = seqNo
    /\ \A i, j \in Carrying(toRptr) : i = j
    /\ \A i, j \in AcksIn(toGwy) : i = j
    /\ timer = "expired" => Carrying(toRptr) = {} /\ AcksIn(toGwy) = {}

\* The controller has seen the number of the frame being tried, and of no other.
NumberSeen == lastSeq = seqNo <=> ackQueue # None /\ Delivered

PromptInv == prompt => OneAtATime /\ NumberSeen

LEMMA NextNumber ==
    ASSUME NEW n \in Seqs
    PROVE  (n + 1) % SeqSpace # n /\ (n + SeqSpace - 1) % SeqSpace # n
BY IcomAssumption DEF Seqs

LEMMA PromptInit == IcomInit => PromptInv
<1>. SUFFICES ASSUME IcomInit PROVE PromptInv
  OBVIOUS
<1>1. /\ toRptr = <<>> /\ toGwy = <<>> /\ ackQueue = None /\ seqNo \in Seqs
      /\ lastSeq = (seqNo + SeqSpace - 1) % SeqSpace
  BY DEF IcomInit
<1>2. Carrying(toRptr) = {} /\ AcksIn(toGwy) = {}
  BY <1>1 DEF Carrying, AcksIn
<1>. QED BY <1>1, <1>2, NextNumber DEF PromptInv, OneAtATime, NumberSeen

\* A frame just taken from the queue
LEMMA NotYetAccepted ==
    ASSUME LinkTypes, OrderInv, MaySend, ackQueue = None
    PROVE  \A k \in 1 .. Len(accepted) : accepted[k] # Frame
<1>1. Frame = gwyQueue[1] /\ 1 \in DOMAIN gwyQueue
  BY FrameIs, OrderTypes, TailOf
<1>2. \A k \in DOMAIN accepted : accepted[k] < Frame /\ accepted[k] \in Nat
  BY <1>1, OrderTypes DEF OrderInv, AllLeft, Left
<1>3. Frame \in Nat /\ DOMAIN accepted = 1 .. Len(accepted)
  BY FrameIs, OrderTypes
<1>. QED BY <1>2, <1>3

LEMMA SendPrompt ==
    ASSUME LinkTypes, OrderInv, OneAtATime, NumberSeen, SendGwyPackets
    PROVE  OneAtATime' /\ NumberSeen'
<1>1. UNCHANGED <<accepted, lastSeq, toGwy>>
  BY DEF SendGwyPackets, ctlVars
<1>2. CASE ~MaySend
  <2>1. UNCHANGED <<toRptr, ackQueue, seqNo, timer>>
    BY <1>2 DEF SendGwyPackets, sendVars
  <2>. QED BY <1>1, <2>1 DEF OneAtATime, NumberSeen, Delivered, Carrying, AcksIn
<1>3. CASE MaySend
  <2>1. PICK v \in Written(toRptr, Datagram) : Transmit(v)
    BY <1>3 DEF SendGwyPackets
  <2>2. PICK f \in 1 .. queued : f = Frame
    BY <1>3, FrameIs
  <2>3. ackQueue' = f /\ seqNo' = seqNo /\ toRptr' = v /\ timer' = "running" /\ f # None
    BY <2>1, <2>2, IcomAssumption DEF Transmit
  <2>4. Carrying(toRptr) = {} /\ AcksIn(toGwy) = {}
    <3>1. CASE ackQueue = None
      <4>1. \A i \in Carrying(toRptr) : toRptr[i].frame # None
        BY OrderTypes, IcomAssumption
      <4>. QED BY <3>1, <4>1 DEF OneAtATime
    <3>2. CASE ackQueue # None
      BY <1>3, <3>2 DEF OneAtATime, MaySend, LinkTypes
    <3>. QED BY <3>1, <3>2
  <2>5. /\ \A i \in Carrying(toRptr)' : toRptr'[i].frame = f /\ toRptr'[i].seq = seqNo
        /\ \A i, j \in Carrying(toRptr)' : i = j
    <3>1. PICK d \in Down : d = Datagram
      BY <1>3, FrameIs
    <3>2. d.kind = "frame" /\ d.frame = f /\ d.seq = seqNo
      BY <1>3, <2>2, <3>1, FrameIs
    <3>3. CASE toRptr' = toRptr
      BY <2>4, <3>3 DEF Carrying
    <3>4. CASE toRptr' = Append(toRptr, d)
      <4>1. Carrying(toRptr)' = {Len(toRptr) + 1} /\ toRptr'[Len(toRptr) + 1] = d
        BY <2>4, <3>2, <3>4, OrderTypes, AppendOf DEF Carrying
      <4>. QED BY <3>2, <4>1
    <3>. QED BY <2>1, <2>3, <3>1, <3>3, <3>4, WrittenOn
  <2>6. AcksIn(toGwy)' = {}
    BY <1>1, <2>4 DEF AcksIn
  <2>7. OneAtATime'
    BY <2>3, <2>5, <2>6 DEF OneAtATime
  <2>8. NumberSeen'
    <3>1. CASE ackQueue = None
      <4>1. lastSeq # seqNo
        BY <3>1 DEF NumberSeen
      <4>2. \A k \in 1 .. Len(accepted) : accepted[k] # f
        BY <1>3, <2>2, <3>1, NotYetAccepted
      <4>. QED BY <1>1, <2>3, <4>1, <4>2 DEF NumberSeen, Delivered
    <3>2. CASE ackQueue # None
      <4>1. f = ackQueue
        BY <2>2, <3>2 DEF Frame
      <4>. QED BY <1>1, <2>3, <3>2, <4>1 DEF NumberSeen, Delivered
    <3>. QED BY <3>1, <3>2
  <2>. QED BY <2>7, <2>8
<1>. QED BY <1>2, <1>3

LEMMA NothingPrompt ==
    ASSUME prompt, OneAtATime, NumberSeen, ReadNothing
    PROVE  OneAtATime' /\ NumberSeen'
<1>1. UNCHANGED <<toRptr, toGwy, ackQueue, seqNo, accepted, lastSeq>>
  BY DEF ReadNothing, ctlVars
<1>2. timer' = timer \/ (timer' = "expired" /\ toRptr = <<>> /\ toGwy = <<>>)
  BY DEF ReadNothing, Quiet
<1>. QED BY <1>1, <1>2 DEF OneAtATime, NumberSeen, Delivered, Carrying, AcksIn

\* What is left on the wire to the gateway
LEMMA AcksTaken ==
    ASSUME LinkTypes, toGwy # <<>>, toGwy' = Tail(toGwy)
    PROVE  /\ \A i \in AcksIn(toGwy)' : i \in Nat \ {0} /\ i + 1 \in AcksIn(toGwy) /\ toGwy'[i] = toGwy[i + 1]
           /\ Head(toGwy) = toGwy[1]
           /\ Head(toGwy).kind = "ack" => 1 \in AcksIn(toGwy)
<1>1. toGwy \in Seq(Up) /\ Tail(toGwy) \in Seq(Up)
  BY UpTaken DEF LinkTypes
<1>. QED BY <1>1, TailOf, LenProperties DEF AcksIn

LEMMA AckPrompt ==
    ASSUME LinkTypes, OneAtATime, NumberSeen, ReadAck
    PROVE  OneAtATime' /\ NumberSeen'
<1>1. /\ UNCHANGED <<toRptr, accepted, lastSeq>> /\ ackQueue' = None /\ timer' = "stopped"
  BY DEF ReadAck, ctlVars
<1>2. 1 \in AcksIn(toGwy) /\ AcksIn(toGwy)' = {}
  <2>1. /\ \A i \in AcksIn(toGwy)' : i \in Nat \ {0} /\ i + 1 \in AcksIn(toGwy) /\ toGwy'[i] = toGwy[i + 1]
        /\ 1 \in AcksIn(toGwy)
    BY AcksTaken DEF ReadAck
  <2>2. \A i \in AcksIn(toGwy)' : i \in Nat \ {0} /\ i + 1 = 1
    BY <2>1 DEF OneAtATime
  <2>. QED BY <2>1, <2>2
<1>3. Carrying(toRptr)' = {}
  BY <1>1, <1>2 DEF OneAtATime, Carrying
<1>4. Head(toGwy).seq = seqNo /\ lastSeq = seqNo
  BY <1>2, AcksTaken DEF OneAtATime, NumberSeen, ReadAck
<1>5. seqNo' # lastSeq'
  <2>1. seqNo' = (seqNo + 1) % SeqSpace
    BY <1>4 DEF ReadAck
  <2>. QED BY <1>1, <1>4, <2>1, OrderTypes, NextNumber
<1>. QED BY <1>1, <1>2, <1>3, <1>5 DEF OneAtATime, NumberSeen

LEMMA DataPrompt ==
    ASSUME LinkTypes, OneAtATime, NumberSeen, ReadData
    PROVE  OneAtATime' /\ NumberSeen'
<1>1. UNCHANGED <<accepted, ackQueue, seqNo, lastSeq, timer>>
  BY DEF ReadData, sendVars, ctlVars
<1>2. \A i \in AcksIn(toGwy)' : i \in Nat \ {0} /\ i + 1 \in AcksIn(toGwy) /\ toGwy'[i] = toGwy[i + 1]
  BY AcksTaken DEF ReadData
<1>3. \A i, j \in AcksIn(toGwy)' : i = j
  <2>1. \A i, j \in AcksIn(toGwy)' : i + 1 = j + 1
    BY <1>2 DEF OneAtATime
  <2>. QED BY <1>2, <2>1
<1>4. /\ \A i \in AcksIn(toGwy)' : ackQueue # None /\ Delivered /\ toGwy'[i].seq = seqNo
      /\ AcksIn(toGwy) = {} => AcksIn(toGwy)' = {}
  BY <1>2 DEF OneAtATime
<1>5. Delivered' <=> Delivered
  BY <1>1 DEF Delivered
<1>6. /\ \A i \in Carrying(toRptr)' : toRptr'[i].frame = ackQueue /\ toRptr'[i].seq = seqNo /\ AcksIn(toGwy)' = {}
      /\ \A i, j \in Carrying(toRptr)' : i = j
      /\ timer = "expired" => Carrying(toRptr)' = {} /\ AcksIn(toGwy)' = {}
  BY <1>4, DataOnWire DEF OneAtATime
<1>. QED BY <1>1, <1>3, <1>4, <1>5, <1>6 DEF OneAtATime, NumberSeen

LEMMA TakesAckPrompt ==
    ASSUME LinkTypes, OneAtATime, NumberSeen, RptrReceivesAck
    PROVE  OneAtATime' /\ NumberSeen'
<1>1. UNCHANGED <<accepted, ackQueue, seqNo, lastSeq, timer, toGwy>>
  BY DEF RptrReceivesAck, sendVars, ctlVars
<1>2. \A i \in Carrying(toRptr)' : i \in Nat \ {0} /\ i + 1 \in Carrying(toRptr) /\ toRptr'[i] = toRptr[i + 1]
  <2>1. \A i \in Carrying(toRptr)' : i + 1 \in Carrying(toRptr) /\ toRptr'[i] = toRptr[i + 1]
    BY DownTaken DEF RptrReceivesAck
  <2>2. toRptr' \in Seq(Down)
    BY DownTaken DEF RptrReceivesAck
  <2>. QED BY <2>1, <2>2, LenProperties DEF Carrying
<1>3. \A i, j \in Carrying(toRptr)' : i = j
  <2>1. \A i, j \in Carrying(toRptr)' : i + 1 = j + 1
    BY <1>2 DEF OneAtATime
  <2>. QED BY <1>2, <2>1
<1>4. AcksIn(toGwy)' = AcksIn(toGwy) /\ (Delivered' <=> Delivered)
  BY <1>1 DEF AcksIn, Delivered
<1>5. /\ \A i \in Carrying(toRptr)' : toRptr'[i].frame = ackQueue /\ toRptr'[i].seq = seqNo /\ AcksIn(toGwy) = {}
      /\ timer = "expired" => Carrying(toRptr)' = {} /\ AcksIn(toGwy) = {}
  BY <1>2 DEF OneAtATime
<1>. QED BY <1>1, <1>3, <1>4, <1>5 DEF OneAtATime, NumberSeen

LEMMA RptrSendsPrompt ==
    ASSUME LinkTypes, OneAtATime, NumberSeen, NEW k \in Types, RptrSends(k)
    PROVE  OneAtATime' /\ NumberSeen'
<1>1. UNCHANGED <<accepted, ackQueue, seqNo, lastSeq, timer, toRptr>>
  BY DEF RptrSends, sendVars
<1>2. PICK d \in Up : d.kind # "ack" /\ toGwy' \in Written(toGwy, d)
  <2>1. [kind |-> k, seq |-> 0] \in Up /\ k # "ack"
    BY IcomAssumption DEF Up, Seqs, Types
  <2>. QED BY <2>1 DEF RptrSends
<1>3. AcksIn(toGwy)' = AcksIn(toGwy) /\ \A i \in AcksIn(toGwy) : toGwy'[i] = toGwy[i]
  <2>1. toGwy \in Seq(Up)
    BY DEF LinkTypes
  <2>. QED BY <1>2, <2>1, WrittenOn, AppendOf DEF AcksIn
<1>. QED BY <1>1, <1>3 DEF OneAtATime, NumberSeen, Delivered, Carrying

\* The frame being tried arrives; it is accepted unless it was before.
LEMMA ReceivesPrompt ==
    ASSUME LinkTypes, OneAtATime, NumberSeen, NEW v \in Written(toGwy, AckOf(Head(toRptr))), RptrReceives(v)
    PROVE  /\ OneAtATime' /\ NumberSeen' /\ Head(toRptr).frame = ackQueue /\ ackQueue # None
           /\ Delivered' /\ (Head(toRptr).seq = lastSeq <=> Delivered)
<1>1. /\ UNCHANGED <<ackQueue, seqNo, timer>> /\ toRptr # <<>> /\ toRptr' = Tail(toRptr)
      /\ Head(toRptr).kind = "frame" /\ toGwy' = v
  BY DEF RptrReceives, sendVars
<1>2. /\ 1 \in Carrying(toRptr) /\ Head(toRptr) = toRptr[1]
      /\ \A i \in Carrying(toRptr)' : i + 1 \in Carrying(toRptr)
      /\ toRptr' \in Seq(Down)
  BY <1>1, DownTaken
<1>3. Carrying(toRptr)' = {}
  <2>1. \A i \in Carrying(toRptr)' : i \in Nat \ {0}
    BY <1>2, LenProperties DEF Carrying
  <2>2. \A i \in Carrying(toRptr)' : i + 1 = 1
    BY <1>2 DEF OneAtATime
  <2>. QED BY <2>1, <2>2
<1>4. PICK f \in 1 .. queued : f = Head(toRptr).frame
  BY <1>1, DownTaken
<1>5. f = ackQueue /\ Head(toRptr).seq = seqNo /\ AcksIn(toGwy) = {} /\ timer # "expired" /\ f # None
  BY <1>2, <1>4, IcomAssumption DEF OneAtATime
<1>6. Delivered' /\ lastSeq' = seqNo /\ (seqNo = lastSeq <=> Delivered)
  <2>1. seqNo = lastSeq <=> Delivered
    BY <1>5 DEF NumberSeen
  <2>2. CASE seqNo = lastSeq
    <3>1. UNCHANGED <<accepted, lastSeq>>
      BY <1>5, <2>2 DEF RptrReceives
    <3>. QED BY <1>1, <2>1, <2>2, <3>1 DEF Delivered
  <2>3. CASE seqNo # lastSeq
    <3>1. accepted' = Append(accepted, f) /\ lastSeq' = seqNo
      BY <1>4, <1>5, <2>3 DEF RptrReceives
    <3>2. Len(accepted') = Len(accepted) + 1 /\ accepted'[Len(accepted) + 1] = f /\ Len(accepted) \in Nat
      BY <3>1, OrderTypes, AppendOf, LenProperties
    <3>. QED BY <1>1, <1>5, <2>1, <2>3, <3>1, <3>2 DEF Delivered
  <2>. QED BY <2>1, <2>2, <2>3
<1>7. /\ \A i \in AcksIn(toGwy)' : toGwy'[i].seq = seqNo
      /\ \A i, j \in AcksIn(toGwy)' : i = j
  <2>1. PICK d \in Up : d = AckOf(Head(toRptr))
    <3>1. Head(toRptr).seq \in Seqs
      BY <1>5, OrderTypes
    <3>. QED BY <3>1, AckIsOne DEF AckOf
  <2>2. d.kind = "ack" /\ d.seq = seqNo
    BY <1>5, <2>1 DEF AckOf
  <2>3. toGwy \in Seq(Up)
    BY DEF LinkTypes
  <2>4. CASE toGwy' = toGwy
    BY <1>5, <2>4 DEF AcksIn
  <2>5. CASE toGwy' = Append(toGwy, d)
    <3>1. AcksIn(toGwy)' = {Len(toGwy) + 1} /\ toGwy'[Len(toGwy) + 1] = d
      BY <1>5, <2>2, <2>3, <2>5, AppendOf DEF AcksIn
    <3>. QED BY <2>2, <3>1
  <2>. QED BY <1>1, <2>1, <2>4, <2>5, WrittenOn
<1>8. OneAtATime'
  BY <1>1, <1>3, <1>5, <1>6, <1>7 DEF OneAtATime
<1>9. NumberSeen'
  BY <1>1, <1>5, <1>6 DEF NumberSeen
<1>. QED BY <1>4, <1>5, <1>6, <1>8, <1>9

LEMMA PromptStep == LinkTypes /\ OrderInv /\ PromptInv /\ [IcomNext]_icomVars => PromptInv'
<1>0. [IcomNext]_icomVars => prompt' = prompt
  BY DEF IcomNext, site, icomVars
<1>. SUFFICES ASSUME LinkTypes, OrderInv, PromptInv, [IcomNext]_icomVars, prompt
              PROVE  OneAtATime' /\ NumberSeen'
  BY <1>0 DEF PromptInv
<1>1. OneAtATime /\ NumberSeen
  BY DEF PromptInv
<1>2. CASE SendGwyPackets \/ ReadNothing \/ ReadAck \/ ReadData \/ RptrReceivesAck
  BY <1>1, <1>2, SendPrompt, NothingPrompt, AckPrompt, DataPrompt, TakesAckPrompt
<1>3. CASE RptrReceivesFrame
  BY <1>1, <1>3, ReceivesPrompt DEF RptrReceivesFrame
<1>4. ASSUME NEW k \in Types, RptrSends(k) PROVE OneAtATime' /\ NumberSeen'
  BY <1>1, <1>4, RptrSendsPrompt
<1>5. CASE UNCHANGED <<toRptr, toGwy, accepted, ackQueue, seqNo, lastSeq, timer>>
  BY <1>1, <1>5 DEF OneAtATime, NumberSeen, Delivered, Carrying, AcksIn
<1>6. \/ SendGwyPackets \/ ReadNothing \/ ReadAck \/ ReadData \/ RptrReceivesAck \/ RptrReceivesFrame
      \/ \E k \in Types : RptrSends(k)
      \/ UNCHANGED <<toRptr, toGwy, accepted, ackQueue, seqNo, lastSeq, timer>>
  BY DEF IcomNext, GatewayThread, HandlerThread, Controller, Write, Read, ReadItem, Reply, EndReply, icomVars,
         moving, sendVars, ctlVars
<1>. QED BY <1>2, <1>3, <1>4, <1>5, <1>6

---------------------------------------------------------------------------
LEMMA ChannelInit == IcomInit => Channel!Init
BY DEF IcomInit, Channel!Init

\* What the channel shows of a step, when prompt
Shown == <<IF prompt THEN gwyQueue ELSE <<>>, IF prompt /\ ~Delivered THEN ackQueue ELSE None,
           IF prompt THEN accepted ELSE <<>> >>

LEMMA ChannelStep ==
    LinkTypes /\ LinkTypes' /\ OrderInv /\ PromptInv /\ [IcomNext]_icomVars => [Channel!Next]_Shown
<1>. SUFFICES ASSUME LinkTypes, LinkTypes', OrderInv, PromptInv, [IcomNext]_icomVars PROVE [Channel!Next]_Shown
  OBVIOUS
<1>1. prompt' = prompt
  BY DEF IcomNext, site, icomVars
<1>2. CASE ~prompt
  BY <1>1, <1>2 DEF Shown
<1>3. ASSUME prompt, UNCHANGED <<gwyQueue, accepted, ackQueue>> PROVE UNCHANGED Shown
  BY <1>1, <1>3 DEF Shown, Delivered
<1>4. ASSUME prompt, QueueFrame, UNCHANGED <<accepted, ackQueue>> PROVE Channel!Queue
  <2>1. queued + 1 \in 1 .. Last
    <3>1. queued \in Nat /\ queued' \in 0 .. Last /\ queued' = queued + 1 /\ Last \in Nat
      BY <1>4, IcomAssumption DEF LinkTypes, IcomTypeOK, QueueFrame, Last
    <3>. QED BY <3>1
  <2>2. Delivered' <=> Delivered
    BY <1>4 DEF Delivered
  <2>. QED BY <1>1, <1>4, <2>1, <2>2 DEF Channel!Queue, Channel!Put, QueueFrame, Put
<1>5. ASSUME prompt, SendGwyPackets PROVE [Channel!Next]_Shown
  <2>1. UNCHANGED accepted
    BY <1>5 DEF SendGwyPackets, ctlVars
  <2>2. CASE ~MaySend
    BY <1>3, <1>5, <2>1, <2>2 DEF SendGwyPackets, sendVars
  <2>3. CASE MaySend /\ ackQueue # None
    <3>1. UNCHANGED <<gwyQueue, ackQueue>>
      BY <1>5, <2>3 DEF SendGwyPackets, Transmit, Frame
    <3>. QED BY <1>3, <1>5, <2>1, <3>1
  <2>4. CASE MaySend /\ ackQueue = None
    <3>1. PICK f \in 1 .. queued : f = Frame
      BY <2>4, FrameIs
    <3>2. gwyQueue # <<>> /\ f = Head(gwyQueue) /\ gwyQueue' = Tail(gwyQueue) /\ ackQueue' = f
      BY <1>5, <2>4, <3>1, FrameIs DEF SendGwyPackets, Transmit, Frame
    <3>3. ~Delivered'
      BY <2>1, <2>4, <3>1, <3>2, NotYetAccepted DEF Delivered
    <3>4. Channel!Pick
      BY <1>1, <1>5, <2>1, <2>4, <3>2, <3>3 DEF Channel!Pick
    <3>. QED BY <3>4 DEF Channel!Next
  <2>. QED BY <2>2, <2>3, <2>4
<1>6. ASSUME prompt, ReadAck PROVE UNCHANGED Shown
  <2>1. Delivered
    BY <1>6, AcksTaken DEF ReadAck, PromptInv, OneAtATime
  <2>2. UNCHANGED <<gwyQueue, accepted>> /\ ackQueue' = None
    BY <1>6 DEF ReadAck, gwyVars, ctlVars
  <2>. QED BY <1>1, <1>6, <2>1, <2>2 DEF Shown
<1>7. ASSUME prompt, NEW v \in Written(toGwy, AckOf(Head(toRptr))), RptrReceives(v) PROVE [Channel!Next]_Shown
  <2>1. /\ Head(toRptr).frame = ackQueue /\ ackQueue # None
        /\ Delivered' /\ (Head(toRptr).seq = lastSeq <=> Delivered)
    BY <1>7, ReceivesPrompt DEF PromptInv
  <2>2. UNCHANGED <<gwyQueue, ackQueue>>
    BY <1>7 DEF RptrReceives, gwyVars, sendVars
  <2>3. CASE Delivered
    <3>1. UNCHANGED accepted
      BY <1>7, <2>1, <2>3 DEF RptrReceives
    <3>. QED BY <1>3, <1>7, <2>2, <3>1
  <2>4. CASE ~Delivered
    <3>1. accepted' = Append(accepted, ackQueue)
      BY <1>7, <2>1, <2>4 DEF RptrReceives
    <3>2. Channel!Deliver
      BY <1>1, <1>7, <2>1, <2>2, <2>4, <3>1 DEF Channel!Deliver
    <3>. QED BY <3>2 DEF Channel!Next
  <2>. QED BY <2>3, <2>4
<1>8. CASE prompt
  <2>1. CASE Write \/ Reply
    <3>1. QueueFrame /\ UNCHANGED <<accepted, ackQueue>>
      BY <2>1 DEF Write, Reply, sendVars, ctlVars
    <3>. QED BY <1>4, <1>8, <3>1 DEF Channel!Next
  <2>2. CASE SendGwyPackets \/ ReadAck \/ RptrReceivesFrame
    BY <1>5, <1>6, <1>7, <1>8, <2>2 DEF RptrReceivesFrame
  <2>3. CASE UNCHANGED <<gwyQueue, accepted, ackQueue>>
    BY <1>3, <1>8, <2>3
  <2>4. \/ Write \/ Reply \/ SendGwyPackets \/ ReadAck \/ RptrReceivesFrame
        \/ UNCHANGED <<gwyQueue, accepted, ackQueue>>
    BY DEF IcomNext, GatewayThread, HandlerThread, Controller, Read, ReadItem, ReadNothing, ReadData, EndReply,
           RptrReceivesAck, RptrSends, icomVars, moving, gwyVars, sendVars, ctlVars
  <2>. QED BY <2>1, <2>2, <2>3, <2>4
<1>. QED BY <1>2, <1>8

(* When every answer beats the retry timer, the exchange with the          *)
(* controller is the channel IcomChannel describes, for queues and bounds  *)
(* of any size and losses at any time: each frame that leaves the ring is  *)
(* accepted once, and before the next one leaves.                          *)
THEOREM LinkIsReliable == IcomSpec => Reliable
<1>1. IcomInit => LinkTypes /\ LinkCounts /\ OrderInv /\ PromptInv
  BY LinkTypesInit, OrderInit, PromptInit
<1>2. LinkTypes /\ LinkCounts /\ OrderInv /\ PromptInv /\ [IcomNext]_icomVars
        => (LinkTypes /\ LinkCounts /\ OrderInv /\ PromptInv)'
  BY LinkTypesStep, OrderStep, PromptStep
<1>3. LinkTypes /\ LinkTypes' /\ OrderInv /\ PromptInv /\ [IcomNext]_icomVars => [Channel!Next]_Shown
  BY ChannelStep
<1>. QED BY <1>1, <1>2, <1>3, ChannelInit, PTL DEF IcomSpec, Reliable, Channel!Spec, Shown

---------------------------------------------------------------------------
(* The two side by side *)

(* The driver with its two threads promises all of it at once: the ring is *)
(* the queue of RingQueue, what read() tells is what is taken, frames come *)
(* in order and once, and the link is the channel of IcomChannel while     *)
(* answers are prompt.                                                     *)
THEOREM DriverHolds ==
    DriverSpec => /\ [](DriverTypeOK /\ InOrderOnce)
                  /\ ImplementsQueue /\ TakesWhatItRead /\ Reliable
<1>1. DriverInit => Init /\ IcomInit
  BY BufferAssumption DEF DriverInit, RingIdle, LinkIdle, Init
<1>2. [DriverNext /\ UNCHANGED part]_<<part, vars, icomVars>> => [Next]_vars /\ [IcomNext]_icomVars
  BY DEF DriverNext
<1>3. DriverSpec => Spec /\ IcomSpec
  BY <1>1, <1>2, PTL DEF DriverSpec, Spec, IcomSpec
<1>. QED BY <1>3, DriverTypesHold, RingImplementsQueue, ItemsTakenAsTold, FramesInOrderOnce, LinkIsReliable, PTL
=============================================================================
