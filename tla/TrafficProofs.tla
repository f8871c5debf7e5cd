--------------------------- MODULE TrafficProofs ---------------------------
(***************************************************************************)
(* What is proved of the traffic modules that MCTraffic runs side by side: *)
(* for each an inductive invariant, that every action keeps it, and the    *)
(* property it gives.  Nothing connects them, so each theorem is about the *)
(* specification of its own module, for every value of its constants; the  *)
(* last one says it of the composition.                                    *)
(***************************************************************************)
EXTENDS MCTraffic, LinkStreamsProofs, SequenceTheorems, WellFoundedInduction

LEMMA MinOfNaturals ==
    ASSUME NEW S, S \subseteq Nat, S # {}
    PROVE  Min(S) \in S /\ \A y \in S : Min(S) =< y
<1> DEFINE less == {p \in Nat \X Nat : p[1] < p[2]}
<1>1. IsWellFoundedOn(less, Nat)
  BY NatLessThanWellFounded DEF OpToRel
<1>2. PICK x \in S : \A y \in S : ~ (<<y, x>> \in less)
  <2> HIDE DEF less
  <2> QED
    BY <1>1, WFMin
<1>3. ASSUME NEW y \in S PROVE x =< y
  <2>1. <<y, x>> \in Nat \X Nat
    OBVIOUS
  <2>2. ~(y < x)
    BY <1>2, <2>1
  <2> QED
    BY <2>2
<1> QED
  BY <1>3 DEF Min

---------------------------------------------------------------------------
(* G2Routes: the pool, the routes and the repeaters *)

HandlersApart == \A i, j \in DOMAIN pool : pool[i].from = pool[j].from => i = j
BuffersFilled == \A i \in DOMAIN pool : pool[i].type # "none" => pool[i].stream \in Streams
RoutesRight   == \A i \in Routes : routes[i] # NoStream => Announced(routes[i].id, routes[i].to)

G2Inv == G2TypeOK /\ BuffersFilled /\ RoutesRight /\ ToTheirRepeater

(* What the gateway thread does to a handler keeps its sender. *)
LEMMA SetBufferType ==
    ASSUME NEW h \in Handler, h.type # "none" => h.stream \in Streams, NEW d \in G2Datagram
    PROVE  LET b == SetBuffer(h, d)
           IN  b \in Handler /\ b.from = h.from /\ (b.type # "none" => b.stream \in Streams)
<1>1. CASE d.kind = "junk"
  BY <1>1 DEF SetBuffer, Handler
<1>2. CASE d.kind # "junk"
  BY <1>2 DEF SetBuffer, Handler, G2Datagram, G2Kinds
<1> QED
  BY <1>1, <1>2

(* A new handler for a sender that has none *)
LEMMA PoolGrows ==
    ASSUME G2Inv, NEW h \in Handler, h.type # "none" => h.stream \in Streams,
           Positions(h.from) = {}, pool' = Append(pool, h), index' = Len(pool) + 2
    PROVE  /\ pool' \in Seq(Handler) /\ HandlersApart' /\ BuffersFilled'
           /\ index' \in 1 .. Len(pool') + 1
<1>1. pool \in Seq(Handler) /\ HandlersApart /\ BuffersFilled
  BY DEF G2Inv, G2TypeOK, HandlersApart
<1>2. \A i \in DOMAIN pool : pool[i].from # h.from
  BY DEF Positions
<1>3. /\ Len(pool') = Len(pool) + 1 /\ pool' \in Seq(Handler)
      /\ \A i \in 1 .. Len(pool) : pool'[i] = pool[i]
      /\ pool'[Len(pool) + 1] = h
  BY <1>1
<1>4. DOMAIN pool = 1 .. Len(pool) /\ DOMAIN pool' = 1 .. Len(pool) + 1 /\ Len(pool) \in Nat
  BY <1>1, <1>3
<1> QED
  BY <1>1, <1>2, <1>3, <1>4 DEF HandlersApart, BuffersFilled

(* A handler in the pool that goes on being that of its sender *)
LEMMA PoolChanges ==
    ASSUME G2Inv, NEW i \in DOMAIN pool, NEW h \in Handler, h.from = pool[i].from,
           h.type # "none" => h.stream \in Streams, pool' = [pool EXCEPT ![i] = h]
    PROVE  /\ pool' \in Seq(Handler) /\ HandlersApart' /\ BuffersFilled'
           /\ Len(pool') = Len(pool)
<1>1. pool \in Seq(Handler) /\ HandlersApart /\ BuffersFilled
  BY DEF G2Inv, G2TypeOK, HandlersApart
<1>2. DOMAIN pool' = DOMAIN pool /\ pool' \in Seq(Handler) /\ Len(pool') = Len(pool)
  BY <1>1
<1>3. \A j \in DOMAIN pool : pool'[j] = IF j = i THEN h ELSE pool[j]
  BY <1>1
<1> QED
  BY <1>1, <1>2, <1>3 DEF HandlersApart, BuffersFilled

LEMMA ArriveInv ==
    ASSUME G2Inv, NEW s \in Streams, NEW kind \in G2Kinds, Arrive(s, kind)
    PROVE  G2Inv'
<1> DEFINE d == [stream |-> s, kind |-> kind]
<1>1. d \in G2Datagram
  BY DEF G2Datagram
<1>2. socket' \in Seq(G2Datagram) /\ Len(socket') = Len(socket) + 1
  BY <1>1 DEF Arrive, G2Inv, G2TypeOK
<1>3. Len(socket') <= MaxSocket /\ arrived' \in 0 .. MaxArrivals
  BY <1>2, G2Assumption DEF Arrive, G2Inv, G2TypeOK
<1> QED
  BY <1>2, <1>3 DEF Arrive, G2Inv, G2TypeOK, BuffersFilled, RoutesRight, ToTheirRepeater, Announced, End, Routes

LEMMA ReadPacketInv ==
    ASSUME G2Inv, ReadPacket
    PROVE  G2Inv'
<1>1. CASE socket = <<>>
  BY <1>1 DEF ReadPacket, G2Inv, G2TypeOK, BuffersFilled, RoutesRight, ToTheirRepeater, Announced, End, Routes
<1>2. CASE socket # <<>>
  <2> DEFINE d == Head(socket)
             g == SenderOf[d.stream]
  <2>1. d \in G2Datagram /\ socket' = Tail(socket) /\ g \in Senders
    <3>1. d \in G2Datagram
      BY <1>2 DEF G2Inv, G2TypeOK
    <3>2. g \in Senders
      BY <3>1, G2Assumption DEF G2Datagram
    <3> QED
      BY <1>2, <3>1, <3>2 DEF ReadPacket
  <2>2. socket' \in Seq(G2Datagram) /\ Len(socket') <= MaxSocket
    <3>1. Len(socket') = Len(socket) - 1 /\ socket' \in Seq(G2Datagram)
      BY <1>2, <2>1 DEF G2Inv, G2TypeOK
    <3> QED
      BY <3>1, G2Assumption DEF G2Inv, G2TypeOK
  <2>3. pc' \in {"away", "read", "pick"} /\ UNCHANGED <<routes, arrived, heard>>
    BY <1>2 DEF ReadPacket
  <2>4. /\ pool' \in Seq(Handler) /\ HandlersApart' /\ BuffersFilled'
        /\ index' \in 1 .. Len(pool') + 1
    <3>1. CASE Positions(g) = {}
      <4> DEFINE h == SetBuffer(NewHandler(g), d)
      <4>1. NewHandler(g) \in Handler /\ NewHandler(g).type = "none" /\ NewHandler(g).from = g
        BY <2>1 DEF NewHandler, Handler
      <4>2. h \in Handler /\ h.from = g /\ (h.type # "none" => h.stream \in Streams)
        BY <2>1, <4>1, SetBufferType
      <4>3. pool' = Append(pool, h) /\ index' = Len(pool) + 2
        BY <1>2, <3>1 DEF ReadPacket
      <4> HIDE DEF h, d, g
      <4> QED
        BY <3>1, <4>2, <4>3, PoolGrows
    <3>2. CASE Positions(g) # {}
      <4>1. PICK i \in Positions(g) : pool' = [pool EXCEPT ![i] = SetBuffer(@, d)]
        BY <1>2, <3>2 DEF ReadPacket
      <4> DEFINE h == SetBuffer(pool[i], d)
      <4>2. i \in DOMAIN pool /\ pool[i] \in Handler
            /\ (pool[i].type # "none" => pool[i].stream \in Streams)
        BY DEF Positions, G2Inv, G2TypeOK, BuffersFilled
      <4>3. h \in Handler /\ h.from = pool[i].from /\ (h.type # "none" => h.stream \in Streams)
        BY <2>1, <4>2, SetBufferType
      <4>4. pool' = [pool EXCEPT ![i] = h] /\ index' = index
        BY <1>2, <3>2, <4>1 DEF ReadPacket
      <4> HIDE DEF h, d, g
      <4>5. pool' \in Seq(Handler) /\ HandlersApart' /\ BuffersFilled' /\ Len(pool') = Len(pool)
        BY <4>2, <4>3, <4>4, PoolChanges
      <4> QED
        BY <4>4, <4>5 DEF G2Inv, G2TypeOK, End
    <3> QED
      BY <3>1, <3>2
  <2> QED
    BY <2>2, <2>3, <2>4
       DEF G2Inv, G2TypeOK, HandlersApart, RoutesRight, ToTheirRepeater, Announced, End, Routes
<1> QED
  BY <1>1, <1>2

(* The routes and what the repeaters hear, when a header or voice of a     *)
(* stream is routed                                                        *)
RoutesOK == /\ routes \in [Routes -> Route \cup {NoStream}] /\ RoutesRight
            /\ heard \subseteq HeardFrame /\ ToTheirRepeater

(* What a repeater has been given more does not undo a header it was given.*)
LEMMA StaysAnnounced ==
    ASSUME NEW number, NEW r, Announced(number, r), heard \subseteq heard'
    PROVE  Announced(number, r)'
BY DEF Announced

LEMMA RouteHeaderInv ==
    ASSUME RoutesOK, NEW s \in Streams, RouteHeader(s)
    PROVE  RoutesOK'
<1> DEFINE free == {i \in Routes : routes[i] = NoStream}
           new == [id |-> IdOf[s], to |-> RepeaterOf[s]]
           frame == Given("header", s, RepeaterOf[s])
<1>1. CASE RepeaterOf[s] = Nobody \/ free = {}
  BY <1>1 DEF RouteHeader, RoutesOK, RoutesRight, ToTheirRepeater, Announced, Routes
<1>2. CASE RepeaterOf[s] # Nobody /\ free # {}
  <2>1. Min(free) \in Routes
    BY <1>2, MinOfNaturals, G2Assumption DEF Routes
  <2>2. new \in Route /\ new.id = IdOf[s] /\ new.to = RepeaterOf[s]
    BY <1>2 DEF Route, Addressed
  <2>3. routes' = [routes EXCEPT ![Min(free)] = new] /\ heard' = heard \cup {frame}
    BY <1>2 DEF RouteHeader
  <2>4. frame \in HeardFrame /\ frame.stream = s /\ frame.to = RepeaterOf[s]
    BY DEF Given, HeardFrame, Addressed
  <2>5. Announced(IdOf[s], RepeaterOf[s])'
    BY <2>3 DEF Announced
  <2> HIDE DEF free, new, frame
  <2>6. routes' \in [Routes -> Route \cup {NoStream}]
    BY <2>1, <2>2, <2>3 DEF RoutesOK
  <2>7. RoutesRight'
    <3>1. ASSUME NEW i \in Routes, NEW r, r = routes'[i], r # NoStream
          PROVE  Announced(r.id, r.to)'
      <4>1. CASE i = Min(free)
        <5>1. r = new
          BY <2>1, <2>3, <3>1, <4>1 DEF RoutesOK
        <5> QED
          BY <2>2, <2>5, <5>1
      <4>2. CASE i # Min(free)
        <5>1. r = routes[i]
          BY <2>1, <2>3, <3>1, <4>2 DEF RoutesOK
        <5>2. Announced(r.id, r.to)
          BY <3>1, <5>1 DEF RoutesOK, RoutesRight
        <5> QED
          BY <2>3, <5>2, StaysAnnounced
      <4> QED
        BY <4>1, <4>2
    <3> QED
      BY <3>1 DEF RoutesRight, Routes, Announced
  <2>8. heard' \subseteq HeardFrame
    BY <2>3, <2>4 DEF RoutesOK
  <2>9. ToTheirRepeater'
    <3>1. SUFFICES ASSUME NEW f \in heard' PROVE Announced(IdOf[f.stream], f.to)'
      BY DEF ToTheirRepeater
    <3>2. CASE f \in heard
      BY <2>3, <3>2, StaysAnnounced DEF RoutesOK, ToTheirRepeater
    <3>3. CASE f = frame
      BY <2>4, <2>5, <3>3
    <3> QED
      BY <2>3, <3>2, <3>3
  <2> QED
    BY <2>6, <2>7, <2>8, <2>9 DEF RoutesOK
<1> QED
  BY <1>1, <1>2

LEMMA RouteVoiceInv ==
    ASSUME RoutesOK, NEW s \in Streams, NEW end \in BOOLEAN, RouteVoice(s, end)
    PROVE  RoutesOK'
<1>1. CASE Matching(s) = {}
  BY <1>1 DEF RouteVoice, RoutesOK, RoutesRight, ToTheirRepeater, Announced, Routes
<1>2. CASE Matching(s) # {}
  <2> DEFINE i == Min(Matching(s))
             frame == Given("voice", s, routes[i].to)
  <2>1. i \in Routes /\ routes[i] # NoStream /\ routes[i].id = IdOf[s]
    <3>1. i \in Matching(s)
      BY <1>2, MinOfNaturals, G2Assumption DEF Matching, Routes
    <3> QED
      BY <3>1 DEF Matching
  <2>2. /\ routes' = [routes EXCEPT ![i] = IF end THEN NoStream ELSE @]
        /\ heard' = heard \cup {frame}
    BY <1>2 DEF RouteVoice
  <2> HIDE DEF i
  <2>3. Announced(IdOf[s], routes[i].to) /\ routes[i] \in Route
    BY <2>1 DEF RoutesOK, RoutesRight
  <2>4. frame \in HeardFrame /\ frame.stream = s /\ frame.to = routes[i].to
    BY <2>3 DEF Given, HeardFrame, Route
  <2> HIDE DEF frame
  <2>5. \A number, r : Announced(number, r) => Announced(number, r)'
    BY <2>2, StaysAnnounced
  <2>6. routes' \in [Routes -> Route \cup {NoStream}]
    BY <2>1, <2>2 DEF RoutesOK
  <2>7. RoutesRight'
    <3>1. \A j \in Routes : routes'[j] = routes[j] \/ routes'[j] = NoStream
      BY <2>1, <2>2 DEF RoutesOK
    <3> QED
      BY <2>5, <3>1 DEF RoutesOK, RoutesRight, Routes
  <2>8. heard' \subseteq HeardFrame /\ ToTheirRepeater'
    BY <2>2, <2>3, <2>4, <2>5 DEF RoutesOK, ToTheirRepeater
  <2> QED
    BY <2>6, <2>7, <2>8 DEF RoutesOK
<1> QED
  BY <1>1, <1>2

LEMMA PickInv ==
    ASSUME G2Inv, Pick
    PROVE  G2Inv'
<1>1. RoutesOK
  BY DEF G2Inv, G2TypeOK, RoutesOK
<1>2. CASE Offered = {}
  BY <1>2 DEF Pick, G2Inv, G2TypeOK, BuffersFilled, RoutesRight, ToTheirRepeater, Announced, End, Routes
<1>3. CASE Offered # {}
  <2> DEFINE i == Min(Offered)
             h == pool[i]
             read == [h EXCEPT !.type = "none", !.id = h.stream]
             said == [h EXCEPT !.type = "none", !.id = IF h.type = "end" THEN NoStream ELSE @]
  <2>1. i \in DOMAIN pool /\ h.type # "none" /\ pool \in Seq(Handler)
    <3>1. pool \in Seq(Handler)
      BY DEF G2Inv, G2TypeOK
    <3>2. Offered \subseteq Nat
      BY <3>1 DEF Offered
    <3>3. i \in Offered
      BY <1>3, <3>2, MinOfNaturals
    <3> QED
      BY <3>1, <3>3 DEF Offered
  <2>2. h \in Handler /\ h.stream \in Streams
    BY <2>1 DEF G2Inv, BuffersFilled
  <2>3. /\ read \in Handler /\ read.from = h.from /\ read.type = "none"
        /\ said \in Handler /\ said.from = h.from /\ said.type = "none"
    BY <2>2 DEF Handler
  <2>4. pc' = "read" /\ index' = i /\ UNCHANGED <<socket, arrived>>
    BY <1>3 DEF Pick
  <2>5. /\ pool' \in Seq(Handler) /\ HandlersApart' /\ BuffersFilled' /\ Len(pool') = Len(pool)
        /\ RoutesOK'
    <3>1. CASE h.type = "header" /\ h.id # NoStream
      <4>1. UNCHANGED <<pool, routes, heard>>
        BY <1>3, <3>1 DEF Pick
      <4> QED
        BY <1>1, <4>1
           DEF G2Inv, G2TypeOK, HandlersApart, BuffersFilled, RoutesOK, RoutesRight, ToTheirRepeater, Announced, Routes
    <3>2. CASE h.type = "header" /\ h.id = NoStream
      <4>1. pool' = [pool EXCEPT ![i] = read] /\ RouteHeader(h.stream)
        BY <1>3, <2>1, <3>2 DEF Pick
      <4> HIDE DEF read, said, i
      <4>2. RoutesOK'
        BY <1>1, <2>2, <4>1, RouteHeaderInv
      <4> QED
        BY <2>1, <2>3, <4>1, <4>2, PoolChanges
    <3>3. CASE h.type # "header"
      <4>1. pool' = [pool EXCEPT ![i] = said] /\ RouteVoice(h.stream, h.type = "end")
        BY <1>3, <2>1, <3>3 DEF Pick
      <4> HIDE DEF read, said, i
      <4>2. RoutesOK'
        BY <1>1, <2>2, <4>1, RouteVoiceInv
      <4> QED
        BY <2>1, <2>3, <4>1, <4>2, PoolChanges
    <3> QED
      BY <3>1, <3>2, <3>3
  <2>6. index' \in 1 .. Len(pool') + 1
    BY <2>1, <2>4, <2>5
  <2> HIDE DEF read, said, i
  <2> QED
    BY <2>4, <2>5, <2>6 DEF G2Inv, G2TypeOK, HandlersApart, RoutesOK, End
<1> QED
  BY <1>2, <1>3

LEMMA WriteToInv ==
    ASSUME G2Inv, NEW g \in Senders, WriteTo(g)
    PROVE  G2Inv'
<1>1. NewHandler(g) \in Handler /\ NewHandler(g).type = "none" /\ NewHandler(g).from = g
  BY DEF NewHandler, Handler
<1>2. /\ pool' \in Seq(Handler) /\ HandlersApart' /\ BuffersFilled'
      /\ index' \in 1 .. Len(pool') + 1
  BY <1>1, PoolGrows DEF WriteTo
<1> QED
  BY <1>2 DEF WriteTo, G2Inv, G2TypeOK, HandlersApart, RoutesRight, ToTheirRepeater, Announced, End, Routes

LEMMA HandlerExpiresInv ==
    ASSUME G2Inv, NEW i \in DOMAIN pool, HandlerExpires(i)
    PROVE  G2Inv'
<1>1. pool \in Seq(Handler) /\ HandlersApart /\ BuffersFilled /\ i \in 1 .. Len(pool)
  BY DEF G2Inv, G2TypeOK, HandlersApart
<1>2. pool' = SubSeq(pool, 1, i - 1) \o SubSeq(pool, i + 1, Len(pool)) /\ index' = Len(pool)
  BY DEF HandlerExpires, RemoveAt
<1>3. /\ pool' \in Seq(Handler) /\ Len(pool') = Len(pool) - 1
      /\ \A j \in 1 .. Len(pool) - 1 : pool'[j] = IF j < i THEN pool[j] ELSE pool[j + 1]
  <2> DEFINE left == SubSeq(pool, 1, i - 1)
             right == SubSeq(pool, i + 1, Len(pool))
  <2>1. left \in Seq(Handler) /\ Len(left) = i - 1 /\ \A j \in 1 .. i - 1 : left[j] = pool[j]
    BY <1>1
  <2>2. /\ right \in Seq(Handler) /\ Len(right) = Len(pool) - i
        /\ \A j \in 1 .. Len(pool) - i : right[j] = pool[i + j]
    BY <1>1
  <2>3. pool' = left \o right
    BY <1>2
  <2> HIDE DEF left, right
  <2> QED
    BY <1>1, <2>1, <2>2, <2>3
<1>4. HandlersApart' /\ BuffersFilled' /\ index' \in 1 .. Len(pool') + 1
  <2>1. Len(pool) \in Nat /\ DOMAIN pool = 1 .. Len(pool) /\ DOMAIN pool' = 1 .. Len(pool) - 1
    BY <1>1, <1>3
  <2>2. \A j \in DOMAIN pool' : \E k \in DOMAIN pool : pool'[j] = pool[k]
    BY <1>1, <1>3, <2>1, SMTT(40)
  <2>3. \A j, k \in DOMAIN pool' : pool'[j].from = pool'[k].from => j = k
    BY <1>1, <1>3, <2>1, SMTT(40) DEF HandlersApart
  <2>4. HandlersApart' /\ BuffersFilled'
    BY <1>1, <2>2, <2>3 DEF HandlersApart, BuffersFilled
  <2> QED
    BY <1>1, <1>2, <1>3, <2>1, <2>4
<1> QED
  BY <1>3, <1>4
     DEF HandlerExpires, G2Inv, G2TypeOK, HandlersApart, RoutesRight, ToTheirRepeater, Announced, End, Routes

LEMMA RouteExpiresInv ==
    ASSUME G2Inv, NEW i \in Routes, RouteExpires(i)
    PROVE  G2Inv'
<1>1. routes' \in [Routes -> Route \cup {NoStream}] /\ RoutesRight'
  BY DEF RouteExpires, G2Inv, G2TypeOK, RoutesRight, Announced, Routes
<1>2. ToTheirRepeater'
  BY DEF RouteExpires, G2Inv, ToTheirRepeater, Announced
<1> QED
  BY <1>1, <1>2 DEF RouteExpires, G2Inv, G2TypeOK, BuffersFilled, End, Routes

LEMMA G2InitInv == G2Init => G2Inv
<1> SUFFICES ASSUME G2Init PROVE G2Inv
  OBVIOUS
<1>1. G2TypeOK
  BY G2Assumption DEF G2Init, G2TypeOK, End
<1> QED
  BY <1>1 DEF G2Init, G2Inv, BuffersFilled, RoutesRight, ToTheirRepeater, Announced

LEMMA G2StepInv == G2Inv /\ [G2Next]_g2Vars => G2Inv'
<1> SUFFICES ASSUME G2Inv, [G2Next]_g2Vars PROVE G2Inv'
  OBVIOUS
<1>1. CASE UNCHANGED g2Vars \/ EnterG2
  BY <1>1 DEF g2Vars, EnterG2, G2Inv, G2TypeOK, BuffersFilled, RoutesRight, ToTheirRepeater, Announced, End, Routes
<1> QED
  BY <1>1, ArriveInv, ReadPacketInv, PickInv, WriteToInv, HandlerExpiresInv, RouteExpiresInv DEF G2Next

(* A repeater is given headers addressed to it and voice that bears the    *)
(* number of one it was given, for any number of senders, streams,         *)
(* repeaters and routes, whatever streams share a number and however       *)
(* handlers and routes come and go.                                        *)
THEOREM RoutedToTheirRepeater == G2Spec => []ToTheirRepeater
<1>1. G2Inv => ToTheirRepeater
  BY DEF G2Inv
<1> QED
  BY G2InitInv, G2StepInv, <1>1, PTL DEF G2Spec

---------------------------------------------------------------------------
(* DigitalData: the table, the tap and the radio *)

(* The stations in the table are those that went out on the tap, each once *)
(* and each after the repeater has been given its callsign.                *)
DDInv ==
    /\ DDTypeOK /\ Answerable
    /\ \A a, b \in ethernet : a.address = b.address => a = b
    /\ {r \in ethernet : r.address \in Stations} = onTap
    /\ onTap # {} => ddCallsign # NoCall

LEMMA EntryType ==
    ASSUME NEW source \in Stations, NEW my \in Users
    PROVE  /\ Entry(source, my) \in EthernetRoute
           /\ Entry(source, my).address = source
BY DEF Entry, EthernetRoute, Addresses

LEMMA DDInitInv == DDInit => DDInv
<1> SUFFICES ASSUME DDInit PROVE DDInv
  OBVIOUS
<1>1. ASSUME NEW r \in ethernet
      PROVE  r \in EthernetRoute /\ r.address \in Groups /\ r = [address |-> r.address, callsign |-> Everyone]
  BY DEF DDInit, EthernetRoute, Addresses
<1>2. DDTypeOK
  BY <1>1 DEF DDInit, DDTypeOK, NoFrame
<1>3. radio.to \notin Stations
  BY AddressesApart DEF DDInit, NoFrame
<1> QED
  BY <1>1, <1>2, <1>3, AddressesApart DEF DDInit, DDInv, Answerable

(* One route more, and its first frame out on the tap                      *)
LEMMA LearnInv ==
    ASSUME DDInv, NEW source \in Stations, NEW my \in Users, Learn(source, my)
    PROVE  /\ ethernet' \subseteq EthernetRoute
           /\ \A a, b \in ethernet' : a.address = b.address => a = b
           /\ {r \in ethernet' : r.address \in Stations} = onTap'
           /\ onTap \subseteq onTap'
<1> DEFINE new == Entry(source, my)
<1>1. new \in EthernetRoute /\ new.address = source
  BY EntryType
<1>2. ethernet \subseteq EthernetRoute
  BY DEF DDInv, DDTypeOK
<1>3. CASE RouteTo(source) # {} /\ UNCHANGED ethernet /\ GoesOut(source, my)
  <2>1. PICK r \in ethernet : r.address = source
    BY <1>3 DEF RouteTo
  <2>2. r \in onTap
    BY <2>1 DEF DDInv
  <2>3. UNCHANGED onTap
    BY <1>3, <2>1, <2>2 DEF GoesOut
  <2> QED
    BY <1>2, <1>3, <2>3 DEF DDInv
<1>4. CASE RouteTo(source) = {} /\ ethernet' = ethernet \cup {new} /\ GoesOut(source, my)
  <2>1. \A r \in ethernet : r.address # source
    BY <1>4 DEF RouteTo
  <2>2. onTap' = onTap \cup {new}
    BY <1>4, <2>1 DEF GoesOut, DDInv
  <2> HIDE DEF new
  <2> QED
    BY <1>1, <1>2, <1>4, <2>1, <2>2 DEF DDInv
<1>5. CASE UNCHANGED <<ethernet, onTap>>
  BY <1>2, <1>5 DEF DDInv
<1> QED
  BY <1>3, <1>4, <1>5 DEF Learn

LEMMA FromRadioInv ==
    ASSUME DDInv, NEW source \in Stations, NEW my \in Users, NEW your \in Users,
           FromRadio(source, my, your)
    PROVE  DDInv'
<1>1. /\ ethernet' \subseteq EthernetRoute
      /\ \A a, b \in ethernet' : a.address = b.address => a = b
      /\ {r \in ethernet' : r.address \in Stations} = onTap'
      /\ onTap \subseteq onTap'
  <2>1. CASE tap
    BY <2>1, LearnInv DEF FromRadio
  <2>2. CASE ~tap
    BY <2>2 DEF FromRadio, DDInv, DDTypeOK
  <2> QED
    BY <2>1, <2>2
<1>2. ddCallsign' \in Users \cup {NoCall} /\ ddCallsign' # NoCall
  BY AddressesApart DEF FromRadio, DDInv, DDTypeOK
<1>3. DDTypeOK'
  BY <1>1, <1>2 DEF FromRadio, DDInv, DDTypeOK
<1>4. \A o \in onTap' : RouteTo(o.address)' = {o}
  BY <1>1 DEF RouteTo
<1>5. Answerable'
  BY <1>1, <1>4 DEF FromRadio, DDInv, Answerable, Entry
<1> QED
  BY <1>1, <1>2, <1>3, <1>5 DEF DDInv

LEMMA ToRadioInv ==
    ASSUME DDInv, NEW dest \in Addresses, ToRadio(dest)
    PROVE  DDInv'
<1>1. PICK r \in RouteTo(dest) : radio' = [to |-> dest, your |-> r.callsign, my |-> ddCallsign]
  BY DEF ToRadio
<1>2. r \in ethernet /\ r \in EthernetRoute /\ r.address = dest
  BY DEF RouteTo, DDInv, DDTypeOK
<1>3. DDTypeOK'
  BY <1>1, <1>2 DEF ToRadio, DDInv, DDTypeOK, EthernetRoute
<1>4. Answerable'
  <2>1. ASSUME dest \in Stations
        PROVE  ddCallsign # NoCall /\ Entry(dest, r.callsign) \in onTap
    <3>1. r \in onTap
      BY <1>2, <2>1 DEF DDInv
    <3>2. Entry(dest, r.callsign) = r
      BY <1>2 DEF EthernetRoute, Entry
    <3> QED
      BY <3>1, <3>2 DEF DDInv
  <2>2. radio'.to = dest /\ radio'.your = r.callsign /\ radio'.my = ddCallsign
    BY <1>1
  <2>3. \A o \in onTap' : RouteTo(o.address)' = {o}
    BY DEF ToRadio, DDInv, Answerable, RouteTo
  <2> QED
    BY <2>1, <2>2, <2>3 DEF ToRadio, Answerable, Entry
<1> QED
  BY <1>3, <1>4 DEF ToRadio, DDInv

LEMMA DDStepInv == DDInv /\ [DDNext]_ddVars => DDInv'
<1> SUFFICES ASSUME DDInv, [DDNext]_ddVars PROVE DDInv'
  OBVIOUS
<1>1. CASE UNCHANGED ddVars \/ HeardTime
  BY <1>1 DEF ddVars, HeardTime, DDInv, DDTypeOK, Answerable, RouteTo
<1> QED
  BY <1>1, FromRadioInv, ToRadioInv DEF DDNext

(* Every station whose frames went out on the tap stays reachable under    *)
(* the callsign it was first heard with, for any number of stations, users *)
(* and entries of the table.                                               *)
THEOREM StationsAnswerable == DDSpec => []Answerable
<1>1. DDInv => Answerable
  BY DEF DDInv
<1> QED
  BY DDInitInv, DDStepInv, <1>1, PTL DEF DDSpec

---------------------------------------------------------------------------
(* WireControl: connects and polls, one crossing at a time *)

Meant(m, r) ==
    /\ r.sort = m.sort \/ (m.protocol = "DCS" /\ {r.sort, m.sort} = PollKinds)
    /\ m.protocol # "DPlus" => r.repeater = m.repeater
    /\ r.sort \in {"LINK1", "ACK"} /\ m.protocol = "DExtra"
         => r.reflector.letter = m.reflector.letter
    /\ r.sort = "LINK1" /\ m.protocol = "DCS" => r.reflector = m.reflector
    /\ r.sort = "LINK2" => r.repeater.name = m.repeater.name
    /\ m.protocol = "DCS" /\ r.sort = "OUT" => r.reflector \in Place

ReadOf(m) == Read(m.protocol, Laid(m))

LEMMA DExtraMeant ==
    ASSUME NEW m \in Message, Sent(m), m.protocol = "DExtra"
    PROVE  Meant(m, ReadOf(m))
<1> DEFINE b == Laid(m)
<1>1. m.sort \in {"OUT", "LINK1", "UNLINK", "ACK", "NAK"} /\ m.reflector.letter # Blank
  BY SortsAssumption, BlankAssumption DEF Message, Sent, Place
<1>2. b = DExtraBytes(m)
  BY DEF Laid
<1>3. /\ m.sort = "OUT" => b.length = 9 /\ b.place = m.repeater
      /\ m.sort = "LINK1" => b.length = 11 /\ b.place = m.repeater /\ b.letter = m.reflector.letter
      /\ m.sort = "UNLINK" => b.length = 11 /\ b.place = m.repeater /\ b.letter = Blank
      /\ m.sort \in {"ACK", "NAK"} => /\ b.length = 14 /\ b.place = m.repeater /\ b.word = m.sort
                                      /\ b.letter = m.reflector.letter
  BY <1>2 DEF DExtraBytes, Bytes
<1> HIDE DEF b
<1>4. ReadOf(m) = IF b.length \in {9} THEN PollRead("DExtra", b)
                  ELSE IF b.length \in {11, 14} THEN ConnectRead("DExtra", b) ELSE Unread
  <2>1. PollLengths("DExtra") = {9} /\ ConnectLengths("DExtra") = {11, 14}
    BY DEF PollLengths, ConnectLengths
  <2> QED
    BY <2>1 DEF ReadOf, Read, b
<1>5. /\ PollRead("DExtra", b) = Reading("OUT", b.place, Nowhere)
      /\ b.length = 11 => ConnectRead("DExtra", b) =
             Reading(IF b.letter = Blank THEN "UNLINK" ELSE "LINK1", b.place, Only(b.letter))
      /\ b.length = 14 /\ b.word \in {"ACK", "NAK"} =>
             ConnectRead("DExtra", b) = Reading(b.word, b.place, Only(b.letter))
  BY DEF PollRead, ConnectRead, Answer
<1> QED
  BY <1>1, <1>3, <1>4, <1>5 DEF Meant, Reading, Only

LEMMA DPlusMeant ==
    ASSUME NEW m \in Message, Sent(m), m.protocol = "DPlus"
    PROVE  Meant(m, ReadOf(m))
<1> DEFINE b == Laid(m)
<1>1. m.sort \in {"OUT", "LINK1", "LINK2", "UNLINK", "ACK", "NAK"}
  BY SortsAssumption DEF Message, Sent
<1>2. b = DPlusBytes(m)
  BY DEF Laid
<1>3. /\ m.sort = "OUT" => b.length = 3
      /\ m.sort = "LINK1" => b.length = 5 /\ b.word = "1"
      /\ m.sort = "UNLINK" => b.length = 5 /\ b.word = "0"
      /\ m.sort = "LINK2" => b.length = 28 /\ b.place.name = m.repeater.name
      /\ m.sort = "ACK" => b.length = 8 /\ b.word = "OKRW"
      /\ m.sort = "NAK" => b.length = 8 /\ b.word = "BUSY"
  BY <1>2 DEF DPlusBytes, Bytes, Only7
<1> HIDE DEF b
<1>4. ReadOf(m) = IF b.length \in {3} THEN PollRead("DPlus", b)
                  ELSE IF b.length \in {5, 8, 28} THEN ConnectRead("DPlus", b) ELSE Unread
  <2>1. PollLengths("DPlus") = {3} /\ ConnectLengths("DPlus") = {5, 8, 28}
    BY DEF PollLengths, ConnectLengths
  <2> QED
    BY <2>1 DEF ReadOf, Read, b
<1>5. /\ PollRead("DPlus", b) = Reading("OUT", Nowhere, Nowhere)
      /\ b.length = 5 => ConnectRead("DPlus", b) =
             Reading(IF b.word = "1" THEN "LINK1" ELSE "UNLINK", Nowhere, Nowhere)
      /\ b.length = 8 => ConnectRead("DPlus", b) =
             Reading(IF b.word = "OKRW" THEN "ACK" ELSE "NAK", Nowhere, Nowhere)
      /\ b.length = 28 => ConnectRead("DPlus", b) = Reading("LINK2", b.place, Nowhere)
  BY DEF PollRead, ConnectRead
<1> QED
  BY <1>1, <1>3, <1>4, <1>5 DEF Meant, Reading

(* A DCS poll is read as one in the other direction, or not at all.        *)
LEMMA DCSMeant ==
    ASSUME NEW m \in Message, Sent(m), m.protocol = "DCS", ReadOf(m).sort # "THROWN"
    PROVE  Meant(m, ReadOf(m))
<1> DEFINE b == Laid(m)
<1>1. m.sort \in {"OUT", "IN", "LINK1", "UNLINK", "ACK", "NAK"} /\ m.reflector \in Place
  BY SortsAssumption DEF Message, Sent
<1>2. b = DCSControlBytes(m)
  BY DEF Laid
<1>3. /\ b.place = m.repeater
      /\ m.sort = "OUT" => b.length = 17 /\ b.word = "ZeroAt8"
      /\ m.sort = "IN" => b.length = 22
      /\ m.sort = "LINK1" => b.length = 519
      /\ m.sort = "UNLINK" => b.length = 19
      /\ m.sort \in {"ACK", "NAK"} => b.length = 14 /\ b.word = m.sort
      /\ m.sort \in {"IN", "LINK1"} => b.name = m.reflector.name /\ b.letter = m.reflector.letter
  BY <1>1, <1>2 DEF DCSControlBytes, Bytes
<1> HIDE DEF b
<1>4. ReadOf(m) = IF b.length \in {17, 22} THEN PollRead("DCS", b)
                  ELSE IF b.length \in {14, 19, 519} THEN ConnectRead("DCS", b) ELSE Unread
  <2>1. PollLengths("DCS") = {17, 22} /\ ConnectLengths("DCS") = {14, 19, 519}
    BY DEF PollLengths, ConnectLengths
  <2> QED
    BY <2>1 DEF ReadOf, Read, b
<1>5. /\ b.length = 17 /\ b.word = "ZeroAt8" => PollRead("DCS", b) = Thrown
      /\ b.length = 22 => PollRead("DCS", b) = Reading("OUT", b.place, Module(b))
      /\ b.length = 519 => ConnectRead("DCS", b) = Reading("LINK1", b.place, Module(b))
      /\ b.length = 19 => ConnectRead("DCS", b) = Reading("UNLINK", b.place, Module(b))
      /\ b.length = 14 /\ b.word \in {"ACK", "NAK"} =>
             ConnectRead("DCS", b) = Reading(b.word, b.place, Nowhere)
  BY DEF PollRead, ConnectRead, Answer
<1>6. m.sort \in {"IN", "LINK1"} => Module(b) = m.reflector
  BY <1>1, <1>3 DEF Module, Place
<1>7. Thrown.sort = "THROWN"
  BY DEF Thrown, Reading
<1> QED
  BY <1>1, <1>3, <1>4, <1>5, <1>6, <1>7, SortsAssumption DEF Meant, Reading

ControlInv ==
    /\ written \in Message /\ Sent(written)
    /\ phase = "read" => got = ReadOf(written) /\ got.sort # "THROWN"

LEMMA ControlInvMeant == ControlInv /\ phase = "read" => Meant(written, got)
BY DExtraMeant, DPlusMeant, DCSMeant DEF ControlInv, Message

LEMMA ControlStepInv == ControlInv /\ [ControlNext]_controlVars => ControlInv'
<1> SUFFICES ASSUME ControlInv, [ControlNext]_controlVars PROVE ControlInv'
  OBVIOUS
<1>1. CASE UNCHANGED controlVars
  BY <1>1 DEF controlVars, ControlInv, ReadOf, Sent
<1>2. CASE Crosses
  BY <1>2 DEF Crosses, ControlInv, ReadOf, Sent
<1>3. CASE AnswerPoll
  <2>1. got.reflector \in Place /\ got.repeater = written.repeater
    BY <1>3, ControlInvMeant DEF AnswerPoll, Meant
  <2>2. written' \in Message /\ written'.sort = "OUT" /\ phase' = "sent"
    BY <1>3, <2>1, SortsAssumption DEF AnswerPoll, ControlInv, Message
  <2> QED
    BY <2>2 DEF ControlInv, Sent
<1> QED
  BY <1>1, <1>2, <1>3 DEF ControlNext

(* What a gateway reads of a connect or poll is what another one meant,    *)
(* through every answer and in every protocol.                             *)
THEOREM ControlReadAsMeant == ControlSpec => []ReadAsMeant
<1>1. ControlInit => ControlInv
  BY DEF ControlInit, ControlInv
<1>2. ControlInv => ReadAsMeant
  BY ControlInvMeant DEF ReadAsMeant, Meant
<1> QED
  BY <1>1, <1>2, ControlStepInv, PTL DEF ControlSpec

---------------------------------------------------------------------------
(* WireFrames: a header and a voice frame, gateway after gateway *)

(* A stream number survives being laid out and read back, turned round or  *)
(* not: it is never 0, as that takes two zero bytes.                       *)
LEMMA IdNeverZero ==
    ASSUME NEW p \in Wires, NEW id \in Nat \ {0}
    PROVE  IdRead(p, IdBytes(p, id)) \in Nat \ {0}
<1> DEFINE high == id \div Base
           low == id % Base
<1>1. high \in Nat /\ low \in Nat /\ id = high * Base + low
  BY BaseAssumption
<1>2. Base \in Nat /\ Base > 0
  BY BaseAssumption
<1>3. High(id) = high /\ Low(id) = low
  BY DEF High, Low
<1>4. IdRead(p, IdBytes(p, id)) \in {high * Base + low, low * Base + high}
  BY <1>3 DEF IdRead, IdBytes
<1> HIDE DEF high, low
<1>5. high * Base \in Nat /\ low * Base \in Nat
  BY <1>1, <1>2
<1>6. high > 0 \/ low > 0
  <2> SUFFICES ASSUME high = 0, low = 0 PROVE FALSE
    BY <1>1
  <2>1. high * Base = 0
    BY <1>2
  <2> QED
    BY <1>1, <2>1
<1>7. /\ high > 0 => high * Base > 0
      /\ low > 0 => low * Base > 0
  BY <1>1, <1>2
<1> QED
  BY <1>1, <1>4, <1>5, <1>6, <1>7

WireInv ==
    /\ StreamArrives
    /\ held.header.id \in Nat \ {0} /\ original.voice.mark \in Marks

LEMMA MarksTell ==
    ASSUME NEW s, s.voice.mark \in Marks, NEW p \in Wires
    PROVE  TakenForWhatTheyAre(p, s)
BY DEF TakenForWhatTheyAre, SaysHeader, Lead, Marks, HeaderMark, Wires

LEMMA WireInitInv == WireInit => WireInv
<1> SUFFICES ASSUME WireInit PROVE WireInv
  OBVIOUS
<1>1. PICK id \in StreamNumbers, m \in Marks, calls \in Calls, flags \in Flags, bands \in Bands :
          original = [header |-> [id |-> id, calls |-> calls, flags |-> flags, bands |-> bands],
                      voice  |-> [id |-> id, mark |-> m, data |-> Speech, bands |-> bands]]
  BY DEF WireInit
<1>2. id \in Nat \ {0}
  BY BaseAssumption DEF StreamNumbers
<1> QED
  BY <1>1, <1>2, MarksTell DEF WireInit, WireInv, StreamArrives

LEMMA HopInv ==
    ASSUME WireInv, NEW p \in Wires, Hop(p)
    PROVE  WireInv'
<1>1. /\ held'.header.id = IdRead(p, IdBytes(p, held.header.id))
      /\ held'.voice.id = held'.header.id
      /\ held'.header.calls = held.header.calls
      /\ held'.voice.mark = held.voice.mark
      /\ ~IsEnd(held.voice.mark) => held'.voice.data = held.voice.data
  <2>1. CASE p = "DCS"
    BY <2>1 DEF Hop, Passed, DCSRead, DCSBytes, HeaderRead, HeaderBytes, VoiceRead, VoiceBytes,
                DataRead, Payload, WireInv, StreamArrives
  <2>2. CASE p # "DCS"
    BY <2>2 DEF Hop, Passed, HeaderRead, HeaderBytes, VoiceRead, VoiceBytes,
                DataRead, Payload, WireInv, StreamArrives
  <2> QED
    BY <2>1, <2>2
<1>2. held'.header.id \in Nat \ {0}
  BY <1>1, IdNeverZero DEF WireInv
<1>3. UNCHANGED original
  BY DEF Hop
<1>4. \A q \in Wires : TakenForWhatTheyAre(q, held')
  BY <1>1, MarksTell DEF WireInv, StreamArrives
<1> QED
  BY <1>1, <1>2, <1>3, <1>4 DEF WireInv, StreamArrives

(* A stream that crosses any number of gateways over any of the protocols  *)
(* keeps its number, its end, its callsigns and its speech.                *)
THEOREM StreamsArrive == WireSpec => []StreamArrives
<1>1. WireInv /\ [WireNext]_wireVars => WireInv'
  <2> SUFFICES ASSUME WireInv, [WireNext]_wireVars PROVE WireInv'
    OBVIOUS
  <2>1. CASE UNCHANGED wireVars
    BY <2>1 DEF wireVars, WireInv, StreamArrives
  <2> QED
    BY <2>1, HopInv DEF WireNext
<1>2. WireInv => StreamArrives
  BY DEF WireInv
<1> QED
  BY WireInitInv, <1>1, <1>2, PTL DEF WireSpec

(* Whatever frame or control message a gateway writes, the next one reads  *)
(* as what it was written for, by every protocol (get...Data, set...Data). *)
THEOREM FramesReadAsWritten == WireSpec /\ ControlSpec => []ReadAsWritten
<1>1. StreamArrives /\ ReadAsMeant => ReadAsWritten
  BY DEF ReadAsWritten
<1> QED
  BY StreamsArrive, ControlReadAsMeant, <1>1, PTL

---------------------------------------------------------------------------
(* TimeServer: what the words say *)

TakenFor(said, t) == t \in Heard(said) /\ \A u \in Heard(said) : u % 720 = t % 720

(* The hour the minutes belong to: the one that runs or, before it, the    *)
(* next one                                                                *)
HourOf(h, up) == IF up THEN h + 1 ELSE h

(* Words that name that hour, to the half of the day at least, name the    *)
(* time.                                                                   *)
LEMMA WordsRight ==
    ASSUME NEW h \in 0..23, NEW m \in Quarters, NEW up \in BOOLEAN, up => m # 0,
           NEW k \in 0..23, k % 12 = HourOf(h, up) % 12, NEW p \in 0..2,
           p = 1 => HourOf(h, up) % 24 < 12, p = 2 => HourOf(h, up) % 24 >= 12
    PROVE  TakenFor(Words(k, up, m, p), h * 60 + m)
<1> DEFINE said == Words(k, up, m, p)
           after(u) == u + (IF up THEN 60 - m ELSE 1440 - m)
           t == h * 60 + m
<1>1. said.hour = k /\ said.up = up /\ said.min = m /\ said.part = p
  BY DEF Words
<1>2. k # NoHour
  BY NoHourAssumption
<1>3. \A u : u \in Heard(said) <=>
         /\ u \in 0..1439 /\ after(u) % 60 = 0 /\ (after(u) \div 60) % 12 = k % 12
         /\ p = 1 => (after(u) \div 60) % 24 < 12
         /\ p = 2 => (after(u) \div 60) % 24 >= 12
  <2> HIDE DEF said
  <2> QED
    BY <1>1, <1>2 DEF Heard
<1>4. m \in {0, 15, 30, 45}
  BY DEF Quarters
<1>5. t \in Heard(said)
  <2>1. t \in 0..1439
    BY <1>4
  <2>2. CASE up
    <3>1. after(t) = (h + 1) * 60
      BY <1>4, <2>2
    <3>2. after(t) % 60 = 0 /\ after(t) \div 60 = h + 1
      BY <3>1
    <3> HIDE DEF after, t, said
    <3> QED
      BY <1>3, <2>1, <2>2, <3>2 DEF HourOf
  <2>3. CASE ~up
    <3>1. after(t) = (h + 24) * 60
      BY <1>4, <2>3
    <3>2. after(t) % 60 = 0 /\ after(t) \div 60 = h + 24
      BY <3>1
    <3>3. (h + 24) % 12 = h % 12 /\ (h + 24) % 24 = h % 24
      OBVIOUS
    <3> HIDE DEF after, t, said
    <3> QED
      BY <1>3, <2>1, <2>3, <3>2, <3>3 DEF HourOf
  <2> QED
    BY <2>2, <2>3
<1>6. ASSUME NEW u \in Heard(said)
      PROVE  u % 720 = t % 720
  <2> DEFINE q == after(u) \div 60
  <2>1. u \in 0..1439 /\ after(u) % 60 = 0 /\ q % 12 = HourOf(h, up) % 12
    BY <1>3
  <2>2. after(u) = 60 * q /\ q \in Nat
    <3>1. after(u) \in Nat
      BY <1>4, <2>1
    <3> HIDE DEF after
    <3> QED
      BY <2>1, <3>1
  <2>3. CASE up
    <3>1. u = 60 * q - 60 + m
      BY <1>4, <2>1, <2>2, <2>3
    <3>2. q % 12 = (h + 1) % 12
      BY <2>1, <2>3 DEF HourOf
    <3> HIDE DEF q
    <3> QED
      BY <1>4, <2>1, <2>2, <3>1, <3>2, SMTT(40)
  <2>4. CASE ~up
    <3>1. u = 60 * q - 1440 + m
      BY <1>4, <2>1, <2>2, <2>4
    <3>2. q % 12 = h % 12
      BY <2>1, <2>4 DEF HourOf
    <3> HIDE DEF q
    <3> QED
      BY <1>4, <2>1, <2>2, <3>1, <3>2
  <2> QED
    BY <2>3, <2>4
<1> QED
  BY <1>5, <1>6 DEF TakenFor

(* The same without a word for the half of the day                         *)
LEMMA WordsAlone ==
    ASSUME NEW h \in 0..23, NEW m \in Quarters, NEW up \in BOOLEAN, up => m # 0,
           NEW k \in 0..23, k % 12 = HourOf(h, up) % 12
    PROVE  TakenFor(Words(k, up, m, 0), h * 60 + m)
<1> DEFINE p == 0
<1>1. p \in 0..2 /\ p # 1 /\ p # 2
  OBVIOUS
<1> HIDE DEF p
<1>2. TakenFor(Words(k, up, m, p), h * 60 + m)
  BY <1>1, WordsRight
<1> QED
  BY <1>2 DEF p

(* In every language, but for the French quarter to midnight               *)
LEMMA SaidRight ==
    ASSUME NEW l \in Languages, NEW h \in 0..23, NEW m \in Quarters,
           ~(l \in {"FRANCAIS", "FRANCAIS_2"} /\ h = 23 /\ m = 45)
    PROVE  TakenFor(Said(l, h, m), h * 60 + m)
<1> DEFINE next == IF h = 23 THEN 0 ELSE h + 1
<1>1. m \in {0, 15, 30, 45}
  BY DEF Quarters
<1>2. Half(h) \in 0..2 /\ (Half(h) = 1 => h % 24 < 12) /\ (Half(h) = 2 => h % 24 >= 12)
  BY DEF Half
<1>3. /\ next \in 0..23 /\ next % 12 = (h + 1) % 12 /\ next = (h + 1) % 24
      /\ h % 12 \in 0..23 /\ (h % 12) % 12 = h % 12
      /\ next % 12 \in 0..23 /\ (next % 12) % 12 = (h + 1) % 12
  OBVIOUS
<1>4. \A k \in 0..23 : ToNoon(k) \in 0..23 /\ ToNoon(k) % 12 = k % 12
  BY DEF ToNoon
<1>5. NextHour(h) = next
  BY DEF NextHour
<1> HIDE DEF next
<1>6. CASE l \in {"ENGLISH_UK_1", "ENGLISH_US_1"}
  <2>1. Said(l, h, m) = Words(h % 12, FALSE, m, Half(h))
    BY <1>6 DEF Said, EnGB1, EnUS1
  <2> QED
    <3>1. HourOf(h, FALSE) = h /\ h % 12 \in 0..23 /\ (h % 12) % 12 = h % 12
      BY <1>3 DEF HourOf
    <3> QED
      BY <1>2, <2>1, <3>1, WordsRight
<1>7. CASE l \in {"ENGLISH_UK_2", "ENGLISH_US_2"}
  <2> DEFINE k == (IF m = 45 THEN next ELSE h) % 12
             up == m = 45
  <2>1. Said(l, h, m) = Words(k, up, m, 0)
    BY <1>5, <1>7 DEF Said, EnGB2, EnUS2
  <2>2. up \in BOOLEAN /\ (up => m # 0)
    BY <1>1
  <2>3. k \in 0..23 /\ k % 12 = HourOf(h, up) % 12
    BY <1>3 DEF HourOf
  <2> HIDE DEF k, up
  <2> QED
    BY <2>1, <2>2, <2>3, WordsAlone
<1>8. CASE l = "DEUTSCH_1"
  <2> DEFINE k == h
             up == FALSE
  <2>1. Said(l, h, m) = Words(k, up, m, 0)
    BY <1>5, <1>8 DEF Said, DeDE1
  <2>2. up \in BOOLEAN /\ (up => m # 0)
    BY <1>1
  <2>3. k \in 0..23 /\ k % 12 = HourOf(h, up) % 12
    BY <1>3 DEF HourOf
  <2> HIDE DEF k, up
  <2> QED
    BY <2>1, <2>2, <2>3, WordsAlone
<1>9. CASE l = "DEUTSCH_2"
  <2> DEFINE k == ToNoon(IF m >= 30 THEN next ELSE h)
             up == m >= 30
  <2>1. Said(l, h, m) = Words(k, up, m, 0)
    BY <1>5, <1>9 DEF Said, DeDE2
  <2>2. up \in BOOLEAN /\ (up => m # 0)
    BY <1>1
  <2>3. k \in 0..23 /\ k % 12 = HourOf(h, up) % 12
    BY <1>3, <1>4 DEF HourOf
  <2> HIDE DEF k, up
  <2> QED
    BY <2>1, <2>2, <2>3, WordsAlone
<1>10. CASE l \in {"FRANCAIS", "FRANCAIS_2"}
  <2> DEFINE k == ToNoon(IF m = 45 THEN next ELSE h)
             up == m = 45
  <2>1. Said(l, h, m) = Words(k, up, m, 0)
    BY <1>3, <1>10 DEF Said, FrFR, next
  <2>2. up \in BOOLEAN /\ (up => m # 0)
    BY <1>1
  <2>3. k \in 0..23 /\ k % 12 = HourOf(h, up) % 12
    BY <1>3, <1>4 DEF HourOf
  <2> HIDE DEF k, up
  <2> QED
    BY <2>1, <2>2, <2>3, WordsAlone
<1>11. CASE l \in {"NEDERLANDS", "SVENSKA", "NORSK"}
  <2> DEFINE k == (IF m >= 30 THEN next ELSE h) % 12
             up == m >= 30
  <2>1. Said(l, h, m) = Words(k, up, m, 0)
    BY <1>5, <1>11 DEF Said, NlNL, SeSE, NoNO
  <2>2. up \in BOOLEAN /\ (up => m # 0)
    BY <1>1
  <2>3. k \in 0..23 /\ k % 12 = HourOf(h, up) % 12
    BY <1>3 DEF HourOf
  <2> HIDE DEF k, up
  <2> QED
    BY <2>1, <2>2, <2>3, WordsAlone
<1>12. CASE l = "ESPANOL"
  <2> DEFINE k == IF m = 45 THEN next ELSE h
             p == IF k \in {0, 12} THEN 0 ELSE Half(k)
             up == m = 45
  <2>1. Said(l, h, m) = Words(ToNoon(k), up, m, p)
    BY <1>3, <1>12 DEF Said, EsES
  <2>2. up \in BOOLEAN /\ (up => m # 0)
    OBVIOUS
  <2>3. k \in 0..23 /\ k % 12 = HourOf(h, up) % 12 /\ k % 24 = HourOf(h, up) % 24
    BY <1>3 DEF HourOf
  <2>4. p \in 0..2 /\ (p = 1 => HourOf(h, up) % 24 < 12) /\ (p = 2 => HourOf(h, up) % 24 >= 12)
    <3> HIDE DEF k, up
    <3> QED
      BY <2>3 DEF Half
  <2> HIDE DEF k, p, up
  <2>5. ToNoon(k) \in 0..23 /\ ToNoon(k) % 12 = HourOf(h, up) % 12
    BY <1>4, <2>3
  <2> QED
    BY <2>1, <2>2, <2>4, <2>5, WordsRight, ZenonT(40)
<1>13. CASE l = "PORTUGUES"
  <2> DEFINE k == ToNoon(IF m = 45 THEN next ELSE h)
             up == m = 45
  <2>1. Said(l, h, m) = Words(k, up, m, 0)
    BY <1>3, <1>13 DEF Said, PtPT
  <2>2. up \in BOOLEAN /\ (up => m # 0)
    BY <1>1
  <2>3. k \in 0..23 /\ k % 12 = HourOf(h, up) % 12
    BY <1>3, <1>4 DEF HourOf
  <2> HIDE DEF k, up
  <2> QED
    BY <2>1, <2>2, <2>3, WordsAlone
<1> QED
  BY <1>6, <1>7, <1>8, <1>9, <1>10, <1>11, <1>12, <1>13 DEF Languages

(* What is shown                                                           *)
LEMMA ShownRight ==
    ASSUME NEW l \in Languages, NEW h \in 0..23, NEW m \in Quarters
    PROVE  LET shown == Shown(l, h, m)
           IN  shown.hour % 12 = h % 12 /\ shown.min = m /\ (shown.part = 0 => shown.hour = h)
BY DEF Shown, Half

(* The time the thread keeps, and what it has done in this minute          *)
TimeTypes ==
    /\ hour \in 0..23 /\ min \in Quarters /\ passing \in BOOLEAN
    /\ language \in Languages /\ interval \in {15, 30, 60}
    /\ timePhase \in {"loading", "waiting", "sending"} /\ looked \in BOOLEAN

SentOnTime == timePhase = "sending" => at.hour \in 0..23 /\ at.min \in Quarters

(* lastMin is another minute until the thread has looked, and this one     *)
(* after that; a sending begins in a quarter and ends before the next.     *)
OwnMinute ==
    /\ looked => lastMin = Now
    /\ ~looked => announced = 0 /\ (lastMin # Now \/ (missable /\ Now = 0))
    /\ timePhase = "sending" /\ ~looked => passing
    /\ looked /\ ~passing /\ min % interval = 0 /\ ~(missable /\ min = 0) => announced = 1

TimeInv == TimeTypes /\ SentOnTime /\ OwnMinute

LEMMA TimeInitInv == TimeInit => TimeInv
BY DEF TimeInit, TimeInv, TimeTypes, SentOnTime, OwnMinute, Now, Between, Quarters

LEMMA MinuteInv ==
    ASSUME TimeInv, Minute
    PROVE  TimeInv'
<1>1. TimeTypes'
  <2>1. (min + 15) % 60 \in Quarters /\ (hour + 1) % 24 \in 0..23
    BY DEF TimeInv, TimeTypes, Quarters
  <2>2. hour' \in 0..23 /\ min' \in Quarters /\ passing' \in BOOLEAN
    BY <2>1 DEF Minute, TimeInv, TimeTypes
  <2> QED
    BY <2>2 DEF Minute, TimeInv, TimeTypes
<1>2. SentOnTime'
  BY DEF Minute, TimeInv, SentOnTime
<1>3. CASE passing
  <2>1. looked /\ timePhase # "sending" /\ lastMin = Between
    BY <1>3 DEF Minute, TimeInv, OwnMinute, Now
  <2>2. Now' \in Quarters
    BY <1>1, <1>3 DEF Minute, Now, TimeTypes
  <2>3. lastMin' # Now'
    BY <2>1, <2>2 DEF Minute, Between, Quarters
  <2> QED
    BY <1>1, <1>2, <2>1, <2>3 DEF Minute, TimeInv, OwnMinute
<1>4. CASE ~passing
  <2>1. looked /\ lastMin = min
    BY <1>4 DEF Minute, TimeInv, OwnMinute, Now
  <2>2. Now' = Between /\ passing'
    BY <1>4 DEF Minute, Now
  <2>3. lastMin' # Now'
    BY <2>1, <2>2 DEF Minute, TimeInv, TimeTypes, Between, Quarters
  <2> QED
    BY <1>1, <1>2, <2>2, <2>3 DEF Minute, TimeInv, OwnMinute
<1> QED
  BY <1>3, <1>4 DEF TimeInv, TimeTypes

LEMMA LookInv ==
    ASSUME TimeInv, Look
    PROVE  TimeInv'
<1>1. /\ timePhase = "waiting" /\ looked' /\ lastMin' = Now
      /\ UNCHANGED <<hour, min, passing, language, interval, missable>> /\ Now' = Now
  BY DEF Look, Now
<1>2. CASE Due
  <2>1. timePhase' = "sending" /\ at' = [hour |-> hour, min |-> Now] /\ announced' = announced + 1
    BY <1>2 DEF Look, Announce
  <2>2. Now \in Quarters /\ lastMin # Now
    BY <1>2 DEF Due
  <2>3. ~looked /\ announced = 0
    BY <2>2 DEF TimeInv, OwnMinute
  <2>4. looked' = TRUE
    BY DEF Look
  <2> QED
    BY <1>1, <2>1, <2>2, <2>3, <2>4 DEF TimeInv, TimeTypes, SentOnTime, OwnMinute
<1>3. CASE ~Due
  <2>1. UNCHANGED <<timePhase, at, announced>> /\ looked' = TRUE
    BY <1>3 DEF Look, Announce
  <2>2. ASSUME ~passing, min % interval = 0, ~(missable /\ min = 0)
        PROVE  announced = 1
    <3>1. Now = min /\ Now \in Quarters
      BY <2>2 DEF Now, TimeInv, TimeTypes
    <3>2. lastMin = Now
      BY <1>3, <2>2, <3>1 DEF Due
    <3>3. looked
      BY <2>2, <3>1, <3>2 DEF TimeInv, OwnMinute
    <3> QED
      BY <2>2, <3>3 DEF TimeInv, OwnMinute
  <2> QED
    BY <1>1, <2>1, <2>2 DEF TimeInv, TimeTypes, SentOnTime, OwnMinute
<1> QED
  BY <1>2, <1>3

LEMMA TimeStepInv == TimeInv /\ [TimeNext]_timeVars => TimeInv'
<1> SUFFICES ASSUME TimeInv, [TimeNext]_timeVars PROVE TimeInv'
  OBVIOUS
<1>1. CASE UNCHANGED timeVars
  BY <1>1 DEF timeVars, TimeInv, TimeTypes, SentOnTime, OwnMinute, Now
<1>2. CASE LoadAMBE
  BY <1>2 DEF LoadAMBE, TimeInv, TimeTypes, SentOnTime, OwnMinute, Now
<1>3. CASE SendFrame \/ SendEnds
  BY <1>3 DEF SendFrame, SendEnds, TimeInv, TimeTypes, SentOnTime, OwnMinute, Now
<1> QED
  BY <1>1, <1>2, <1>3, MinuteInv, LookInv DEF TimeNext

(* Words and text name the time a sending began at, in every language and  *)
(* at every hour.                                                          *)
THEOREM TimeIsTold == TimeSpec => []TellsTheTime
<1>1. TimeInv => TellsTheTime
  BY SaidRight, ShownRight DEF TimeInv, TimeTypes, SentOnTime, TellsTheTime, TakenFor
<1> QED
  BY TimeInitInv, TimeStepInv, <1>1, PTL DEF TimeSpec

(* Each interval is announced, and once: however long a sending takes and  *)
(* whenever the thread looks at the clock.                                 *)
THEOREM AnnouncedOnce == TimeSpec => OncePerInterval
<1>1. TimeInv /\ [TimeNext]_timeVars =>
          [Minute /\ ~passing /\ min % interval = 0 /\ ~(missable /\ min = 0) => announced = 1]_timeVars
  BY DEF Minute, TimeInv, OwnMinute
<1> QED
  BY TimeInitInv, TimeStepInv, <1>1, PTL DEF TimeSpec, OncePerInterval

---------------------------------------------------------------------------
(* DRats: sequences of characters *)

Text == Seq(Nat)
Least(a, b) == IF a < b THEN a ELSE b

(* A function on 1..n is a sequence of n characters.                       *)
LEMMA FunctionIsText ==
    ASSUME NEW n \in Nat, NEW f \in [1..n -> Nat]
    PROVE  f \in Text /\ Len(f) = n
<1>1. f \in Text
  BY SeqDef DEF Text
<1>2. Len(f) \in Nat /\ DOMAIN f = 1..Len(f) /\ DOMAIN f = 1..n
  BY <1>1, LenProperties DEF Text
<1> QED
  BY <1>1, <1>2

LEMMA FrontOfText ==
    ASSUME NEW text \in Text, NEW n \in 0..Len(text)
    PROVE  LET front == SubSeq(text, 1, n)
           IN  front \in Text /\ Len(front) = n /\ \A i \in 1..n : front[i] = text[i]
<1>1. \A i \in 1..n : text[i] \in Nat
  BY DEF Text
<1>2. n \in Nat
  BY DEF Text
<1> QED
  BY <1>1, <1>2, SubSeqProperties DEF Text

LEMMA PaddedText ==
    ASSUME NEW n \in Nat, NEW text \in Text, Len(text) <= n
    PROVE  /\ Padded(n, text) \in Text /\ Len(Padded(n, text)) = n
           /\ SubSeq(Padded(n, text), 1, Len(text)) = text
<1> DEFINE f == Padded(n, text)
<1>1. \A i \in 1..n : i <= Len(text) => text[i] \in Nat
  BY DEF Text
<1>2. f \in [1..n -> Nat]
  BY <1>1 DEF Padded, Fill
<1>3. \A i \in 1..Len(text) : f[i] = text[i]
  BY DEF Padded, Text
<1> HIDE DEF f
<1>4. f \in Text /\ Len(f) = n
  BY <1>2, FunctionIsText
<1>5. /\ SubSeq(f, 1, Len(text)) \in Text /\ Len(SubSeq(f, 1, Len(text))) = Len(text)
      /\ \A i \in 1..Len(text) : SubSeq(f, 1, Len(text))[i] = text[i]
  BY <1>3, <1>4 DEF Text
<1>6. SubSeq(f, 1, Len(text)) = text
  BY <1>5, SeqEqual DEF Text
<1> QED
  BY <1>4, <1>6 DEF f

(* What is taken of a pair is taken of its first frame, then of its second *)
LEMMA TakenOfPair ==
    ASSUME NEW first \in Text, Len(first) = 2, NEW second \in Text, Len(second) = 3,
           NEW n \in 0..5
    PROVE  /\ SubSeq(first \o second, 1, n) \in Text
           /\ SubSeq(first \o second, 1, n) =
                  SubSeq(first, 1, Least(n, 2)) \o SubSeq(second, 1, IF n < 2 THEN 0 ELSE n - 2)
<1> DEFINE k == Least(n, 2)
           m == IF n < 2 THEN 0 ELSE n - 2
           a == SubSeq(first, 1, k)
           b == SubSeq(second, 1, m)
           c == first \o second
           d == SubSeq(c, 1, n)
<1>0. k \in 0..2 /\ m \in 0..3 /\ k + m = n /\ (m > 0 => k = 2)
  BY DEF Least
<1>1. a \in Text /\ Len(a) = k /\ \A i \in 1..k : a[i] = first[i]
  <2>1. k \in 0..Len(first)
    BY <1>0
  <2> HIDE DEF k
  <2> QED
    BY <2>1, FrontOfText
<1>2. b \in Text /\ Len(b) = m /\ \A i \in 1..m : b[i] = second[i]
  <2>1. m \in 0..Len(second)
    BY <1>0
  <2> HIDE DEF m
  <2> QED
    BY <2>1, FrontOfText
<1>3. /\ c \in Text /\ Len(c) = 5
      /\ \A i \in 1..5 : c[i] = IF i <= 2 THEN first[i] ELSE second[i - 2]
  <2>1. /\ c \in Seq(Nat) /\ Len(c) = Len(first) + Len(second)
        /\ \A i \in 1..Len(first) + Len(second) :
               c[i] = IF i <= Len(first) THEN first[i] ELSE second[i - Len(first)]
    BY ConcatProperties DEF Text
  <2> HIDE DEF c
  <2> QED
    BY <2>1 DEF Text
<1> HIDE DEF c
<1>4. d \in Text /\ Len(d) = n /\ \A i \in 1..n : d[i] = c[i]
  <2>1. n \in 0..Len(c)
    BY <1>3
  <2> QED
    BY <1>3, <2>1, FrontOfText
<1> HIDE DEF a, b, d, k, m
<1>5. /\ a \o b \in Text /\ Len(a \o b) = n
      /\ \A i \in 1..n : (a \o b)[i] = IF i <= k THEN a[i] ELSE b[i - k]
  BY <1>0, <1>1, <1>2, ConcatProperties DEF Text
<1>6. ASSUME NEW i \in 1..n PROVE d[i] = (a \o b)[i]
  <2>1. CASE i <= k
    BY <1>0, <1>1, <1>3, <1>4, <1>5, <2>1
  <2>2. CASE i > k
    <3>1. k = 2 /\ i - k \in 1..m
      BY <1>0, <2>2
    <3>2. (a \o b)[i] = second[i - 2]
      BY <1>2, <1>5, <2>2, <3>1
    <3> QED
      BY <1>0, <1>3, <1>4, <2>2, <3>1, <3>2
  <2>3. i <= k \/ i > k
    BY <1>0
  <2> QED
    BY <2>1, <2>2, <2>3
<1>7. d = a \o b
  BY <1>4, <1>5, <1>6, SeqEqual DEF Text
<1> QED
  BY <1>4, <1>7 DEF a, b, c, d, k, m

(* The last end of a text, or 0                                            *)
LEMMA CutExists ==
    ASSUME NEW text \in Text, NEW E
    PROVE  \E i \in 0..Len(text) : /\ i > 0 => text[i] \in E
                                   /\ \A j \in i + 1..Len(text) : text[j] \notin E
<1> DEFINE S == {k \in 0..Len(text) : k < Len(text) => text[Len(text) - k] \in E}
<1>1. Len(text) \in Nat
  BY DEF Text
<1>2. S \subseteq Nat /\ Len(text) \in S
  BY <1>1
<1>3. Min(S) \in S /\ \A k \in S : Min(S) =< k
  BY <1>2, MinOfNaturals
<1> DEFINE i == Len(text) - Min(S)
<1>4. i \in 0..Len(text) /\ (i > 0 => text[i] \in E)
  BY <1>1, <1>3
<1>5. ASSUME NEW j \in i + 1..Len(text) PROVE text[j] \notin E
  <2>1. Len(text) - j < Min(S) /\ Len(text) - j \in 0..Len(text) /\ Len(text) - (Len(text) - j) = j
    BY <1>1, <1>3
  <2>2. Len(text) - j \notin S
    BY <1>1, <1>3, <2>1
  <2> QED
    BY <2>1, <2>2
<1> QED
  BY <1>4, <1>5

(* A text cut anywhere is the text.                                        *)
LEMMA CutText ==
    ASSUME NEW text \in Text, NEW i \in 0..Len(text)
    PROVE  /\ SubSeq(text, 1, i) \in Text /\ SubSeq(text, i + 1, Len(text)) \in Text
           /\ SubSeq(text, 1, i) \o SubSeq(text, i + 1, Len(text)) = text
<1>1. Len(text) \in Nat
  BY DEF Text
<1>2. SubSeq(text, 1, i) \in Text /\ SubSeq(text, i + 1, Len(text)) \in Text
  BY <1>1 DEF Text
<1>3. SubSeq(text, 1, i) \o SubSeq(text, i + 1, Len(text)) = SubSeq(text, 1, Len(text))
  <2>1. 1 \in 1..Len(text) + 1 /\ i \in 1 - 1..Len(text) /\ Len(text) \in i..Len(text)
    BY <1>1
  <2> QED
    BY <2>1, ConcatAdjacentSubSeq DEF Text
<1> QED
  BY <1>2, <1>3, SubSeqFull DEF Text

LEMMA ConcatText ==
    ASSUME NEW a \in Text, NEW b \in Text
    PROVE  a \o b \in Text
BY ConcatProperties DEF Text

LEMMA Associative ==
    ASSUME NEW a \in Text, NEW b \in Text, NEW c \in Text
    PROVE  (a \o b) \o c = a \o (b \o c)
BY ConcatAssociative DEF Text

(* The receiving half: what it has got is what it has handed on and what   *)
(* it keeps.                                                               *)
Rx == [state : {"first", "second"}, first : Nat \X Text, buffer : Text]
Hearing == [now : Rx, out : Text]
Got(r) == r.out \o r.now.buffer

LEMMA GotText ==
    ASSUME NEW r \in Hearing
    PROVE  r.out \in Text /\ r.now.buffer \in Text /\ Got(r) \in Text
BY ConcatText DEF Hearing, Rx, Got

LEMMA Flushes ==
    ASSUME NEW r \in Hearing
    PROVE  Flushed(r) \in Hearing /\ Got(Flushed(r)) = Got(r) /\ Flushed(r).now.state = r.now.state
<1>1. /\ Flushed(r).now = [r.now EXCEPT !.buffer = <<>>] /\ Flushed(r).out = Got(r)
      /\ Flushed(r) = [now |-> [r.now EXCEPT !.buffer = <<>>], out |-> Got(r)]
  BY DEF Flushed, Got
<1>2. <<>> \in Text /\ Got(r) \in Text /\ r.now \in Rx
  BY GotText, EmptySeq DEF Hearing, Text
<1>3. Got(r) \o <<>> = Got(r)
  BY <1>2, ConcatEmptySeq DEF Text
<1>4. [r.now EXCEPT !.buffer = <<>>] \in Rx /\ [r.now EXCEPT !.buffer = <<>>].buffer = <<>>
      /\ [r.now EXCEPT !.buffer = <<>>].state = r.now.state
  BY <1>2 DEF Rx
<1>5. Flushed(r) \in Hearing
  BY <1>1, <1>2, <1>4 DEF Hearing
<1> QED
  BY <1>1, <1>3, <1>4, <1>5 DEF Got

LEMMA StateOnly ==
    ASSUME NEW r \in Hearing
    PROVE  LET q == [r EXCEPT !.now.state = "first"]
           IN  q \in Hearing /\ q.now.state = "first" /\ Got(q) = Got(r)
BY DEF Hearing, Rx, Got

LEMMA HeaderKeeps ==
    ASSUME NEW r \in Hearing
    PROVE  /\ AfterHeader(r) \in Hearing /\ AfterHeader(r).now.state = "first"
           /\ Got(AfterHeader(r)) = Got(r)
BY StateOnly, Flushes DEF AfterHeader

LEMMA SyncKeeps ==
    ASSUME NEW r \in Hearing
    PROVE  /\ AfterSync(r) \in Hearing /\ AfterSync(r).now.state = "first"
           /\ Got(AfterSync(r)) = Got(r)
BY StateOnly DEF AfterSync

LEMMA EndKeeps ==
    ASSUME NEW r \in Hearing, r.now.state = "first", NEW seq
    PROVE  /\ AfterEnd(r, seq) \in Hearing /\ AfterEnd(r, seq).now.state = "first"
           /\ Got(AfterEnd(r, seq)) = Got(r)
BY SyncKeeps, Flushes DEF AfterEnd

LEMMA FirstKept ==
    ASSUME NEW r \in Hearing, r.now.state = "first", NEW frame \in Nat \X Text
    PROVE  LET q == AfterText(r, frame)
           IN  /\ q \in Hearing /\ q.now.state = "second" /\ q.now.first = frame
               /\ Got(q) = Got(r)
<1> DEFINE now == [state |-> "second", first |-> frame, buffer |-> r.now.buffer]
           q == AfterText(r, frame)
<1>1. q = [r EXCEPT !.now.first = frame, !.now.state = "second"]
  BY DEF AfterText
<1>2. q = [now |-> now, out |-> r.out]
  BY <1>1 DEF Hearing, Rx
<1> HIDE DEF q
<1>3. q \in Hearing
  BY <1>2, GotText DEF Hearing, Rx
<1>4. q.now.state = "second" /\ q.now.first = frame /\ Got(q) = Got(r)
  BY <1>2 DEF Got
<1> QED
  BY <1>3, <1>4 DEF q

(* A second frame completes the pair; whatever of the text is then handed  *)
(* on, what has been got has grown by what the count took.                 *)
LEMMA SecondTaken ==
    ASSUME NEW r \in Hearing, r.now.state = "second",
           r.now.first[1] \in 0..5, Len(r.now.first[2]) = 2,
           NEW frame \in Nat \X Text, Len(frame[2]) = 3
    PROVE  LET q == AfterText(r, frame)
               taken == SubSeq(r.now.first[2] \o frame[2], 1, r.now.first[1])
           IN  q \in Hearing /\ q.now.state = "first" /\ taken \in Text /\ Got(q) = Got(r) \o taken
<1> DEFINE first == r.now.first
           taken == SubSeq(first[2] \o frame[2], 1, first[1])
           text == r.now.buffer \o taken
           IsCut(i) == /\ i > 0 => text[i] \in ends
                      /\ \A j \in i + 1..Len(text) : text[j] \notin ends
           cut == CHOOSE i \in 0..Len(text) : IsCut(i)
           q == AfterText(r, frame)
<1>1. first[2] \in Text /\ frame[2] \in Text /\ r.now.buffer \in Text /\ r.out \in Text
  BY DEF Hearing, Rx
<1>2. taken \in Text
  BY <1>1, TakenOfPair
<1>3. text \in Text
  <2> HIDE DEF taken
  <2> QED
    BY <1>1, <1>2, ConcatText
<1>4. q = [now |-> [state |-> "first", first |-> <<0, <<>>>>,
                    buffer |-> SubSeq(text, cut + 1, Len(text))],
           out |-> r.out \o SubSeq(text, 1, cut)]
  BY DEF AfterText
<1> HIDE DEF taken, text, q
<1>5. cut \in 0..Len(text)
  BY <1>3, CutExists
<1> HIDE DEF cut
<1>6. /\ SubSeq(text, 1, cut) \in Text /\ SubSeq(text, cut + 1, Len(text)) \in Text
      /\ SubSeq(text, 1, cut) \o SubSeq(text, cut + 1, Len(text)) = text
  BY <1>3, <1>5, CutText
<1>7. <<0, <<>>>> \in Nat \X Text
  BY EmptySeq DEF Text
<1>8. q \in Hearing /\ q.now.state = "first"
  <2>1. r.out \o SubSeq(text, 1, cut) \in Text
    BY <1>1, <1>6, ConcatText
  <2> QED
    BY <1>4, <1>6, <1>7, <2>1 DEF Hearing, Rx
<1>9. Got(q) = Got(r) \o taken
  <2>1. Got(q) = (r.out \o SubSeq(text, 1, cut)) \o SubSeq(text, cut + 1, Len(text))
    BY <1>4 DEF Got
  <2>2. @ = r.out \o (SubSeq(text, 1, cut) \o SubSeq(text, cut + 1, Len(text)))
    BY <1>1, <1>6, Associative
  <2>3. @ = r.out \o (r.now.buffer \o taken)
    BY <1>6 DEF text
  <2>4. @ = Got(r) \o taken
    BY <1>1, <1>2, Associative DEF Got
  <2> QED
    BY <2>1, <2>2, <2>3, <2>4
<1> QED
  BY <1>2, <1>8, <1>9 DEF q, taken

Rest == SubSeq(readBuffer, readPos + 1, Len(readBuffer))

(* The sending half, and what its first frame has told the receiving one   *)
DRatsInv ==
    /\ DRatsTypeOK /\ rx \in Rx /\ delivered \in Text
    /\ readEnd => readBuffer # <<>>
    /\ sending => /\ readEnd /\ readPos < Len(readBuffer)
                  /\ readState = "second" <=> seqNo # 0 /\ seqNo % 2 = 0
    /\ ~sending => readPos = 0
    /\ rx.state = "second" <=> sending /\ readState = "second"
    /\ rx.state = "second" => /\ rx.first[1] \in 2..5 /\ Len(rx.first[2]) = 2
                              /\ ~torn => rx.first[1] = Least(Left + 2, 5)
    /\ TextArrives

(* The end of a text from some place on is what comes next and the rest.   *)
LEMMA RestSplits ==
    ASSUME NEW text \in Text, NEW pos \in 0..Len(text), NEW k \in 0..Len(text) - pos
    PROVE  LET next == SubSeq(text, pos + 1, pos + k)
               rest == SubSeq(text, pos + k + 1, Len(text))
           IN  /\ next \in Text /\ Len(next) = k /\ rest \in Text
               /\ SubSeq(text, pos + 1, Len(text)) = next \o rest
<1>1. Len(text) \in Nat /\ pos \in Nat /\ k \in Nat /\ pos + k <= Len(text)
  BY DEF Text
<1>2. SubSeq(text, pos + 1, pos + k) \in Text /\ Len(SubSeq(text, pos + 1, pos + k)) = k
  <2>1. pos + 1 \in Int /\ pos + k \in Int /\ \A i \in pos + 1..pos + k : text[i] \in Nat
    BY <1>1 DEF Text
  <2> QED
    BY <1>1, <2>1, SubSeqProperties DEF Text
<1>3. SubSeq(text, pos + k + 1, Len(text)) \in Text
  <2>1. pos + k + 1 \in Int /\ Len(text) \in Int /\ \A i \in pos + k + 1..Len(text) : text[i] \in Nat
    BY <1>1 DEF Text
  <2> QED
    BY <2>1, SubSeqProperties DEF Text
<1>4. SubSeq(text, pos + 1, pos + k) \o SubSeq(text, pos + k + 1, Len(text))
      = SubSeq(text, pos + 1, Len(text))
  <2> DEFINE m == pos + 1
             q == pos + k
             n == Len(text)
  <2>1. m \in 1..Len(text) + 1 /\ q \in m - 1..Len(text) /\ n \in q..Len(text)
    BY <1>1
  <2>2. text \in Seq(Nat)
    BY DEF Text
  <2> HIDE DEF m, q, n
  <2>3. SubSeq(text, m, q) \o SubSeq(text, q + 1, n) = SubSeq(text, m, n)
    BY <2>1, <2>2, ConcatAdjacentSubSeq
  <2> QED
    BY <2>3 DEF m, q, n
<1> QED
  BY <1>2, <1>3, <1>4

LEMMA TailText ==
    ASSUME NEW text \in Text, NEW pos \in 0..Len(text)
    PROVE  LET rest == SubSeq(text, pos + 1, Len(text))
           IN  /\ rest \in Text /\ Len(rest) = Len(text) - pos
               /\ \A i \in 1..Len(text) - pos : rest[i] = text[pos + i]
<1>1. /\ pos + 1 \in Int /\ Len(text) \in Int
      /\ \A i \in pos + 1..Len(text) : text[i] \in Nat
  BY DEF Text
<1> QED
  BY <1>1, SubSeqProperties DEF Text

(* The first of n characters from where the sending half is                *)
LEMMA NextOnes ==
    ASSUME readBuffer \in Text, readPos \in 0..Len(readBuffer), NEW n \in Nat
    PROVE  LET next == NextChars(n)
           IN  /\ next \in Text /\ Len(next) = Least(n, Left) /\ Left \in Nat
               /\ Rest = next \o SubSeq(readBuffer, readPos + Len(next) + 1, Len(readBuffer))
<1> DEFINE k == IF n < Left THEN n ELSE Left
<1>1. Left \in Nat /\ k \in 0..Len(readBuffer) - readPos /\ k = Least(n, Left)
  BY DEF Left, Text, Least
<1>2. NextChars(n) = SubSeq(readBuffer, readPos + 1, readPos + k)
  BY DEF NextChars
<1> HIDE DEF k
<1>3. /\ NextChars(n) \in Text /\ Len(NextChars(n)) = k
      /\ Rest = NextChars(n) \o SubSeq(readBuffer, readPos + k + 1, Len(readBuffer))
  <2>1. LET next == SubSeq(readBuffer, readPos + 1, readPos + k)
            rest == SubSeq(readBuffer, readPos + k + 1, Len(readBuffer))
        IN  /\ next \in Text /\ Len(next) = k /\ rest \in Text
            /\ SubSeq(readBuffer, readPos + 1, Len(readBuffer)) = next \o rest
    BY <1>1, RestSplits
  <2> QED
    BY <1>2, <2>1 DEF Rest
<1> QED
  BY <1>1, <1>3

Numbered(n) == [i \in 1..n |-> i]

LEMMA NumberedText ==
    ASSUME NEW n \in Nat
    PROVE  Numbered(n) \in Text /\ Len(Numbered(n)) = n
<1> DEFINE f == Numbered(n)
<1>1. f \in [1..n -> Nat]
  BY DEF Numbered
<1> HIDE DEF f
<1>2. f \in Text /\ Len(f) = n
  BY <1>1, FunctionIsText
<1> QED
  BY <1>2 DEF f

(* Characters written after others                                         *)
LEMMA NumbersGoOn ==
    ASSUME NEW g \in Nat, NEW n \in Nat
    PROVE  LET new == [i \in 1..n |-> g + i]
           IN  new \in Text /\ Len(new) = n /\ Numbered(g) \o new = Numbered(g + n)
<1> DEFINE new == [i \in 1..n |-> g + i]
           both == Numbered(g) \o new
<1>1. new \in [1..n -> Nat] /\ \A i \in 1..n : new[i] = g + i
  OBVIOUS
<1> HIDE DEF new
<1>2. new \in Text /\ Len(new) = n
  BY <1>1, FunctionIsText
<1>3. /\ Numbered(g) \in Text /\ Len(Numbered(g)) = g
      /\ Numbered(g + n) \in Text /\ Len(Numbered(g + n)) = g + n
  BY NumberedText
<1>4. /\ both \in Text /\ Len(both) = g + n
      /\ \A i \in 1..g + n : both[i] = IF i <= g THEN Numbered(g)[i] ELSE new[i - g]
  <2>1. /\ both \in Seq(Nat) /\ Len(both) = Len(Numbered(g)) + Len(new)
        /\ \A i \in 1..Len(Numbered(g)) + Len(new) :
               both[i] = IF i <= Len(Numbered(g)) THEN Numbered(g)[i] ELSE new[i - Len(Numbered(g))]
    BY <1>2, <1>3, ConcatProperties DEF Text
  <2> HIDE DEF both
  <2> QED
    BY <1>2, <1>3, <2>1 DEF Text
<1> HIDE DEF both
<1>5. ASSUME NEW i \in 1..g + n PROVE both[i] = Numbered(g + n)[i]
  <2>1. Numbered(g + n)[i] = i
    BY DEF Numbered
  <2>2. CASE i <= g
    <3>1. Numbered(g)[i] = i
      BY <2>2 DEF Numbered
    <3> QED
      BY <1>4, <2>1, <2>2, <3>1
  <2>3. CASE i > g
    <3>1. i - g \in 1..n
      BY <2>3
    <3>2. new[i - g] = i
      BY <1>1, <3>1
    <3> QED
      BY <1>4, <2>1, <2>3, <3>2
  <2>4. i <= g \/ i > g
    OBVIOUS
  <2> QED
    BY <2>2, <2>3, <2>4
<1>6. both = Numbered(g + n)
  BY <1>3, <1>4, <1>5, SeqEqual DEF Text
<1> QED
  BY <1>2, <1>6 DEF both, new

(* The end of a text from some place on, when more is added                *)
LEMMA RestGrows ==
    ASSUME NEW text \in Text, NEW new \in Text, NEW pos \in 0..Len(text)
    PROVE  SubSeq(text \o new, pos + 1, Len(text \o new)) = SubSeq(text, pos + 1, Len(text)) \o new
<1> DEFINE both == text \o new
           left == SubSeq(both, pos + 1, Len(both))
           rest == SubSeq(text, pos + 1, Len(text))
           right == rest \o new
<1>0. Len(text) \in Nat /\ Len(new) \in Nat /\ pos \in Nat
  BY DEF Text
<1>1. /\ both \in Text /\ Len(both) = Len(text) + Len(new)
      /\ \A i \in 1..Len(text) + Len(new) :
             both[i] = IF i <= Len(text) THEN text[i] ELSE new[i - Len(text)]
  BY ConcatProperties DEF Text
<1> HIDE DEF both
<1>2. /\ left \in Text /\ Len(left) = Len(both) - pos
      /\ \A i \in 1..Len(both) - pos : left[i] = both[pos + i]
  <2>1. pos \in 0..Len(both)
    BY <1>0, <1>1
  <2> QED
    BY <1>1, <2>1, TailText
<1>3. /\ rest \in Text /\ Len(rest) = Len(text) - pos
      /\ \A i \in 1..Len(text) - pos : rest[i] = text[pos + i]
  BY TailText
<1> HIDE DEF left, rest
<1>4. /\ right \in Text /\ Len(right) = Len(rest) + Len(new)
      /\ \A i \in 1..Len(rest) + Len(new) :
             right[i] = IF i <= Len(rest) THEN rest[i] ELSE new[i - Len(rest)]
  BY <1>3, ConcatProperties DEF Text
<1> HIDE DEF right
<1>5. ASSUME NEW i \in 1..Len(both) - pos PROVE left[i] = right[i]
  <2>1. CASE i <= Len(rest)
    BY <1>0, <1>1, <1>2, <1>3, <1>4, <2>1
  <2>2. CASE i > Len(rest)
    <3>1. pos + i > Len(text) /\ pos + i - Len(text) = i - Len(rest)
          /\ i \in 1..Len(rest) + Len(new) /\ pos + i \in 1..Len(text) + Len(new)
      BY <1>0, <1>1, <1>3, <2>2
    <3>2. left[i] = new[pos + i - Len(text)]
      BY <1>0, <1>1, <1>2, <3>1
    <3>3. right[i] = new[i - Len(rest)]
      BY <1>0, <1>3, <1>4, <2>2, <3>1
    <3> QED
      BY <3>1, <3>2, <3>3
  <2>3. i <= Len(rest) \/ i > Len(rest)
    BY <1>0, <1>1, <1>3
  <2> QED
    BY <2>1, <2>2, <2>3
<1>6. Len(left) = Len(right)
  BY <1>0, <1>1, <1>2, <1>3, <1>4
<1>7. left = right
  BY <1>2, <1>4, <1>5, <1>6, SeqEqual DEF Text
<1> QED
  BY <1>7 DEF both, left, rest, right

(* The sequences of a state, and TextArrives by means of them              *)
Arrived == ~torn => (Got(Receiver) \o FirstChars) \o Rest = Numbered(given)

LEMMA StateTexts ==
    ASSUME DRatsInv
    PROVE  /\ readBuffer \in Text /\ Len(readBuffer) \in Nat /\ readPos \in 0..Len(readBuffer)
           /\ Receiver \in Hearing /\ Got(Receiver) \in Text
           /\ FirstChars \in Text /\ Rest \in Text /\ Arrived
<1>1. readBuffer \in Text
  <2>1. readBuffer \in Seq(1..given) /\ 1..given \subseteq Nat
    BY DEF DRatsInv, DRatsTypeOK
  <2> QED
    BY <2>1, SeqMonotonic DEF Text
<1>2. Len(readBuffer) \in Nat /\ readPos \in 0..Len(readBuffer)
  BY <1>1 DEF DRatsInv, DRatsTypeOK, Text
<1>3. Receiver \in Hearing /\ Got(Receiver) \in Text
  BY GotText DEF DRatsInv, Receiver, Hearing
<1>4. FirstChars \in Text
  <2>1. CASE rx.state = "second"
    <3>1. rx.first[2] \in Text /\ rx.first[1] \in 2..5 /\ Len(rx.first[2]) = 2
      BY <2>1 DEF DRatsInv, Rx
    <3>2. (IF rx.first[1] < 2 THEN rx.first[1] ELSE 2) \in 0..Len(rx.first[2])
      BY <3>1
    <3> QED
      BY <2>1, <3>1, <3>2, FrontOfText DEF FirstChars
  <2>2. CASE rx.state # "second"
    BY <2>2, EmptySeq DEF FirstChars, Text
  <2> QED
    BY <2>1, <2>2
<1>5. Rest \in Text
  <2>1. Len(readBuffer) - readPos \in 0..Len(readBuffer) - readPos
    BY <1>2
  <2>2. \A j \in readPos + 1..Len(readBuffer) : readBuffer[j] \in Nat
    BY <1>1, <1>2 DEF Text
  <2> QED
    BY <1>2, <2>2, SubSeqProperties DEF Rest, Text
<1>6. Arrived
  BY DEF DRatsInv, TextArrives, Arrived, Got, Receiver, Rest, Numbered
<1> QED
  BY <1>1, <1>2, <1>3, <1>4, <1>5, <1>6

LEMMA ReadTextInv ==
    ASSUME DRatsInv, ReadText
    PROVE  DRatsInv'
<1>1. PICK n \in 1..MaxText - given, es \in SUBSET (given + 1..MaxText) :
        /\ \A e \in es : e <= given + n
        /\ given' = given + n /\ ends' = ends \cup es
        /\ readBuffer' = readBuffer \o [i \in 1..n |-> given + i]
        /\ readEnd' = (readEnd \/ es # {} \/ \E i \in DOMAIN readBuffer : readBuffer[i] \in ends)
        /\ torn' = (torn \/ (sending /\ readState = "second" /\ Left < 3))
        /\ UNCHANGED <<readPos, readState, sending, seqNo, rx, delivered>>
  BY DEF ReadText
<1> DEFINE new == [i \in 1..n |-> given + i]
<1>2. given \in Nat /\ n \in Nat /\ n >= 1 /\ given + n <= MaxText /\ given + n \in Nat
  BY DRatsAssumption DEF DRatsInv, DRatsTypeOK
<1>3. new \in Text /\ Len(new) = n /\ Numbered(given) \o new = Numbered(given + n)
  BY <1>2, NumbersGoOn
<1>4. \A i \in 1..n : new[i] \in 1..given + n
  BY <1>2
<1>5. readBuffer' = readBuffer \o new
  BY <1>1
<1> HIDE DEF new
<1>6. readBuffer' \in Seq(1..given') /\ Len(readBuffer') = Len(readBuffer) + n
  <2>1. readBuffer \in Seq(1..given + n)
    BY <1>2, SeqMonotonic DEF DRatsInv, DRatsTypeOK
  <2>2. new \in [1..n -> 1..given + n]
    <3>1. new \in [1..Len(new) -> Nat]
      BY <1>3, LenProperties DEF Text
    <3> QED
      BY <1>3, <1>4, <3>1
  <2>3. new \in Seq(1..given + n)
    BY <1>2, <2>2, SeqDef
  <2>4. /\ readBuffer \o new \in Seq(1..given + n)
        /\ Len(readBuffer \o new) = Len(readBuffer) + Len(new)
    BY <2>1, <2>3, ConcatProperties
  <2> QED
    BY <1>1, <1>3, <1>5, <2>4
<1>7. DRatsTypeOK'
  <2>1. given' \in 0..MaxText /\ ends' \subseteq 1..given'
    BY <1>1, <1>2 DEF DRatsInv, DRatsTypeOK
  <2>2. readPos' \in 0..Len(readBuffer')
    BY <1>1, <1>2, <1>6, StateTexts
  <2>3. {readEnd', sending', torn'} \subseteq BOOLEAN
    BY <1>1 DEF DRatsInv, DRatsTypeOK
  <2> QED
    BY <1>1, <1>6, <2>1, <2>2, <2>3 DEF DRatsInv, DRatsTypeOK
<1>8. Left' = Left + n /\ Left \in Nat
  BY <1>1, <1>2, <1>6, StateTexts DEF Left
<1>9. readBuffer' # <<>>
  BY <1>2, <1>6, StateTexts, EmptySeq
<1>10. ~torn' /\ rx.state = "second" => rx.first[1] = Least(Left' + 2, 5)
  <2> SUFFICES ASSUME ~torn', rx.state = "second" PROVE rx.first[1] = Least(Left' + 2, 5)
    OBVIOUS
  <2>1. ~torn /\ ~(sending /\ readState = "second" /\ Left < 3)
    BY <1>1
  <2>2. rx.first[1] = Least(Left + 2, 5) /\ Left >= 3
    BY <1>8, <2>1 DEF DRatsInv
  <2> QED
    BY <1>2, <1>8, <2>2 DEF Least
<1>11. ~torn' => (Got(Receiver) \o FirstChars) \o Rest' = Numbered(given')
  <2> SUFFICES ASSUME ~torn' PROVE (Got(Receiver) \o FirstChars) \o Rest' = Numbered(given')
    OBVIOUS
  <2>1. Rest' = Rest \o new
    BY <1>1, <1>3, <1>5, StateTexts, RestGrows, ZenonT(40) DEF Rest
  <2>2. Got(Receiver) \o FirstChars \in Text
    BY StateTexts, ConcatText
  <2>3. (Got(Receiver) \o FirstChars) \o (Rest \o new) = ((Got(Receiver) \o FirstChars) \o Rest) \o new
    BY <1>3, <2>2, StateTexts, Associative
  <2>4. (Got(Receiver) \o FirstChars) \o Rest = Numbered(given)
    BY <1>1, StateTexts DEF Arrived
  <2> QED
    BY <1>1, <1>3, <2>1, <2>3, <2>4
<1>12. TextArrives'
  BY <1>1, <1>11 DEF TextArrives, Got, Receiver, FirstChars, Rest, Numbered
<1>13. rx' \in Rx /\ delivered' \in Text
  <2>1. rx \in Rx /\ delivered \in Text
    BY DEF DRatsInv
  <2> QED
    BY <1>1, <2>1
<1>14. readEnd' => readBuffer' # <<>>
  BY <1>9
<1>15. sending' => /\ readEnd' /\ readPos' < Len(readBuffer')
                   /\ readState' = "second" <=> seqNo' # 0 /\ seqNo' % 2 = 0
  <2> SUFFICES ASSUME sending'
               PROVE  /\ readEnd' /\ readPos' < Len(readBuffer')
                      /\ readState' = "second" <=> seqNo' # 0 /\ seqNo' % 2 = 0
    OBVIOUS
  <2>1. sending /\ sending' = sending /\ readState' = readState /\ seqNo' = seqNo /\ readPos' = readPos
    BY <1>1
  <2>2. readEnd /\ readPos < Len(readBuffer) /\ (readState = "second" <=> seqNo # 0 /\ seqNo % 2 = 0)
    BY <2>1 DEF DRatsInv
  <2>3. readEnd'
    BY <1>1, <2>2
  <2>4. readPos' < Len(readBuffer')
    BY <1>2, <1>6, <2>1, <2>2, StateTexts
  <2> QED
    BY <2>1, <2>2, <2>3, <2>4
<1>16. ~sending' => readPos' = 0
  BY <1>1 DEF DRatsInv
<1>17. rx'.state = "second" <=> sending' /\ readState' = "second"
  BY <1>1 DEF DRatsInv
<1>18. rx'.state = "second" => /\ rx'.first[1] \in 2..5 /\ Len(rx'.first[2]) = 2
                               /\ ~torn' => rx'.first[1] = Least(Left' + 2, 5)
  BY <1>1, <1>10 DEF DRatsInv
<1> QED
  BY <1>7, <1>12, <1>13, <1>14, <1>15, <1>16, <1>17, <1>18 DEF DRatsInv

LEMMA StartInv ==
    ASSUME DRatsInv, Start
    PROVE  DRatsInv'
<1> DEFINE q == AfterHeader(Receiver)
<1>1. q \in Hearing /\ q.now.state = "first" /\ Got(q) = Got(Receiver)
  BY StateTexts, HeaderKeeps
<1>2. rx' = q.now /\ delivered' = q.out
  BY DEF Start, Hears
<1> HIDE DEF q
<1>3. rx' \in Rx /\ delivered' \in Text /\ rx'.state = "first" /\ Got(Receiver)' = Got(Receiver)
  BY <1>1, <1>2 DEF Hearing, Got, Receiver
<1>4. rx.state = "first" /\ readPos = 0 /\ readBuffer # <<>> /\ readEnd /\ ~sending
  BY DEF Start, DRatsInv, Rx
<1>5. readPos' = 0 /\ seqNo' = 0 /\ readState' = "first" /\ sending' /\ sending' = TRUE
  BY DEF Start
<1>6. Len(readBuffer) > 0
  BY <1>4, StateTexts, EmptySeq DEF Text
<1>7. DRatsTypeOK'
  BY <1>5, StateTexts, DRatsAssumption DEF Start, DRatsInv, DRatsTypeOK
<1>8. TextArrives'
  <2>1. FirstChars = <<>> /\ FirstChars' = <<>> /\ Rest' = Rest
    BY <1>3, <1>4, <1>5 DEF Start, FirstChars, Rest
  <2>2. Arrived'
    BY <1>3, <2>1, StateTexts DEF Start, Arrived
  <2> QED
    BY <2>2 DEF TextArrives, Arrived, Got, Receiver, Rest, Numbered
<1> QED
  BY <1>3, <1>4, <1>5, <1>6, <1>7, <1>8 DEF Start, DRatsInv

(* The number of the next frame, and which frames are second ones          *)
LEMMA NextNumber ==
    ASSUME NEW n \in 0..2 * Pairs
    PROVE  NextSeq(n, 1) = IF n = 2 * Pairs THEN 0 ELSE n + 1
<1> DEFINE m == 2 * Pairs + 1
<1>1. m \in Nat \ {0} /\ n + 1 \in 1..m /\ n \in Nat /\ m = 2 * Pairs + 1 /\ 2 * Pairs \in Nat
  BY DRatsAssumption
<1>2. NextSeq(n, 1) = (n + 1) % m
  BY DEF NextSeq
<1> HIDE DEF m
<1>3. CASE n + 1 = m
  <2>0. n = 2 * Pairs
    BY <1>1, <1>3
  <2>1. m % m = 0
    BY <1>1
  <2>2. NextSeq(n, 1) = m % m
    BY <1>2, <1>3, Zenon
  <2> QED
    BY <2>0, <2>1, <2>2, Zenon
<1>4. CASE n + 1 < m
  <2>1. (n + 1) % m = n + 1
    BY <1>1, <1>4
  <2> QED
    BY <1>1, <1>2, <1>4, <2>1
<1> QED
  BY <1>1, <1>3, <1>4

SecondNumber(n) == n # 0 /\ n % 2 = 0

LEMMA NumbersAlternate ==
    ASSUME NEW n \in 0..2 * Pairs
    PROVE  /\ NextSeq(n, 1) \in 0..2 * Pairs
           /\ SecondNumber(NextSeq(n, 1)) <=> n # 0 /\ ~SecondNumber(n)
<1>1. Pairs \in Nat \ {0} /\ n \in Nat
  BY DRatsAssumption
<1>2. CASE n = 2 * Pairs
  BY <1>1, <1>2, NextNumber DEF SecondNumber
<1>3. CASE n # 2 * Pairs
  <2>1. NextSeq(n, 1) = n + 1 /\ n < 2 * Pairs
    BY <1>1, <1>3, NextNumber
  <2> QED
    BY <1>1, <2>1 DEF SecondNumber
<1> QED
  BY <1>2, <1>3
(* What a sent frame leaves: r is the other half once it has heard it, pos *)
(* and state the sending half's place; the frame may have been the last.   *)
LEMMA SendsInv ==
    ASSUME DRatsInv, readEnd, sending, UNCHANGED <<given, ends, torn>>,
           NEW r \in Hearing, NEW pos \in readPos..Len(readBuffer), NEW state \in {"first", "second"},
           Sends(r, pos, state), r.now.state = state,
           state = "second" <=> SecondNumber(NextSeq(seqNo, 1)),
           state = "second" => /\ Len(r.now.first[2]) = 2 /\ r.now.first[1] \in 0..5
                               /\ IF pos = Len(readBuffer) THEN r.now.first[1] \in 0..2
                                  ELSE r.now.first[1] = Least(Len(readBuffer) - pos + 2, 5),
           ~torn => (Got(r) \o (IF state = "second"
                                THEN SubSeq(r.now.first[2], 1, Least(r.now.first[1], 2)) ELSE <<>>))
                        \o SubSeq(readBuffer, pos + 1, Len(readBuffer)) = Numbered(given)
    PROVE  DRatsInv'
<1>1. /\ readBuffer \in Text /\ Len(readBuffer) \in Nat /\ readPos \in 0..Len(readBuffer)
      /\ pos \in 0..Len(readBuffer) /\ pos \in Nat /\ readPos \in Nat
  <2>1. readBuffer \in Text /\ Len(readBuffer) \in Nat /\ readPos \in 0..Len(readBuffer)
    BY StateTexts
  <2> QED
    BY <2>1
<1> DEFINE begun == IF state = "second"
                    THEN SubSeq(r.now.first[2], 1, Least(r.now.first[1], 2)) ELSE <<>>
<1>2. CASE pos # Len(readBuffer)
  <2>1. /\ rx' = r.now /\ delivered' = r.out
        /\ readPos' = pos /\ readState' = state /\ seqNo' = NextSeq(seqNo, 1)
        /\ UNCHANGED <<readBuffer, readEnd, sending>>
    BY <1>2 DEF Sends, Hears
  <2>2. pos < Len(readBuffer)
    BY <1>1, <1>2
  <2>3. rx' \in Rx /\ delivered' \in Text
    BY <2>1 DEF Hearing
  <2>4. seqNo' \in 0..2 * Pairs
    BY <2>1, NumbersAlternate DEF DRatsInv, DRatsTypeOK
  <2>5. DRatsTypeOK'
    BY <1>1, <2>1, <2>4 DEF DRatsInv, DRatsTypeOK
  <2>6. Left' = Len(readBuffer) - pos
    BY <2>1 DEF Left
  <2>7. rx'.state = "second" => /\ rx'.first[1] \in 2..5 /\ Len(rx'.first[2]) = 2
                                /\ rx'.first[1] = Least(Left' + 2, 5)
    BY <1>1, <1>2, <2>1, <2>2, <2>6 DEF Least
  <2>8. readState' = "second" <=> seqNo' # 0 /\ seqNo' % 2 = 0
    BY <2>1 DEF SecondNumber
  <2>9. FirstChars' = begun
    <3>1. r.now.state = "second" => r.now.first[1] \in 2..5
      BY <2>1, <2>7
    <3>2. r.now.state = "second" => Least(r.now.first[1], 2) = 2 /\ ~(r.now.first[1] < 2)
      BY <3>1 DEF Least
    <3> QED
      BY <2>1, <3>2 DEF FirstChars
  <2>10. Got(Receiver)' = Got(r) /\ Rest' = SubSeq(readBuffer, pos + 1, Len(readBuffer))
    BY <2>1 DEF Got, Receiver, Rest
  <2>11. Arrived'
    <3> SUFFICES ASSUME ~torn'
                 PROVE  (Got(r) \o begun) \o SubSeq(readBuffer, pos + 1, Len(readBuffer))
                            = Numbered(given)
      BY <2>9, <2>10 DEF Arrived, Numbered
    <3> QED
      OBVIOUS
  <2>12. TextArrives'
    BY <2>11 DEF TextArrives, Arrived, Got, Receiver, Rest, Numbered
  <2>13. (readEnd' => readBuffer' # <<>>) /\ readEnd' /\ sending' /\ readPos' < Len(readBuffer')
    BY <2>1, <2>2 DEF DRatsInv
  <2>14. rx'.state = "second" <=> sending' /\ readState' = "second"
    BY <2>1, <2>13
  <2> QED
    BY <2>3, <2>5, <2>7, <2>8, <2>12, <2>13, <2>14 DEF DRatsInv
<1>3. CASE pos = Len(readBuffer)
  <2> DEFINE q == Closed(r, state)
  <2>1. /\ rx' = q.now /\ delivered' = q.out
        /\ readBuffer' = <<>> /\ readPos' = 0 /\ readEnd' = FALSE /\ sending' = FALSE
        /\ readState' = state /\ seqNo' = 0
    BY <1>3 DEF Sends, Hears
  <2>2. /\ begun \in Text /\ Got(r) \in Text
    <3>1. CASE state = "second"
      <4>1. r.now.first[2] \in Text /\ Least(r.now.first[1], 2) \in 0..Len(r.now.first[2])
        BY <1>3, <3>1 DEF Hearing, Rx, Least
      <4> QED
        BY <3>1, <4>1, FrontOfText, GotText
    <3>2. CASE state = "first"
      BY <3>2, EmptySeq, GotText DEF Text
    <3> QED
      BY <3>1, <3>2
  <2>3. q \in Hearing /\ q.now.state = "first" /\ Got(q) = Got(r) \o begun
    <3>1. CASE state = "second"
      <4> DEFINE pad == Padded(3, <<>>)
                 p == AfterText(r, <<0, pad>>)
                 taken == SubSeq(r.now.first[2] \o pad, 1, r.now.first[1])
      <4>1. pad \in Text /\ Len(pad) = 3
        <5>1. pad \in [1..3 -> Nat]
          BY EmptySeq DEF Padded, Fill
        <5> HIDE DEF pad
        <5> QED
          BY <5>1, FunctionIsText
      <4> HIDE DEF pad
      <4>2. <<0, pad>> \in Nat \X Text /\ <<0, pad>>[2] = pad
        BY <4>1
      <4>3. r.now.first[1] \in 0..2 /\ Len(r.now.first[2]) = 2 /\ r.now.first[2] \in Text
        BY <1>3, <3>1 DEF Hearing, Rx
      <4>4. p \in Hearing /\ p.now.state = "first" /\ Got(p) = Got(r) \o taken
        BY <3>1, <4>1, <4>2, <4>3, SecondTaken
      <4>5. taken = SubSeq(r.now.first[2], 1, Least(r.now.first[1], 2))
                        \o SubSeq(pad, 1, IF r.now.first[1] < 2 THEN 0 ELSE r.now.first[1] - 2)
        <5>1. r.now.first[1] \in 0..5
          BY <4>3
        <5> QED
          BY <4>1, <4>3, <5>1, TakenOfPair
      <4>6. (IF r.now.first[1] < 2 THEN 0 ELSE r.now.first[1] - 2) = 0
        BY <4>3
      <4>7. SubSeq(pad, 1, 0) = <<>>
        <5>1. 0 \in 0..Len(pad)
          BY <4>1
        <5>2. SubSeq(pad, 1, 0) \in Seq(Nat) /\ Len(SubSeq(pad, 1, 0)) = 0
          BY <4>1, <5>1, FrontOfText DEF Text
        <5> QED
          BY <5>2, EmptySeq
      <4>8. taken = begun \o <<>>
        BY <3>1, <4>5, <4>6, <4>7
      <4>9. taken = begun
        <5> HIDE DEF taken, begun
        <5> QED
          BY <2>2, <4>8, ConcatEmptySeq DEF Text
      <4>10. q = AfterEnd(p, NextSeq(seqNo, 2))
        BY <3>1 DEF Closed, pad
      <4> HIDE DEF p, q, taken, begun
      <4> QED
        BY <4>4, <4>9, <4>10, EndKeeps
    <3>2. CASE state = "first"
      <4>1. q = AfterEnd(r, NextSeq(seqNo, 1)) /\ begun = <<>>
        BY <3>2 DEF Closed
      <4>2. Got(r) \o <<>> = Got(r)
        BY <2>2, ConcatEmptySeq DEF Text
      <4> HIDE DEF q, begun
      <4> QED
        BY <3>2, <4>1, <4>2, EndKeeps
    <3> QED
      BY <3>1, <3>2
  <2> HIDE DEF q
  <2>4. SubSeq(readBuffer, pos + 1, Len(readBuffer)) = <<>>
    <3>1. SubSeq(readBuffer, pos + 1, Len(readBuffer)) \in Seq(Nat)
          /\ Len(SubSeq(readBuffer, pos + 1, Len(readBuffer))) = 0
      <4>1. pos + 1 \in Int /\ Len(readBuffer) \in Int /\ pos + 1 > Len(readBuffer)
            /\ \A i \in pos + 1..Len(readBuffer) : readBuffer[i] \in Nat
        BY <1>1, <1>3
      <4> QED
        BY <1>1, <4>1, SubSeqProperties
    <3> QED
      BY <3>1, EmptySeq
  <2>5. rx' \in Rx /\ delivered' \in Text /\ rx'.state = "first" /\ Got(Receiver)' = Got(q)
    BY <2>1, <2>3 DEF Hearing, Got, Receiver
  <2>6. Rest' = <<>> /\ FirstChars' = <<>>
    <3>1. Len(<<>>) = 0 /\ SubSeq(<<>>, 0 + 1, 0) = <<>>
      BY EmptySeq
    <3> QED
      BY <2>1, <2>5, <3>1 DEF Rest, FirstChars
  <2>7. Got(q) \in Text
    BY <2>3, GotText
  <2>8. Arrived'
    <3> SUFFICES ASSUME ~torn' PROVE (Got(q) \o <<>>) \o <<>> = Numbered(given)
      BY <2>5, <2>6 DEF Arrived, Numbered
    <3>1. (Got(r) \o begun) \o SubSeq(readBuffer, pos + 1, Len(readBuffer)) = Numbered(given)
      OBVIOUS
    <3> HIDE DEF begun
    <3> QED
      BY <2>3, <2>4, <2>7, <3>1, ConcatEmptySeq DEF Text
  <2>9. TextArrives'
    BY <2>8 DEF TextArrives, Arrived, Got, Receiver, Rest, Numbered
  <2>10. DRatsTypeOK'
    <3>1. given' \in 0..MaxText /\ ends' \subseteq 1..given' /\ {readEnd', sending', torn'} \subseteq BOOLEAN
      BY <2>1 DEF DRatsInv, DRatsTypeOK
    <3>2. <<>> \in Seq(1..given) /\ Len(<<>>) = 0 /\ 0 \in 0..0 /\ 0 \in 0..2 * Pairs
      BY EmptySeq, DRatsAssumption
    <3>3. readBuffer' \in Seq(1..given') /\ readPos' \in 0..Len(readBuffer')
      BY <2>1, <3>2
    <3>4. readState' \in {"first", "second"} /\ seqNo' \in 0..2 * Pairs
      BY <2>1, <3>2
    <3> QED
      BY <3>1, <3>3, <3>4 DEF DRatsTypeOK
  <2>11. rx'.state # "second" /\ ~sending' /\ readPos' = 0 /\ ~readEnd'
    BY <2>1, <2>5
  <2> QED
    BY <2>5, <2>9, <2>10, <2>11 DEF DRatsInv
<1> QED
  BY <1>2, <1>3
LEMMA SendTextInv ==
    ASSUME DRatsInv, SendText
    PROVE  DRatsInv'
<1>1. readEnd /\ sending /\ UNCHANGED <<given, ends, torn>> /\ seqNo \in 0..2 * Pairs
  BY DEF SendText, DRatsInv, DRatsTypeOK
<1>2. readState \in {"first", "second"} /\ (readState = "second" <=> SecondNumber(seqNo))
  BY <1>1 DEF DRatsInv, DRatsTypeOK, SecondNumber
<1>3. SecondNumber(NextSeq(seqNo, 1)) <=> seqNo # 0 /\ ~SecondNumber(seqNo)
  BY <1>1, NumbersAlternate
<1>4. /\ readBuffer \in Text /\ Len(readBuffer) \in Nat /\ readPos \in 0..Len(readBuffer)
      /\ readPos < Len(readBuffer) /\ Left = Len(readBuffer) - readPos /\ Left \in Nat /\ Left >= 1
      /\ Receiver \in Hearing /\ Got(Receiver) \in Text /\ Receiver.now = rx
  BY <1>1, StateTexts DEF DRatsInv, Left, Receiver
<1>5. /\ FirstChars \in Text /\ Rest \in Text
      /\ ~torn => (Got(Receiver) \o FirstChars) \o Rest = Numbered(given)
  BY StateTexts DEF Arrived
<1>6. CASE seqNo = 0
  <2> DEFINE q == AfterSync(Receiver)
  <2>1. q \in Hearing /\ q.now.state = "first" /\ Got(q) = Got(Receiver)
    BY <1>4, SyncKeeps
  <2>2. Sends(q, readPos, "first")
    BY <1>6 DEF SendText
  <2> HIDE DEF q
  <2>3. FirstChars = <<>>
    BY <1>2, <1>6 DEF SecondNumber, DRatsInv, FirstChars
  <2>4. ~torn => (Got(q) \o <<>>) \o SubSeq(readBuffer, readPos + 1, Len(readBuffer)) = Numbered(given)
    BY <1>5, <2>1, <2>3 DEF Rest
  <2>5. readPos \in readPos..Len(readBuffer)
    BY <1>4
  <2> QED
    BY <1>1, <1>3, <1>6, <2>1, <2>2, <2>4, <2>5, SendsInv
<1>7. CASE seqNo # 0 /\ readState = "first"
  <2> DEFINE next == NextChars(2)
             frame == <<IF Left < 5 THEN Left ELSE 5, Padded(2, next)>>
             q == AfterText(Receiver, frame)
             pos == readPos + Len(next)
  <2>1. /\ next \in Text /\ Len(next) = Least(2, Left)
        /\ Rest = next \o SubSeq(readBuffer, pos + 1, Len(readBuffer))
    BY <1>4, NextOnes
  <2>2. Len(next) <= 2 /\ Len(next) \in Nat /\ pos \in readPos..Len(readBuffer) /\ pos \in 0..Len(readBuffer)
    <3> HIDE DEF next
    <3> QED
      BY <1>4, <2>1 DEF Least
  <2>3. frame \in Nat \X Text /\ frame[1] = Least(Left, 5) /\ frame[2] = Padded(2, next)
    <3> HIDE DEF next
    <3>1. Padded(2, next) \in Text
      BY <2>1, <2>2, PaddedText
    <3> QED
      BY <1>4, <3>1 DEF Least
  <2>4. Len(frame[2]) = 2 /\ SubSeq(frame[2], 1, Len(next)) = next
    <3> HIDE DEF next
    <3> QED
      BY <2>1, <2>2, <2>3, PaddedText
  <2>5. Sends(q, pos, "second")
    BY <1>7 DEF SendText
  <2>6. rx.state = "first"
    BY <1>4, <1>7 DEF DRatsInv, Rx
  <2> HIDE DEF frame
  <2>7. q \in Hearing /\ q.now.state = "second" /\ q.now.first = frame /\ Got(q) = Got(Receiver)
    BY <1>4, <2>3, <2>6, FirstKept
  <2> HIDE DEF q
  <2>8. SecondNumber(NextSeq(seqNo, 1))
    BY <1>2, <1>3, <1>7
  <2>9. /\ q.now.first[1] \in 0..5
        /\ IF pos = Len(readBuffer) THEN q.now.first[1] \in 0..2
           ELSE q.now.first[1] = Least(Len(readBuffer) - pos + 2, 5)
    <3> HIDE DEF next
    <3>1. q.now.first[1] = Least(Left, 5)
      BY <2>3, <2>7
    <3>2. pos = Len(readBuffer) <=> Left <= 2
      BY <1>4, <2>1 DEF Least
    <3>3. Left > 2 => Len(readBuffer) - pos = Left - 2
      BY <1>4, <2>1 DEF Least
    <3> HIDE DEF pos
    <3> QED
      BY <1>4, <3>1, <3>2, <3>3 DEF Least
  <2>10. FirstChars = <<>>
    BY <2>6 DEF FirstChars
  <2>11. SubSeq(q.now.first[2], 1, Least(q.now.first[1], 2)) = next
    <3>1. Least(q.now.first[1], 2) = Len(next)
      BY <1>4, <2>1, <2>3, <2>7 DEF Least
    <3> HIDE DEF next
    <3> QED
      BY <2>4, <2>7, <3>1
  <2> HIDE DEF next
  <2>12. ~torn => (Got(q) \o SubSeq(q.now.first[2], 1, Least(q.now.first[1], 2)))
                     \o SubSeq(readBuffer, pos + 1, Len(readBuffer)) = Numbered(given)
    <3>1. SubSeq(readBuffer, pos + 1, Len(readBuffer)) \in Text
      BY <1>4, <2>2, TailText
    <3>2. Got(Receiver) \o <<>> = Got(Receiver)
      BY <1>4, ConcatEmptySeq DEF Text
    <3>3. (Got(q) \o next) \o SubSeq(readBuffer, pos + 1, Len(readBuffer)) = Got(q) \o Rest
      <4>1. Got(q) \in Text /\ next \in Text
        BY <1>4, <2>1, <2>7
      <4> QED
        BY <2>1, <3>1, <4>1, Associative
    <3> QED
      BY <1>5, <2>7, <2>10, <2>11, <3>2, <3>3
  <2> HIDE DEF pos
  <2> QED
    BY <1>1, <2>2, <2>4, <2>5, <2>7, <2>8, <2>9, <2>12, SendsInv
<1>8. CASE seqNo # 0 /\ readState = "second"
  <2> DEFINE next == NextChars(3)
             frame == <<0, Padded(3, next)>>
             q == AfterText(Receiver, frame)
             pos == readPos + Len(next)
             taken == SubSeq(rx.first[2] \o frame[2], 1, rx.first[1])
  <2>1. /\ next \in Text /\ Len(next) = Least(3, Left)
        /\ Rest = next \o SubSeq(readBuffer, pos + 1, Len(readBuffer))
    BY <1>4, NextOnes
  <2>2. Len(next) <= 3 /\ Len(next) \in Nat /\ pos \in readPos..Len(readBuffer) /\ pos \in 0..Len(readBuffer)
    <3> HIDE DEF next
    <3> QED
      BY <1>4, <2>1 DEF Least
  <2>3. frame \in Nat \X Text /\ frame[2] = Padded(3, next)
    <3> HIDE DEF next
    <3>1. Padded(3, next) \in Text
      BY <2>1, <2>2, PaddedText
    <3> QED
      BY <3>1
  <2>4. frame[2] \in Text /\ Len(frame[2]) = 3 /\ SubSeq(frame[2], 1, Len(next)) = next
    <3> HIDE DEF next
    <3> QED
      BY <2>1, <2>2, <2>3, PaddedText
  <2>5. Sends(q, pos, "first")
    BY <1>8 DEF SendText
  <2>6. /\ rx.state = "second" /\ rx.first[1] \in 2..5 /\ rx.first[1] \in 0..5
        /\ Len(rx.first[2]) = 2 /\ rx.first[2] \in Text
    BY <1>1, <1>8 DEF DRatsInv, Rx
  <2> HIDE DEF frame
  <2>7. /\ q \in Hearing /\ q.now.state = "first"
        /\ taken \in Text /\ Got(q) = Got(Receiver) \o taken
    BY <1>4, <2>3, <2>4, <2>6, SecondTaken
  <2> HIDE DEF q, next
  <2>8. ~torn => taken = FirstChars \o next
    <3> SUFFICES ASSUME ~torn PROVE taken = FirstChars \o next
      OBVIOUS
    <3>1. rx.first[1] = Least(Left + 2, 5)
      BY <2>6 DEF DRatsInv
    <3>2. rx.first[1] - 2 = Len(next) /\ Least(rx.first[1], 2) = 2
          /\ (IF rx.first[1] < 2 THEN 0 ELSE rx.first[1] - 2) = Len(next)
      BY <1>4, <2>1, <2>6, <3>1 DEF Least
    <3>3. taken = SubSeq(rx.first[2], 1, Least(rx.first[1], 2))
                     \o SubSeq(frame[2], 1, IF rx.first[1] < 2 THEN 0 ELSE rx.first[1] - 2)
      BY <2>4, <2>6, TakenOfPair
    <3>4. FirstChars = SubSeq(rx.first[2], 1, 2)
      BY <2>6 DEF FirstChars
    <3> HIDE DEF taken
    <3> QED
      BY <2>4, <3>2, <3>3, <3>4
  <2> HIDE DEF taken
  <2>9. ~torn => (Got(q) \o <<>>) \o SubSeq(readBuffer, pos + 1, Len(readBuffer)) = Numbered(given)
    <3> SUFFICES ASSUME ~torn
                 PROVE  (Got(q) \o <<>>) \o SubSeq(readBuffer, pos + 1, Len(readBuffer)) = Numbered(given)
      OBVIOUS
    <3> DEFINE tail == SubSeq(readBuffer, pos + 1, Len(readBuffer))
    <3>1. tail \in Text
      BY <1>4, <2>2, TailText
    <3>2. Rest = next \o tail
      BY <2>1
    <3> HIDE DEF tail
    <3>3. Got(q) \o <<>> = Got(q)
      <4>1. Got(q) \in Text
        BY <2>7, GotText
      <4> QED
        BY <4>1, ConcatEmptySeq DEF Text
    <3>4. Got(q) = (Got(Receiver) \o FirstChars) \o next
      <4>1. Got(q) = Got(Receiver) \o (FirstChars \o next)
        BY <2>7, <2>8
      <4> QED
        BY <1>4, <1>5, <2>1, <4>1, Associative
    <3>5. Got(Receiver) \o FirstChars \in Text
      BY <1>4, <1>5, ConcatText
    <3>6. Got(q) \o tail = (Got(Receiver) \o FirstChars) \o (next \o tail)
      BY <2>1, <3>1, <3>4, <3>5, Associative, SMTT(40)
    <3> QED
      BY <1>5, <3>2, <3>3, <3>6 DEF tail
  <2>10. ~SecondNumber(NextSeq(seqNo, 1))
    BY <1>2, <1>3, <1>8
  <2> HIDE DEF pos
  <2> QED
    BY <1>1, <2>2, <2>5, <2>7, <2>9, <2>10, SendsInv
<1> QED
  BY <1>2, <1>6, <1>7, <1>8

LEMMA DRatsStep ==
    ASSUME DRatsInv, [DRatsNext]_drVars
    PROVE  DRatsInv'
<1>1. CASE DRatsNext
  BY <1>1, ReadTextInv, StartInv, SendTextInv DEF DRatsNext
<1>2. CASE UNCHANGED drVars
  BY <1>2 DEF drVars, DRatsInv, DRatsTypeOK, Left, TextArrives, FirstChars
<1> QED
  BY <1>1, <1>2

LEMMA DRatsInitInv ==
    ASSUME DRatsInit
    PROVE  DRatsInv
<1>1. <<>> \in Text /\ <<>> \in Seq(1..given) /\ Len(<<>>) = 0 /\ SubSeq(<<>>, 0 + 1, 0) = <<>>
  BY EmptySeq DEF Text
<1>2. rx \in Rx /\ rx.state = "first"
  BY <1>1 DEF DRatsInit, Rx
<1>3. DRatsTypeOK
  <2>1. 0 \in 0..0 /\ 0 \in 0..MaxText /\ 0 \in 0..2 * Pairs
    BY DRatsAssumption
  <2> QED
    BY <1>1, <2>1 DEF DRatsInit, DRatsTypeOK
<1>4. TextArrives
  <2>1. Numbered(0) = <<>>
    BY NumberedText, EmptySeq DEF Text
  <2>2. <<>> \o <<>> = <<>>
    BY <1>1, ConcatEmptySeq DEF Text
  <2>3. FirstChars = <<>> /\ SubSeq(readBuffer, readPos + 1, Len(readBuffer)) = <<>>
    BY <1>1, <1>2 DEF DRatsInit, FirstChars
  <2> QED
    BY <2>1, <2>2, <2>3 DEF DRatsInit, TextArrives, Numbered
<1> QED
  BY <1>1, <1>2, <1>3, <1>4 DEF DRatsInit, DRatsInv

(* DRATSServer.cpp: however the text comes in, whole messages or pieces,   *)
(* with ends anywhere, and wherever the synchronising frames fall, what    *)
(* one program writes is what the other gets, in that order; but for what  *)
(* is read between the two frames of a pair that had counted all there was.*)
THEOREM DRatsTextArrives == DRatsSpec => []TextArrives
<1>1. DRatsInv /\ [DRatsNext]_drVars => DRatsInv'
  BY DRatsStep
<1>2. DRatsInv => TextArrives
  BY DEF DRatsInv
<1> QED
  BY <1>1, <1>2, DRatsInitInv, PTL DEF DRatsSpec
---------------------------------------------------------------------------
(* The parts side by side: each keeps its invariant while another moves.   *)

TrafficInv == G2Inv /\ Inv /\ DDInv /\ DRatsInv

LEMMA TrafficInitInv == TrafficInit => TrafficInv
<1>1. TrafficInit => G2Init /\ LinkStreamsInit /\ DDInit /\ DRatsInit
  BY DEF TrafficInit, LinksIdle, DDIdle
<1> QED
  BY <1>1, G2InitInv, InitSound, DDInitInv, DRatsInitInv DEF TrafficInv

LEMMA TrafficStepInv == TrafficInv /\ [TrafficNext]_trafficVars => TrafficInv'
<1> SUFFICES ASSUME TrafficInv, [TrafficNext]_trafficVars PROVE TrafficInv'
  OBVIOUS
<1>1. [G2Next]_g2Vars /\ [LinkStreamsNext]_streamVars /\ [DDNext]_ddVars /\ [DRatsNext]_drVars
  BY DEF TrafficNext, trafficVars
<1> QED
  BY <1>1, G2StepInv, StepSound, DDStepInv, DRatsStep DEF TrafficInv

(* The G2 pool, the links' slots, the Ethernet table and the D-RATS        *)
(* buffers and counters stay within their ranges, no two handlers of the   *)
(* pool serve one sender, and whichever part moves, routed streams reach   *)
(* the repeater they are for, slots pass whole streams on, stations can be *)
(* answered, D-RATS text arrives and the time is told right and once: for  *)
(* any number of senders, links, stations and characters.                  *)
THEOREM TrafficHolds ==
    TrafficSpec => /\ [](TrafficTypeOK /\ ToTheirRepeater /\ WholeStreams /\ Answerable /\ TextArrives)
                   /\ []TellsTheTime /\ OncePerInterval
<1>1. TrafficInv => TrafficTypeOK /\ ToTheirRepeater /\ Answerable /\ TextArrives
  BY DEF TrafficInv, G2Inv, Inv, DDInv, DRatsInv, TrafficTypeOK
<1>2. TrafficInv => WholeStreams
  BY InvIsWhole DEF TrafficInv
<1>3. TrafficSpec => TrafficInit /\ [][TrafficNext]_trafficVars
  <2>1. [TrafficNext /\ UNCHANGED part]_<<part, trafficVars>> => [TrafficNext]_trafficVars
    BY DEF trafficVars
  <2> QED
    BY <2>1, PTL DEF TrafficSpec
<1>4. TrafficSpec => TimeSpec
  <2>1. TrafficInit => TimeInit
    BY DEF TrafficInit, TimeIdle
  <2>2. [TrafficNext /\ UNCHANGED part]_<<part, trafficVars>> => [TimeNext]_timeVars
    BY DEF TrafficNext, trafficVars
  <2> QED
    BY <2>1, <2>2, PTL DEF TrafficSpec, TimeSpec
<1> QED
  BY <1>1, <1>2, <1>3, <1>4, TrafficInitInv, TrafficStepInv, TimeIsTold, AnnouncedOnce, PTL
=============================================================================
